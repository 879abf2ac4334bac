SPECIFICATION FairSpec
CONSTANTS
    N = 3
    Window = 2
    GroupSize = 2
    UseTail = TRUE
    Coalesce = FALSE
    CanFail = TRUE
INVARIANTS LeasesExact OutcomeExact
PROPERTY Returns
