SPECIFICATION Spec
CONSTANTS
    N = 3
    Window = 2
    GroupSize = 2
    UseTail = FALSE
    Coalesce = FALSE
    CanFail = FALSE
PROPERTIES AdmittedBeforeEncoding
