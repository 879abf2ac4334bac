SPECIFICATION Spec
CONSTANTS
    a = a
    b = b
    stop = stop
    Token = {a, b, stop}
    StopToken = {stop}
    Context = 4
    InputLimit = 2
    Chunk = 1
    Layers = 2
INVARIANT ContinuationExact
PROPERTY HistorySurvives
