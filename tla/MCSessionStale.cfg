SPECIFICATION Spec
CONSTANTS
    a = a
    b = b
    stop = stop
    Token = {a, stop}
    StopToken = {stop}
    Context = 3
    InputLimit = 1
    Chunk = 1
    Layers = 2
INVARIANTS SampledFromHistory
