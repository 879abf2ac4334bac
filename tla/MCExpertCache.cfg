SPECIFICATION FairSpec
CONSTANTS
    k1 = k1
    k2 = k2
    k3 = k3
    k4 = k4
    b1 = b1
    b2 = b2
    b3 = b3
    NoEntry = NoEntry
    NoKey = NoKey
    Key = {k1, k2, k3}
    Buf = {b1, b2}
    InitSlots = 2
    MaxSlots = 2
    MaxLeases = 1
    Limit = 2
INVARIANT CacheExact
PROPERTIES CallsReturn NeverEvictsBusy
