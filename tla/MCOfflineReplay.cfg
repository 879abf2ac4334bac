SPECIFICATION Spec
CONSTANTS
    SimKeys = {0, 1, 2, 3}
    MaxAccesses = 6
    Capacities = {0, 1, 2, 3}
    Layers = 2
    Experts = 3
    NativeSlots = 3
    LeaseWindow = 2
    PanelRows = 2
    TopK = 1
    Workloads <- MCWorkloads
    Width = 2
    ReplayCapacities = {1, 2, 3}
    TraceLayers = 2
    Sessions = {a, b}
    Phases = {"prefill"}
    Tokens = {t1, t2}
    MaxPosition = 2
    MaxTokens = 2
    MaxRequests = 2
    MaxForwards = 3
    MaxResets = 1
    ProgressPhases = {"warmup", "timed_replay"}
    MaxTime = 3
    MaxEvents = 6
    Horizon = 2
    PerNs = 2
    Tolerance = 1
    MaxGroups = 2
SYMMETRY MCSymmetry
CHECK_DEADLOCK FALSE
INVARIANTS
    OracleExact SimulatorsAgree ReplayExact TraceExact ProgressExact TimelinesReconcile
