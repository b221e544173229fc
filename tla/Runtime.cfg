SPECIFICATION RuntimeSpec
CONSTANTS
    Hosts = {"ip", "name"}
    UseTimeout = TRUE
    BindAddress = TRUE
    MaxRetries = 2
    OtherPorts = 1
    MaxStarts = 2
    NumThreads = 2
    MaxRuns = 1
    MaxListens = 2
    MaxStops = 2
    MaxConns = 1
INVARIANTS
    OneAttempt
    StateIsKept
    AbortHasReason
    FactoryBalanced
    KeepsTrying
    StopIsClean
PROPERTIES
    AttemptEnds
    StopCompletes
CHECK_DEADLOCK FALSE
