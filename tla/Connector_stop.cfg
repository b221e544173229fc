SPECIFICATION Spec
CONSTANTS
    Hosts = {"ip", "name"}
    UseTimeout = TRUE
    BindAddress = FALSE
    MaxRetries = 2
    OtherPorts = 0
    MaxStarts = 1
PROPERTIES
    StopTryingStops
CHECK_DEADLOCK FALSE
