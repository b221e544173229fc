SPECIFICATION Spec
CONSTANTS
    Roles = {"server"}
    FailByDrops = {TRUE}
    TimerSets = {{"open", "close"}}
    Sizes = {1}
    MaxMessageSize = 0
    MaxFrameSize = 0
    MaxFrames = 1
    MaxMade = 2
INVARIANT LossIsReported
CHECK_DEADLOCK FALSE
