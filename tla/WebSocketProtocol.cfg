SPECIFICATION FairSpec
CONSTANTS
    Roles = {"server", "proxied"}
    FailByDrops = {TRUE, FALSE}
    TimerSets = {{"open", "close", "drop", "ping", "pong"}, {"open", "close", "drop"}}
    Sizes = {1}
    MaxMessageSize = 1
    MaxFrameSize = 0
    MaxFrames = 2
    MaxMade = 3
INVARIANTS
    FramesInOrder
    QueueIsServed
    DeliverableOnly
PROPERTIES
    ImplementsSession
    ConnectionsEnd
CHECK_DEADLOCK FALSE
