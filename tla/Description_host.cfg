SPECIFICATION DescriptionSpec
CONSTANT
    MaxDescription = 5
INVARIANT
    HostIsRead
CHECK_DEADLOCK FALSE
