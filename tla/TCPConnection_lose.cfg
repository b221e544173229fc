SPECIFICATION ReadingPeerSpec
CONSTANTS
    BufferSizes = {1, 2}
    WriteBufferSize = 1
    MaxBytes = 4
    MaxReads = 0
PROPERTIES
    LoseConnectionCompletes
CHECK_DEADLOCK FALSE
