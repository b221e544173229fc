SPECIFICATION Spec
CONSTANTS
    BufferSizes = {2}
    WriteBufferSize = 1
    MaxBytes = 2
    MaxReads = 1
INVARIANTS
    LoseConnectionIsSafe
CHECK_DEADLOCK FALSE
