SPECIFICATION FairSpec
CONSTANTS
    BufferSizes = {1, 2}
    WriteBufferSize = 1
    MaxBytes = 4
    MaxReads = 1
PROPERTIES
    NoDataAfterLost
CHECK_DEADLOCK FALSE
