SPECIFICATION FairSpec
CONSTANTS
    BufferSizes = {1, 2}
    WriteBufferSize = 1
    MaxBytes = 4
    MaxReads = 2
INVARIANTS
    StreamIntact
    OpenIsActive
    LostExactlyOnce
    CancelledHasReason
    WaitingProducerIsRemembered
PROPERTIES
    AbortedWriteReported
    ImplementsTransport
CHECK_DEADLOCK FALSE
