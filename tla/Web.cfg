SPECIFICATION WebSpec
CONSTANTS
    Scripts <- WebScripts
    ChunkSize = 2
    MaxHeaderSize = 3
    MaxWrites = 2
    Exchanges <- WebExchanges
    Requests <- WebRequests
    BlockSize = 2
    MaxResponseHeader = 3
    MaxBodySize = 3
    Dialects <- WebDialects
    JsonBits <- WebJsonBits
    ClientFactories <- WebClients
    ServerFactories <- WebServers
    OfferAccepts <- WebOfferAccepts
    ResponseAccepts <- WebResponseAccepts
    RequestChanges <- WebRequestChanges
    ResponseChanges <- WebResponseChanges
    MaxText = 4
    MaxUrl = 5
    MaxHeaderOps = 4
    Octet = 4
    MaxItems = 2
    MaxOctets = 4
    MaxDescription = 5
    N = 3
    Cancellers <- WebCancellers
    MaxCallbacks = 3
    MaxPauses = 1
INVARIANTS
    WaitsMatch
    CallbacksInTurn
    NothingStranded
    ResponseFramed
    NothingStalls
    FetchAnswered
    ResponseWhole
    CodecsReadBack
    HandshakeAgrees
PROPERTY
    RequestsInTurn
CHECK_DEADLOCK FALSE
