SPECIFICATION NetworkSpec
CONSTANTS
    Threads = {t1, t2}
    MaxTasks = 3
    MaxResets = 1
    MaxDatagrams = 2
    MaxDatagramStops = 2
    MaxDatagramStarts = 2
    SSLBufferSize = 1
    MaxSSLBytes = 3
    MaxSSLReads = 1
    Hosts = {"ip", "name"}
    UseTimeout = TRUE
    BindAddress = TRUE
INVARIANTS
    EachTaskOnce
    NoLostWakeup
    DatagramStopIsClean
    OneShutdown
    SSLNeverStalls
    ConnectKeepsWord
PROPERTIES
    PoolMakesProgress
    SSLCloses
    SSLImplementsTransport
    ConnectIsAnswered
CHECK_DEADLOCK FALSE
