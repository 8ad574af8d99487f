SPECIFICATION FairSpec
CONSTANTS
    Client = {a, b}
    FD_SETSIZE = 6
    OPEN_MAX = 7
    RIO_BUFSIZE = 2
    MAXLINE = 3
    MaxSent = 3
INVARIANTS
    PoolAgrees
    EveryReadyIsServed
    WaitsOnlyInsideLines
    EchoIsTheLine
PROPERTY
    EchoReturns
