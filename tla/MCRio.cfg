SPECIFICATION FairSpec
CONSTANTS
    RIO_BUFSIZE = 2
    Cap = 2
    Sizes = {2, 3}
    Total = 4
    MaxIntr = 1
INVARIANTS
    TypeOK
    InOrder
    ZeroMeansEof
    CountIsLength
PROPERTIES
    ImplementsByteStream
    BytesArrive
