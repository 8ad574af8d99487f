SPECIFICATION FairSpec
CHECK_DEADLOCK FALSE
CONSTANTS
    Client = {a, b}
    Free = Free
    Listener = Listener
    OPEN_MAX = 6
    MaxLines = 2
INVARIANTS
    OneWorkerPerConnection
    NoStrayDescriptor
PROPERTIES
    ImplementsEchoService
    ConnectionCloses
    LinesComeBack
    NobodyWaitsForOthers
    ChildrenAreReaped
