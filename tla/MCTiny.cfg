SPECIFICATION MCSpec
CONSTANTS
    c1 = c1
    c2 = c2
    Client = {c1, c2}
    server = server
    MAXLINE = 3
    MaxBytes = 4
    Request <- MCRequest
    Wants <- MCWants
    Failing = {c1}
INVARIANTS
    ResponseInOrder
    CgiReadsBody
    HandlerFindsZombie
PROPERTIES
    ConnectionCloses
    MainIsReady
