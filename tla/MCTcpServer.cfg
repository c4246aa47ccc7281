SPECIFICATION FairSpec
CONSTANTS
    c1 = c1
    c2 = c2
    Conns <- MCConns
    Plain = {"a"}
    BUFF_SIZE = 4
    Backlog = 1
    MaxSend <- MCMaxSend
    MaxThreadFails = 1
INVARIANTS
    TypeOK
    StreamKept
    NothingLeftBehind
PROPERTIES
    ClosedIsServed
