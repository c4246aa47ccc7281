SPECIFICATION Spec
CONSTANTS
    t1 = t1
    t2 = t2
    b1 = b1
    b2 = b2
    b3 = b3
    Threads = {t1, t2}
    Boards = {b1, b2, b3}
    Present = {b1, b2}
    NAddr = 2
    NByte = 2
    StatusAddrs = {0}
    Menu <- MenuOneWriter
    OutBufCells = 6
    CountMod = 5
    MaxCalls = 3
    MaxFail = 0
INVARIANTS BurstHandleAgrees
PROPERTIES ImplementsRegisterFile
