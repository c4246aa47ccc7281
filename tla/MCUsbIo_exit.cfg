SPECIFICATION Spec
CONSTANTS
    t1 = t1
    t2 = t2
    b1 = b1
    b2 = b2
    b3 = b3
    Threads = {t1, t2}
    Boards = {b1, b2, b3}
    Present = {b1, b2}
    NAddr = 2
    NByte = 2
    StatusAddrs = {}
    Menu <- MenuBurstAndWriter
    OutBufCells = 2
    CountMod = 3
    MaxCalls = 2
    MaxFail = 0
INVARIANTS BurstHandleAgrees
