SPECIFICATION Spec
CONSTANTS
    b0 = b0
    b1 = b1
    Procs = {p1, p2}
    Boards <- MCBoards
    Home <- MCHome
    Dip <- MCDip
    NSlots = 4
    Searches = 3
    MaxExits = 1
INVARIANTS
    TypeOK
    OneOwner
    FindsAll
PROPERTIES
    SearchEnds
CHECK_DEADLOCK FALSE
