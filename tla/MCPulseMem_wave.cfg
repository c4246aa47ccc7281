SPECIFICATION Spec
CONSTANTS
    Bits = {tx}
    Codes = {loop}
    CellTime = 3
    Lengths = {5, 9}
    Times <- MCTimes
    Width = 8
    UMax = 6
    MaxEdits = 2
    MaxClears = 1
INVARIANTS
    TypeOK
    OneCommandATime
PROPERTIES
    InsideArray
    ImplementsPulseWave
CHECK_DEADLOCK FALSE
