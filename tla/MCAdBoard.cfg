SPECIFICATION Spec
CONSTANTS
    c1 = c1
    c2 = c2
    Clients <- MCClients
    Menu <- MCMenu
    Block = 2
    Word = 2
    BoardFreq = 25000000
    MaxCmds <- MCMaxCmds
INVARIANTS
    TypeOK
    BufferHolds
PROPERTIES
    AloneIsWhole
    StartsAsAsked
    CountNotTorn
    ClosestIsSet
    CommandsReturn
CHECK_DEADLOCK FALSE
