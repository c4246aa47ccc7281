SPECIFICATION Spec
CONSTANTS
    c1 = c1
    c2 = c2
    idn = idn
    freq = freq
    Clients <- MCClients
    Requests <- MCRequests
    Length <- MCLength
    Answer <- MCAnswer
    Limit = 3
    MaxCmds <- MCMaxCmds
INVARIANTS
    TypeOK
PROPERTIES
    OwnAnswer
    RequestEnds
CHECK_DEADLOCK FALSE
