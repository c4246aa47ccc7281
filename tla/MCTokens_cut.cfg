SPECIFICATION CutSpec
CONSTANTS
    t1 = t1
    t2 = t2
    Threads <- MCThreads
    Messages <- MCMessages
    MaxArgs = 2
INVARIANTS
    TokensAsMeant
