SPECIFICATION PlaySpec
CONSTANTS
    p1 = p1
    p2 = p2
    e1 = e1
    u1 = u1
    u2 = u2
    Clients = {u1, u2}
    Params = {p1, p2}
    Edits = {e1}
    Counts = {0, 1}
    InitialParam = p1
    Msgs <- AnyMsgs
INVARIANTS TypeOK
PROPERTIES SkipIsSafe StartsWanted LoadsWhenStopped
