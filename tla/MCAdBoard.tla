------------------------------ MODULE MCAdBoard ------------------------------
(* Two connections to the AD server.  Waves of two to four samples in blocks *)
(* of two: a whole last block and one that is used in part.                  *)
EXTENDS AdBoard

CONSTANTS c1, c2

Start(w, it) == [c |-> "startad", w |-> w, it |-> it]
Freq(f) == [c |-> "setsamplefreq", f |-> f]
Wave(col) == [c |-> "readwave", col |-> col]
Memory(col) == [c |-> "readmemory", col |-> col]
MemoryB(at, n) == [c |-> "readmemoryb", at |-> at, n |-> n]
Status == [c |-> "readstatus"]
Count == [c |-> "gettriggercount"]

MCClients == {c1, c2}
MCMaxCmds == [t \in MCClients |-> IF t = c1 THEN 2 ELSE 1]
\* Around 97656 Hz the quotient by the board's clock is 255, 256 and 257.
MCMenu == [t \in MCClients |->
    IF t = c1 THEN {Start(3, 2), Start(4, 1), Start(0, 2), Memory(1), Wave(1), Wave(2)}
                   \union {Freq(f) : f \in {97700, 97656, 97000}}
    ELSE {MemoryB(0, 0), MemoryB(3, 2), Count, Status, Start(4, 1), Freq(5000000)}]
=============================================================================
