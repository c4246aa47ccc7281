------------------------------- MODULE UsbOpen -------------------------------
(***************************************************************************)
(* How a program finds its boards (cusb.c): uio_init searches again and    *)
(* again for a board that no program has, loads the firmware into one that *)
(* has none, and enters the handle under the number of the DIP switch.     *)
(* Programs keep one another off by a named mutex for each slot of the     *)
(* driver, which the system frees when a program ends.                     *)
(***************************************************************************)
EXTENDS Integers, FiniteSets

CONSTANTS
    Procs,      \* programs on the computer
    Boards,
    Home,       \* Home[b]: the slot of the driver that board b appears in
    Dip,        \* Dip[b]: the number that its switch is set to
    NSlots,     \* slots that cusb_open looks at (8)
    Searches,   \* searches of uio_init (16)
    MaxExits    \* bound: ends of a program
None == "none"

ASSUME OpenAssumption ==
    /\ NSlots \in Nat \ {0} /\ Searches \in Nat \ {0} /\ MaxExits \in Nat
    /\ Home \in [Boards -> 0 .. NSlots - 1] /\ Dip \in [Boards -> Nat]
    /\ \A b, c \in Boards : Home[b] = Home[c] => b = c
    /\ None \notin Boards

VARIABLES
    there,      \* boards that the driver has in their slot
    loaded,     \* boards with the firmware F2FW
    files,      \* files[p]: boards that p has an open handle of
    mutexes,    \* mutexes[p]: slots that p has an open mutex of
    uio_db,     \* uio_db[p][d]: the board of the handle under number d
    pc, i, h, try, n,   \* of each program: the place, the slot, the board of the
                        \* handle, the call of cusb_downloadFW, the searches made
    raced,      \* history: another program searched at the same time
    calm,       \* history: no other program ran and no board was missed
    exits
history == <<raced, calm, exits>>
vars == <<there, loaded, files, mutexes, uio_db, pc, i, h, try, n, history>>

Slots == 0 .. NSlots - 1
Dips == {Dip[b] : b \in Boards}
InSlot(s) == {b \in there : Home[b] = s}
Searching(p) == pc[p] \notin {"idle", "done", "failed"}

Init ==
    /\ there = Boards /\ loaded \in SUBSET Boards
    /\ files = [p \in Procs |-> {}] /\ mutexes = [p \in Procs |-> {}]
    /\ uio_db = [p \in Procs |-> [d \in Dips |-> None]]
    /\ pc = [p \in Procs |-> "idle"] /\ i = [p \in Procs |-> 0] /\ h = [p \in Procs |-> None]
    /\ try = [p \in Procs |-> 1] /\ n = [p \in Procs |-> 0]
    /\ raced = [p \in Procs |-> FALSE] /\ calm = [p \in Procs |-> TRUE] /\ exits = 0

-----------------------------------------------------------------------------
\* cusb_open from the slot 0, as the first or the second try of a search.
Opens(p, k) == /\ pc' = [pc EXCEPT ![p] = "test"] /\ i' = [i EXCEPT ![p] = 0]
               /\ try' = [try EXCEPT ![p] = k]

\* Mutant: one search too many.
NextSearch_OneMore(p) ==
    /\ n' = [n EXCEPT ![p] = @ + 1]
    /\ IF n[p] + 1 <= Searches THEN Opens(p, 1)
       ELSE pc' = [pc EXCEPT ![p] = "done"] /\ UNCHANGED <<i, try>>

\* The next search of uio_init, or its end.
NextSearch(p) ==
    /\ n' = [n EXCEPT ![p] = @ + 1]
    /\ IF n[p] + 1 < Searches THEN Opens(p, 1)
       ELSE pc' = [pc EXCEPT ![p] = "done"] /\ UNCHANGED <<i, try>>

\* uio_init: the table is cleared.
Start(p) ==
    /\ pc[p] = "idle" /\ Opens(p, 1)
    /\ uio_db' = [uio_db EXCEPT ![p] = [d \in Dips |-> None]] /\ n' = [n EXCEPT ![p] = 0]
    /\ raced' = [q \in Procs |-> IF q = p THEN \E r \in Procs \ {p} : Searching(r)
                                 ELSE raced[q] \/ Searching(q)]
    /\ calm' = [q \in Procs |-> q = p /\ there = Boards /\ \A r \in Procs \ {p} : pc[r] = "idle"]
    /\ UNCHANGED <<there, loaded, files, mutexes, h, exits>>

\* Mutant: the mutexes of other programs are not looked at.
Taken_Never(s) == FALSE

\* OpenMutex finds a mutex that any program has.
Taken(s) == \E q \in Procs : s \in mutexes[q]

\* Mutant: the loop stays at a slot until it is free.
AfterTaken_Same(s) == s

\* The slot after one that another program, or this one, has.
AfterTaken(s) == s + 1

TestMutex(p) ==
    /\ pc[p] = "test"
    /\ CASE i[p] = NSlots -> NextSearch(p)
         [] i[p] < NSlots /\ Taken(i[p]) ->
                i' = [i EXCEPT ![p] = AfterTaken(@)] /\ UNCHANGED <<pc, try, n>>
         [] OTHER -> pc' = [pc EXCEPT ![p] = "create"] /\ UNCHANGED <<i, try, n>>
    /\ UNCHANGED <<there, loaded, files, mutexes, uio_db, h, history>>

\* CreateFile, which shares the board with others.
CreateFile(p) ==
    /\ pc[p] = "create"
    /\ IF InSlot(i[p]) = {}
       THEN /\ i' = [i EXCEPT ![p] = @ + 1] /\ pc' = [pc EXCEPT ![p] = "test"]
            /\ UNCHANGED <<files, h>>
       ELSE LET b == CHOOSE x \in InSlot(i[p]) : TRUE
            IN  /\ h' = [h EXCEPT ![p] = b] /\ files' = [files EXCEPT ![p] = @ \union {b}]
                /\ pc' = [pc EXCEPT ![p] = "mutex"] /\ UNCHANGED i
    /\ UNCHANGED <<there, loaded, mutexes, uio_db, try, n, history>>

\* CreateMutex, and the test after the loop: the last slot counts as none.
CreateMutex(p) ==
    /\ pc[p] = "mutex"
    /\ mutexes' = [mutexes EXCEPT ![p] = @ \union {i[p]}]
    /\ IF NSlots - 1 <= i[p] THEN NextSearch(p)
       ELSE pc' = [pc EXCEPT ![p] = "check"] /\ UNCHANGED <<i, try, n>>
    /\ UNCHANGED <<there, loaded, files, uio_db, h, history>>

\* cusb_close(h, mh)
Closed(p) == /\ files' = [files EXCEPT ![p] = @ \ {h[p]}]
             /\ mutexes' = [mutexes EXCEPT ![p] = @ \ {i[p]}]

\* The rest of cusb_downloadFW: a board with the firmware is the result, one
\* without gets it and leaves the bus to come back with it.
CheckFirmware(p) ==
    /\ pc[p] = "check"
    /\ IF h[p] \in loaded
       THEN pc' = [pc EXCEPT ![p] = "enter"] /\ UNCHANGED <<there, loaded, files, mutexes>>
       ELSE /\ pc' = [pc EXCEPT ![p] = "wait"]
            /\ there' = there \ {h[p]} /\ loaded' = loaded \union {h[p]} /\ Closed(p)
    /\ UNCHANGED <<uio_db, i, h, try, n, history>>

\* Mutant: the search is not tried again.
Tries_One == 1

\* Calls of cusb_downloadFW in cusb_search.
Tries == 2

\* Sleep(2000), in which the board comes back or not, then cusb_search: one
\* more try, and any result of it but 0 is taken for a board.
Waited(p) ==
    /\ pc[p] = "wait" /\ calm' = [calm EXCEPT ![p] = @ /\ h[p] \in there]
    /\ IF try[p] < Tries THEN Opens(p, try[p] + 1)
       ELSE pc' = [pc EXCEPT ![p] = "enter"] /\ UNCHANGED <<i, try>>
    /\ UNCHANGED <<there, loaded, files, mutexes, uio_db, h, n, raced, exits>>

\* Mutant: the number of the search takes the place of the switch.
Number_OfSearch(p) == n[p]

\* cusb_isDIPSW
Number(p) == Dip[h[p]]

\* uio_init: the table, and cusb_setwave, which ends the program when the
\* handle is closed.
Enter(p) ==
    /\ pc[p] = "enter"
    /\ IF h[p] \in files[p]
       THEN /\ uio_db' = [uio_db EXCEPT ![p] = [d \in Dips |-> IF d = Number(p) THEN h[p] ELSE @[d]]]
            /\ NextSearch(p) /\ UNCHANGED <<files, mutexes>>
       ELSE /\ uio_db' = [uio_db EXCEPT ![p] = [d \in Dips |-> None]]
            /\ pc' = [pc EXCEPT ![p] = "failed"]
            /\ files' = [files EXCEPT ![p] = {}] /\ mutexes' = [mutexes EXCEPT ![p] = {}]
            /\ UNCHANGED <<i, try, n>>
    /\ UNCHANGED <<there, loaded, h, history>>

\* The end of a program, at any time: the system closes what it has.
Exit(p) ==
    /\ pc[p] # "idle" /\ exits < MaxExits
    /\ pc' = [pc EXCEPT ![p] = "idle"]
    /\ files' = [files EXCEPT ![p] = {}] /\ mutexes' = [mutexes EXCEPT ![p] = {}]
    /\ uio_db' = [uio_db EXCEPT ![p] = [d \in Dips |-> None]]
    /\ exits' = exits + 1
    /\ UNCHANGED <<there, loaded, i, h, try, n, raced, calm>>

\* External: the board is back in its slot.
Reappear(b) ==
    /\ b \notin there /\ there' = there \union {b}
    /\ UNCHANGED <<loaded, files, mutexes, uio_db, pc, i, h, try, n, history>>

Step(p) == \/ TestMutex(p) \/ CreateFile(p) \/ CreateMutex(p) \/ CheckFirmware(p)
           \/ Waited(p) \/ Enter(p)
Next == \/ \E p \in Procs : Start(p) \/ Step(p) \/ Exit(p)
        \/ \E b \in Boards : Reappear(b)

\* Programs run, and a board with new firmware comes back.
Fairness == /\ \A p \in Procs : WF_vars(Step(p))
            /\ \A b \in Boards : WF_vars(Reappear(b))
Spec == Init /\ [][Next]_vars /\ Fairness

-----------------------------------------------------------------------------
\* Properties.

\* The table has boards under numbers of switches, and open mutexes belong to
\* slots.
TypeOK ==
    /\ there \subseteq Boards /\ loaded \subseteq Boards
    /\ files \in [Procs -> SUBSET Boards] /\ mutexes \in [Procs -> SUBSET Slots]
    /\ uio_db \in [Procs -> [Dips -> Boards \union {None}]]
    /\ \A p \in Procs : i[p] \in 0 .. NSlots /\ n[p] \in 0 .. Searches

\* No two programs have the same board in their tables, unless both searched at
\* the same time: OpenMutex and CreateMutex are two steps.
OneOwner ==
    \A p, q \in Procs : \A d, e \in Dips :
        p # q /\ uio_db[p][d] # None /\ uio_db[p][d] = uio_db[q][e] => raced[p] \/ raced[q]

\* Boards that a search can find all of: none is in the last slot, no two have
\* the same switch, and uio_init searches as often as there are other slots.
AllReachable ==
    /\ \A b \in Boards : Home[b] < NSlots - 1
    /\ \A b, c \in Boards : Dip[b] = Dip[c] => b = c
    /\ NSlots - 1 <= Searches

\* "search all IF099 board" (cusb.c:748): a program that is alone on the
\* computer ends its search with every board under its number, whichever had
\* firmware, and however programs were ended in the middle before, if no board
\* is in the last slot and each comes back from its firmware in time.
FindsAll ==
    \A p \in Procs : pc[p] \in {"done", "failed"} /\ calm[p]
                       => \A b \in Boards : uio_db[p][Dip[b]] = b

\* The search comes to an end, whatever the boards and other programs do.
SearchEnds == \A p \in Procs : Searching(p) ~> ~Searching(p)
=============================================================================
