---------------------------- MODULE UsbOpenProofs ----------------------------
(***************************************************************************)
(* Theorems about UsbOpen for every set of programs and boards, every      *)
(* number of slots and searches.                                           *)
(***************************************************************************)
EXTENDS UsbOpen, TLAPS

Pcs == {"idle", "test", "create", "mutex", "check", "wait", "enter", "done", "failed"}

Typed ==
    /\ there \subseteq Boards /\ loaded \subseteq Boards
    /\ files \in [Procs -> SUBSET Boards] /\ mutexes \in [Procs -> SUBSET Slots]
    /\ uio_db \in [Procs -> [Dips -> Boards \union {None}]]
    /\ pc \in [Procs -> Pcs] /\ i \in [Procs -> 0 .. NSlots]
    /\ h \in [Procs -> Boards \union {None}]
    /\ n \in [Procs -> 0 .. Searches]
    /\ raced \in [Procs -> BOOLEAN]

\* What the place of a program says about its search.  A program holds the
\* mutex of every board in its table, and the board it has just opened is not
\* one of them.
PlaceAt(p) ==
    /\ Searching(p) => n[p] < Searches
    /\ pc[p] \in {"idle", "failed"} => mutexes[p] = {}
    /\ pc[p] \in {"create", "mutex", "check"} => i[p] < NSlots
    /\ pc[p] \in {"create", "mutex"} => i[p] \notin mutexes[p]
    /\ pc[p] \in {"mutex", "check", "wait", "enter"} => h[p] \in Boards
    /\ pc[p] \in {"mutex", "check"} => Home[h[p]] = i[p]
    /\ pc[p] = "check" => i[p] \in mutexes[p]
    /\ pc[p] = "wait" => h[p] \notin files[p]
    /\ pc[p] = "enter" /\ h[p] \in files[p] => Home[h[p]] \in mutexes[p]
    /\ \A d \in Dips :
          uio_db[p][d] # None =>
              /\ Home[uio_db[p][d]] \in mutexes[p]
              /\ pc[p] = "check" => Home[uio_db[p][d]] # i[p]

Placed == Typed /\ \A p \in Procs : PlaceAt(p)

\* The slots that p has or is about to take, having found them free.
Claims(p) == mutexes[p] \union (IF pc[p] \in {"create", "mutex"} THEN {i[p]} ELSE {})

\* Two programs get at one slot, or search together, only in a race.
ClaimsApart ==
    \A p, q \in Procs :
        p # q /\ ((Searching(p) /\ Searching(q)) \/ Claims(p) \cap Claims(q) # {})
            => raced[p] \/ raced[q]

Inv == Placed /\ ClaimsApart

LEMMA InvInit == Init => Inv
BY OpenAssumption
   DEF Init, Inv, Placed, Typed, PlaceAt, ClaimsApart, Claims, Searching, Slots, Dips, Pcs

LEMMA SlotOrEnd == ASSUME NEW s \in 0 .. NSlots PROVE s = NSlots \/ s < NSlots
BY OpenAssumption

\* What NextSearch does to the place of a program.
LEMMA NextSearchPlace ==
    ASSUME Typed, NEW p \in Procs, n[p] < Searches, NextSearch(p)
    PROVE  /\ pc' \in [Procs -> Pcs] /\ i' \in [Procs -> 0 .. NSlots]
           /\ n' \in [Procs -> 0 .. Searches]
           /\ pc'[p] \in {"test", "done"} /\ (pc'[p] = "test" => n'[p] < Searches)
           /\ \A q \in Procs \ {p} : pc'[q] = pc[q] /\ i'[q] = i[q] /\ n'[q] = n[q]
<1>1. n' = [n EXCEPT ![p] = n[p] + 1] /\ n[p] + 1 \in 0 .. Searches
    BY OpenAssumption DEF Typed, NextSearch
<1>2. CASE n[p] + 1 < Searches
  <2>1. pc' = [pc EXCEPT ![p] = "test"] /\ i' = [i EXCEPT ![p] = 0]
      BY <1>2 DEF NextSearch, Opens
  <2> QED
      BY <1>1, <1>2, <2>1, OpenAssumption DEF Typed, Pcs
<1>3. CASE ~(n[p] + 1 < Searches)
  <2>1. pc' = [pc EXCEPT ![p] = "done"] /\ i' = i
      BY <1>3 DEF NextSearch
  <2> QED
      BY <1>1, <2>1 DEF Typed, Pcs
<1> QED
    BY <1>2, <1>3

LEMMA PlacedStep == Placed /\ [Next]_vars => Placed'
<1> SUFFICES ASSUME Placed, [Next]_vars PROVE Placed'
    OBVIOUS
<1> USE OpenAssumption DEF Placed, Typed, history
<1>1. ASSUME NEW p \in Procs, Start(p) PROVE Placed'
  <2>1. Typed'
    <3>1. pc' \in [Procs -> Pcs] /\ i' \in [Procs -> 0 .. NSlots] /\ n' \in [Procs -> 0 .. Searches]
        BY <1>1 DEF Start, Opens, Pcs
    <3>2. uio_db' \in [Procs -> [Dips -> Boards \union {None}]]
        BY <1>1 DEF Start
    <3>3. raced' \in [Procs -> BOOLEAN]
      <4>1. \A q \in Procs : raced[q] \/ Searching(q) \in BOOLEAN
          BY DEF Searching
      <4> QED
          BY <1>1, <4>1 DEF Start
    <3> QED
        BY <1>1, <3>1, <3>2, <3>3 DEF Start
  <2>2. ASSUME NEW q \in Procs PROVE PlaceAt(q)'
      BY <1>1 DEF Start, Opens, PlaceAt, Searching
  <2> QED
      BY <2>1, <2>2
<1>2. ASSUME NEW p \in Procs, TestMutex(p) PROVE Placed'
  <2>1. CASE i[p] = NSlots
    <3>1. NextSearch(p) /\ n[p] < Searches
        BY <1>2, <2>1 DEF TestMutex, PlaceAt, Searching
    <3>2. Typed'
        BY <1>2, <3>1, NextSearchPlace DEF TestMutex
    <3>3. ASSUME NEW q \in Procs PROVE PlaceAt(q)'
        BY <1>2, <3>1, NextSearchPlace DEF TestMutex, PlaceAt, Searching
    <3> QED
        BY <3>2, <3>3
  <2>2. CASE i[p] < NSlots /\ Taken(i[p])
    <3>1. i' = [i EXCEPT ![p] = i[p] + 1] /\ UNCHANGED <<pc, n>> /\ pc[p] = "test"
        BY <1>2, <2>2 DEF TestMutex, AfterTaken
    <3>2. Typed'
        BY <1>2, <2>2, <3>1 DEF TestMutex
    <3>3. ASSUME NEW q \in Procs PROVE PlaceAt(q)'
        BY <1>2, <3>1 DEF TestMutex, PlaceAt, Searching
    <3> QED
        BY <3>2, <3>3
  <2>3. CASE i[p] < NSlots /\ ~Taken(i[p])
    <3>1. pc' = [pc EXCEPT ![p] = "create"] /\ UNCHANGED <<i, n>> /\ pc[p] = "test"
        BY <1>2, <2>3 DEF TestMutex
    <3>2. i[p] \notin mutexes[p]
        BY <2>3 DEF Taken
    <3>3. Typed'
        BY <1>2, <3>1 DEF TestMutex, Pcs
    <3>4. ASSUME NEW q \in Procs PROVE PlaceAt(q)'
        BY <1>2, <2>3, <3>1, <3>2 DEF TestMutex, PlaceAt, Searching
    <3> QED
        BY <3>3, <3>4
  <2> QED
    <3>1. i[p] \in 0 .. NSlots
        BY DEF Typed
    <3> QED
        BY <2>1, <2>2, <2>3, <3>1, OpenAssumption DEF Taken
<1>3. ASSUME NEW p \in Procs, CreateFile(p) PROVE Placed'
  <2>0. pc[p] = "create" /\ i[p] < NSlots
      BY <1>3 DEF CreateFile, PlaceAt
  <2>1. CASE InSlot(i[p]) = {}
    <3>1. i' = [i EXCEPT ![p] = i[p] + 1] /\ pc' = [pc EXCEPT ![p] = "test"] /\ UNCHANGED <<files, h>>
        BY <1>3, <2>1 DEF CreateFile
    <3>2. Typed'
        BY <1>3, <2>0, <3>1 DEF CreateFile, Pcs
    <3>3. ASSUME NEW q \in Procs PROVE PlaceAt(q)'
        BY <1>3, <2>0, <3>1 DEF CreateFile, PlaceAt, Searching
    <3> QED
        BY <3>2, <3>3
  <2>2. CASE InSlot(i[p]) # {}
    <3> DEFINE b == CHOOSE x \in InSlot(i[p]) : TRUE
    <3>1. b \in Boards /\ Home[b] = i[p]
        BY <2>2 DEF InSlot
    <3>2. /\ h' = [h EXCEPT ![p] = b] /\ files' = [files EXCEPT ![p] = files[p] \union {b}]
          /\ pc' = [pc EXCEPT ![p] = "mutex"] /\ i' = i
        BY <1>3, <2>2 DEF CreateFile
    <3> HIDE DEF b
    <3>3. Typed'
        BY <1>3, <3>1, <3>2 DEF CreateFile, Pcs
    <3>4. ASSUME NEW q \in Procs PROVE PlaceAt(q)'
        BY <1>3, <2>0, <3>1, <3>2 DEF CreateFile, PlaceAt, Searching
    <3> QED
        BY <3>3, <3>4
  <2> QED
      BY <2>1, <2>2
<1>4. ASSUME NEW p \in Procs, CreateMutex(p) PROVE Placed'
  <2>0. /\ pc[p] = "mutex" /\ mutexes' = [mutexes EXCEPT ![p] = mutexes[p] \union {i[p]}]
        /\ i[p] \in Slots /\ i[p] \notin mutexes[p]
      BY <1>4 DEF CreateMutex, PlaceAt, Slots
  <2>1. CASE NSlots - 1 <= i[p]
    <3>1. NextSearch(p) /\ n[p] < Searches
        BY <1>4, <2>1 DEF CreateMutex, PlaceAt, Searching
    <3>2. Typed'
        BY <1>4, <2>0, <3>1, NextSearchPlace DEF CreateMutex
    <3>3. ASSUME NEW q \in Procs PROVE PlaceAt(q)'
        BY <1>4, <2>0, <3>1, NextSearchPlace DEF CreateMutex, PlaceAt, Searching
    <3> QED
        BY <3>2, <3>3
  <2>2. CASE ~(NSlots - 1 <= i[p])
    <3>1. pc' = [pc EXCEPT ![p] = "check"] /\ UNCHANGED <<i, n>>
        BY <1>4, <2>2 DEF CreateMutex
    <3>2. Typed'
        BY <1>4, <2>0, <3>1 DEF CreateMutex, Pcs
    <3>3. ASSUME NEW q \in Procs PROVE PlaceAt(q)'
        BY <1>4, <2>0, <3>1 DEF CreateMutex, PlaceAt, Searching
    <3> QED
        BY <3>2, <3>3
  <2> QED
      BY <2>1, <2>2
<1>5. ASSUME NEW p \in Procs, CheckFirmware(p) PROVE Placed'
  <2>1. CASE h[p] \in loaded
    <3>1. pc' = [pc EXCEPT ![p] = "enter"] /\ UNCHANGED <<there, loaded, files, mutexes>>
        BY <1>5, <2>1 DEF CheckFirmware
    <3>2. Typed'
        BY <1>5, <3>1 DEF CheckFirmware, Pcs
    <3>3. ASSUME NEW q \in Procs PROVE PlaceAt(q)'
        BY <1>5, <3>1 DEF CheckFirmware, PlaceAt, Searching
    <3> QED
        BY <3>2, <3>3
  <2>2. CASE h[p] \notin loaded
    <3>1. /\ pc' = [pc EXCEPT ![p] = "wait"]
          /\ there' = there \ {h[p]} /\ loaded' = loaded \union {h[p]}
          /\ files' = [files EXCEPT ![p] = files[p] \ {h[p]}]
          /\ mutexes' = [mutexes EXCEPT ![p] = mutexes[p] \ {i[p]}]
        BY <1>5, <2>2 DEF CheckFirmware, Closed
    <3>2. pc[p] = "check" /\ h[p] \in Boards
        BY <1>5 DEF CheckFirmware, PlaceAt
    <3>3. Typed'
        BY <1>5, <3>1, <3>2 DEF CheckFirmware, Pcs
    <3>4. ASSUME NEW q \in Procs PROVE PlaceAt(q)'
        BY <1>5, <3>1, <3>2 DEF CheckFirmware, PlaceAt, Searching
    <3> QED
        BY <3>3, <3>4
  <2> QED
      BY <2>1, <2>2
<1>6. ASSUME NEW p \in Procs, Waited(p) PROVE Placed'
  <2>1. \/ pc' = [pc EXCEPT ![p] = "test"] /\ i' = [i EXCEPT ![p] = 0]
        \/ pc' = [pc EXCEPT ![p] = "enter"] /\ i' = i
      BY <1>6 DEF Waited, Opens
  <2>2. Typed'
      BY <1>6, <2>1 DEF Waited, Pcs
  <2>3. ASSUME NEW q \in Procs PROVE PlaceAt(q)'
      BY <1>6, <2>1 DEF Waited, PlaceAt, Searching
  <2> QED
      BY <2>2, <2>3
<1>7. ASSUME NEW p \in Procs, Enter(p) PROVE Placed'
  <2>0. pc[p] = "enter" /\ h[p] \in Boards /\ h[p] # None
      BY <1>7 DEF Enter, PlaceAt
  <2>1. CASE h[p] \in files[p]
    <3>1. /\ uio_db' = [uio_db EXCEPT ![p] =
                           [d \in Dips |-> IF d = Number(p) THEN h[p] ELSE uio_db[p][d]]]
          /\ NextSearch(p) /\ n[p] < Searches /\ UNCHANGED <<files, mutexes>>
        BY <1>7, <2>0, <2>1 DEF Enter, PlaceAt, Searching
    <3>2. Typed'
        BY <1>7, <2>0, <3>1, NextSearchPlace DEF Enter
    <3>3. ASSUME NEW q \in Procs PROVE PlaceAt(q)'
        BY <1>7, <2>0, <2>1, <3>1, NextSearchPlace DEF Enter, PlaceAt, Searching
    <3> QED
        BY <3>2, <3>3
  <2>2. CASE h[p] \notin files[p]
    <3>1. /\ uio_db' = [uio_db EXCEPT ![p] = [d \in Dips |-> None]]
          /\ pc' = [pc EXCEPT ![p] = "failed"] /\ UNCHANGED <<i, n>>
          /\ files' = [files EXCEPT ![p] = {}] /\ mutexes' = [mutexes EXCEPT ![p] = {}]
        BY <1>7, <2>2 DEF Enter
    <3>2. Typed'
        BY <1>7, <3>1 DEF Enter, Pcs
    <3>3. ASSUME NEW q \in Procs PROVE PlaceAt(q)'
        BY <1>7, <3>1 DEF Enter, PlaceAt, Searching
    <3> QED
        BY <3>2, <3>3
  <2> QED
      BY <2>1, <2>2
<1>8. ASSUME NEW p \in Procs, Exit(p) PROVE Placed'
  <2>1. Typed'
      BY <1>8 DEF Exit, Pcs
  <2>2. ASSUME NEW q \in Procs PROVE PlaceAt(q)'
      BY <1>8 DEF Exit, PlaceAt, Searching
  <2> QED
      BY <2>1, <2>2
<1>9. ASSUME NEW b \in Boards, Reappear(b) PROVE Placed'
    BY <1>9 DEF Reappear, PlaceAt, Searching
<1>10. ASSUME UNCHANGED vars PROVE Placed'
    BY <1>10 DEF vars, PlaceAt, Searching
<1> QED
    BY <1>1, <1>2, <1>3, <1>4, <1>5, <1>6, <1>7, <1>8, <1>9, <1>10 DEF Next, Step

-----------------------------------------------------------------------------
\* A step by which p claims nothing new, and searches no more than before.
LEMMA ClaimsKept ==
    ASSUME Typed, ClaimsApart, raced' = raced,
           \A q \in Procs : Claims(q)' \subseteq Claims(q) /\ (Searching(q)' => Searching(q))
    PROVE  ClaimsApart'
BY DEF ClaimsApart

LEMMA ClaimsApartStep == Placed /\ ClaimsApart /\ [Next]_vars => ClaimsApart'
<1> SUFFICES ASSUME Placed, ClaimsApart, [Next]_vars PROVE ClaimsApart'
    OBVIOUS
<1> USE OpenAssumption DEF Placed, Typed, history
\* A start is recorded as a race by both sides; it has no mutex.
<1>1. ASSUME NEW p \in Procs, Start(p) PROVE ClaimsApart'
  <2>1. /\ pc[p] = "idle" /\ pc' = [pc EXCEPT ![p] = "test"] /\ mutexes' = mutexes
        /\ i' = [i EXCEPT ![p] = 0]
        /\ raced' = [q \in Procs |-> IF q = p THEN \E r \in Procs \ {p} : Searching(r)
                                     ELSE raced[q] \/ Searching(q)]
      BY <1>1 DEF Start, Opens
  <2>2. Claims(p)' = {} /\ \A q \in Procs \ {p} : Claims(q)' = Claims(q)
      BY <2>1 DEF Claims, PlaceAt
  <2>3. \A q \in Procs \ {p} : Searching(q)' = Searching(q) /\ (raced[q] => raced'[q])
      BY <2>1 DEF Searching
  <2>4. \A q \in Procs \ {p} : Searching(q) => raced'[q]
      BY <2>1
  <2> QED
      BY <2>2, <2>3, <2>4 DEF ClaimsApart
\* A slot that is found free can only be claimed by another search.
<1>2. ASSUME NEW p \in Procs, TestMutex(p) PROVE ClaimsApart'
  <2>0. /\ pc[p] = "test" /\ Searching(p) /\ UNCHANGED <<mutexes, raced>>
        /\ \A q \in Procs \ {p} : pc'[q] = pc[q] /\ i'[q] = i[q]
      BY <1>2, NextSearchPlace DEF TestMutex, PlaceAt, Searching
  <2>1. CASE NextSearch(p) \/ (pc' = pc /\ i' = [i EXCEPT ![p] = AfterTaken(@)])
    <3>1. pc'[p] \in {"test", "done"}
        BY <2>0, <2>1, NextSearchPlace DEF PlaceAt
    <3>2. \A q \in Procs : Claims(q)' \subseteq Claims(q) /\ (Searching(q)' => Searching(q))
        BY <2>0, <3>1 DEF Claims, Searching
    <3> QED
        BY <2>0, <3>2, ClaimsKept
  <2>2. CASE pc' = [pc EXCEPT ![p] = "create"] /\ i' = i /\ ~Taken(i[p])
    <3>1. pc'[p] = "create" /\ i' = i /\ ~Taken(i[p])
        BY <2>2
    <3>2. Claims(p)' = mutexes[p] \union {i[p]} /\ \A q \in Procs \ {p} : Claims(q)' = Claims(q)
        BY <2>0, <3>1 DEF Claims
    <3>3. \A q \in Procs \ {p} : i[p] \in Claims(q) => Searching(q)
        BY <3>1 DEF Claims, Taken, Searching
    <3>4. \A q \in Procs : Searching(q)' = Searching(q)
        BY <2>0, <3>1 DEF Searching
    <3>5. mutexes[p] \subseteq Claims(p)
        BY DEF Claims
    <3> QED
        BY <2>0, <3>2, <3>3, <3>4, <3>5 DEF ClaimsApart
  <2>3. CASE i[p] = NSlots
      BY <1>2, <2>1, <2>3 DEF TestMutex
  <2>4. CASE i[p] < NSlots /\ Taken(i[p])
      BY <1>2, <2>1, <2>4 DEF TestMutex
  <2>5. CASE i[p] < NSlots /\ ~Taken(i[p])
      BY <1>2, <2>2, <2>5 DEF TestMutex
  <2> QED
    <3>1. i[p] \in 0 .. NSlots
        BY DEF Typed
    <3>2. i[p] = NSlots \/ i[p] < NSlots
        BY <3>1, SlotOrEnd
    <3> QED
        BY <2>3, <2>4, <2>5, <3>2 DEF Taken
<1>3. ASSUME NEW p \in Procs, CreateFile(p) PROVE ClaimsApart'
  <2>1. \A q \in Procs : Claims(q)' \subseteq Claims(q) /\ (Searching(q)' => Searching(q))
    <3>1. CASE InSlot(i[p]) = {}
        BY <1>3, <3>1 DEF CreateFile, Claims, Searching
    <3>2. CASE InSlot(i[p]) # {}
        BY <1>3, <3>2 DEF CreateFile, Claims, Searching
    <3> QED
        BY <3>1, <3>2
  <2> QED
      BY <1>3, <2>1, ClaimsKept DEF CreateFile
<1>4. ASSUME NEW p \in Procs, CreateMutex(p) PROVE ClaimsApart'
  <2>1. /\ pc[p] = "mutex" /\ mutexes' = [mutexes EXCEPT ![p] = mutexes[p] \union {i[p]}]
        /\ pc'[p] \notin {"create", "mutex", "idle", "failed"}
        /\ \A q \in Procs \ {p} : pc'[q] = pc[q] /\ i'[q] = i[q]
      BY <1>4, NextSearchPlace DEF CreateMutex, PlaceAt, Searching
  <2>2. \A q \in Procs : Claims(q)' \subseteq Claims(q) /\ (Searching(q)' => Searching(q))
      BY <2>1 DEF Claims, Searching
  <2> QED
      BY <1>4, <2>2, ClaimsKept DEF CreateMutex
<1>5. ASSUME NEW p \in Procs, CheckFirmware(p) PROVE ClaimsApart'
  <2>1. \A q \in Procs : Claims(q)' \subseteq Claims(q) /\ (Searching(q)' => Searching(q))
    <3>1. CASE h[p] \in loaded
        BY <1>5, <3>1 DEF CheckFirmware, Claims, Searching
    <3>2. CASE h[p] \notin loaded
        BY <1>5, <3>2 DEF CheckFirmware, Closed, Claims, Searching
    <3> QED
        BY <3>1, <3>2
  <2> QED
      BY <1>5, <2>1, ClaimsKept DEF CheckFirmware
<1>6. ASSUME NEW p \in Procs, Waited(p) PROVE ClaimsApart'
  <2>1. \A q \in Procs : Claims(q)' \subseteq Claims(q) /\ (Searching(q)' => Searching(q))
    <3>1. \/ pc' = [pc EXCEPT ![p] = "test"] /\ i' = [i EXCEPT ![p] = 0]
          \/ pc' = [pc EXCEPT ![p] = "enter"] /\ i' = i
        BY <1>6 DEF Waited, Opens
    <3> QED
        BY <1>6, <3>1 DEF Waited, Claims, Searching
  <2> QED
      BY <1>6, <2>1, ClaimsKept DEF Waited
<1>7. ASSUME NEW p \in Procs, Enter(p) PROVE ClaimsApart'
  <2>1. /\ pc[p] = "enter" /\ mutexes'[p] \subseteq mutexes[p]
        /\ pc'[p] \notin {"create", "mutex"}
        /\ \A q \in Procs \ {p} : pc'[q] = pc[q] /\ i'[q] = i[q] /\ mutexes'[q] = mutexes[q]
    <3>1. CASE h[p] \in files[p]
        BY <1>7, <3>1, NextSearchPlace DEF Enter, PlaceAt, Searching
    <3>2. CASE h[p] \notin files[p]
        BY <1>7, <3>2 DEF Enter
    <3> QED
        BY <3>1, <3>2
  <2>2. \A q \in Procs : Claims(q)' \subseteq Claims(q) /\ (Searching(q)' => Searching(q))
      BY <2>1 DEF Claims, Searching
  <2> QED
      BY <1>7, <2>2, ClaimsKept DEF Enter
<1>8. ASSUME NEW p \in Procs, Exit(p) PROVE ClaimsApart'
  <2>1. \A q \in Procs : Claims(q)' \subseteq Claims(q) /\ (Searching(q)' => Searching(q))
      BY <1>8 DEF Exit, Claims, Searching
  <2> QED
      BY <1>8, <2>1, ClaimsKept DEF Exit
<1>9. ASSUME NEW b \in Boards, Reappear(b) PROVE ClaimsApart'
    BY <1>9 DEF Reappear, ClaimsApart, Claims, Searching
<1>10. ASSUME UNCHANGED vars PROVE ClaimsApart'
    BY <1>10 DEF vars, ClaimsApart, Claims, Searching
<1> QED
    BY <1>1, <1>2, <1>3, <1>4, <1>5, <1>6, <1>7, <1>8, <1>9, <1>10 DEF Next, Step

\* The invariant of every behaviour.
LEMMA Invariant == Spec => []Inv
<1>1. Inv /\ [Next]_vars => Inv'
    BY PlacedStep, ClaimsApartStep DEF Inv
<1> QED
    BY <1>1, InvInit, PTL DEF Spec

\* Whatever programs search, load firmware and end, for any boards, slots and
\* searches: tables have boards of the driver, and no search leaves the slots.
THEOREM TypeCorrect == Spec => []TypeOK
<1>1. Inv => TypeOK
    BY DEF Inv, Placed, Typed, TypeOK
<1> QED
    BY <1>1, Invariant, PTL

\* For any number of programs and boards: two programs that did not search at
\* the same time have no board in common.  (OpenMutex, CreateMutex.)
THEOREM NoBoardTwice == Spec => []OneOwner
<1>1. Inv => OneOwner
  <2> SUFFICES ASSUME Inv, NEW p \in Procs, NEW q \in Procs, NEW d \in Dips, NEW e \in Dips,
                      p # q, uio_db[p][d] # None, uio_db[p][d] = uio_db[q][e]
               PROVE  raced[p] \/ raced[q]
      BY DEF OneOwner
  <2>1. Home[uio_db[p][d]] \in mutexes[p] /\ Home[uio_db[p][d]] \in mutexes[q]
      BY DEF Inv, Placed, PlaceAt
  <2> QED
      BY <2>1 DEF Inv, ClaimsApart, Claims
<1> QED
    BY <1>1, Invariant, PTL

-----------------------------------------------------------------------------
\* Board b has its place in the table of p.
Known(p, b) == uio_db[p][Dip[b]] = b
KnownBelow(p, s) == \A b \in Boards : Home[b] < s => Known(p, b)

\* What a search that nothing disturbs has found so far.  It takes the slots in
\* their order, so that n searches have found what is in the first n slots.
CalmAt(p) ==
    /\ \A q \in Procs \ {p} : pc[q] = "idle"
    /\ pc[p] # "failed" /\ KnownBelow(p, n[p])
    /\ pc[p] = "done" => n[p] = Searches
    /\ there = Boards \/ (pc[p] = "wait" /\ there \union {h[p]} = Boards)
    /\ pc[p] \in {"test", "create"} => KnownBelow(p, i[p])
    /\ pc[p] \in {"mutex", "check", "wait", "enter"} =>
          KnownBelow(p, Home[h[p]]) /\ ~Known(p, h[p])
    /\ pc[p] \in {"mutex", "check", "enter"} => h[p] \in files[p]
    /\ \A s \in mutexes[p] :
          \/ \E b \in Boards : Home[b] = s /\ Known(p, b)
          \/ pc[p] \in {"check", "enter"} /\ s = Home[h[p]]
    \* The second try gets at the board that the first has loaded.
    /\ pc[p] = "wait" => try[p] = 1
    /\ pc[p] = "wait" \/ (pc[p] \in {"test", "create"} /\ try[p] = 2) =>
          h[p] \in loaded /\ Home[h[p]] \notin mutexes[p]
    /\ pc[p] \in {"test", "create"} /\ try[p] = 2 =>
          h[p] \in Boards /\ i[p] <= Home[h[p]] /\ KnownBelow(p, Home[h[p]])
    /\ pc[p] \in {"mutex", "check"} /\ try[p] = 2 => h[p] \in loaded

CalmInv ==
    /\ calm \in [Procs -> BOOLEAN] /\ try \in [Procs -> 1 .. 2]
    /\ \A p \in Procs : calm[p] /\ pc[p] # "idle" => CalmAt(p)

LEMMA CalmInit == Init => CalmInv
BY DEF Init, CalmInv

\* A program that searches or has searched while all others are idle is the
\* only one that a step of a program can disturb.
LEMMA CalmOthers ==
    ASSUME CalmInv, NEW p \in Procs, pc[p] # "idle",
           calm' \in [Procs -> BOOLEAN], try' \in [Procs -> 1 .. 2],
           \A q \in Procs : calm'[q] => calm[q],
           \A q \in Procs \ {p} : pc'[q] = pc[q],
           CalmAt(p) /\ calm'[p] /\ pc'[p] # "idle" => CalmAt(p)'
    PROVE  CalmInv'
<1> SUFFICES ASSUME NEW q \in Procs, calm'[q], pc'[q] # "idle" PROVE CalmAt(q)'
    BY DEF CalmInv
<1>1. CASE q = p
    BY <1>1 DEF CalmInv
<1>2. CASE q # p
    BY <1>2 DEF CalmInv, CalmAt
<1> QED
    BY <1>1, <1>2

\* A step that leaves the table alone leaves what is known alone.
LEMMA KnownKept ==
    ASSUME NEW p \in Procs, uio_db'[p] = uio_db[p]
    PROVE  /\ \A b \in Boards : Known(p, b)' <=> Known(p, b)
           /\ \A s : KnownBelow(p, s)' <=> KnownBelow(p, s)
BY DEF Known, KnownBelow

\* The counts of one program.
LEMMA Counts ==
    ASSUME Typed, NEW p \in Procs
    PROVE  i[p] \in Nat /\ n[p] \in Nat /\ \A b \in Boards : Home[b] \in Nat
BY OpenAssumption DEF Typed

\* A slot that is known is one more of the first slots.
LEMMA KnownOneMore ==
    ASSUME Typed, NEW p \in Procs, NEW s \in Nat, KnownBelow(p, s),
           \A b \in Boards : Home[b] = s => Known(p, b)
    PROVE  KnownBelow(p, s + 1)
<1> SUFFICES ASSUME NEW b \in Boards, Home[b] < s + 1 PROVE Known(p, b)
    BY DEF KnownBelow
<1>1. Home[b] < s \/ Home[b] = s
    BY Counts
<1> QED
    BY <1>1 DEF KnownBelow

\* Steps on numbers that the prover wants to see apart.
LEMMA Above == ASSUME NEW s \in Nat, NEW t \in Nat, s <= t
               PROVE  (s # t => s + 1 <= t) /\ (~(t < s + 1) \/ s = t) /\ (~(s < t) => s = t)
OBVIOUS

\* A search begins at the first slot, or there is none left to make.
LEMMA NextSearchCalm ==
    ASSUME Typed, NEW p \in Procs, n[p] < Searches, NextSearch(p), try \in [Procs -> 1 .. 2]
    PROVE  /\ n'[p] = n[p] + 1 /\ try' \in [Procs -> 1 .. 2]
           /\ \/ pc'[p] = "test" /\ i'[p] = 0 /\ try'[p] = 1
              \/ pc'[p] = "done" /\ n'[p] = Searches
           /\ \A q \in Procs \ {p} : pc'[q] = pc[q]
<1>1. n' = [n EXCEPT ![p] = n[p] + 1] /\ n[p] \in Nat /\ Searches \in Nat
    BY OpenAssumption DEF Typed, NextSearch
<1>2. CASE n[p] + 1 < Searches
  <2>1. /\ pc' = [pc EXCEPT ![p] = "test"] /\ i' = [i EXCEPT ![p] = 0]
        /\ try' = [try EXCEPT ![p] = 1]
      BY <1>2 DEF NextSearch, Opens
  <2> QED
      BY <1>1, <2>1 DEF Typed
<1>3. CASE ~(n[p] + 1 < Searches)
  <2>1. pc' = [pc EXCEPT ![p] = "done"] /\ try' = try
      BY <1>3 DEF NextSearch
  <2>2. n[p] + 1 = Searches
      BY <1>1, <1>3
  <2> QED
      BY <1>1, <2>1, <2>2 DEF Typed
<1> QED
    BY <1>2, <1>3

LEMMA CalmStep == AllReachable /\ Placed /\ CalmInv /\ [Next]_vars => CalmInv'
<1> SUFFICES ASSUME AllReachable, Placed, CalmInv, [Next]_vars PROVE CalmInv'
    OBVIOUS
<1> USE OpenAssumption DEF Placed, Typed, history
<1>0. calm \in [Procs -> BOOLEAN] /\ try \in [Procs -> 1 .. 2]
    BY DEF CalmInv
\* With every other program idle, the slots that are taken are its own.
<1>T. ASSUME NEW p \in Procs, CalmAt(p) PROVE \A s : Taken(s) <=> s \in mutexes[p]
    BY <1>T DEF CalmAt, Taken, PlaceAt
<1>1. ASSUME NEW p \in Procs, Start(p) PROVE CalmInv'
  <2>1. /\ pc[p] = "idle" /\ pc' = [pc EXCEPT ![p] = "test"] /\ i' = [i EXCEPT ![p] = 0]
        /\ try' = [try EXCEPT ![p] = 1] /\ n' = [n EXCEPT ![p] = 0]
        /\ mutexes' = mutexes /\ mutexes[p] = {} /\ there' = there
      BY <1>1 DEF Start, Opens, PlaceAt
  <2>2. calm' = [q \in Procs |-> q = p /\ there = Boards /\ \A r \in Procs \ {p} : pc[r] = "idle"]
      BY <1>1 DEF Start
  <2>3. calm' \in [Procs -> BOOLEAN] /\ try' \in [Procs -> 1 .. 2]
      BY <1>0, <2>1, <2>2
  <2>4. ASSUME calm'[p] PROVE CalmAt(p)'
    <3>1. there = Boards /\ \A r \in Procs \ {p} : pc[r] = "idle"
        BY <2>2, <2>4
    <3>2. \A b \in Boards : ~(Home[b] < 0)
        BY Counts
    <3>3. /\ \A q \in Procs \ {p} : pc'[q] = "idle"
          /\ pc'[p] = "test" /\ i'[p] = 0 /\ n'[p] = 0 /\ try'[p] = 1 /\ mutexes'[p] = {}
        BY <1>0, <2>1, <3>1
    <3>4. KnownBelow(p, n[p])' /\ KnownBelow(p, i[p])'
        BY <3>2, <3>3 DEF KnownBelow
    <3> QED
        BY <2>1, <3>1, <3>3, <3>4 DEF CalmAt
  <2>5. \A q \in Procs \ {p} : ~calm'[q]
      BY <2>2
  <2> QED
      BY <2>3, <2>4, <2>5 DEF CalmInv
<1>2. ASSUME NEW p \in Procs, TestMutex(p) PROVE CalmInv'
  <2>0. /\ pc[p] = "test" /\ UNCHANGED <<there, loaded, files, mutexes, uio_db, h, calm>>
        /\ n[p] < Searches
      BY <1>2 DEF TestMutex, PlaceAt, Searching
  <2>1. CASE i[p] = NSlots
    <3>1. NextSearch(p)
        BY <1>2, <2>1 DEF TestMutex
    <3>2. ASSUME CalmAt(p) PROVE CalmAt(p)'
      <4>1. \A b \in Boards : Known(p, b)
          BY <2>0, <2>1, <3>2 DEF CalmAt, KnownBelow
      <4>2. \A b \in Boards : Known(p, b)'
          BY <2>0, <4>1 DEF Known
      <4> QED
          BY <1>0, <2>0, <3>1, <3>2, <4>1, <4>2, NextSearchCalm DEF CalmAt, KnownBelow
    <3> QED
        BY <1>0, <2>0, <3>1, <3>2, NextSearchCalm, CalmOthers
  <2>2. CASE i[p] < NSlots /\ Taken(i[p])
    <3>1. i' = [i EXCEPT ![p] = i[p] + 1] /\ UNCHANGED <<pc, try, n>>
        BY <1>2, <2>2 DEF TestMutex, AfterTaken
    <3>2. ASSUME CalmAt(p) PROVE CalmAt(p)'
      <4>1. PICK b \in Boards : Home[b] = i[p] /\ Known(p, b)
          BY <1>T, <2>0, <2>2, <3>2 DEF CalmAt
      <4>2. KnownBelow(p, i[p] + 1)
        <5>1. KnownBelow(p, i[p]) /\ \A c \in Boards : Home[c] = i[p] => c = b
            BY <2>0, <3>2, <4>1 DEF CalmAt
        <5> QED
            BY <4>1, <5>1, Counts, KnownOneMore
      <4>3. try[p] = 2 => i[p] # Home[h[p]]
          BY <1>T, <2>0, <2>2, <3>2 DEF CalmAt
      <4>4. try[p] = 2 => h[p] \in Boards /\ i[p] + 1 <= Home[h[p]]
        <5>1. try[p] = 2 => h[p] \in Boards /\ i[p] <= Home[h[p]]
            BY <2>0, <3>2 DEF CalmAt
        <5>2. i[p] \in Nat /\ \A c \in Boards : Home[c] \in Nat
            BY Counts
        <5> QED
            BY <4>3, <5>1, <5>2, Above
      <4> QED
          BY <2>0, <3>1, <3>2, <4>2, <4>4 DEF CalmAt, KnownBelow, Known
    <3> QED
        BY <1>0, <2>0, <3>1, <3>2, CalmOthers
  <2>3. CASE i[p] < NSlots /\ ~Taken(i[p])
    <3>1. pc' = [pc EXCEPT ![p] = "create"] /\ UNCHANGED <<i, try, n>>
        BY <1>2, <2>3 DEF TestMutex
    <3>2. ASSUME CalmAt(p) PROVE CalmAt(p)'
        BY <2>0, <3>1, <3>2 DEF CalmAt, KnownBelow, Known
    <3> QED
        BY <1>0, <2>0, <3>1, <3>2, CalmOthers
  <2> QED
    <3>1. i[p] \in 0 .. NSlots
        BY DEF Typed
    <3> QED
        BY <2>1, <2>2, <2>3, <3>1, SlotOrEnd DEF Taken
<1>3. ASSUME NEW p \in Procs, CreateFile(p) PROVE CalmInv'
  <2>0. /\ pc[p] = "create" /\ i[p] < NSlots /\ i[p] \notin mutexes[p]
        /\ UNCHANGED <<there, loaded, mutexes, uio_db, try, n, calm>>
      BY <1>3 DEF CreateFile, PlaceAt
  <2>1. CASE InSlot(i[p]) = {}
    <3>1. i' = [i EXCEPT ![p] = i[p] + 1] /\ pc' = [pc EXCEPT ![p] = "test"] /\ UNCHANGED <<files, h>>
        BY <1>3, <2>1 DEF CreateFile
    <3>2. ASSUME CalmAt(p) PROVE CalmAt(p)'
      <4>1. \A b \in Boards : Home[b] # i[p]
          BY <2>0, <2>1, <3>2 DEF CalmAt, InSlot
      <4>2. KnownBelow(p, i[p] + 1)
        <5>1. KnownBelow(p, i[p])
            BY <2>0, <3>2 DEF CalmAt
        <5> QED
            BY <4>1, <5>1, Counts, KnownOneMore
      <4>3. try[p] = 2 => h[p] \in Boards /\ i[p] + 1 <= Home[h[p]]
        <5>1. try[p] = 2 => h[p] \in Boards /\ i[p] <= Home[h[p]]
            BY <2>0, <3>2 DEF CalmAt
        <5>2. i[p] \in Nat /\ \A b \in Boards : Home[b] \in Nat
            BY Counts
        <5> QED
            BY <4>1, <5>1, <5>2, Above
      <4> QED
          BY <2>0, <3>1, <3>2, <4>2, <4>3 DEF CalmAt, KnownBelow, Known
    <3> QED
        BY <1>0, <2>0, <3>1, <3>2, CalmOthers
  \* The first board that has no place in the table yet.
  <2>2. CASE InSlot(i[p]) # {}
    <3> DEFINE b == CHOOSE x \in InSlot(i[p]) : TRUE
    <3>1. b \in Boards /\ Home[b] = i[p]
        BY <2>2 DEF InSlot
    <3>2. /\ h' = [h EXCEPT ![p] = b] /\ files' = [files EXCEPT ![p] = files[p] \union {b}]
          /\ pc' = [pc EXCEPT ![p] = "mutex"] /\ i' = i
        BY <1>3, <2>2 DEF CreateFile
    <3> HIDE DEF b
    <3>3. ASSUME CalmAt(p) PROVE CalmAt(p)'
      <4>1. ~Known(p, b)
          BY <2>0, <3>1 DEF Known, PlaceAt, Dips
      <4>2. try[p] = 2 => b = h[p]
        <5> SUFFICES ASSUME try[p] = 2 PROVE b = h[p]
            OBVIOUS
        <5>1. h[p] \in Boards /\ i[p] <= Home[h[p]] /\ KnownBelow(p, Home[h[p]])
            BY <2>0, <3>3 DEF CalmAt
        <5>2. ~(Home[b] < Home[h[p]])
            BY <3>1, <4>1, <5>1 DEF KnownBelow
        <5>3. Home[b] = Home[h[p]]
          <6>1. i[p] \in Nat /\ Home[h[p]] \in Nat
              BY <5>1, Counts
          <6> QED
              BY <3>1, <5>1, <5>2, <6>1, Above
        <5> QED
            BY <3>1, <5>1, <5>3
      <4> QED
          BY <2>0, <3>1, <3>2, <3>3, <4>1, <4>2 DEF CalmAt, KnownBelow, Known
    <3> QED
        BY <1>0, <2>0, <3>2, <3>3, CalmOthers
  <2> QED
      BY <2>1, <2>2
<1>4. ASSUME NEW p \in Procs, CreateMutex(p) PROVE CalmInv'
  <2>0. /\ pc[p] = "mutex" /\ mutexes' = [mutexes EXCEPT ![p] = mutexes[p] \union {i[p]}]
        /\ h[p] \in Boards /\ Home[h[p]] = i[p] /\ n[p] < Searches
        /\ UNCHANGED <<there, loaded, files, uio_db, h, calm>>
      BY <1>4 DEF CreateMutex, PlaceAt, Searching
  \* No board is in the last slot.
  <2>1. pc' = [pc EXCEPT ![p] = "check"] /\ UNCHANGED <<i, try, n>>
      BY <1>4, <2>0 DEF CreateMutex, AllReachable
  <2>2. ASSUME CalmAt(p) PROVE CalmAt(p)'
      BY <2>0, <2>1, <2>2 DEF CalmAt, KnownBelow, Known
  <2> QED
      BY <1>0, <2>0, <2>1, <2>2, CalmOthers
<1>5. ASSUME NEW p \in Procs, CheckFirmware(p) PROVE CalmInv'
  <2>0. /\ pc[p] = "check" /\ h[p] \in Boards /\ Home[h[p]] = i[p]
        /\ UNCHANGED <<uio_db, i, h, try, n, calm>>
      BY <1>5 DEF CheckFirmware, PlaceAt
  <2>1. CASE h[p] \in loaded
    <3>1. pc' = [pc EXCEPT ![p] = "enter"] /\ UNCHANGED <<there, loaded, files, mutexes>>
        BY <1>5, <2>1 DEF CheckFirmware
    <3>2. ASSUME CalmAt(p) PROVE CalmAt(p)'
        BY <2>0, <3>1, <3>2 DEF CalmAt, KnownBelow, Known
    <3> QED
        BY <1>0, <2>0, <3>1, <3>2, CalmOthers
  <2>2. CASE h[p] \notin loaded
    <3>1. /\ pc' = [pc EXCEPT ![p] = "wait"]
          /\ there' = there \ {h[p]} /\ loaded' = loaded \union {h[p]}
          /\ mutexes' = [mutexes EXCEPT ![p] = mutexes[p] \ {i[p]}]
        BY <1>5, <2>2 DEF CheckFirmware, Closed
    <3>2. ASSUME CalmAt(p) PROVE CalmAt(p)'
      <4>1. try[p] = 1 /\ there' \union {h[p]} = Boards
          BY <1>0, <2>0, <2>2, <3>1, <3>2 DEF CalmAt
      <4>2. \A s \in mutexes'[p] : \E b \in Boards : Home[b] = s /\ Known(p, b)
          BY <2>0, <3>1, <3>2 DEF CalmAt
      <4> QED
          BY <2>0, <3>1, <3>2, <4>1, <4>2 DEF CalmAt, KnownBelow, Known
    <3> QED
        BY <1>0, <2>0, <3>1, <3>2, CalmOthers
  <2> QED
      BY <2>1, <2>2
\* The board is back, and the second try goes up to it.
<1>6. ASSUME NEW p \in Procs, Waited(p) PROVE CalmInv'
  <2>0. /\ pc[p] = "wait" /\ h[p] \in Boards
        /\ UNCHANGED <<there, loaded, files, mutexes, uio_db, h, n>>
        /\ calm' = [calm EXCEPT ![p] = calm[p] /\ h[p] \in there]
      BY <1>6 DEF Waited, PlaceAt
  <2>1. \/ /\ try[p] = 1 /\ try' = [try EXCEPT ![p] = 2]
           /\ pc' = [pc EXCEPT ![p] = "test"] /\ i' = [i EXCEPT ![p] = 0]
        \/ try[p] # 1 /\ pc' = [pc EXCEPT ![p] = "enter"] /\ UNCHANGED <<i, try>>
      BY <1>0, <1>6 DEF Waited, Opens, Tries
  <2>2. calm' \in [Procs -> BOOLEAN] /\ try' \in [Procs -> 1 .. 2] /\ \A q \in Procs : calm'[q] => calm[q]
      BY <1>0, <2>0, <2>1
  <2>3. ASSUME CalmAt(p), calm'[p] PROVE CalmAt(p)'
    <3>1. /\ try' = [try EXCEPT ![p] = 2]
          /\ pc' = [pc EXCEPT ![p] = "test"] /\ i' = [i EXCEPT ![p] = 0]
        BY <2>0, <2>1, <2>3 DEF CalmAt
    <3>2. h[p] \in there
        BY <1>0, <2>0, <2>3
    <3>3. there = Boards
      <4>1. there = Boards \/ there \union {h[p]} = Boards
          BY <2>3 DEF CalmAt
      <4> QED
        <5>1. Boards \subseteq there /\ there \subseteq Boards
            BY <3>2, <4>1
        <5> QED
            BY <5>1
    <3> QED
        BY <2>0, <2>3, <3>1, <3>3 DEF CalmAt, KnownBelow, Known
  <2> QED
      BY <2>0, <2>1, <2>2, <2>3, CalmOthers
\* The board that is entered was not in the table: one more slot is behind.
<1>7. ASSUME NEW p \in Procs, Enter(p) PROVE CalmInv'
  <2>0. /\ pc[p] = "enter" /\ h[p] \in Boards /\ n[p] < Searches
        /\ UNCHANGED <<there, loaded, h, calm>>
      BY <1>7 DEF Enter, PlaceAt, Searching
  <2>1. CASE h[p] \in files[p]
    <3>1. /\ uio_db' = [uio_db EXCEPT ![p] =
                           [d \in Dips |-> IF d = Dip[h[p]] THEN h[p] ELSE uio_db[p][d]]]
          /\ NextSearch(p) /\ UNCHANGED <<files, mutexes>>
        BY <1>7, <2>1 DEF Enter, Number
    <3>2. ASSUME CalmAt(p) PROVE CalmAt(p)'
      <4>1. Known(p, h[p])' /\ \A b \in Boards : Known(p, b) => Known(p, b)'
          BY <2>0, <3>1 DEF Known, AllReachable, Dips
      <4>2. n[p] <= Home[h[p]]
          BY <2>0, <3>2, Counts DEF CalmAt, KnownBelow
      <4>3. \A b \in Boards : Home[b] < n[p] + 1 => Known(p, b)'
        <5> SUFFICES ASSUME NEW b \in Boards, Home[b] < n[p] + 1 PROVE Known(p, b)'
            OBVIOUS
        <5>1. Home[b] < Home[h[p]] \/ Home[b] = Home[h[p]]
          <6>1. n[p] \in Nat /\ Home[h[p]] \in Nat /\ Home[b] \in Nat
              BY <2>0, Counts
          <6> HIDE OpenAssumption DEF Typed, Placed
          <6> QED
              BY <4>2, <6>1
        <5>2. Home[b] < Home[h[p]] => Known(p, b)
            BY <2>0, <3>2 DEF CalmAt, KnownBelow
        <5> QED
            BY <2>0, <4>1, <5>1, <5>2
      <4>4. \A s \in mutexes'[p] : \E b \in Boards : Home[b] = s /\ Known(p, b)'
          BY <2>0, <3>1, <3>2, <4>1 DEF CalmAt
      <4>5. \/ pc'[p] = "test" /\ i'[p] = 0 /\ try'[p] = 1
            \/ pc'[p] = "done" /\ n'[p] = Searches
          BY <1>0, <2>0, <3>1, NextSearchCalm
      <4>6. n'[p] = n[p] + 1 /\ \A q \in Procs \ {p} : pc'[q] = pc[q]
          BY <1>0, <2>0, <3>1, NextSearchCalm
      <4> QED
          BY <2>0, <3>2, <4>3, <4>4, <4>5, <4>6 DEF CalmAt, KnownBelow
    <3> QED
        BY <1>0, <2>0, <3>1, <3>2, NextSearchCalm, CalmOthers
  <2>2. CASE h[p] \notin files[p]
    <3>1. pc' = [pc EXCEPT ![p] = "failed"] /\ try' = try
        BY <1>7, <2>2 DEF Enter
    <3>2. ~CalmAt(p)
        BY <2>0, <2>2 DEF CalmAt
    <3> QED
        BY <1>0, <2>0, <3>1, <3>2, CalmOthers
  <2> QED
      BY <2>1, <2>2
<1>8. ASSUME NEW p \in Procs, Exit(p) PROVE CalmInv'
  <2>1. pc[p] # "idle" /\ pc' = [pc EXCEPT ![p] = "idle"] /\ UNCHANGED <<calm, try>>
      BY <1>8 DEF Exit
  <2> QED
      BY <1>0, <2>1, CalmOthers
<1>9. ASSUME NEW b \in Boards, Reappear(b) PROVE CalmInv'
  <2> SUFFICES ASSUME NEW p \in Procs, CalmAt(p) PROVE CalmAt(p)'
      BY <1>0, <1>9 DEF CalmInv, Reappear
  <2> QED
      BY <1>9 DEF Reappear, CalmAt, KnownBelow, Known
<1>10. ASSUME UNCHANGED vars PROVE CalmInv'
    BY <1>10 DEF vars, CalmInv, CalmAt, KnownBelow, Known
<1> QED
    BY <1>1, <1>2, <1>3, <1>4, <1>5, <1>6, <1>7, <1>8, <1>9, <1>10 DEF Next, Step

\* A program that is alone on the computer ends its search with every board
\* under its number, for any boards, firmware and earlier programs.  (The
\* second search of cusb_search finds the board that the first has loaded, and
\* uio_init searches as often as there can be boards.)
THEOREM AllBoardsFound == ASSUME AllReachable PROVE Spec => []FindsAll
<1>1. Inv /\ CalmInv => FindsAll
  <2> SUFFICES ASSUME Inv, CalmInv, NEW p \in Procs, pc[p] \in {"done", "failed"}, calm[p],
                      NEW b \in Boards
               PROVE  Known(p, b)
      BY DEF FindsAll, Known
  <2>1. CalmAt(p)
      BY DEF CalmInv
  <2>2. n[p] = Searches /\ KnownBelow(p, n[p])
      BY <2>1 DEF CalmAt
  <2>3. Home[b] < Searches
      BY OpenAssumption DEF AllReachable
  <2> QED
      BY <2>2, <2>3 DEF KnownBelow
<1>2. Inv /\ CalmInv /\ [Next]_vars => CalmInv'
    BY CalmStep DEF Inv
<1> QED
    BY <1>1, <1>2, Invariant, CalmInit, PTL DEF Spec
=============================================================================
