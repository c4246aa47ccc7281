------------------------- MODULE PulserServerProofs -------------------------
(***************************************************************************)
(* Theorems about PulserServer for every set of parameters, edits, repeat  *)
(* counts and messages: types, and the three promises of a start, for any  *)
(* clients as long as one alone drives the pulser, while the others stop   *)
(* it and ask whether it runs.                                             *)
(*                                                                         *)
(* And, from Signs on, about Tokens, with which compuPULSER and the others *)
(* cut a message: for any threads and messages of any length the commands  *)
(* and parameters are the longest parts without delimiters.                *)
(***************************************************************************)
EXTENDS PulserServer, Tokens, FiniteSetTheorems, SequenceTheorems, WellFoundedInduction, TLAPS

\* The parts of TypeOK that most steps change.
PlaceOK ==
    /\ pc \in [Clients -> Pcs] /\ step \in [Clients -> 0 .. 2]
    /\ \A t \in Clients : pc[t] \notin Stopping \union Loading => step[t] = 0
BurstOK ==
    /\ busy \in BOOLEAN /\ took \in [Clients -> Contents]
    /\ disturbed \subseteq Clients /\ spoilt \in BOOLEAN

LEMMA TypeParts == TypeOK => PlaceOK /\ BurstOK
BY DEF TypeOK, PlaceOK, BurstOK

LEMMA FreshType == \A b \in {"cleared", "zero", "torn"} \union Params : Fresh(b) \in Contents
BY DEF Fresh, Contents

LEMMA TypeInit == Init => TypeOK
<1> SUFFICES ASSUME Init PROVE TypeOK
    OBVIOUS
<1>1. databuf \in Contents
    BY InitialAssumption, FreshType DEF Init, Made
<1>2. board \in Boards
    BY InitialAssumption, FreshType DEF Init, Boards
<1>3. took \in [Clients -> Contents]
    BY FreshType DEF Init
<1>4. msg \in [Clients -> Seq(Commands)]
    BY DEF Init
<1>5. pc \in [Clients -> Pcs] /\ made \in [Clients -> Params] /\ step \in [Clients -> 0 .. 2]
    BY InitialAssumption DEF Init, Pcs
<1>6. stts \in [Clients -> SUBSET {"start", "stop", "remake"}]
    BY DEF Init
<1> QED
    BY InitialAssumption, <1>1, <1>2, <1>3, <1>4, <1>5, <1>6 DEF Init, TypeOK

\* The commands that are left of a message.
LEMMA MessageFacts ==
    ASSUME TypeOK, NEW t \in Clients, msg[t] # << >>
    PROVE  Head(msg[t]) \in Commands /\ Tail(msg[t]) \in Seq(Commands)
BY DEF TypeOK

LEMMA ThenType ==
    ASSUME NEW r \in SUBSET {"start", "stop", "remake"}
    PROVE  \A t : Then(t, r) \in {"update", "start", "stop", "idle"}
BY DEF Then

LEMMA AfterType ==
    ASSUME TypeOK, NEW t \in Clients
    PROVE  /\ Then(t, stts[t]) \in Pcs /\ AfterUpdate(t) \in Pcs /\ AfterStart(t) \in Pcs
           /\ AfterStop(t) \in Pcs /\ AfterLoad(t) \in Pcs
<1>1. stts[t] \in SUBSET {"start", "stop", "remake"}
    BY DEF TypeOK
<1>2. AfterUpdate(t) \in Pcs
    BY <1>1, ThenType DEF AfterUpdate, Pcs, Stopping
<1>3. Then(t, stts[t]) \in Pcs /\ AfterStart(t) \in Pcs
    BY <1>1, ThenType DEF AfterStart, Pcs, Stopping
<1> QED
    BY <1>2, <1>3 DEF AfterStop, AfterLoad, Pcs, Stopping, Loading

LEMMA GotoType ==
    ASSUME PlaceOK, NEW t \in Clients, NEW p \in Pcs, Goto(t, p)
    PROVE  PlaceOK' /\ pc' = [pc EXCEPT ![t] = p] /\ step' = [step EXCEPT ![t] = 0]
BY DEF PlaceOK, Goto

LEMMA OnwardType ==
    ASSUME PlaceOK, NEW t \in Clients, pc[t] \in Stopping \union Loading, step[t] \in {0, 1}, Onward(t)
    PROVE  PlaceOK' /\ pc' = pc /\ step' = [step EXCEPT ![t] = @ + 1]
BY DEF PlaceOK, Onward

LEMMA OutType ==
    ASSUME BurstOK, board \in Boards, NEW t \in Clients, NEW b \in Boards, Out(t, b)
    PROVE  BurstOK' /\ board' \in Boards
BY DEF BurstOK, Out, Crossed

\* The boards that a register write leaves.
LEMMA WrittenType ==
    ASSUME board \in Boards, loopn \in Counts
    PROVE  /\ [board EXCEPT !.running = FALSE] \in Boards /\ [board EXCEPT !.running = TRUE] \in Boards
           /\ [board EXCEPT !.mode = "data"] \in Boards /\ [board EXCEPT !.mode = "clear"] \in Boards
           /\ [board EXCEPT !.mode = "run"] \in Boards
           /\ [board EXCEPT !.count = loopn] \in Boards /\ [board EXCEPT !.atZero = TRUE] \in Boards
BY DEF Boards

LEMMA StoredType ==
    ASSUME TypeOK, NEW t \in Clients
    PROVE  /\ Stored(t) \subseteq Contents /\ AnyBoard(t) \subseteq Boards
           /\ \A cells \in Stored(t) : [board EXCEPT !.ram = cells, !.atZero = FALSE] \in Boards
<1>1. databuf \in Contents /\ took[t] \in Contents /\ board \in Boards /\ board.ram \in Contents
    BY DEF TypeOK, Boards
<1>2. Stored(t) \subseteq Contents
    BY <1>1, FreshType DEF Stored
<1>3. AnyBoard(t) \subseteq Boards
    BY <1>1, <1>2, FreshType DEF AnyBoard, Boards
<1>4. \A cells \in Stored(t) : [board EXCEPT !.ram = cells, !.atZero = FALSE] \in Boards
    BY <1>1, <1>2 DEF Boards
<1> QED
    BY <1>2, <1>3, <1>4

LEMMA TypeStep == TypeOK /\ [Next]_vars => TypeOK'
<1> SUFFICES ASSUME TypeOK, [Next]_vars PROVE TypeOK'
    OBVIOUS
<1>0. drivers' \subseteq Clients
  <2>1. ASSUME NEW t \in Clients, NEW m \in Msgs[t], Receive(t, m) PROVE drivers' \subseteq Clients
      BY <2>1 DEF Receive, TypeOK
  <2>2. CASE UNCHANGED drivers
      BY <2>2 DEF TypeOK
  <2> QED
      BY <2>1, <2>2 DEF Next, Exec, BoardEnds, vars
<1>a. PlaceOK /\ BurstOK /\ board \in Boards /\ loopn \in Counts
    BY TypeParts DEF TypeOK
\* What a step that leaves pul1 and the cells alone has to show.
<1>b. ASSUME UNCHANGED <<pul1, databuf, msg, stts, made>>, old' = old, PlaceOK', BurstOK', board' \in Boards
      PROVE  TypeOK'
    BY <1>0, <1>b DEF TypeOK, PlaceOK, BurstOK, pul1
<1>c. UNCHANGED burst => BurstOK'
    BY <1>a DEF BurstOK, burst
<1>1. ASSUME NEW t \in Clients, NEW m \in Msgs[t], Receive(t, m) PROVE TypeOK'
  <2>1. PlaceOK' /\ BurstOK'
      BY <1>1, <1>a, <1>c, GotoType DEF Receive, Pcs
  <2> QED
      BY <1>0, <1>1, <2>1, MsgsAssumption DEF Receive, TypeOK, PlaceOK, BurstOK, pul1
<1>2. ASSUME NEW t \in Clients, Interpret(t) PROVE TypeOK'
  <2> DEFINE cmd == Head(msg[t])
  <2>1. cmd \in Commands /\ Tail(msg[t]) \in Seq(Commands)
      BY <1>2, MessageFacts DEF Interpret
  <2>2. /\ cmd.c = "set" => cmd.v \in Params
        /\ cmd.c = "edit" => cmd.v \in Edits
        /\ cmd.c = "setmode" => cmd.v \in {0, 1}
        /\ cmd.c = "start" => cmd.v \in Counts
      BY <2>1 DEF Commands
  <2>3. Requests(cmd.c) \subseteq {"start", "stop", "remake"}
      BY DEF Requests
  <2>4. params' \in Params /\ extmode' \in {0, 1} /\ modified' \in {0, 1} /\ loopn' \in Counts
      BY <1>2, <2>2 DEF Interpret, Marks, TypeOK
  <2>5. databuf' \in Contents
      BY <1>2, <2>2 DEF Interpret, Contents, Fresh, TypeOK
  <2>6. msg' \in [Clients -> Seq(Commands)]
      BY <1>2, <2>1 DEF Interpret, TypeOK
  <2>7. stts' \in [Clients -> SUBSET {"start", "stop", "remake"}]
      BY <1>2, <2>3 DEF Interpret, TypeOK
  <2>8. BurstOK' /\ board' \in Boards
      BY <1>2, <1>a, <1>c, OutType DEF Interpret
  <2>9. PlaceOK' /\ UNCHANGED <<old, made>>
      BY <1>2, <1>a DEF Interpret, PlaceOK
  <2> QED
      BY <1>0, <2>4, <2>5, <2>6, <2>7, <2>8, <2>9 DEF TypeOK, PlaceOK, BurstOK
<1>3. ASSUME NEW t \in Clients, Interpreted(t) \/ Compare(t) PROVE TypeOK'
  <2>1. /\ \E p \in Pcs : Goto(t, p)
        /\ UNCHANGED <<pul1, databuf, old, board, burst, msg, stts, made>>
      BY <1>3, AfterType DEF Interpreted, Compare, Pcs, Stopping
  <2> QED
      BY <2>1, <1>a, <1>b, <1>c, GotoType
<1>4. ASSUME NEW t \in Clients, StopNow(t) PROVE TypeOK'
  <2>1. UNCHANGED <<pul1, databuf, old, msg, stts, made>> /\ pc[t] \in Stopping \union Loading
      BY <1>4 DEF StopNow
  <2>2. \E b \in Boards : Out(t, b)
      BY <1>4, <1>a, WrittenType DEF StopNow
  <2>3. PlaceOK'
      BY <1>4, <1>a, <2>1, AfterType, GotoType, OnwardType DEF StopNow
  <2> QED
      BY <1>a, <1>b, <2>1, <2>2, <2>3, OutType
<1>5. ASSUME NEW t \in Clients, WriteData(t) PROVE TypeOK'
  <2>1. UNCHANGED <<pul1, databuf, old, msg, stts, made>>
      BY <1>5 DEF WriteData, AwaitBurst, OpenBurst, FlushBurst, SpillBurst, clients
  <2>2. PlaceOK'
    <3>1. CASE AwaitBurst(t) \/ OpenBurst(t)
        BY <1>a, <3>1, OnwardType DEF AwaitBurst, OpenBurst
    <3>2. CASE FlushBurst(t)
        BY <1>a, <3>2, AfterType, GotoType DEF FlushBurst
    <3>3. CASE SpillBurst(t)
        BY <1>a, <3>3 DEF SpillBurst, PlaceOK, clients
    <3> QED
        BY <1>5, <3>1, <3>2, <3>3 DEF WriteData
  <2>3. board' \in Boards
      BY <1>5, <1>a, StoredType DEF WriteData, AwaitBurst, OpenBurst, FlushBurst, SpillBurst
  <2>4. BurstOK'
    <3>1. databuf \in Contents /\ Fresh("zero") \in Contents
        BY FreshType DEF TypeOK
    <3>2. CASE AwaitBurst(t)
        BY <3>2, <1>c DEF AwaitBurst
    <3>3. CASE OpenBurst(t)
      <4>1. took' \in [Clients -> Contents]
          BY <1>a, <3>1, <3>3 DEF OpenBurst, BurstOK
      <4>2. disturbed' \subseteq Clients
          BY <1>a, <3>3 DEF OpenBurst, BurstOK
      <4> QED
          BY <1>a, <3>3, <4>1, <4>2 DEF OpenBurst, BurstOK
    <3>4. CASE FlushBurst(t)
      <4>1. took' \in [Clients -> Contents]
          BY <1>a, <3>1, <3>4 DEF FlushBurst, BurstOK
      <4>2. spoilt' \in BOOLEAN /\ busy' \in BOOLEAN
          BY <3>4 DEF FlushBurst
      <4>3. disturbed' \subseteq Clients
          BY <1>a, <3>4 DEF FlushBurst, BurstOK
      <4> QED
          BY <4>1, <4>2, <4>3 DEF BurstOK
    <3>5. CASE SpillBurst(t)
        BY <1>a, <3>5 DEF SpillBurst, BurstOK
    <3> QED
        BY <1>5, <3>2, <3>3, <3>4, <3>5 DEF WriteData
  <2> QED
      BY <1>b, <2>1, <2>2, <2>3, <2>4
<1>6. ASSUME NEW t \in Clients, ClearPulm(t) \/ MakeBegins(t) \/ MakeEnds(t) \/ Unmark(t) PROVE TypeOK'
  <2>1. Fresh("zero") \in Contents /\ Fresh("torn") \in Contents
      BY FreshType
  <2>2. Made(params) \in Contents /\ Made(made[t]) \in Contents
      BY FreshType DEF Made, TypeOK
  <2>3. databuf' \in Contents
      BY <1>6, <2>1, <2>2 DEF ClearPulm, MakeBegins, MakeEnds, Unmark, TypeOK
  <2>4. PlaceOK'
      BY <1>6, <1>a, GotoType DEF ClearPulm, MakeBegins, MakeEnds, Unmark, Pcs, Stopping
  <2>5. made' \in [Clients -> Params]
      BY <1>6 DEF ClearPulm, MakeBegins, MakeEnds, Unmark, TypeOK
  <2>6. /\ UNCHANGED <<params, extmode, loopn, old, board, burst, msg, stts>>
        /\ modified' \in {modified, 0}
      BY <1>6 DEF ClearPulm, MakeBegins, MakeEnds, Unmark, pul1
  <2> QED
      BY <1>0, <1>c, <2>3, <2>4, <2>5, <2>6 DEF TypeOK, PlaceOK, BurstOK
<1>7. ASSUME NEW t \in Clients, Copy(t) PROVE TypeOK'
  <2>1. PlaceOK' /\ BurstOK'
      BY <1>7, <1>a, <1>c, AfterType, GotoType DEF Copy
  <2> QED
      BY <1>0, <1>7, <2>1 DEF Copy, Snapshot, TypeOK, PlaceOK, BurstOK, pul1
<1>8. ASSUME NEW t \in Clients, Start(t) PROVE TypeOK'
  <2>1. UNCHANGED <<pul1, databuf, old, msg, stts, made>>
      BY <1>8 DEF Start, WriteCount, Rewind, SetMode, Go
  <2>2. \E b \in Boards : Out(t, b)
      BY <1>8, <1>a, WrittenType DEF Start, WriteCount, Rewind, SetMode, Go
  <2>3. \E p \in Pcs : Goto(t, p)
      BY <1>8, AfterType DEF Start, WriteCount, Rewind, SetMode, Go, Pcs, Stopping
  <2> QED
      BY <1>a, <1>b, <2>1, <2>2, <2>3, OutType, GotoType
<1>9. ASSUME BoardEnds PROVE TypeOK'
    BY <1>9, <1>a, <1>b, <1>c, WrittenType DEF BoardEnds, clients, PlaceOK
<1>10. ASSUME UNCHANGED vars PROVE TypeOK'
    BY <1>10, <1>a, <1>b, <1>c DEF vars, clients, PlaceOK
<1> QED
    BY <1>1, <1>2, <1>3, <1>4, <1>5, <1>6, <1>7, <1>8, <1>9, <1>10 DEF Next, Exec, Update

\* Every variable keeps its range, whatever the clients interleave.
THEOREM TypeCorrect == Spec => []TypeOK
<1> QED
    BY TypeInit, TypeStep, PTL DEF Spec

-----------------------------------------------------------------------------
\* Client d drives the pulser; the others have only stopped it or asked
\* whether it runs.

\* While pulseUpdate makes and loads the memory, between these places, pul1
\* and its copy say nothing about it.
InUpdate == {"make", "ready", "unmark", "ustop", "uram", "copy"}

OthersOnlyStop(d) ==
    \A t \in Clients \ {d} :
        /\ pc[t] \in {"idle", "compu", "stop"}
        /\ stts[t] \subseteq {"stop"}
        /\ \A i \in 1 .. Len(msg[t]) : msg[t][i].c \in {"stop", "isrun"}

\* The memory of the board has been loaded with these cells, for all that the
\* writers of its last burst know.
Holds(cells) == spoilt \/ board.ram = cells

\* What d's place in pulseUpdate and PULGEN::start says of the memories ...
CellsPlace(d) ==
    /\ pc[d] \in InUpdate \union {"zero"} => extmode = 0
    /\ pc[d] \in {"xstop", "xram"} => extmode = 1
    /\ pc[d] = "ready" => made[d] = params
    /\ pc[d] \in {"unmark", "ustop", "uram", "copy"} => databuf = Made(params)
    /\ pc[d] \in {"ustop", "uram", "copy"} => modified = 0
    /\ pc[d] = "copy" => Holds(Made(params))
    /\ pc[d] \in {"start", "count", "halt", "rewind", "mode", "go"} => Holds(Wanted)
    /\ pc[d] = "compu" /\ "start" \in stts[d] => "remake" \in stts[d]

\* ... of the board's registers ...
RegisterPlace(d) ==
    /\ pc[d] \in {"xstop", "ustop"} /\ step[d] # 0 => ~board.running
    /\ pc[d] \in Loading => ~board.running
    /\ pc[d] \in {"halt", "rewind", "mode", "go"} => board.count = loopn
    /\ pc[d] \in {"mode", "go"} => board.atZero
    /\ pc[d] = "go" => d \in disturbed \/ board.mode = "run"

\* ... and of the burst, which is open only while d stores.
BurstPlace(d) ==
    /\ busy <=> InBurst(d)
    /\ InBurst(d) => took[d] = databuf

\* The copy is always of a standard-mode state without edits, and as long as
\* no edit has been marked since, memory and board hold what it describes.
CopyTells(d) ==
    old # NoCopy =>
        /\ old.extmode = 0 /\ old.modified = 0
        /\ modified = 0 /\ pc[d] \notin InUpdate =>
              databuf = Made(old.params) /\ Holds(Made(old.params))

DriverPlace(d) == CellsPlace(d) /\ RegisterPlace(d) /\ BurstPlace(d)

DriverInv(d) == TypeOK /\ OthersOnlyStop(d) /\ DriverPlace(d) /\ CopyTells(d)

LEMMA DriverInit == ASSUME NEW d \in Clients PROVE Init => DriverInv(d)
<1> SUFFICES ASSUME Init PROVE DriverInv(d)
    OBVIOUS
<1>1. pc[d] = "idle" /\ ~busy /\ old = NoCopy
    BY DEF Init
<1>2. CellsPlace(d) /\ RegisterPlace(d) /\ CopyTells(d)
    BY <1>1 DEF CellsPlace, RegisterPlace, Loading, CopyTells, InUpdate
<1>3. ~InBurst(d)
    BY <1>1 DEF InBurst, Loading
<1>4. OthersOnlyStop(d)
  <2>1. \A t \in Clients : pc[t] = "idle" /\ stts[t] = {} /\ msg[t] = << >>
      BY DEF Init
  <2>2. 1 .. Len(<< >>) = {}
      OBVIOUS
  <2>3. \A t \in Clients : 1 .. Len(msg[t]) = {}
      BY <2>1, <2>2
  <2> QED
      BY <2>1, <2>3 DEF OthersOnlyStop
<1> QED
    BY <1>1, <1>2, <1>3, <1>4, TypeInit DEF DriverInv, DriverPlace, BurstPlace

\* A write of another client than d leaves memory, counter and address, does
\* not start the board, and disturbs d's burst, or its start.
LEMMA OtherWrites ==
    ASSUME NEW d \in Clients, NEW t \in Clients \ {d}, board \in Boards, NEW b,
           b \in {board, [board EXCEPT !.running = FALSE], [board EXCEPT !.mode = "data"],
                  [board EXCEPT !.mode = "clear"]},
           Out(t, b)
    PROVE  /\ UNCHANGED <<busy, took, spoilt>>
           /\ board'.ram = board.ram /\ board'.count = board.count /\ board'.atZero = board.atZero
           /\ board'.running => board.running
           /\ d \in disturbed => d \in disturbed'
           /\ pc[d] = "go" => d \in disturbed'
<1>1. UNCHANGED <<busy, took, spoilt>> /\ board' \in {board, b}
    BY DEF Out
<1>2. /\ board'.ram = board.ram /\ board'.count = board.count /\ board'.atZero = board.atZero
      /\ board'.running => board.running
    BY <1>1 DEF Boards
<1>3. (d \in disturbed => d \in disturbed') /\ (pc[d] = "go" => d \in disturbed')
    BY DEF Out, Crossed
<1> QED
    BY <1>1, <1>2, <1>3

\* Steps of the others: only a stop and the reset of the status reach the board.
LEMMA OtherStep ==
    ASSUME NEW d \in Clients, Drives(d)', DriverInv(d), NEW t \in Clients \ {d},
           Exec(t) \/ \E m \in Msgs[t] : Receive(t, m)
    PROVE  OthersOnlyStop(d)' /\ DriverPlace(d)' /\ CopyTells(d)'
<1>a. /\ TypeOK /\ pc[t] \in {"idle", "compu", "stop"} /\ stts[t] \subseteq {"stop"}
      /\ OthersOnlyStop(d) /\ DriverPlace(d) /\ CopyTells(d)
    BY DEF DriverInv, OthersOnlyStop
<1>b. /\ pc \in [Clients -> Pcs] /\ msg \in [Clients -> Seq(Commands)] /\ step \in [Clients -> 0 .. 2]
      /\ stts \in [Clients -> SUBSET {"start", "stop", "remake"}] /\ board \in Boards
    BY <1>a DEF TypeOK
\* What is enough for d's part of the invariant.
<1>c. ASSUME UNCHANGED <<pul1, databuf, old, made>>, UNCHANGED <<busy, took, spoilt>>,
             board'.ram = board.ram, board'.count = board.count, board'.atZero = board.atZero,
             board'.running => board.running, d \in disturbed => d \in disturbed',
             pc[d] = "go" /\ board'.mode # board.mode => d \in disturbed',
             pc'[d] = pc[d], step'[d] = step[d], stts'[d] = stts[d]
      PROVE  DriverPlace(d)' /\ CopyTells(d)'
  <2>1. UNCHANGED <<params, extmode, modified, loopn, databuf, old, made, busy, took, spoilt>>
      BY <1>c DEF pul1
  <2>2. CopyTells(d)'
      BY <1>a, <1>c, <2>1 DEF CopyTells, InUpdate, Made, Fresh, Holds
  <2>3. CellsPlace(d)'
      BY <1>a, <1>c, <2>1 DEF DriverPlace, CellsPlace, Holds, Wanted, InUpdate, Made, Fresh
  <2>4. RegisterPlace(d)'
      BY <1>a, <1>c, <2>1 DEF DriverPlace, RegisterPlace, Loading
  <2>5. BurstPlace(d)'
      BY <1>a, <1>c, <2>1 DEF DriverPlace, BurstPlace, InBurst, Loading
  <2> QED
      BY <2>2, <2>3, <2>4, <2>5 DEF DriverPlace
<1>1. CASE \E m \in Msgs[t] : Receive(t, m)
  <2>1. PICK m \in Msgs[t] : Receive(t, m)
      BY <1>1
  <2>2. m \in Seq(Commands) /\ \A i \in 1 .. Len(m) : m[i].c \in {"stop", "isrun"}
      BY <2>1, MsgsAssumption DEF Receive, Drives
  <2>3. OthersOnlyStop(d)'
      BY <1>a, <1>b, <2>1, <2>2 DEF Receive, Goto, OthersOnlyStop
  <2>4. UNCHANGED <<pul1, databuf, old, made, board, busy, took, disturbed, spoilt>>
      BY <2>1 DEF Receive, burst
  <2>5. pc'[d] = pc[d] /\ step'[d] = step[d] /\ stts'[d] = stts[d]
      BY <1>b, <2>1 DEF Receive, Goto
  <2> QED
      BY <1>c, <2>3, <2>4, <2>5
<1>2. CASE Interpret(t)
  <2>0. msg[t] \in Seq(Commands) /\ msg[t] # << >> /\ \A i \in 1 .. Len(msg[t]) : msg[t][i].c \in {"stop", "isrun"}
      BY <1>a, <1>b, <1>2 DEF Interpret, OthersOnlyStop
  <2>1. Head(msg[t]).c \in {"stop", "isrun"}
      BY <2>0
  <2>2. /\ UNCHANGED <<pul1, databuf, old, pc, step, made>>
        /\ stts' = [stts EXCEPT ![t] = @ \union Requests(Head(msg[t]).c)]
        /\ Requests(Head(msg[t]).c) \subseteq {"stop"}
        /\ msg' = [msg EXCEPT ![t] = Tail(@)]
      BY <1>2, <2>1 DEF Interpret, Requests, Marks, pul1
  <2>3. \A i \in 1 .. Len(Tail(msg[t])) : Tail(msg[t])[i].c \in {"stop", "isrun"}
      BY <2>0
  <2>4. OthersOnlyStop(d)'
      BY <1>a, <1>b, <2>2, <2>3 DEF OthersOnlyStop
  <2>5. Out(t, board) \/ UNCHANGED <<board, burst>>
      BY <1>2 DEF Interpret
  <2>6. /\ UNCHANGED <<busy, took, spoilt>>
        /\ board'.ram = board.ram /\ board'.count = board.count /\ board'.atZero = board.atZero
        /\ board'.running => board.running
        /\ d \in disturbed => d \in disturbed'
        /\ pc[d] = "go" /\ board'.mode # board.mode => d \in disturbed'
      BY <1>b, <2>5, OtherWrites DEF burst
  <2> QED
      BY <1>b, <1>c, <2>2, <2>4, <2>6
<1>3. CASE Interpreted(t)
  <2>1. Then(t, stts[t]) \in {"idle", "stop"}
      BY <1>a DEF Then
  <2>2. OthersOnlyStop(d)'
      BY <1>a, <1>b, <1>3, <2>1 DEF Interpreted, Goto, OthersOnlyStop
  <2>3. UNCHANGED <<pul1, databuf, old, made, board, busy, took, disturbed, spoilt>>
      BY <1>3 DEF Interpreted, burst
  <2>4. pc'[d] = pc[d] /\ step'[d] = step[d] /\ stts'[d] = stts[d]
      BY <1>b, <1>3 DEF Interpreted, Goto
  <2> QED
      BY <1>c, <2>2, <2>3, <2>4
<1>4. CASE StopNow(t)
  <2>1. pc[t] = "stop" /\ AfterStop(t) = "idle"
      BY <1>a, <1>4 DEF StopNow, Stopping, AfterStop
  <2>2. /\ UNCHANGED <<pul1, databuf, old, msg, stts, made>>
        /\ Onward(t) \/ Goto(t, "idle")
      BY <1>4, <2>1 DEF StopNow
  <2>3. /\ \A u \in Clients : pc'[u] \in {pc[u], "idle"}
        /\ pc'[d] = pc[d] /\ step'[d] = step[d]
      BY <1>b, <2>2 DEF Onward, Goto
  <2>4. OthersOnlyStop(d)'
      BY <1>a, <1>b, <2>2, <2>3 DEF OthersOnlyStop
  <2>5. PICK b \in {board, [board EXCEPT !.running = FALSE], [board EXCEPT !.mode = "data"],
                    [board EXCEPT !.mode = "clear"]} : Out(t, b)
      BY <1>4 DEF StopNow
  <2>6. /\ UNCHANGED <<busy, took, spoilt>>
        /\ board'.ram = board.ram /\ board'.count = board.count /\ board'.atZero = board.atZero
        /\ board'.running => board.running
        /\ d \in disturbed => d \in disturbed'
        /\ pc[d] = "go" => d \in disturbed'
      BY <1>b, <2>5, OtherWrites
  <2> QED
      BY <1>b, <1>c, <2>2, <2>3, <2>4, <2>6
<1>5. ~Update(t) /\ ~Start(t)
    BY <1>a DEF Update, Compare, ClearPulm, MakeBegins, MakeEnds, Unmark, Copy, WriteData, AwaitBurst, OpenBurst,
                FlushBurst, SpillBurst, InBurst, Loading, Start, WriteCount, Rewind, SetMode, Go
<1> QED
    BY <1>1, <1>2, <1>3, <1>4, <1>5 DEF Exec

\* Steps of d leave the others where they are.
LEMMA OthersStay ==
    ASSUME NEW d \in Clients, DriverInv(d), Exec(d) \/ \E m \in Msgs[d] : Receive(d, m)
    PROVE  OthersOnlyStop(d)'
<1>1. /\ pc \in [Clients -> Pcs] /\ msg \in [Clients -> Seq(Commands)]
      /\ stts \in [Clients -> SUBSET {"start", "stop", "remake"}] /\ OthersOnlyStop(d)
    BY DEF DriverInv, TypeOK
<1> SUFFICES \A t \in Clients \ {d} : pc'[t] = pc[t] /\ msg'[t] = msg[t] /\ stts'[t] = stts[t]
    BY <1>1 DEF OthersOnlyStop
<1>2. CASE \E m \in Msgs[d] : Receive(d, m)
    BY <1>1, <1>2 DEF Receive, Goto
<1>3. CASE Interpret(d) \/ Interpreted(d) \/ StopNow(d)
    BY <1>1, <1>3 DEF Interpret, Interpreted, StopNow, Goto, Onward
<1>4. CASE Compare(d) \/ ClearPulm(d) \/ MakeBegins(d) \/ MakeEnds(d) \/ Unmark(d) \/ Copy(d)
    BY <1>1, <1>4 DEF Compare, ClearPulm, MakeBegins, MakeEnds, Unmark, Copy, Goto
<1>5. CASE WriteData(d)
    BY <1>1, <1>5 DEF WriteData, AwaitBurst, OpenBurst, FlushBurst, SpillBurst, Goto, Onward, clients
<1>6. CASE Start(d)
    BY <1>1, <1>6 DEF Start, WriteCount, Rewind, SetMode, Go, Goto
<1> QED
    BY <1>2, <1>3, <1>4, <1>5, <1>6 DEF Exec, Update

\* A copy that equals pul1 is a copy, and tells its fields.
LEMMA SnapshotTells ==
    Snapshot = old => old # NoCopy /\ old.params = params /\ old.extmode = extmode /\ old.modified = modified
<1>1. Snapshot # NoCopy
  <2>1. "extmode" \in DOMAIN Snapshot /\ "extmode" \notin DOMAIN NoCopy
      BY DEF Snapshot, NoCopy
  <2> QED
      BY <2>1
<1> QED
    BY <1>1 DEF Snapshot

\* At places where d is not inside an update, a load or a start, it knows only
\* that no burst is open.
Free == {"idle", "compu", "update", "stop"}

LEMMA FreePlace ==
    ASSUME NEW d \in Clients, pc'[d] \in Free, ~busy', pc'[d] = "compu" => ("start" \in stts'[d] => "remake" \in stts'[d])
    PROVE  DriverPlace(d)'
BY DEF Free, DriverPlace, CellsPlace, RegisterPlace, BurstPlace, InBurst, Loading, InUpdate

\* d is in a burst or none is open.
LEMMA NotBusy ==
    ASSUME NEW d \in Clients, DriverInv(d), ~InBurst(d)
    PROVE  ~busy
BY DEF DriverInv, DriverPlace, BurstPlace

LEMMA DriverReceives ==
    ASSUME NEW d \in Clients, DriverInv(d), NEW m \in Msgs[d], Receive(d, m)
    PROVE  DriverPlace(d)' /\ CopyTells(d)'
<1>1. /\ pc \in [Clients -> Pcs] /\ stts \in [Clients -> SUBSET {"start", "stop", "remake"}]
      /\ pc[d] = "idle" /\ CopyTells(d)
    BY DEF DriverInv, TypeOK, Receive
<1>2. pc'[d] = "compu" /\ stts'[d] = {}
    BY <1>1 DEF Receive, Goto
<1>3. UNCHANGED <<params, modified, databuf, old, board, busy, spoilt>>
    BY DEF Receive, pul1, burst
<1>4. ~busy'
    BY <1>1, <1>3, NotBusy DEF InBurst, Loading
<1>5. DriverPlace(d)'
    BY <1>2, <1>4, FreePlace DEF Free
<1>6. CopyTells(d)'
    BY <1>1, <1>2, <1>3 DEF CopyTells, InUpdate, Holds, Made, Fresh
<1> QED
    BY <1>5, <1>6

LEMMA DriverInterprets ==
    ASSUME NEW d \in Clients, DriverInv(d), Interpret(d)
    PROVE  DriverPlace(d)' /\ CopyTells(d)'
<1> DEFINE cmd == Head(msg[d])
<1>1. /\ stts \in [Clients -> SUBSET {"start", "stop", "remake"}]
      /\ pc[d] = "compu" /\ pc' = pc /\ DriverPlace(d) /\ CopyTells(d)
    BY DEF DriverInv, TypeOK, Interpret
<1>2. stts'[d] = stts[d] \union Requests(cmd.c)
    BY <1>1 DEF Interpret
<1>3. "start" \in Requests(cmd.c) => "remake" \in Requests(cmd.c)
    BY DEF Requests
<1>4. UNCHANGED <<old, board, busy, spoilt>>
    BY DEF Interpret, Out, burst
<1>5. ~busy'
    BY <1>1, <1>4, NotBusy DEF InBurst, Loading
<1>6. DriverPlace(d)'
    BY <1>1, <1>2, <1>3, <1>5, FreePlace DEF Free, DriverPlace, CellsPlace
<1>7. modified' = 0 => modified = 0 /\ databuf' = databuf
    BY DEF Interpret, Marks
<1>8. CopyTells(d)'
    BY <1>1, <1>4, <1>7 DEF CopyTells, InUpdate, Holds, Made, Fresh
<1> QED
    BY <1>6, <1>8

\* Interpreted, Compare and the ends of pulseUpdate: where d goes next.
LEMMA DriverGoesOn ==
    ASSUME NEW d \in Clients, DriverInv(d)
    PROVE  /\ Then(d, stts[d]) \in {"update", "start", "stop", "idle"}
           /\ pc[d] = "compu" => Then(d, stts[d]) # "start"
           /\ AfterUpdate(d) \in {"start", "stop", "idle"}
           /\ AfterStart(d) \in {"stop", "idle"}
<1>1. stts[d] \in SUBSET {"start", "stop", "remake"} /\ CellsPlace(d)
    BY DEF DriverInv, DriverPlace, TypeOK
<1>2. Then(d, stts[d]) \in {"update", "start", "stop", "idle"}
    BY <1>1 DEF Then
<1>3. pc[d] = "compu" => Then(d, stts[d]) # "start"
    BY <1>1 DEF Then, CellsPlace
<1>4. AfterUpdate(d) \in {"start", "stop", "idle"}
    BY <1>1 DEF AfterUpdate, Then
<1>5. AfterStart(d) \in {"stop", "idle"}
    BY <1>1 DEF AfterStart, Then
<1> QED
    BY <1>2, <1>3, <1>4, <1>5

\* Steps of pulseUpdate that write no register and open no burst.
LEMMA DriverUpdates ==
    ASSUME NEW d \in Clients, DriverInv(d),
           Interpreted(d) \/ Compare(d) \/ ClearPulm(d) \/ MakeBegins(d) \/ MakeEnds(d) \/ Unmark(d) \/ Copy(d)
    PROVE  DriverPlace(d)' /\ CopyTells(d)'
<1>a. /\ CellsPlace(d) /\ CopyTells(d) /\ pc \in [Clients -> Pcs] /\ step \in [Clients -> 0 .. 2]
      /\ extmode \in {0, 1} /\ made \in [Clients -> Params]
    BY DEF DriverInv, DriverPlace, TypeOK
<1>b. /\ pc[d] \notin Loading /\ step'[d] = 0
      /\ UNCHANGED <<board, busy, took, disturbed, spoilt>>
    BY <1>a DEF Interpreted, Compare, ClearPulm, MakeBegins, MakeEnds, Unmark, Copy, Goto, burst, Loading
\* What is left to show: the memories.
<1>c. ASSUME CellsPlace(d)', CopyTells(d)',
             pc'[d] \in Free \union {"xstop", "zero", "make", "ready", "unmark", "ustop", "copy", "start"}
      PROVE  DriverPlace(d)' /\ CopyTells(d)'
  <2>1. ~busy'
      BY <1>b, NotBusy DEF InBurst
  <2>2. BurstPlace(d)' /\ RegisterPlace(d)'
      BY <1>b, <1>c, <2>1 DEF Free, BurstPlace, RegisterPlace, InBurst, Loading
  <2> QED
      BY <1>c, <2>2 DEF DriverPlace
<1>1. CASE Interpreted(d)
  <2>1. UNCHANGED <<pul1, databuf, old>> /\ pc[d] = "compu" /\ pc'[d] \in {"update", "stop", "idle"}
      BY <1>a, <1>1, DriverGoesOn DEF Interpreted, Goto
  <2>2. CellsPlace(d)'
      BY <2>1 DEF CellsPlace, InUpdate
  <2>3. CopyTells(d)'
      BY <1>a, <1>b, <2>1 DEF CopyTells, InUpdate, pul1, Holds, Made, Fresh
  <2> QED
      BY <1>c, <2>1, <2>2, <2>3 DEF Free
<1>2. CASE Compare(d)
  <2>1. UNCHANGED <<params, extmode, modified, databuf, old>> /\ pc[d] = "update"
      BY <1>2 DEF Compare, pul1
  <2>2. CASE extmode = 1
    <3>1. pc'[d] = "xstop"
        BY <1>a, <1>2, <2>2 DEF Compare, Goto
    <3>2. CellsPlace(d)'
        BY <2>1, <2>2, <3>1 DEF CellsPlace, InUpdate
    <3>3. CopyTells(d)'
        BY <1>a, <1>b, <2>1, <3>1 DEF CopyTells, InUpdate, Holds, Made, Fresh
    <3> QED
        BY <1>c, <3>1, <3>2, <3>3
  <2>3. CASE extmode = 0 /\ Snapshot = old
    <3>1. pc'[d] \in {"start", "stop", "idle"}
        BY <1>a, <1>2, <2>3, DriverGoesOn DEF Compare, Goto
    <3>2. Holds(Made(params))
        BY <1>a, <2>1, <2>3, SnapshotTells DEF CopyTells, InUpdate
    <3>3. CellsPlace(d)'
        BY <1>b, <2>1, <2>3, <3>1, <3>2 DEF CellsPlace, InUpdate, Wanted, Made, Fresh, Holds
    <3>4. CopyTells(d)'
        BY <1>a, <1>b, <2>1, <3>1 DEF CopyTells, InUpdate, Holds, Made, Fresh
    <3> QED
        BY <1>c, <3>1, <3>3, <3>4 DEF Free
  <2>4. CASE extmode = 0 /\ Snapshot # old
    <3>1. pc'[d] = "zero"
        BY <1>a, <1>2, <2>4 DEF Compare, Goto
    <3>2. CellsPlace(d)'
        BY <2>1, <2>4, <3>1 DEF CellsPlace, InUpdate
    <3>3. CopyTells(d)'
        BY <1>a, <1>b, <2>1, <3>1 DEF CopyTells, InUpdate, Holds, Made, Fresh
    <3> QED
        BY <1>c, <3>1, <3>2, <3>3
  <2> QED
      BY <1>a, <2>2, <2>3, <2>4
<1>3. CASE ClearPulm(d) \/ MakeBegins(d)
  <2>1. /\ UNCHANGED <<params, extmode, old>> /\ pc[d] \in {"zero", "make"} /\ pc'[d] \in {"make", "ready"}
        /\ pc'[d] = "ready" => made'[d] = params
      BY <1>a, <1>3 DEF ClearPulm, MakeBegins, Goto, pul1
  <2>2. CellsPlace(d)'
      BY <1>a, <2>1 DEF CellsPlace, InUpdate
  <2>3. CopyTells(d)'
      BY <1>a, <2>1 DEF CopyTells, InUpdate
  <2> QED
      BY <1>c, <2>1, <2>2, <2>3
<1>4. CASE MakeEnds(d)
  <2>1. UNCHANGED <<params, extmode, old>> /\ pc[d] = "ready" /\ pc'[d] = "unmark"
      BY <1>a, <1>4 DEF MakeEnds, Goto, pul1
  <2>2. databuf' = Made(params)
      BY <1>a, <1>4, <2>1 DEF MakeEnds, CellsPlace
  <2>3. CellsPlace(d)'
      BY <1>a, <2>1, <2>2 DEF CellsPlace, InUpdate, Made, Fresh
  <2>4. CopyTells(d)'
      BY <1>a, <2>1 DEF CopyTells, InUpdate
  <2> QED
      BY <1>c, <2>1, <2>3, <2>4
<1>5. CASE Unmark(d)
  <2>1. /\ UNCHANGED <<params, extmode, databuf, old>> /\ modified' = 0
        /\ pc[d] = "unmark" /\ pc'[d] = "ustop"
      BY <1>a, <1>5 DEF Unmark, Goto
  <2>2. CellsPlace(d)'
      BY <1>a, <2>1 DEF CellsPlace, InUpdate, Made, Fresh
  <2>3. CopyTells(d)'
      BY <1>a, <2>1 DEF CopyTells, InUpdate
  <2> QED
      BY <1>c, <2>1, <2>2, <2>3
<1>6. CASE Copy(d)
  <2>1. /\ UNCHANGED <<params, extmode, modified, databuf>> /\ old' = Snapshot
        /\ pc[d] = "copy" /\ pc'[d] \in {"start", "stop", "idle"}
      BY <1>a, <1>6, DriverGoesOn DEF Copy, Goto, pul1
  <2>2. Holds(Made(params)) /\ databuf = Made(params) /\ extmode = 0 /\ modified = 0
      BY <1>a, <2>1 DEF CellsPlace, InUpdate
  <2>3. CellsPlace(d)'
      BY <1>b, <2>1, <2>2 DEF CellsPlace, InUpdate, Wanted, Made, Fresh, Holds
  <2>4. old'.params = params /\ old'.extmode = 0 /\ old'.modified = 0
      BY <2>1, <2>2 DEF Snapshot
  <2>5. CopyTells(d)'
      BY <1>b, <2>1, <2>2, <2>4 DEF CopyTells, Made, Fresh, Holds
  <2> QED
      BY <1>c, <2>1, <2>3, <2>5 DEF Free
<1> QED
    BY <1>1, <1>2, <1>3, <1>4, <1>5, <1>6

\* writeData: a burst that was not disturbed leaves on the board the cells of
\* databuf, which only d edits.
LEMMA DriverLoads ==
    ASSUME NEW d \in Clients, DriverInv(d), WriteData(d)
    PROVE  DriverPlace(d)' /\ CopyTells(d)'
<1>a. /\ CellsPlace(d) /\ RegisterPlace(d) /\ BurstPlace(d) /\ CopyTells(d) /\ pc \in [Clients -> Pcs]
      /\ step \in [Clients -> 0 .. 2] /\ took \in [Clients -> Contents] /\ board \in Boards
    BY DEF DriverInv, DriverPlace, TypeOK
<1>b. UNCHANGED <<params, extmode, modified, loopn, databuf, old, stts, made>> /\ pc[d] \in Loading
    BY DEF WriteData, AwaitBurst, OpenBurst, FlushBurst, SpillBurst, InBurst, pul1, clients
<1>c. ~SpillBurst(d)
    BY <1>a DEF SpillBurst, BurstPlace
<1>1. CASE AwaitBurst(d) \/ OpenBurst(d)
  <2>1. /\ UNCHANGED <<board, spoilt>> /\ pc' = pc /\ step'[d] = step[d] + 1 /\ step[d] \in {0, 1}
      BY <1>a, <1>1 DEF AwaitBurst, OpenBurst, Onward, burst
  <2>2. CASE AwaitBurst(d)
    <3>1. ~busy' /\ step'[d] = 1
        BY <1>a, <2>2 DEF AwaitBurst, Onward, burst
    <3> QED
        BY <1>a, <1>b, <2>1, <3>1
        DEF DriverPlace, CellsPlace, RegisterPlace, BurstPlace, InBurst, CopyTells, Holds, InUpdate, Loading,
            Wanted, Made, Fresh
  <2>3. CASE OpenBurst(d)
    <3>1. step'[d] = 2 /\ took'[d] = databuf /\ busy'
        BY <1>a, <2>3 DEF OpenBurst, Onward
    <3> QED
        BY <1>a, <1>b, <2>1, <3>1
        DEF DriverPlace, CellsPlace, RegisterPlace, BurstPlace, InBurst, CopyTells, Holds, InUpdate, Loading,
            Wanted, Made, Fresh
  <2> QED
      BY <1>1, <2>2, <2>3
<1>2. CASE SpillBurst(d) \/ FlushBurst(d)
  <2>1. took[d] = databuf
      BY <1>a, <1>2 DEF SpillBurst, FlushBurst, BurstPlace
  <2>2. spoilt' \/ board'.ram = databuf
    <3>1. CASE d \in disturbed
        BY <1>c, <1>2, <3>1 DEF FlushBurst
    <3>2. CASE d \notin disturbed
      <4>1. board' = [board EXCEPT !.ram = databuf, !.atZero = FALSE]
          BY <1>c, <1>2, <2>1, <3>2 DEF FlushBurst, Stored
      <4> QED
          BY <1>a, <4>1 DEF Boards
    <3> QED
        BY <3>1, <3>2
  <2>3. CASE FlushBurst(d)
    <3>1. ~busy' /\ pc'[d] = AfterLoad(d)
        BY <1>a, <2>3 DEF FlushBurst, Goto
    <3>2. pc[d] = "uram" => pc'[d] = "copy" /\ databuf = Made(params) /\ extmode = 0 /\ modified = 0
        BY <1>a, <3>1 DEF AfterLoad, CellsPlace, InUpdate
    <3>3. pc[d] = "xram" => pc'[d] \in {"start", "stop", "idle"} /\ extmode = 1
        BY <1>a, <3>1, DriverGoesOn DEF AfterLoad, CellsPlace
    <3>4. CASE pc[d] = "uram"
      <4>1. CellsPlace(d)'
          BY <1>a, <1>b, <2>2, <3>2, <3>4 DEF CellsPlace, Holds, InUpdate, Made, Fresh
      <4>2. RegisterPlace(d)' /\ BurstPlace(d)'
          BY <3>1, <3>2, <3>4 DEF RegisterPlace, BurstPlace, InBurst, Loading
      <4>3. CopyTells(d)'
          BY <1>a, <1>b, <3>2, <3>4 DEF CopyTells, InUpdate
      <4> QED
          BY <4>1, <4>2, <4>3 DEF DriverPlace
    <3>5. CASE pc[d] = "xram"
      <4>1. CellsPlace(d)'
          BY <1>a, <1>b, <2>2, <3>3, <3>5 DEF CellsPlace, Holds, Wanted, InUpdate
      <4>2. RegisterPlace(d)' /\ BurstPlace(d)'
          BY <3>1, <3>3, <3>5 DEF RegisterPlace, BurstPlace, InBurst, Loading
      <4>3. CopyTells(d)'
          BY <1>a, <1>b, <2>2, <3>3, <3>5 DEF CopyTells, InUpdate, Holds, Made, Fresh
      <4> QED
          BY <4>1, <4>2, <4>3 DEF DriverPlace
    <3> QED
        BY <1>b, <3>4, <3>5 DEF Loading
  <2> QED
      BY <1>2, <1>c, <2>3
<1> QED
    BY <1>1, <1>2 DEF WriteData

\* Register writes of d, which reach the board because no burst is open.
LEMMA DriverWrites ==
    ASSUME NEW d \in Clients, DriverInv(d), StopNow(d) \/ Start(d)
    PROVE  DriverPlace(d)' /\ CopyTells(d)'
<1>a. /\ CellsPlace(d) /\ RegisterPlace(d) /\ CopyTells(d) /\ pc \in [Clients -> Pcs]
      /\ step \in [Clients -> 0 .. 2] /\ board \in Boards
    BY DEF DriverInv, DriverPlace, TypeOK
<1>b. /\ UNCHANGED <<params, extmode, modified, loopn, databuf, old, stts, made>>
      /\ pc[d] \in Stopping \union {"count", "rewind", "mode", "go"}
    BY DEF StopNow, Start, WriteCount, Rewind, SetMode, Go, pul1
<1>c. ~busy
    BY <1>b, NotBusy DEF InBurst, Loading, Stopping
<1>d. UNCHANGED <<busy, took, spoilt>>
    BY DEF StopNow, Start, WriteCount, Rewind, SetMode, Go, Out
<1>e. ASSUME NEW b, Out(d, b) PROVE board' = b
    BY <1>c, <1>e DEF Out
\* What is left to show: the registers.
<1>f. ASSUME RegisterPlace(d)', board'.ram = board.ram,
             \/ pc'[d] = pc[d]
             \/ pc[d] = "xstop" /\ pc'[d] = "xram" /\ step'[d] = 0
             \/ pc[d] = "ustop" /\ pc'[d] = "uram" /\ step'[d] = 0
             \/ /\ pc[d] \in {"start", "count", "halt", "rewind", "mode"}
                /\ pc'[d] \in {"count", "halt", "rewind", "mode", "go"}
             \/ pc'[d] \in {"stop", "idle"} /\ pc[d] \in {"go", "stop"}
      PROVE  DriverPlace(d)' /\ CopyTells(d)'
  <2>1. CellsPlace(d)'
      BY <1>a, <1>b, <1>d, <1>f DEF CellsPlace, Holds, Wanted, InUpdate, Made, Fresh, Stopping
  <2>2. CopyTells(d)'
      BY <1>a, <1>b, <1>d, <1>f DEF CopyTells, Holds, InUpdate, Made, Fresh, Stopping
  <2>3. ~InBurst(d)'
      BY <1>b, <1>f DEF InBurst, Loading, Stopping
  <2>4. BurstPlace(d)'
      BY <1>c, <1>d, <2>3 DEF BurstPlace
  <2> QED
      BY <1>f, <2>1, <2>2, <2>4 DEF DriverPlace
<1>1. CASE StopNow(d)
  <2>1. pc[d] \in Stopping
      BY <1>1 DEF StopNow
  <2>2. CASE step[d] = 0
    <3>1. Out(d, [board EXCEPT !.running = FALSE]) /\ pc' = pc /\ step'[d] = 1
        BY <1>1, <1>a, <2>2 DEF StopNow, Onward
    <3>2. board'.running = FALSE /\ board'.ram = board.ram /\ board'.count = board.count
        BY <1>a, <1>e, <3>1 DEF Boards
    <3>3. RegisterPlace(d)'
        BY <1>a, <1>b, <2>1, <3>1, <3>2 DEF RegisterPlace, Stopping, Loading
    <3> QED
        BY <1>f, <3>1, <3>2, <3>3
  <2>3. CASE step[d] = 1
    <3>1. Out(d, [board EXCEPT !.mode = "data"]) /\ pc' = pc /\ step'[d] = 2
        BY <1>1, <1>a, <2>3 DEF StopNow, Onward
    <3>2. board'.running = board.running /\ board'.ram = board.ram /\ board'.count = board.count
        BY <1>a, <1>e, <3>1 DEF Boards
    <3>3. RegisterPlace(d)'
        BY <1>a, <1>b, <2>1, <2>3, <3>1, <3>2 DEF RegisterPlace, Stopping, Loading
    <3> QED
        BY <1>f, <3>1, <3>2, <3>3
  <2>4. CASE step[d] = 2
    <3>1. Out(d, [board EXCEPT !.mode = "clear"]) /\ pc'[d] = AfterStop(d) /\ step'[d] = 0
        BY <1>1, <1>a, <2>4 DEF StopNow, Goto
    <3>2. board'.running = board.running /\ board'.ram = board.ram /\ board'.count = board.count
        BY <1>a, <1>e, <3>1 DEF Boards
    <3>3. \/ pc[d] = "xstop" /\ pc'[d] = "xram"
          \/ pc[d] = "ustop" /\ pc'[d] = "uram"
          \/ pc[d] = "start" /\ pc'[d] = "count"
          \/ pc[d] = "halt" /\ pc'[d] = "rewind"
          \/ pc[d] = "stop" /\ pc'[d] = "idle"
        BY <2>1, <3>1 DEF AfterStop, Stopping
    <3>4. RegisterPlace(d)'
        BY <1>a, <1>b, <2>4, <3>1, <3>2, <3>3 DEF RegisterPlace, Loading
    <3> QED
        BY <1>f, <3>1, <3>2, <3>3, <3>4
  <2> QED
      BY <1>a, <2>2, <2>3, <2>4
<1>2. CASE WriteCount(d)
  <2>1. Out(d, [board EXCEPT !.count = loopn]) /\ pc[d] = "count" /\ pc'[d] = "halt"
      BY <1>2, <1>a DEF WriteCount, Goto
  <2>2. board'.count = loopn /\ board'.ram = board.ram
      BY <1>a, <1>e, <2>1 DEF Boards
  <2>3. RegisterPlace(d)'
      BY <1>b, <2>1, <2>2 DEF RegisterPlace, Loading
  <2> QED
      BY <1>f, <2>1, <2>2, <2>3
<1>3. CASE Rewind(d)
  <2>1. Out(d, [board EXCEPT !.atZero = TRUE]) /\ pc[d] = "rewind" /\ pc'[d] = "mode"
      BY <1>3, <1>a DEF Rewind, Goto
  <2>2. board'.count = board.count /\ board'.ram = board.ram /\ board'.atZero
      BY <1>a, <1>e, <2>1 DEF Boards
  <2>3. RegisterPlace(d)'
      BY <1>a, <1>b, <2>1, <2>2 DEF RegisterPlace, Loading
  <2> QED
      BY <1>f, <2>1, <2>2, <2>3
<1>4. CASE SetMode(d)
  <2>1. Out(d, [board EXCEPT !.mode = "run"]) /\ pc[d] = "mode" /\ pc'[d] = "go"
      BY <1>4, <1>a DEF SetMode, Goto
  <2>2. board'.count = board.count /\ board'.ram = board.ram /\ board'.atZero = board.atZero /\ board'.mode = "run"
      BY <1>a, <1>e, <2>1 DEF Boards
  <2>3. RegisterPlace(d)'
      BY <1>a, <1>b, <2>1, <2>2 DEF RegisterPlace, Loading
  <2> QED
      BY <1>f, <2>1, <2>2, <2>3
<1>5. CASE Go(d)
  <2>1. Out(d, [board EXCEPT !.running = TRUE]) /\ pc[d] = "go" /\ pc'[d] \in {"stop", "idle"}
      BY <1>5, <1>a, DriverGoesOn DEF Go, Goto
  <2>2. board'.ram = board.ram
      BY <1>a, <1>e, <2>1 DEF Boards
  <2>3. RegisterPlace(d)'
      <3>1. pc'[d] = "stop" => pc'[d] \notin {"xstop", "ustop"} \union Loading
          BY DEF Loading
      <3> QED
          BY <2>1, <3>1 DEF RegisterPlace, Loading
  <2> QED
      BY <1>f, <2>1, <2>2, <2>3
<1> QED
    BY <1>1, <1>2, <1>3, <1>4, <1>5 DEF Start

LEMMA DriverStep ==
    ASSUME NEW d \in Clients, Drives(d)', DriverInv(d), [Next]_vars
    PROVE  DriverInv(d)'
<1>1. TypeOK'
    BY TypeStep DEF DriverInv
<1>2. CASE \E t \in Clients \ {d} : Exec(t) \/ \E m \in Msgs[t] : Receive(t, m)
    BY <1>1, <1>2, OtherStep DEF DriverInv
<1>3. CASE \E m \in Msgs[d] : Receive(d, m)
    BY <1>1, <1>3, OthersStay, DriverReceives DEF DriverInv
<1>4. CASE Exec(d)
    BY <1>1, <1>4, OthersStay, DriverInterprets, DriverUpdates, DriverLoads, DriverWrites
    DEF DriverInv, Exec, Update
<1>5. CASE BoardEnds \/ UNCHANGED vars
  <2>1. /\ UNCHANGED <<params, extmode, modified, loopn, databuf, old, busy, took, disturbed, spoilt>>
        /\ UNCHANGED <<pc, msg, stts, step, made>>
      BY <1>5 DEF BoardEnds, vars, pul1, burst, clients
  <2>2. /\ board'.ram = board.ram /\ board'.count = board.count /\ board'.atZero = board.atZero
        /\ board'.mode = board.mode /\ (board'.running => board.running)
      <3>1. board \in Boards /\ board' \in {board, [board EXCEPT !.running = FALSE]}
          BY <1>5 DEF BoardEnds, vars, DriverInv, TypeOK
      <3> QED
          BY <3>1 DEF Boards
  <2>3. OthersOnlyStop(d)' /\ CopyTells(d)'
      BY <2>1, <2>2 DEF DriverInv, OthersOnlyStop, CopyTells, Holds, InUpdate, Made, Fresh
  <2>4. CellsPlace(d)' /\ RegisterPlace(d)' /\ BurstPlace(d)'
      BY <2>1, <2>2 DEF DriverInv, DriverPlace, CellsPlace, RegisterPlace, BurstPlace, InBurst, Loading, Holds,
                        Wanted, InUpdate, Made, Fresh
  <2> QED
      BY <1>1, <2>3, <2>4 DEF DriverInv, DriverPlace
<1> QED
    BY <1>2, <1>3, <1>4, <1>5 DEF Next

\* Who still drives alone has done so all the time.
LEMMA DroveBefore ==
    ASSUME NEW d \in Clients, Drives(d)', [Next]_vars PROVE Drives(d)
<1>1. ASSUME NEW t \in Clients, NEW m \in Msgs[t], Receive(t, m) PROVE drivers \subseteq drivers'
    BY <1>1 DEF Receive
<1>2. drivers \subseteq drivers'
    BY <1>1 DEF Next, Exec, BoardEnds, vars
<1> QED
    BY <1>2 DEF Drives

DrivenInv == \A d \in Clients : Drives(d) => DriverInv(d)

LEMMA DrivenAlways == Spec => [](TypeOK /\ DrivenInv)
<1>1. Init => TypeOK /\ DrivenInv
    BY TypeInit, DriverInit DEF DrivenInv
<1>2. TypeOK /\ DrivenInv /\ [Next]_vars => (TypeOK /\ DrivenInv)'
  <2>1. ASSUME DrivenInv, [Next]_vars, NEW d \in Clients, Drives(d)' PROVE DriverInv(d)'
      BY <2>1, DroveBefore, DriverStep DEF DrivenInv
  <2> QED
      BY <2>1, TypeStep DEF DrivenInv
<1> QED
    BY <1>1, <1>2, PTL DEF Spec

\* For any clients: an update of one who alone drives while others stop or ask,
\* and that the comparison skips, leaves on the board the pulses of the
\* parameters, unless another has written into the last burst.
THEOREM SkippedIsLoaded == Spec => SkipIsSafe
<1>1. ASSUME DrivenInv, NEW t \in Clients, Compare(t), extmode = 0, Snapshot = old, Drives(t)
      PROVE  spoilt \/ board.ram = Made(params)
  <2>1. pc[t] = "update" /\ CopyTells(t) /\ DriverPlace(t)
      BY <1>1 DEF DrivenInv, DriverInv, Compare
  <2> QED
      BY <1>1, <2>1, SnapshotTells DEF CopyTells, InUpdate, Holds
<1>2. DrivenInv /\ [Next]_vars =>
        [\A t \in Clients :
            Compare(t) /\ extmode = 0 /\ Snapshot = old /\ Drives(t)
                => spoilt \/ board.ram = Made(params)]_vars
    BY <1>1
<1> QED
    BY <1>2, DrivenAlways, PTL DEF Spec, SkipIsSafe

\* What a start finds, and that it reaches the board.
StartFinds(t) ==
    /\ board'.running /\ board.atZero /\ board.count = loopn
    /\ spoilt \/ board.ram = Wanted
    /\ t \in disturbed \/ board.mode = "run"

\* Every start of a client who alone drives runs the board from address 0, as
\* often as the last start command said, with the memory that the mode wants
\* unless the last burst was disturbed, and in the mode of a run unless another
\* wrote just then.
THEOREM StartedIsWanted == Spec => StartsWanted
<1>1. ASSUME DrivenInv, NEW t \in Clients, Go(t), Drives(t) PROVE StartFinds(t)
  <2>1. DriverInv(t) /\ pc[t] = "go"
      BY <1>1 DEF DrivenInv, Go
  <2>2. board'.running
    <3>1. ~busy /\ board \in Boards
        BY <2>1, NotBusy DEF InBurst, Loading, DriverInv, TypeOK
    <3> QED
        BY <1>1, <3>1 DEF Go, Out, Boards
  <2> QED
      BY <1>1, <2>1, <2>2 DEF DriverInv, DriverPlace, CellsPlace, RegisterPlace, Holds, StartFinds
<1>2. DrivenInv /\ [Next]_vars => [\A t \in Clients : Go(t) /\ Drives(t) => StartFinds(t)]_vars
    BY <1>1
<1>3. Spec => [][\A t \in Clients : Go(t) /\ Drives(t) => StartFinds(t)]_vars
    BY <1>2, DrivenAlways, PTL DEF Spec
<1> QED
    BY <1>3 DEF StartsWanted, StartFinds

\* As long as at most one client has driven, the memory of the board is written
\* only while the board is stopped, unless by a burst that is disturbed.
THEOREM LoadedWhenStopped == Spec => LoadsWhenStopped
<1>1. ASSUME NEW d \in Clients, DriverInv(d), NEW t \in Clients, Exec(t), board'.ram # board.ram
      PROVE  spoilt' \/ ~board.running
  <2>1. CASE FlushBurst(t) \/ SpillBurst(t)
    <3>1. pc[t] \in Loading
        BY <2>1 DEF FlushBurst, SpillBurst, InBurst
    <3>2. t = d
        BY <1>1, <3>1 DEF DriverInv, OthersOnlyStop, Loading
    <3> QED
        BY <1>1, <3>1, <3>2 DEF DriverInv, DriverPlace, RegisterPlace
  <2>2. CASE Interpret(t) \/ StopNow(t) \/ Start(t)
    <3>1. board \in Boards
        BY <1>1 DEF DriverInv, TypeOK
    <3>2. board'.ram = board.ram
        BY <2>2, <3>1 DEF Interpret, StopNow, Start, WriteCount, Rewind, SetMode, Go, Out, Boards
    <3> QED
        BY <1>1, <3>2
  <2>3. ~(Interpreted(t) \/ Compare(t) \/ ClearPulm(t) \/ MakeBegins(t) \/ MakeEnds(t) \/ Unmark(t) \/ Copy(t)
          \/ AwaitBurst(t) \/ OpenBurst(t))
      BY <1>1 DEF Interpreted, Compare, ClearPulm, MakeBegins, MakeEnds, Unmark, Copy, AwaitBurst, OpenBurst
  <2> QED
      BY <1>1, <2>1, <2>2, <2>3 DEF Exec, Update, WriteData
<1>2. ASSUME NEW t \in Clients, NEW m \in Msgs[t], Receive(t, m) PROVE board' = board
    BY <1>2 DEF Receive
<1>3. ASSUME BoardEnds, board \in Boards PROVE board'.ram = board.ram
    BY <1>3 DEF BoardEnds, Boards
<1>4. ASSUME TypeOK, DrivenInv, [Next]_vars
      PROVE  [board'.ram # board.ram /\ (\E t \in Clients : Drives(t)) => spoilt' \/ ~board.running]_vars
    BY <1>1, <1>2, <1>3, <1>4 DEF Next, DrivenInv, TypeOK
<1>5. TypeOK /\ DrivenInv /\ [Next]_vars =>
        [board'.ram # board.ram /\ (\E t \in Clients : Drives(t)) => spoilt' \/ ~board.running]_vars
    BY <1>4
<1> QED
    BY <1>5, DrivenAlways, PTL DEF Spec, LoadsWhenStopped

-----------------------------------------------------------------------------
\* The cutting of messages.

\* The characters of a message, and of a buffer.
Chars == {"w", "x", ",", ";"}
Signs == Chars \union {"NUL"}

LEMMA LeastIn ==
    ASSUME NEW R, IsWellFoundedOn(R, Nat), \A x, y \in Nat : x < y => <<x, y>> \in R,
           NEW T, T \subseteq Nat, T # {}
    PROVE  \E x \in T : \A y \in T : x <= y
<1>1. PICK x \in T : \A y \in T : ~ (<<y, x>> \in R)
    BY WFMin
<1>2. ASSUME NEW y \in T PROVE x <= y
  <2>1. x \in Nat /\ y \in Nat /\ ~(<<y, x>> \in R)
      BY <1>1
  <2>2. ~(y < x)
      BY <2>1
  <2> QED
      BY <2>1, <2>2
<1> QED
    BY <1>2

LEMMA Least == ASSUME NEW T, T \subseteq Nat, T # {} PROVE \E x \in T : \A y \in T : x <= y
<1>1. \A x, y \in Nat : x < y => <<x, y>> \in OpToRel(<, Nat)
    BY DEF OpToRel
<1> QED
    BY <1>1, LeastIn, NatLessThanWellFounded

\* What FirstOf finds.
IsFirst(b, p, cs, i) == i \in p .. Len(b) /\ b[i] \in cs /\ \A j \in p .. i - 1 : b[j] \notin cs

LEMMA FirstIs ==
    ASSUME NEW b \in Seq(Signs), NEW p \in 1 .. Len(b), NEW cs, b[Len(b)] \in cs
    PROVE  IsFirst(b, p, cs, FirstOf(b, p, cs))
<1> DEFINE T == {i \in p .. Len(b) : b[i] \in cs}
<1>1. Len(b) \in Nat
    OBVIOUS
<1>2. T \subseteq Nat /\ Len(b) \in T
    BY <1>1
<1> HIDE DEF T
<1>3. PICK i \in T : \A j \in T : i <= j
    BY <1>2, Least
<1>4. i \in p .. Len(b) /\ b[i] \in cs
    BY <1>3 DEF T
<1>5. \A j \in p .. i - 1 : b[j] \notin cs
  <2> SUFFICES ASSUME NEW j \in p .. i - 1, b[j] \in cs PROVE FALSE
      OBVIOUS
  <2>1. j \in p .. Len(b) /\ ~(i <= j)
      BY <1>1, <1>4
  <2> QED
      BY <1>3, <2>1 DEF T
<1>6. \E x \in p .. Len(b) : b[x] \in cs /\ \A j \in p .. x - 1 : b[j] \notin cs
    BY <1>4, <1>5
<1> QED
    BY <1>6 DEF FirstOf, IsFirst

LEMMA FirstIsOnly ==
    ASSUME NEW b, NEW p \in Nat, NEW cs, NEW i \in Nat, Len(b) \in Nat, IsFirst(b, p, cs, i)
    PROVE  FirstOf(b, p, cs) = i
<1>1. i \in p .. Len(b) /\ b[i] \in cs /\ \A j \in p .. i - 1 : b[j] \notin cs
    BY DEF IsFirst
<1>2. \A x \in p .. Len(b) : (b[x] \in cs /\ \A j \in p .. x - 1 : b[j] \notin cs) => x = i
  <2> SUFFICES ASSUME NEW x \in p .. Len(b), b[x] \in cs, \A j \in p .. x - 1 : b[j] \notin cs
               PROVE  x = i
      OBVIOUS
  <2>1. ~(x < i)
      BY <1>1
  <2>2. ~(i < x)
      BY <1>1
  <2> QED
      BY <1>1, <2>1, <2>2
<1> QED
    BY <1>1, <1>2 DEF FirstOf

-----------------------------------------------------------------------------
\* Parts.

LEMMA BeginsAre ==
    ASSUME NEW s, Len(s) \in Nat, DOMAIN s = 1 .. Len(s), NEW d
    PROVE  /\ Begins(s, d) \subseteq 1 .. Len(s) /\ IsFiniteSet(Begins(s, d))
           /\ \A i \in Begins(s, d) : s[i] # d /\ (i > 1 => s[i - 1] = d)
           /\ Cardinality(Begins(s, d)) \in Nat
<1>1. Begins(s, d) \subseteq 1 .. Len(s)
    BY DEF Begins
<1>2. IsFiniteSet(1 .. Len(s))
    BY FS_Interval
<1>3. IsFiniteSet(Begins(s, d))
    BY <1>1, <1>2, FS_Subset
<1>4. \A i \in Begins(s, d) : s[i] # d /\ (i > 1 => s[i - 1] = d)
    BY <1>1 DEF Begins, IsPart
<1> QED
    BY <1>1, <1>3, <1>4, FS_CardinalityType

LEMMA EarlierIs ==
    ASSUME NEW s, Len(s) \in Nat, DOMAIN s = 1 .. Len(s), NEW d, NEW i
    PROVE  /\ Earlier(s, d, i) \subseteq Begins(s, d) /\ IsFiniteSet(Earlier(s, d, i))
           /\ Cardinality(Earlier(s, d, i)) \in Nat
           /\ Cardinality(Earlier(s, d, i)) <= Cardinality(Begins(s, d))
<1>1. Earlier(s, d, i) \subseteq Begins(s, d)
    BY DEF Earlier
<1>2. IsFiniteSet(Begins(s, d))
    BY BeginsAre
<1>3. IsFiniteSet(Earlier(s, d, i)) /\ Cardinality(Earlier(s, d, i)) <= Cardinality(Begins(s, d))
    BY <1>1, <1>2, FS_Subset
<1> QED
    BY <1>1, <1>3, FS_CardinalityType

\* With the one that begins at i there is one more.
LEMMA OneMore ==
    ASSUME NEW s, Len(s) \in Nat, DOMAIN s = 1 .. Len(s), NEW d, NEW i \in Begins(s, d)
    PROVE  /\ Cardinality(Earlier(s, d, i) \union {i}) = Cardinality(Earlier(s, d, i)) + 1
           /\ Cardinality(Earlier(s, d, i)) + 1 <= Cardinality(Begins(s, d))
<1>1. i \in Int /\ i \notin Earlier(s, d, i)
    BY BeginsAre DEF Earlier
<1>2. IsFiniteSet(Earlier(s, d, i)) /\ Earlier(s, d, i) \subseteq Begins(s, d)
    BY EarlierIs
<1>3. Cardinality(Earlier(s, d, i) \union {i}) = Cardinality(Earlier(s, d, i)) + 1
    BY <1>1, <1>2, FS_AddElement
<1>4. Earlier(s, d, i) \union {i} \subseteq Begins(s, d)
    BY <1>2
<1>5. IsFiniteSet(Begins(s, d))
    BY BeginsAre
<1>6. Cardinality(Earlier(s, d, i) \union {i}) <= Cardinality(Begins(s, d))
    BY <1>4, <1>5, FS_Subset
<1> QED
    BY <1>3, <1>6

\* No two begin behind the same number of others.
LEMMA EarlierDiffers ==
    ASSUME NEW s, Len(s) \in Nat, DOMAIN s = 1 .. Len(s), NEW d,
           NEW i \in Begins(s, d), NEW j \in Begins(s, d), i < j
    PROVE  Cardinality(Earlier(s, d, i)) < Cardinality(Earlier(s, d, j))
<1>1. i \in Int /\ j \in Int /\ \A c \in Begins(s, d) : c \in Int
    BY BeginsAre
<1>2. Earlier(s, d, i) \union {i} \subseteq Earlier(s, d, j)
  <2>1. \A c \in Begins(s, d) : c < i => c < j
      BY <1>1
  <2> QED
      BY <2>1 DEF Earlier
<1>3. IsFiniteSet(Earlier(s, d, j))
    BY EarlierIs
<1>4. Cardinality(Earlier(s, d, i) \union {i}) <= Cardinality(Earlier(s, d, j))
    BY <1>2, <1>3, FS_Subset
<1>5. Cardinality(Earlier(s, d, i)) \in Nat /\ Cardinality(Earlier(s, d, j)) \in Nat
    BY EarlierIs
<1> QED
    BY <1>4, <1>5, OneMore

\* Two longest parts that begin at the same place are one.
LEMMA PartEnds ==
    ASSUME NEW s, Len(s) \in Nat, NEW d, NEW i \in Nat, NEW j \in i .. Len(s), NEW k \in i .. Len(s),
           IsPart(s, d, i, j), IsPart(s, d, i, k)
    PROVE  j = k
<1>1. /\ \A x \in i .. j : s[x] # d
      /\ j < Len(s) => s[j + 1] = d
      /\ \A x \in i .. k : s[x] # d
      /\ k < Len(s) => s[k + 1] = d
    BY DEF IsPart
<1>2. ~(j < k)
  <2> SUFFICES ASSUME j < k PROVE FALSE
      OBVIOUS
  <2>1. j + 1 \in i .. k /\ j < Len(s)
      OBVIOUS
  <2> QED
      BY <1>1, <2>1
<1>3. ~(k < j)
  <2> SUFFICES ASSUME k < j PROVE FALSE
      OBVIOUS
  <2>1. k + 1 \in i .. j /\ k < Len(s)
      OBVIOUS
  <2> QED
      BY <1>1, <2>1
<1> QED
    BY <1>2, <1>3

LEMMA PartsLen ==
    ASSUME NEW s, Len(s) \in Nat, DOMAIN s = 1 .. Len(s), NEW d
    PROVE  DOMAIN Parts(s, d) = 1 .. Cardinality(Begins(s, d))
BY DEF Parts

LEMMA PartAt ==
    ASSUME NEW s, Len(s) \in Nat, DOMAIN s = 1 .. Len(s), NEW d, NEW i \in Nat, NEW j \in i .. Len(s),
           i > 0, IsPart(s, d, i, j)
    PROVE  /\ i \in Begins(s, d)
           /\ Cardinality(Earlier(s, d, i)) + 1 \in 1 .. Cardinality(Begins(s, d))
           /\ Parts(s, d)[Cardinality(Earlier(s, d, i)) + 1] = SubSeq(s, i, j)
<1> DEFINE n == Cardinality(Earlier(s, d, i)) + 1
           Begin(m) == CHOOSE b \in Begins(s, d) : Cardinality(Earlier(s, d, b)) = m - 1
           End(b) == CHOOSE e \in b .. Len(s) : IsPart(s, d, b, e)
<1>1. i \in Begins(s, d)
    BY DEF Begins
<1>2. Cardinality(Earlier(s, d, i)) \in Nat /\ n <= Cardinality(Begins(s, d)) /\ Cardinality(Begins(s, d)) \in Nat
    BY <1>1, OneMore, EarlierIs, BeginsAre
<1>3. n \in 1 .. Cardinality(Begins(s, d)) /\ n - 1 = Cardinality(Earlier(s, d, i))
    BY <1>2
<1>4. Parts(s, d)[n] = SubSeq(s, Begin(n), End(Begin(n)))
    BY <1>3 DEF Parts
<1>5. Begin(n) = i
  <2>1. \A b \in Begins(s, d) : Cardinality(Earlier(s, d, b)) = n - 1 => b = i
    <3> SUFFICES ASSUME NEW b \in Begins(s, d), Cardinality(Earlier(s, d, b)) = n - 1 PROVE b = i
        OBVIOUS
    <3>1. b \in Int /\ i \in Int
        BY BeginsAre
    <3>2. ~(b < i) /\ ~(i < b)
        BY <1>1, <1>2, <1>3, EarlierDiffers
    <3> QED
        BY <3>1, <3>2
  <2> HIDE DEF n
  <2> QED
      BY <1>1, <1>3, <2>1
<1>6. End(i) = j
    BY PartEnds
<1> HIDE DEF n, Begin, End
<1> QED
    BY <1>1, <1>3, <1>4, <1>5, <1>6 DEF n

-----------------------------------------------------------------------------
\* Cutting.

\* In buffer b is s behind o other characters.  k parts of s have been cut, and
\* the next call goes on from p.
Cut(b, s, o, d, p, k) ==
    /\ b \in Seq(Signs) /\ Len(b) = o + Len(s) + 1
    /\ \/ p = NULL /\ k = Cardinality(Begins(s, d))
       \/ /\ p \in o + 1 .. Len(b) /\ b[Len(b)] = "NUL"
          /\ \A j \in p .. o + Len(s) : b[j] = s[j - o]
          /\ p > o + 1 => s[p - 1 - o] = d
          /\ k = Cardinality(Earlier(s, d, p - o))

\* strtok finds nothing more.
LEMMA NoMoreParts ==
    ASSUME NEW s \in Seq(Chars), NEW d \in Chars, NEW q \in Nat, \A x \in q .. Len(s) : s[x] = d
    PROVE  Cardinality(Earlier(s, d, q)) = Cardinality(Begins(s, d))
<1>1. Len(s) \in Nat /\ DOMAIN s = 1 .. Len(s)
    OBVIOUS
<1>2. Begins(s, d) \subseteq 1 .. Len(s) /\ \A i \in Begins(s, d) : s[i] # d
    BY <1>1, BeginsAre
<1>3. \A i \in Begins(s, d) : i < q
    BY <1>1, <1>2
<1>4. Earlier(s, d, q) = Begins(s, d)
    BY <1>3 DEF Earlier
<1> QED
    BY <1>4

\* The parts that begin before q are those that begin before i, with d between.
LEMMA SkipDelimiters ==
    ASSUME NEW s \in Seq(Chars), NEW d \in Chars, NEW q \in Nat, NEW i \in Nat, q <= i,
           \A x \in q .. i - 1 : s[x] = d
    PROVE  Earlier(s, d, i) = Earlier(s, d, q)
<1>1. Len(s) \in Nat /\ DOMAIN s = 1 .. Len(s)
    OBVIOUS
<1>2. Begins(s, d) \subseteq 1 .. Len(s) /\ \A c \in Begins(s, d) : s[c] # d
    BY <1>1, BeginsAre
<1>3. \A c \in Begins(s, d) : c < i <=> c < q
    BY <1>1, <1>2
<1> QED
    BY <1>3 DEF Earlier

\* Behind the part from i to j there is one more.
LEMMA BehindPart ==
    ASSUME NEW s \in Seq(Chars), NEW d \in Chars, NEW i \in Nat, i > 0, NEW j \in i .. Len(s),
           IsPart(s, d, i, j)
    PROVE  Earlier(s, d, j + 2) = Earlier(s, d, i) \union {i}
<1>1. Len(s) \in Nat /\ DOMAIN s = 1 .. Len(s)
    OBVIOUS
<1>2. /\ Begins(s, d) \subseteq 1 .. Len(s)
      /\ \A c \in Begins(s, d) : s[c] # d /\ (c > 1 => s[c - 1] = d)
    BY <1>1, BeginsAre
<1>3. (\A x \in i .. j : s[x] # d) /\ (j < Len(s) => s[j + 1] = d)
    BY DEF IsPart
<1>4. i \in Begins(s, d)
    BY <1>1, PartAt
<1>5. \A c \in Begins(s, d) : c < j + 2 <=> (c < i \/ c = i)
  <2> TAKE c \in Begins(s, d)
  <2>1. c \in 1 .. Len(s) /\ s[c] # d /\ (c > 1 => s[c - 1] = d)
      BY <1>2
  <2>2. ~(i < c /\ c <= j)
    <3> SUFFICES ASSUME i < c, c <= j PROVE FALSE
        OBVIOUS
    <3>1. c - 1 \in i .. j /\ c > 1
        BY <2>1
    <3> QED
        BY <1>3, <2>1, <3>1
  <2>3. c # j + 1
    <3> SUFFICES ASSUME c = j + 1 PROVE FALSE
        OBVIOUS
    <3>1. j < Len(s)
        BY <1>1, <2>1
    <3> QED
        BY <1>3, <2>1, <3>1
  <2> QED
      BY <2>1, <2>2, <2>3
<1> QED
    BY <1>4, <1>5 DEF Earlier

\* The call has found the part from st up to e, at which there is a d or the NUL.
Token(b, s, o, d, p, k, r, st, e) ==
    /\ p <= st /\ o < st /\ st < e /\ e <= Len(b) /\ b[Len(b)] = "NUL"
    /\ \A j \in p .. o + Len(s) : b[j] = s[j - o]
    /\ IsPart(s, d, st - o, e - 1 - o)
    /\ k = Cardinality(Earlier(s, d, st - o))
    /\ r.res = st /\ r.b = IF e = Len(b) THEN b ELSE [b EXCEPT ![e] = "NUL"]

\* What strtok does to a buffer, from a place p that is not NULL.
LEMMA StrtokIs ==
    ASSUME NEW s \in Seq(Chars), NEW o \in Nat, NEW d \in Chars, NEW b, NEW p, NEW k,
           Cut(b, s, o, d, p, k), p # NULL
    PROVE  \/ Strtok(b, p, d).res = NULL /\ Strtok(b, p, d).b = b /\ k = Cardinality(Begins(s, d))
           \/ \E st, e \in Nat : Token(b, s, o, d, p, k, Strtok(b, p, d), st, e)
<1> DEFINE ws == {"NUL", "w", "x", ",", ";"} \ {d}
           st == FirstOf(b, p, ws)
           e == FirstOf(b, st, {"NUL", d})
           n == Len(b)
<1>1. Len(s) \in Nat /\ n = o + Len(s) + 1 /\ b \in Seq(Signs) /\ DOMAIN s = 1 .. Len(s)
    BY DEF Cut
<1>2. /\ p \in o + 1 .. n /\ b[n] = "NUL" /\ k = Cardinality(Earlier(s, d, p - o))
      /\ \A j \in p .. o + Len(s) : b[j] = s[j - o]
      /\ p > o + 1 => s[p - 1 - o] = d
    BY DEF Cut
<1>3. p \in 1 .. n /\ n \in Nat
    BY <1>1, <1>2
<1>4. \A x \in 1 .. Len(s) : s[x] \in Chars
    OBVIOUS
<1>5. \A j \in p .. n : j # n => j \in p .. o + Len(s) /\ b[j] = s[j - o] /\ j - o \in 1 .. Len(s) /\ b[j] \in Chars
    BY <1>1, <1>2, <1>4
<1>6. "NUL" \notin Chars /\ d # "NUL" /\ "NUL" \in ws /\ \A c \in Chars : c \in ws <=> c # d
    BY DEF Chars
<1> HIDE DEF ws
<1>7. IsFirst(b, p, ws, st)
    BY <1>1, <1>2, <1>3, <1>6, FirstIs
<1> HIDE DEF st
<1>8. st \in p .. n /\ b[st] \in ws /\ \A j \in p .. st - 1 : b[j] \notin ws
    BY <1>7 DEF IsFirst
<1>9. \A j \in p .. st - 1 : j \in p .. n /\ j # n /\ b[j] = d
  <2>1. \A j \in p .. st - 1 : j \in p .. n /\ j # n
      BY <1>3, <1>8
  <2> QED
      BY <1>5, <1>6, <1>8, <2>1
<1>10. CASE st = n
  <2>1. b[st] = "NUL"
      BY <1>2, <1>10
  <2>2. Strtok(b, p, d) = [res |-> NULL, b |-> b, next |-> st]
    <3>1. FirstOf(b, p, {"NUL", "w", "x", ",", ";"} \ {d}) = st
        BY DEF st, ws
    <3> QED
        BY <2>1, <3>1 DEF Strtok
  <2>3. \A x \in p - o .. Len(s) : s[x] = d
    <3> TAKE x \in p - o .. Len(s)
    <3>1. x + o \in p .. st - 1 /\ (x + o) - o = x
        BY <1>1, <1>2, <1>10
    <3> QED
        BY <1>5, <1>9, <3>1
  <2>4. p - o \in Nat
      BY <1>2
  <2>5. k = Cardinality(Begins(s, d))
      BY <1>2, <2>3, <2>4, NoMoreParts
  <2> QED
      BY <2>2, <2>5
<1>11. CASE st # n
  <2>1. b[st] # "NUL" /\ b[st] # d /\ b[st] = s[st - o] /\ st \in 1 .. n
    <3>1. st \in p .. n /\ st # n
        BY <1>8, <1>11
    <3>2. b[st] \in Chars /\ b[st] = s[st - o]
        BY <1>5, <3>1
    <3> QED
        BY <1>3, <1>6, <1>8, <3>1, <3>2
  <2>2. IsFirst(b, st, {"NUL", d}, e)
      BY <1>1, <1>2, <2>1, FirstIs
  <2> HIDE DEF e
  <2>3. e \in st .. n /\ b[e] \in {"NUL", d} /\ \A j \in st .. e - 1 : b[j] \notin {"NUL", d}
      BY <2>2 DEF IsFirst
  <2>4. st < e /\ e \in Nat /\ st \in Nat /\ o < st /\ p <= st
      BY <1>2, <1>3, <1>8, <2>1, <2>3
  <2>5. b[e] = "NUL" <=> e = n
    <3>1. e \in p .. n
        BY <1>3, <1>8, <2>3
    <3>2. e # n => b[e] \in Chars
        BY <1>5, <3>1
    <3> QED
        BY <1>2, <1>6, <3>2
  <2>6. Strtok(b, p, d).res = st
        /\ Strtok(b, p, d).b = IF e = n THEN b ELSE [b EXCEPT ![e] = "NUL"]
    <3>1. FirstOf(b, p, {"NUL", "w", "x", ",", ";"} \ {d}) = st /\ FirstOf(b, st, {"NUL", d}) = e
        BY DEF st, e, ws
    <3>2. Strtok(b, p, d) = IF b[e] = "NUL" THEN [res |-> st, b |-> b, next |-> e]
                            ELSE [res |-> st, b |-> [b EXCEPT ![e] = "NUL"], next |-> e + 1]
        BY <2>1, <3>1 DEF Strtok
    <3>3. CASE b[e] = "NUL"
        BY <2>5, <3>2, <3>3
    <3>4. CASE b[e] # "NUL"
        BY <2>5, <3>2, <3>4
    <3> QED
        BY <3>3, <3>4
  <2>7. \A j \in st .. e - 1 : j \in p .. n /\ j # n /\ b[j] = s[j - o] /\ b[j] # d
    <3>1. \A j \in st .. e - 1 : j \in p .. n /\ j # n
        BY <1>3, <1>8, <2>3, <2>4
    <3> QED
        BY <1>5, <2>3, <3>1
  <2>8. IsPart(s, d, st - o, e - 1 - o)
    <3>1. st - o <= e - 1 - o
        BY <2>4, <1>1
    <3>2. \A x \in st - o .. e - 1 - o : s[x] # d
      <4> TAKE x \in st - o .. e - 1 - o
      <4>1. x + o \in st .. e - 1 /\ (x + o) - o = x
          BY <2>4
      <4> QED
          BY <2>7, <4>1
    <3>3. st - o > 1 => s[st - o - 1] = d
      <4>1. CASE st = p
        <5>1. st - o - 1 = p - 1 - o
            BY <1>2, <4>1
        <5> QED
            BY <1>1, <1>2, <4>1, <5>1
      <4>2. CASE st # p
        <5>1. st - 1 \in p .. st - 1 /\ (st - 1) - o = st - o - 1
            BY <1>2, <2>4, <4>2
        <5> QED
            BY <1>5, <1>9, <5>1
      <4> QED
          BY <4>1, <4>2
    <3>4. e - 1 - o < Len(s) => s[e - 1 - o + 1] = d
      <4> SUFFICES ASSUME e - 1 - o < Len(s) PROVE s[e - 1 - o + 1] = d
          OBVIOUS
      <4>1. e # n /\ e \in p .. n /\ e - 1 - o + 1 = e - o
          BY <1>1, <1>2, <2>3, <2>4
      <4> QED
          BY <1>5, <2>3, <2>5, <4>1
    <3> QED
        BY <3>1, <3>2, <3>3, <3>4 DEF IsPart
  <2>9. k = Cardinality(Earlier(s, d, st - o))
    <3>1. p - o \in Nat /\ st - o \in Nat /\ p - o <= st - o
        BY <1>2, <2>4
    <3>2. \A x \in p - o .. st - o - 1 : s[x] = d
      <4> TAKE x \in p - o .. st - o - 1
      <4>1. x + o \in p .. st - 1 /\ (x + o) - o = x
          BY <1>2, <2>4
      <4> QED
          BY <1>5, <1>9, <4>1
    <3>3. Earlier(s, d, st - o) = Earlier(s, d, p - o)
        BY <3>1, <3>2, SkipDelimiters
    <3> QED
        BY <1>2, <3>3
  <2>10. Token(b, s, o, d, p, k, Strtok(b, p, d), st, e)
      BY <1>2, <2>3, <2>4, <2>6, <2>8, <2>9 DEF Token
  <2> QED
      BY <2>4, <2>10
<1> QED
    BY <1>10, <1>11

\* The token, and how the buffer goes on behind it.
LEMMA TokenIs ==
    ASSUME NEW s \in Seq(Chars), NEW o \in Nat, NEW d \in Chars, NEW b, NEW p, NEW k,
           Cut(b, s, o, d, p, k), p # NULL, NEW r, NEW st \in Nat, NEW e \in Nat,
           Token(b, s, o, d, p, k, r, st, e)
    PROVE  /\ k + 1 \in 1 .. Cardinality(Begins(s, d))
           /\ Text(r.b, st) = Parts(s, d)[k + 1]
           /\ Text(r.b, st) = SubSeq(s, st - o, e - 1 - o)
           /\ Cut(r.b, s, o, d, Rest(r, FirstOf(b, p, {"NUL"})), k + 1)
<1> DEFINE n == Len(b)
           c == r.b
           i == st - o
           j == e - 1 - o
<1>1. Len(s) \in Nat /\ n = o + Len(s) + 1 /\ b \in Seq(Signs) /\ DOMAIN s = 1 .. Len(s) /\ n \in Nat
    BY DEF Cut
<1>2. /\ p <= st /\ o < st /\ st < e /\ e <= n /\ b[n] = "NUL"
      /\ \A x \in p .. o + Len(s) : b[x] = s[x - o]
      /\ IsPart(s, d, i, j) /\ k = Cardinality(Earlier(s, d, i))
      /\ r.res = st /\ c = IF e = n THEN b ELSE [b EXCEPT ![e] = "NUL"]
    BY DEF Token
<1>3. p \in o + 1 .. n
    BY DEF Cut
<1>4. i \in Nat /\ i > 0 /\ j \in i .. Len(s) /\ j + 2 = e + 1 - o
    BY <1>1, <1>2
<1>5. /\ i \in Begins(s, d) /\ k + 1 \in 1 .. Cardinality(Begins(s, d))
      /\ Parts(s, d)[k + 1] = SubSeq(s, i, j)
    BY <1>1, <1>2, <1>4, PartAt
<1>6. /\ c \in Seq(Signs) /\ Len(c) = n /\ c[e] = "NUL" /\ c[n] = "NUL"
      /\ \A x \in 1 .. n : x # e => c[x] = b[x]
  <2>1. CASE e = n
      BY <1>1, <1>2, <2>1
  <2>2. CASE e # n
    <3>1. c = [b EXCEPT ![e] = "NUL"] /\ e \in 1 .. n /\ "NUL" \in Signs
        BY <1>1, <1>2, <2>2 DEF Signs
    <3>2. c \in Seq(Signs) /\ Len(c) = n
        BY <1>1, <3>1
    <3>3. c[e] = "NUL" /\ \A x \in 1 .. n : x # e => c[x] = b[x]
        BY <1>1, <3>1
    <3> QED
        BY <1>1, <1>2, <2>2, <3>2, <3>3
  <2> QED
      BY <2>1, <2>2
<1>0. p \in Nat /\ p <= st /\ o < st /\ st < e /\ e <= n /\ n = o + Len(s) + 1 /\ Len(s) \in Nat
    BY <1>1, <1>2, <1>3
<1>7. "NUL" \notin Chars /\ \A x \in 1 .. Len(s) : s[x] \in Chars
  <2>1. "NUL" \notin Chars
      BY DEF Chars
  <2>2. \A x \in 1 .. Len(s) : s[x] \in Chars
      OBVIOUS
  <2> QED
      BY <2>1, <2>2
<1>8. \A x \in p .. o + Len(s) : x - o \in 1 .. Len(s) /\ x \in 1 .. n /\ x # n /\ b[x] # "NUL"
  <2>1. \A x \in p .. o + Len(s) : x - o \in 1 .. Len(s) /\ x \in 1 .. n /\ x # n
      BY <1>1, <1>3
  <2> QED
      BY <1>2, <1>7, <2>1
<1>9. FirstOf(c, st, {"NUL"}) = e
  <2>1. \A x \in st .. e - 1 : x \in p .. o + Len(s) /\ x # e
      BY <1>1, <1>2, <1>3
  <2>2. \A x \in st .. e - 1 : c[x] \notin {"NUL"}
      BY <1>6, <1>8, <2>1
  <2>3. e \in st .. Len(c) /\ c[e] \in {"NUL"}
    <3>1. Len(c) = n /\ c[e] = "NUL"
        BY <1>6
    <3>2. e \in st .. n
        BY <1>0, <1>1
    <3> QED
        BY <3>1, <3>2
  <2>4. IsFirst(c, st, {"NUL"}, e)
      BY <2>2, <2>3 DEF IsFirst
  <2>5. Len(c) \in Nat
      BY <1>1, <1>6
  <2> QED
      BY <2>4, <2>5, FirstIsOnly
<1>10. FirstOf(b, p, {"NUL"}) = n
  <2>1. \A x \in p .. n - 1 : x \in p .. o + Len(s)
      BY <1>1
  <2>2. \A x \in p .. n - 1 : b[x] \notin {"NUL"}
      BY <1>8, <2>1
  <2>3. n \in p .. Len(b) /\ b[n] \in {"NUL"}
      BY <1>1, <1>2, <1>3
  <2>4. IsFirst(b, p, {"NUL"}, n)
      BY <2>2, <2>3 DEF IsFirst
  <2>5. p \in Nat
      BY <1>3
  <2> QED
      BY <1>1, <2>4, <2>5, FirstIsOnly
<1>11. Text(c, st) = SubSeq(s, i, j)
  <2>1. Text(c, st) = SubSeq(c, st, e - 1)
      BY <1>9 DEF Text
  <2>2. SubSeq(c, st, e - 1) = [x \in 1 .. (e - 1 - st + 1) |-> c[st + x - 1]]
      BY <1>1, <1>2, <1>6
  <2>3. SubSeq(s, i, j) = [x \in 1 .. (j - i + 1) |-> s[i + x - 1]]
      BY <1>1, <1>4
  <2>4. j - i + 1 = e - 1 - st + 1
      BY <1>1, <1>2
  <2>5. \A x \in 1 .. (e - 1 - st + 1) : c[st + x - 1] = s[i + x - 1]
    <3> TAKE x \in 1 .. (e - 1 - st + 1)
    <3>1. st + x - 1 \in p .. o + Len(s) /\ st + x - 1 # e /\ (st + x - 1) - o = i + x - 1
        BY <1>0
    <3> QED
        BY <1>2, <1>6, <1>8, <3>1
  <2> HIDE DEF c, i, j
  <2> QED
      BY <2>1, <2>2, <2>3, <2>4, <2>5
<1>12. Earlier(s, d, e + 1 - o) = Earlier(s, d, i) \union {i}
  <2>1. Earlier(s, d, j + 2) = Earlier(s, d, i) \union {i}
      BY <1>2, <1>4, BehindPart
  <2> QED
      BY <1>4, <2>1
<1>13. Cardinality(Earlier(s, d, i) \union {i}) = k + 1
    BY <1>1, <1>2, <1>5, OneMore
<1>14. Rest(r, n) = IF e < n THEN e + 1 ELSE NULL
    BY <1>2, <1>9 DEF Rest
<1>15. CASE e < n
  <2>1. e + 1 \in o + 1 .. Len(c) /\ c[Len(c)] = "NUL"
    <3>1. Len(c) = n /\ c[n] = "NUL"
        BY <1>6
    <3> HIDE DEF c, n
    <3>2. e + 1 \in o + 1 .. n
        BY <1>0, <1>15
    <3> QED
        BY <3>1, <3>2
  <2>2. \A x \in e + 1 .. o + Len(s) : c[x] = s[x - o]
    <3>1. \A x \in e + 1 .. o + Len(s) : x \in p .. o + Len(s) /\ x # e
        BY <1>1, <1>2, <1>3
    <3> QED
        BY <1>2, <1>6, <1>8, <3>1
  <2>3. s[e + 1 - 1 - o] = d
    <3>1. j < Len(s) /\ j + 1 = e + 1 - 1 - o
        BY <1>1, <1>2, <1>15
    <3> QED
        BY <1>2, <3>1 DEF IsPart
  <2>4. k + 1 = Cardinality(Earlier(s, d, e + 1 - o))
      BY <1>12, <1>13
  <2>5. Cut(c, s, o, d, e + 1, k + 1)
      BY <1>1, <1>6, <2>1, <2>2, <2>3, <2>4 DEF Cut
  <2> QED
      BY <1>5, <1>10, <1>11, <1>14, <1>15, <2>5
<1>16. CASE ~(e < n)
  <2>1. e = n /\ e + 1 - o \in Nat
      BY <1>1, <1>2, <1>16
  <2>2. \A x \in e + 1 - o .. Len(s) : s[x] = d
      BY <1>1, <2>1
  <2>3. k + 1 = Cardinality(Begins(s, d))
      BY <1>12, <1>13, <2>1, <2>2, NoMoreParts
  <2>4. Cut(c, s, o, d, NULL, k + 1)
      BY <1>1, <1>6, <2>3 DEF Cut
  <2> QED
      BY <1>5, <1>10, <1>11, <1>14, <1>16, <2>4
<1> QED
    BY <1>15, <1>16

\* One call of MY_strtok_r: the next part, or none when all have been cut.
Called(b, str, d, save, s, o, k) ==
    LET r == MyStrtok(b, str, d, save)
    IN  IF r.res = NULL
        THEN /\ Cut(r.b, s, o, d, NULL, k) /\ r.save = NULL
             /\ k = Cardinality(Begins(s, d))
        ELSE /\ Cut(r.b, s, o, d, r.save, k + 1)
             /\ k + 1 \in 1 .. Cardinality(Begins(s, d))
             /\ Text(r.b, r.res) = Parts(s, d)[k + 1] /\ Text(r.b, r.res) \in Seq(Chars)
             /\ Text(r.b, r.res) # << >>

LEMMA CallIs ==
    ASSUME NEW s \in Seq(Chars), NEW o \in Nat, NEW d \in Chars, NEW b, NEW str, NEW save, NEW k,
           Cut(b, s, o, d, From(str, save), k)
    PROVE  Called(b, str, d, save, s, o, k)
<1> DEFINE p == From(str, save)
           r == MyStrtok(b, str, d, save)
           q == Strtok(b, p, d)
<1>1. CASE p = NULL
  <2>1. r = [res |-> NULL, b |-> b, save |-> save, next |-> hidden] /\ save = NULL
      BY <1>1 DEF MyStrtok, From
  <2>2. r.res = NULL /\ r.b = b /\ r.save = NULL
      BY <2>1
  <2>3. k = Cardinality(Begins(s, d))
      BY <1>1 DEF Cut, NULL
  <2> HIDE DEF r
  <2>4. Cut(r.b, s, o, d, NULL, k)
      BY <1>1, <2>2
  <2> QED
      BY <2>2, <2>3, <2>4 DEF Called, r
<1>2. CASE p # NULL
  <2>1. r = [res |-> q.res, b |-> q.b, next |-> q.next,
             save |-> IF q.res = NULL THEN NULL ELSE Rest(q, FirstOf(b, p, {"NUL"}))]
      BY <1>2 DEF MyStrtok
  <2>2. r.res = q.res /\ r.b = q.b
        /\ r.save = IF q.res = NULL THEN NULL ELSE Rest(q, FirstOf(b, p, {"NUL"}))
      BY <2>1
  <2>3. \/ q.res = NULL /\ q.b = b /\ k = Cardinality(Begins(s, d))
        \/ \E st, e \in Nat : Token(b, s, o, d, p, k, q, st, e)
      BY <1>2, StrtokIs
  <2> HIDE DEF r, p, q
  <2>4. CASE q.res = NULL /\ q.b = b /\ k = Cardinality(Begins(s, d))
    <3>1. Cut(r.b, s, o, d, NULL, k)
        BY <2>2, <2>4 DEF Cut, p
    <3> QED
        BY <2>2, <2>4, <3>1 DEF Called, r
  <2>5. ASSUME NEW st \in Nat, NEW e \in Nat, Token(b, s, o, d, p, k, q, st, e)
        PROVE  Called(b, str, d, save, s, o, k)
    <3>1. Cut(b, s, o, d, p, k)
        BY DEF p
    <3>2. /\ k + 1 \in 1 .. Cardinality(Begins(s, d)) /\ Text(q.b, st) = Parts(s, d)[k + 1]
          /\ Text(q.b, st) = SubSeq(s, st - o, e - 1 - o)
          /\ Cut(q.b, s, o, d, Rest(q, FirstOf(b, p, {"NUL"})), k + 1)
        BY <1>2, <2>5, <3>1, TokenIs
    <3>3. q.res = st /\ st # NULL /\ o < st /\ st < e /\ e <= Len(b)
        BY <2>5 DEF Token, NULL
    <3>4. Len(s) \in Nat /\ Len(b) = o + Len(s) + 1
        BY <3>1 DEF Cut
    <3>5. st - o \in 1 .. Len(s) /\ e - 1 - o \in st - o .. Len(s)
        BY <3>3, <3>4
    <3>6. SubSeq(s, st - o, e - 1 - o) \in Seq(Chars) /\ SubSeq(s, st - o, e - 1 - o) # << >>
      <4>1. SubSeq(s, st - o, e - 1 - o) \in Seq(Chars)
          BY <3>4, <3>5
      <4>2. Len(SubSeq(s, st - o, e - 1 - o)) = (e - 1 - o) - (st - o) + 1
          BY <3>4, <3>5
      <4>3. Len(SubSeq(s, st - o, e - 1 - o)) # 0
          BY <3>3, <4>2
      <4>4. \A x : x = << >> => Len(x) = 0
          OBVIOUS
      <4> QED
          BY <4>1, <4>3, <4>4
    <3> QED
        BY <2>2, <3>2, <3>3, <3>6 DEF Called, r
  <2> QED
      BY <2>3, <2>4, <2>5
<1> QED
    BY <1>1, <1>2

-----------------------------------------------------------------------------
\* Sequences that are written as functions.

LEMMA FunIsSeq ==
    ASSUME NEW N \in Nat, NEW f, f = [i \in 1 .. N |-> f[i]]
    PROVE  /\ Len(f) = N /\ DOMAIN f = 1 .. N
           /\ \E S : f \in Seq(S)
<1> DEFINE S == {f[i] : i \in 1 .. N}
<1>1. f \in [1 .. N -> S]
    OBVIOUS
<1>2. f \in Seq(S)
    BY <1>1, SeqDef
<1>3. DOMAIN f = 1 .. N
    BY <1>1
<1>4. Len(f) \in Nat /\ DOMAIN f = 1 .. Len(f)
    BY <1>2, LenProperties
<1>5. Len(f) = N
    BY <1>3, <1>4
<1> QED
    BY <1>2, <1>3, <1>5

LEMMA PartsSeq ==
    ASSUME NEW s \in Seq(Chars), NEW d
    PROVE  /\ Len(Parts(s, d)) = Cardinality(Begins(s, d)) /\ Cardinality(Begins(s, d)) \in Nat
           /\ DOMAIN Parts(s, d) = 1 .. Cardinality(Begins(s, d))
           /\ \E S : Parts(s, d) \in Seq(S)
<1>1. Len(s) \in Nat /\ DOMAIN s = 1 .. Len(s)
    OBVIOUS
<1>2. Cardinality(Begins(s, d)) \in Nat
    BY <1>1, BeginsAre
<1> DEFINE N == Cardinality(Begins(s, d))
           f == Parts(s, d)
<1> DEFINE Begin(n) == CHOOSE i \in Begins(s, d) : Cardinality(Earlier(s, d, i)) = n - 1
           End(i) == CHOOSE j \in i .. Len(s) : IsPart(s, d, i, j)
           part(n) == SubSeq(s, Begin(n), End(Begin(n)))
<1>5. f = [n \in 1 .. N |-> part(n)]
    BY DEF Parts
<1> HIDE DEF f, N, part
<1>3. f = [i \in 1 .. N |-> f[i]]
    BY <1>5
<1>6. N \in Nat
    BY <1>2 DEF N
<1>4. Len(f) = N /\ DOMAIN f = 1 .. N /\ \E S : f \in Seq(S)
    BY <1>3, <1>6, FunIsSeq
<1> QED
    BY <1>2, <1>4 DEF f, N

\* A sequence whose elements are the first of another one.
LEMMA FirstOnes ==
    ASSUME NEW S, NEW a \in Seq(S), NEW T, NEW p \in Seq(T), NEW l \in Nat, l <= Len(p), Len(a) = l,
           \A n \in 1 .. l : a[n] = p[n]
    PROVE  a = SubSeq(p, 1, l)
<1>1. a = [n \in 1 .. l |-> a[n]]
    BY LenProperties
<1>2. SubSeq(p, 1, l) = [n \in 1 .. l |-> p[n]]
  <2>1. SubSeq(p, 1, l) \in Seq(T) /\ Len(SubSeq(p, 1, l)) = l
        /\ \A n \in 1 .. l : SubSeq(p, 1, l)[n] = p[n]
      OBVIOUS
  <2>2. SubSeq(p, 1, l) = [n \in 1 .. l |-> SubSeq(p, 1, l)[n]]
      BY <2>1, LenProperties
  <2> QED
      BY <2>1, <2>2
<1> QED
    BY <1>1, <1>2

-----------------------------------------------------------------------------
\* The parameters of one command.

\* The parameters a of command c have been cut, in cl calls, in the buffer st.
Halfway(c, st, ar, ap, cl, a) ==
    /\ c \in Seq(Chars) /\ c # << >> /\ c[1] = "w" /\ a \in Seq(Seq(Chars))
    /\ Cut(st, Tail(c), 1, ",", From(ar, ap), Len(a))
    /\ \A n \in 1 .. Len(a) : a[n] = Parts(Tail(c), ",")[n]
    /\ Len(a) <= Cardinality(Begins(Tail(c), ","))
    /\ cl \in Nat /\ Len(a) <= cl /\ cl < MaxArgs
    /\ Len(a) = cl \/ Len(a) = Cardinality(Begins(Tail(c), ","))

LEMMA FirstCut ==
    ASSUME NEW s \in Seq(Chars), NEW o \in {0, 1}, NEW b \in Seq(Chars), Len(b) = o + Len(s), NEW d,
           \A j \in o + 1 .. o + Len(s) : b[j] = s[j - o]
    PROVE  Cut(Terminated(b), s, o, d, o + 1, 0)
<1>1. Len(s) \in Nat /\ DOMAIN s = 1 .. Len(s)
    OBVIOUS
<1> DEFINE c == Terminated(b)
<1>2. c \in Seq(Signs) /\ Len(c) = Len(b) + 1 /\ c[Len(b) + 1] = "NUL" /\ \A j \in 1 .. Len(b) : c[j] = b[j]
  <2>1. b \in Seq(Signs) /\ "NUL" \in Signs
    <3>1. Chars \subseteq Signs /\ "NUL" \in Signs
        BY DEF Signs
    <3> QED
        BY <3>1, SeqMonotonic
  <2> QED
      BY <2>1 DEF Terminated
<1> HIDE DEF c
<1>3. Begins(s, d) \subseteq 1 .. Len(s)
    BY <1>1, BeginsAre
<1>4. Earlier(s, d, o + 1 - o) = {}
  <2>1. \A i \in Begins(s, d) : ~(i < o + 1 - o)
      BY <1>3
  <2> QED
      BY <2>1 DEF Earlier
<1>5. 0 = Cardinality(Earlier(s, d, o + 1 - o))
    BY <1>4, FS_EmptySet
<1>6. \A j \in o + 1 .. o + Len(s) : c[j] = s[j - o]
    BY <1>1, <1>2
<1>7. o + 1 \in o + 1 .. Len(c) /\ Len(c) = o + Len(s) + 1 /\ c[Len(c)] = "NUL" /\ ~(o + 1 > o + 1)
    BY <1>1, <1>2
<1> QED
    BY <1>2, <1>5, <1>6, <1>7 DEF Cut, c

LEMMA TailIs ==
    ASSUME NEW c \in Seq(Chars), c # << >>
    PROVE  /\ Tail(c) \in Seq(Chars) /\ Len(c) = 1 + Len(Tail(c)) /\ Len(Tail(c)) \in Nat
           /\ \A j \in 1 + 1 .. 1 + Len(Tail(c)) : c[j] = Tail(c)[j - 1]
<1>1. Len(c) \in Nat \ {0}
    BY EmptySeq
<1>2. Tail(c) \in Seq(Chars) /\ Len(Tail(c)) = Len(c) - 1 /\ \A i \in 1 .. Len(c) - 1 : Tail(c)[i] = c[i + 1]
    BY <1>1
<1> QED
    BY <1>1, <1>2

\* Before the first call.
LEMMA HalfwayBegins ==
    ASSUME NEW c \in Seq(Chars), c # << >>, c[1] = "w", NEW ap
    PROVE  Halfway(c, Terminated(c), 2, ap, 0, << >>)
<1>1. /\ Tail(c) \in Seq(Chars) /\ Len(c) = 1 + Len(Tail(c)) /\ Len(Tail(c)) \in Nat
      /\ \A j \in 1 + 1 .. 1 + Len(Tail(c)) : c[j] = Tail(c)[j - 1]
    BY TailIs
<1>2. Cut(Terminated(c), Tail(c), 1, ",", 1 + 1, 0)
    BY <1>1, FirstCut
<1>3. From(2, ap) = 1 + 1
    BY DEF From, NULL
<1>5. Cardinality(Begins(Tail(c), ",")) \in Nat
    BY <1>1, PartsSeq
<1>6. MaxArgs \in Nat \ {0}
    BY TokensAssumption
<1> DEFINE e == << >>
           N == Cardinality(Begins(Tail(c), ","))
<1>4. e \in Seq(Seq(Chars)) /\ Len(e) = 0
    BY EmptySeq
<1> HIDE DEF e, N
<1>7. \A n \in 1 .. Len(e) : e[n] = Parts(Tail(c), ",")[n]
  <2>1. Len(e) = 0
      BY <1>4
  <2>2. \A l : l = 0 => \A n \in 1 .. l : FALSE
      OBVIOUS
  <2>3. \A n \in 1 .. Len(e) : FALSE
      BY <2>1, <2>2
  <2> QED
      BY <2>3
<1>8. Cut(Terminated(c), Tail(c), 1, ",", From(2, ap), Len(e))
    BY <1>2, <1>3, <1>4
<1>9. N \in Nat /\ MaxArgs \in Nat \ {0}
    BY <1>5, <1>6 DEF N
<1>10. Len(e) <= N /\ 0 \in Nat /\ Len(e) <= 0 /\ 0 < MaxArgs /\ (Len(e) = 0 \/ Len(e) = N)
    BY <1>4, <1>9
<1> QED
    BY <1>4, <1>7, <1>8, <1>10 DEF Halfway, e, N

\* One call, and what the command has been given when it was the last.
More(r, a) == IF r.res = NULL THEN a ELSE Append(a, Text(r.b, r.res))
GoesOn(c, cl, r, now) ==
    /\ now \in Seq(Seq(Chars))
    /\ cl + 1 = MaxArgs \/ r.res = NULL => now = Args(c)
    /\ cl + 1 # MaxArgs => Halfway(c, r.b, NULL, r.save, cl + 1, now)

LEMMA HalfwayGoesOn ==
    ASSUME NEW c, NEW st, NEW ar, NEW ap, NEW cl, NEW a, Halfway(c, st, ar, ap, cl, a)
    PROVE  GoesOn(c, cl, MyStrtok(st, ar, ",", ap), More(MyStrtok(st, ar, ",", ap), a))
<1> DEFINE r == MyStrtok(st, ar, ",", ap)
           now == More(r, a)
           s == Tail(c)
           N == Cardinality(Begins(s, ","))
           P == Parts(s, ",")
<1>1. /\ c \in Seq(Chars) /\ c # << >> /\ c[1] = "w" /\ a \in Seq(Seq(Chars))
      /\ Cut(st, s, 1, ",", From(ar, ap), Len(a))
      /\ \A n \in 1 .. Len(a) : a[n] = P[n]
      /\ Len(a) <= N /\ cl \in Nat /\ Len(a) <= cl /\ cl < MaxArgs /\ (Len(a) = cl \/ Len(a) = N)
    BY DEF Halfway
<1>2. s \in Seq(Chars) /\ "," \in Chars /\ Len(a) \in Nat
  <2>1. c \in Seq(Chars) /\ c # << >>
      BY <1>1
  <2>2. s \in Seq(Chars)
      BY <2>1, TailIs
  <2>3. a \in Seq(Seq(Chars))
      BY <1>1
  <2>4. Len(a) \in Nat
      BY <2>3
  <2>5. "," \in Chars
      BY DEF Chars
  <2> QED
      BY <2>2, <2>4, <2>5
<1>3. Called(st, ar, ",", ap, s, 1, Len(a))
    BY <1>1, <1>2, CallIs
<1>4. Len(P) = N /\ N \in Nat /\ \E S : P \in Seq(S)
    BY <1>2, PartsSeq
<1>5. MaxArgs \in Nat \ {0}
    BY TokensAssumption
<1>6. Args(c) = SubSeq(P, 1, IF N < MaxArgs THEN N ELSE MaxArgs)
    BY <1>1, <1>4 DEF Args
<1>9. /\ Len(a) <= N /\ cl \in Nat /\ Len(a) <= cl /\ cl < MaxArgs /\ (Len(a) = cl \/ Len(a) = N)
      /\ a \in Seq(Seq(Chars)) /\ Len(a) \in Nat /\ N \in Nat /\ Len(P) = N /\ MaxArgs \in Nat
    BY <1>1, <1>2, <1>4, <1>5
<1>10. c \in Seq(Chars) /\ c # << >> /\ c[1] = "w" /\ \A n \in 1 .. Len(a) : a[n] = P[n]
    BY <1>1
<1>11. Called(st, ar, ",", ap, s, 1, Len(a)) =>
            IF r.res = NULL
            THEN /\ Cut(r.b, s, 1, ",", NULL, Len(a)) /\ r.save = NULL /\ Len(a) = N
            ELSE /\ Cut(r.b, s, 1, ",", r.save, Len(a) + 1) /\ Len(a) + 1 \in 1 .. N
                 /\ Text(r.b, r.res) = P[Len(a) + 1] /\ Text(r.b, r.res) \in Seq(Chars)
    BY DEF Called
<1> HIDE DEF P, N, s, r, now
<1>7. CASE r.res = NULL
  <2>1. now = a
      BY <1>7 DEF now, More
  <2>2. Cut(r.b, s, 1, ",", NULL, Len(a)) /\ r.save = NULL /\ Len(a) = N
      BY <1>3, <1>7, <1>11
  <2>3. From(NULL, r.save) = NULL
      BY <2>2 DEF From
  <2>4. now = Args(c)
    <3>1. PICK S : P \in Seq(S)
        BY <1>4
    <3>2. N < MaxArgs
      <4>1. Len(a) = N
          BY <2>2
      <4> QED
          BY <1>9, <4>1
    <3>3. a = SubSeq(P, 1, N)
      <4>1. \A n \in 1 .. N : a[n] = P[n]
          BY <1>10, <2>2
      <4>2. N <= Len(P) /\ Len(a) = N
          BY <1>9, <2>2
      <4> QED
          BY <1>9, <3>1, <4>1, <4>2, FirstOnes
    <3> QED
        BY <1>6, <2>1, <3>2, <3>3
  <2>5. cl + 1 # MaxArgs => Halfway(c, r.b, NULL, r.save, cl + 1, now)
    <3> SUFFICES ASSUME cl + 1 # MaxArgs PROVE Halfway(c, r.b, NULL, r.save, cl + 1, a)
        BY <2>1
    <3>1. cl + 1 \in Nat /\ Len(a) <= cl + 1 /\ cl + 1 < MaxArgs
        BY <1>9
    <3>2. Cut(r.b, s, 1, ",", From(NULL, r.save), Len(a))
        BY <2>2, <2>3
    <3> QED
        BY <1>9, <1>10, <2>2, <3>1, <3>2 DEF Halfway, s, N, P
  <2> QED
      BY <1>9, <2>1, <2>4, <2>5 DEF GoesOn, r, now
<1>8. CASE r.res # NULL
  <2> DEFINE x == Text(r.b, r.res)
             l == Len(a) + 1
  <2>1. now = Append(a, x)
      BY <1>8 DEF now, More
  <2>2. Cut(r.b, s, 1, ",", r.save, l) /\ l \in 1 .. N /\ x = P[l] /\ x \in Seq(Chars)
      BY <1>3, <1>8, <1>11
  <2> HIDE DEF x
  <2>3. now \in Seq(Seq(Chars)) /\ Len(now) = l
    <3>1. \A A : \A q \in Seq(A), y \in A : Append(q, y) \in Seq(A) /\ Len(Append(q, y)) = Len(q) + 1
        OBVIOUS
    <3> QED
        BY <1>9, <2>1, <2>2, <3>1
  <2>8. l \in 1 .. N /\ x = P[l]
      BY <2>2
  <2>9. l <= N
      BY <1>9, <2>8
  <2>4. \A n \in 1 .. l : now[n] = P[n]
    <3> TAKE n \in 1 .. l
    <3>1. now[n] = IF n <= Len(a) THEN a[n] ELSE x
      <4>1. \A A : \A q \in Seq(A), y \in A : \A z \in 1 .. Len(q) + 1 :
                Append(q, y)[z] = IF z <= Len(q) THEN q[z] ELSE y
          OBVIOUS
      <4> QED
          BY <1>9, <2>1, <2>2, <4>1
    <3>2. CASE n <= Len(a)
      <4>1. n \in 1 .. Len(a)
          BY <1>9, <3>2
      <4> QED
          BY <1>10, <3>1, <3>2, <4>1
    <3>3. CASE ~(n <= Len(a))
      <4>1. n = l
          BY <1>9, <3>3
      <4> QED
          BY <2>8, <3>1, <3>3, <4>1
    <3> QED
        BY <3>2, <3>3
  <2>5. Len(a) = cl /\ l = cl + 1
    <3>1. \A u, v, n \in Nat : u <= v /\ u + 1 <= n /\ (u = v \/ u = n) => u = v /\ u + 1 = v + 1
        OBVIOUS
    <3> QED
        BY <1>9, <2>9, <3>1
  <2> HIDE DEF l
  <2>6. cl + 1 = MaxArgs => now = Args(c)
    <3> SUFFICES ASSUME cl + 1 = MaxArgs PROVE now = Args(c)
        OBVIOUS
    <3>1. PICK S : P \in Seq(S)
        BY <1>4
    <3>2. ~(N < MaxArgs) /\ MaxArgs <= Len(P) /\ l = MaxArgs
        BY <1>9, <2>9, <2>5
    <3>3. now = SubSeq(P, 1, MaxArgs)
      <4>1. \A n \in 1 .. MaxArgs : now[n] = P[n]
          BY <2>4, <3>2
      <4>2. Len(now) = MaxArgs
          BY <2>3, <3>2
      <4> QED
          BY <1>9, <2>3, <3>1, <3>2, <4>1, <4>2, FirstOnes
    <3> QED
        BY <1>6, <3>2, <3>3
  <2>7. cl + 1 # MaxArgs => Halfway(c, r.b, NULL, r.save, cl + 1, now)
    <3> SUFFICES ASSUME cl + 1 # MaxArgs PROVE Halfway(c, r.b, NULL, r.save, cl + 1, now)
        OBVIOUS
    <3>1. cl + 1 \in Nat /\ l <= cl + 1 /\ cl + 1 < MaxArgs /\ l <= N
        BY <1>9, <2>9, <2>5
    <3>2. Cut(r.b, s, 1, ",", From(NULL, r.save), Len(now))
      <4>1. From(NULL, r.save) = r.save
          BY DEF From
      <4> QED
          BY <2>2, <2>3, <4>1
    <3>3. \A n \in 1 .. Len(now) : now[n] = P[n]
        BY <2>3, <2>4
    <3> QED
        BY <1>10, <2>3, <2>5, <3>1, <3>2, <3>3 DEF Halfway, s, N, P
  <2> QED
      BY <2>3, <2>6, <2>7, <1>8 DEF GoesOn, r, now
<1> QED
    BY <1>7, <1>8

-----------------------------------------------------------------------------
\* One thread.

\* The message s of a thread, the place in its buffer, its commands so far, and
\* in a cut function the place in the command.
Done(s, cm, l) == \A n \in 1 .. l : cm[n] = Args(Parts(s, ";")[n])
Place(s, b, c2, sv, st, ar, ap, p, cl, cm) ==
    /\ s \in Seq(Chars) /\ cm \in Seq(Seq(Seq(Chars)))
    /\ Cut(b, s, 0, ";", From(c2, sv), Len(cm))
    /\ Len(cm) <= Cardinality(Begins(s, ";"))
    /\ p \in {"command", "done", "cut", "cutall"}
    /\ p = "done" => Len(cm) = Cardinality(Begins(s, ";"))
    /\ p \in {"command", "done"} => Done(s, cm, Len(cm))
    /\ p \in {"cut", "cutall"} =>
           /\ Len(cm) > 0 /\ Done(s, cm, Len(cm) - 1)
           /\ Halfway(Parts(s, ";")[Len(cm)], st, ar, ap, cl, cm[Len(cm)])

\* The step of the loop over the commands.
NoCommand(s, c2, r, cm) ==
    r.res = NULL => \A st, ar, ap, cl : Place(s, r.b, NULL, r.save, st, ar, ap, "done", cl, cm)
NextCommand(s, r, cm, c) ==
    r.res # NULL =>
        /\ c[1] = "w" => \A ap : \A f \in {"cut", "cutall"} :
               Place(s, r.b, NULL, r.save, Terminated(c), 2, ap, f, 0, Append(cm, << >>))
        /\ c[1] # "w" => \A st, ar, ap, cl :
               Place(s, r.b, NULL, r.save, st, ar, ap, "command", cl, Append(cm, << >>))

LEMMA AppendIs ==
    ASSUME NEW S, NEW q \in Seq(S), NEW x \in S
    PROVE  /\ Append(q, x) \in Seq(S) /\ Len(Append(q, x)) = Len(q) + 1 /\ Len(q) \in Nat
           /\ \A n \in 1 .. Len(q) : Append(q, x)[n] = q[n]
           /\ Append(q, x)[Len(q) + 1] = x
OBVIOUS

LEMMA ReplaceIs ==
    ASSUME NEW S, NEW u \in Seq(S), NEW x \in S, NEW j \in 1 .. Len(u)
    PROVE  [u EXCEPT ![j] = x] \in Seq(S) /\ Len([u EXCEPT ![j] = x]) = Len(u)
OBVIOUS

LEMMA LoopEnds ==
    ASSUME NEW s, NEW b, NEW c2, NEW sv, NEW st0, NEW ar0, NEW ap0, NEW cl0, NEW cm,
           Place(s, b, c2, sv, st0, ar0, ap0, "command", cl0, cm)
    PROVE  NoCommand(s, c2, MyStrtok(b, c2, ";", sv), cm)
<1> DEFINE r == MyStrtok(b, c2, ";", sv)
<1>1. /\ s \in Seq(Chars) /\ cm \in Seq(Seq(Seq(Chars))) /\ Cut(b, s, 0, ";", From(c2, sv), Len(cm))
      /\ Done(s, cm, Len(cm))
    BY DEF Place
<1>2. ";" \in Chars /\ 0 \in Nat
    BY DEF Chars
<1>3. Called(b, c2, ";", sv, s, 0, Len(cm))
    BY <1>1, <1>2, CallIs
<1>4. r.res = NULL => Cut(r.b, s, 0, ";", NULL, Len(cm)) /\ r.save = NULL
                      /\ Len(cm) = Cardinality(Begins(s, ";"))
    BY <1>3 DEF Called
<1>5. Cardinality(Begins(s, ";")) <= Cardinality(Begins(s, ";"))
  <2>1. s \in Seq(Chars)
      BY <1>1
  <2>2. Cardinality(Begins(s, ";")) \in Nat
      BY <2>1, PartsSeq
  <2>3. \A n \in Nat : n <= n
      OBVIOUS
  <2> QED
      BY <2>2, <2>3
<1>6. From(NULL, r.save) = r.save
    BY DEF From
<1> HIDE DEF r
<1> SUFFICES ASSUME r.res = NULL, NEW st, NEW ar, NEW ap, NEW cl
             PROVE  Place(s, r.b, NULL, r.save, st, ar, ap, "done", cl, cm)
    BY DEF NoCommand, r
<1>7. Cut(r.b, s, 0, ";", From(NULL, r.save), Len(cm)) /\ Len(cm) = Cardinality(Begins(s, ";"))
    BY <1>4, <1>6
<1>8. Len(cm) <= Cardinality(Begins(s, ";"))
    BY <1>5, <1>7
<1>9. "done" \in {"command", "done", "cut", "cutall"} /\ "done" \notin {"cut", "cutall"}
    OBVIOUS
<1> QED
    BY <1>1, <1>7, <1>8, <1>9 DEF Place

LEMMA LoopGoesOn ==
    ASSUME NEW s, NEW b, NEW c2, NEW sv, NEW st0, NEW ar0, NEW ap0, NEW cl0, NEW cm,
           Place(s, b, c2, sv, st0, ar0, ap0, "command", cl0, cm)
    PROVE  NextCommand(s, MyStrtok(b, c2, ";", sv), cm,
                       Text(MyStrtok(b, c2, ";", sv).b, MyStrtok(b, c2, ";", sv).res))
<1> DEFINE r == MyStrtok(b, c2, ";", sv)
           c == Text(r.b, r.res)
           N == Cardinality(Begins(s, ";"))
           l == Len(cm) + 1
           new == Append(cm, << >>)
           P == Parts(s, ";")
<1>1. /\ s \in Seq(Chars) /\ cm \in Seq(Seq(Seq(Chars))) /\ Cut(b, s, 0, ";", From(c2, sv), Len(cm))
      /\ Done(s, cm, Len(cm))
    BY DEF Place
<1>2. ";" \in Chars /\ 0 \in Nat
    BY DEF Chars
<1>3. Called(b, c2, ";", sv, s, 0, Len(cm))
    BY <1>1, <1>2, CallIs
<1>4. r.res # NULL => /\ Cut(r.b, s, 0, ";", r.save, l) /\ l \in 1 .. N /\ c = P[l]
                      /\ c \in Seq(Chars) /\ c # << >>
    BY <1>3 DEF Called
<1>5. N \in Nat
    BY <1>1, PartsSeq
<1>6. From(NULL, r.save) = r.save
    BY DEF From
<1>7. << >> \in Seq(Seq(Chars))
    OBVIOUS
<1>8. /\ new \in Seq(Seq(Seq(Chars))) /\ Len(new) = l /\ Len(cm) \in Nat
      /\ \A n \in 1 .. Len(cm) : new[n] = cm[n]
      /\ new[l] = << >>
    BY <1>1, <1>7, AppendIs
<1> HIDE DEF r, c, N, P, new
<1> SUFFICES ASSUME r.res # NULL PROVE NextCommand(s, r, cm, c)
    BY DEF NextCommand, r, c
<1>9. /\ Cut(r.b, s, 0, ";", From(NULL, r.save), Len(new))
      /\ c = P[l] /\ c \in Seq(Chars) /\ c # << >>
    BY <1>4, <1>6, <1>8
<1>10. l \in 1 .. N
    BY <1>4
<1>11. Len(new) <= N /\ l > 0 /\ l - 1 = Len(cm)
    BY <1>5, <1>8, <1>10
<1>12. \A n \in 1 .. Len(cm) : new[n] = Args(P[n])
    BY <1>1, <1>8 DEF Done, P
<1>13. ASSUME c[1] = "w", NEW ap, NEW f \in {"cut", "cutall"}
       PROVE  Place(s, r.b, NULL, r.save, Terminated(c), 2, ap, f, 0, new)
  <2>1. Halfway(c, Terminated(c), 2, ap, 0, << >>)
      BY <1>9, <1>13, HalfwayBegins
  <2>2. Halfway(P[Len(new)], Terminated(c), 2, ap, 0, new[Len(new)])
      BY <1>8, <1>9, <2>1
  <2>3. Done(s, new, Len(new) - 1)
      BY <1>8, <1>11, <1>12 DEF Done, P
  <2>4. Len(new) > 0
      BY <1>8, <1>11
  <2>5. f \in {"command", "done", "cut", "cutall"} /\ f # "done" /\ f \notin {"command", "done"}
      OBVIOUS
  <2> QED
      BY <1>1, <1>8, <1>9, <1>11, <2>2, <2>3, <2>4, <2>5 DEF Place, P, N
<1>14. ASSUME c[1] # "w", NEW st, NEW ar, NEW ap, NEW cl
       PROVE  Place(s, r.b, NULL, r.save, st, ar, ap, "command", cl, new)
  <2>1. Args(P[l]) = << >>
      BY <1>9, <1>14 DEF Args
  <2>2. \A n \in 1 .. l : new[n] = Args(P[n])
    <3> TAKE n \in 1 .. l
    <3>1. n \in 1 .. Len(cm) \/ n = l
        BY <1>8
    <3> HIDE DEF l
    <3> QED
        BY <1>8, <1>12, <2>1, <3>1
  <2>3. Done(s, new, Len(new))
      BY <1>8, <2>2 DEF Done, P
  <2>4. "command" \in {"command", "done", "cut", "cutall"} /\ "command" # "done" /\ "command" \notin {"cut", "cutall"}
      OBVIOUS
  <2> QED
      BY <1>1, <1>8, <1>9, <1>11, <2>3, <2>4 DEF Place, N
<1> QED
    BY <1>13, <1>14 DEF NextCommand, new

\* The step of a cut function.
ParameterStep(s, b, c2, sv, p, cl, cm, r) ==
    Place(s, b, c2, sv, r.b, NULL, r.save,
          IF cl + 1 = MaxArgs \/ (r.res = NULL /\ p = "cut") THEN "command" ELSE p,
          cl + 1, [cm EXCEPT ![Len(cm)] = More(r, cm[Len(cm)])])

LEMMA CutGoesOn ==
    ASSUME NEW s, NEW b, NEW c2, NEW sv, NEW st, NEW ar, NEW ap, NEW p \in {"cut", "cutall"}, NEW cl, NEW cm,
           Place(s, b, c2, sv, st, ar, ap, p, cl, cm)
    PROVE  ParameterStep(s, b, c2, sv, p, cl, cm, MyStrtok(st, ar, ",", ap))
<1> DEFINE r == MyStrtok(st, ar, ",", ap)
           k == Len(cm)
           now == More(r, cm[k])
           new == [cm EXCEPT ![k] = now]
           q == IF cl + 1 = MaxArgs \/ (r.res = NULL /\ p = "cut") THEN "command" ELSE p
           P == Parts(s, ";")
<1>1. /\ s \in Seq(Chars) /\ cm \in Seq(Seq(Seq(Chars))) /\ Cut(b, s, 0, ";", From(c2, sv), k)
      /\ k <= Cardinality(Begins(s, ";"))
    BY DEF Place
<1>2. k > 0 /\ Done(s, cm, k - 1) /\ Halfway(P[k], st, ar, ap, cl, cm[k])
    BY DEF Place
<1>3. GoesOn(P[k], cl, r, now)
    BY <1>2, HalfwayGoesOn
<1> HIDE DEF r, now, P
<1>4. /\ now \in Seq(Seq(Chars))
      /\ cl + 1 = MaxArgs \/ r.res = NULL => now = Args(P[k])
      /\ cl + 1 # MaxArgs => Halfway(P[k], r.b, NULL, r.save, cl + 1, now)
    BY <1>3 DEF GoesOn
<1>5. k \in Nat /\ DOMAIN cm = 1 .. k /\ k \in 1 .. k
  <2>1. \A S : \A u \in Seq(S) : Len(u) \in Nat /\ DOMAIN u = 1 .. Len(u)
      OBVIOUS
  <2>2. k \in Nat /\ DOMAIN cm = 1 .. k
      BY <1>1, <2>1
  <2>3. k > 0
      BY <1>2
  <2> HIDE DEF k
  <2> QED
      BY <2>2, <2>3
<1>6. /\ new \in Seq(Seq(Seq(Chars))) /\ Len(new) = k /\ new[k] = now
      /\ \A n \in 1 .. k - 1 : new[n] = cm[n]
  <2> DEFINE C == Seq(Seq(Chars))
  <2>1. cm \in Seq(C) /\ now \in C /\ k \in 1 .. Len(cm)
      BY <1>1, <1>4, <1>5
  <2>2. new \in Seq(Seq(Seq(Chars))) /\ Len(new) = k
    <3> HIDE DEF C
    <3>1. new \in Seq(C) /\ Len(new) = Len(cm)
        BY <2>1, ReplaceIs
    <3> QED
        BY <3>1 DEF C
  <2>3. new[k] = now
      BY <1>5
  <2>4. \A n \in 1 .. k - 1 : n \in DOMAIN cm /\ n # k
    <3>1. \A j \in Nat : \A n \in 1 .. j - 1 : n \in 1 .. j /\ n # j
        OBVIOUS
    <3> HIDE DEF k
    <3> QED
        BY <1>5, <3>1
  <2>5. \A n \in 1 .. k - 1 : new[n] = cm[n]
      BY <2>4
  <2> QED
      BY <2>2, <2>3, <2>5
<1> HIDE DEF new, k
<1>7. Done(s, new, k - 1)
    BY <1>2, <1>6 DEF Done
<1>8. q \in {"command", p} /\ (q = "command" => now = Args(P[k])) /\ (q # "command" => cl + 1 # MaxArgs)
    BY <1>4
<1> HIDE DEF q
<1>9. CASE q = "command"
  <2>1. \A n \in 1 .. k : new[n] = Args(P[n])
    <3> TAKE n \in 1 .. k
    <3>1. n \in 1 .. k - 1 \/ n = k
        BY <1>5
    <3> QED
        BY <1>6, <1>7, <1>8, <1>9, <3>1 DEF Done, P
  <2>2. Done(s, new, Len(new))
      BY <1>6, <2>1 DEF Done, P
  <2>3. q \in {"command", "done", "cut", "cutall"} /\ q # "done" /\ q \notin {"cut", "cutall"}
      BY <1>9
  <2>4. Place(s, b, c2, sv, r.b, NULL, r.save, q, cl + 1, new)
      BY <1>1, <1>6, <2>2, <2>3 DEF Place
  <2> QED
      BY <2>4 DEF ParameterStep, r, q, new, now, k
<1>10. CASE q # "command"
  <2>1. q = p /\ Halfway(P[k], r.b, NULL, r.save, cl + 1, now)
      BY <1>4, <1>8, <1>10
  <2>2. Halfway(P[Len(new)], r.b, NULL, r.save, cl + 1, new[Len(new)])
      BY <1>6, <2>1
  <2>3. q \in {"command", "done", "cut", "cutall"} /\ q # "done" /\ q \notin {"command", "done"}
      BY <2>1
  <2>4. Place(s, b, c2, sv, r.b, NULL, r.save, q, cl + 1, new)
      BY <1>1, <1>2, <1>6, <1>7, <2>2, <2>3 DEF Place, P
  <2> QED
      BY <2>4 DEF ParameterStep, r, q, new, now, k
<1> QED
    BY <1>9, <1>10

-----------------------------------------------------------------------------
\* What the property says of one thread.
AsMeant(s, p, cm) ==
    LET m == Meant(s)
        done == IF p \in {"command", "done"} THEN cm ELSE Front(cm)
    IN  IsPrefix(done, m) /\ (p = "done" => done = m)

LEMMA MeantIs ==
    ASSUME NEW s \in Seq(Chars)
    PROVE  /\ Len(Meant(s)) = Cardinality(Begins(s, ";"))
           /\ \E S : Meant(s) \in Seq(S)
           /\ \A n \in 1 .. Cardinality(Begins(s, ";")) : Meant(s)[n] = Args(Parts(s, ";")[n])
<1> DEFINE N == Cardinality(Begins(s, ";"))
           P == Parts(s, ";")
           f == Meant(s)
<1>1. DOMAIN P = 1 .. N
    BY PartsSeq
<1>2. N \in Nat
    BY PartsSeq
<1>3. f = [n \in DOMAIN P |-> Args(P[n])]
    BY DEF Meant
<1> HIDE DEF N, P, f
<1>4. f = [n \in 1 .. N |-> Args(P[n])]
    BY <1>1, <1>3
<1>5. f = [n \in 1 .. N |-> f[n]]
    BY <1>4
<1>6. Len(f) = N /\ \E S : f \in Seq(S)
    BY <1>2, <1>5, FunIsSeq
<1>7. \A n \in 1 .. N : f[n] = Args(P[n])
    BY <1>4
<1> QED
    BY <1>6, <1>7 DEF N, P, f

\* A sequence is the beginning of another one.
LEMMA PrefixIs ==
    ASSUME NEW S, NEW a \in Seq(S), NEW T, NEW p \in Seq(T), NEW l \in Nat, l <= Len(p), Len(a) = l,
           \A n \in 1 .. l : a[n] = p[n]
    PROVE  IsPrefix(a, p) /\ (l = Len(p) => a = p)
<1>1. a = SubSeq(p, 1, l)
    BY FirstOnes
<1>2. a = SubSeq(a, 1, l)
  <2>1. \A n \in 1 .. l : a[n] = a[n]
      OBVIOUS
  <2>2. l <= Len(a)
      OBVIOUS
  <2> QED
      BY <2>1, <2>2, FirstOnes
<1>3. l = Len(p) => p = SubSeq(p, 1, l)
  <2> SUFFICES ASSUME l = Len(p) PROVE p = SubSeq(p, 1, l)
      OBVIOUS
  <2>1. \A n \in 1 .. l : p[n] = p[n]
      OBVIOUS
  <2> QED
      BY <2>1, FirstOnes
<1> QED
    BY <1>1, <1>2, <1>3 DEF IsPrefix

LEMMA FrontIs ==
    ASSUME NEW S, NEW u \in Seq(S), Len(u) > 0
    PROVE  /\ SubSeq(u, 1, Len(u) - 1) \in Seq(S) /\ Len(SubSeq(u, 1, Len(u) - 1)) = Len(u) - 1
           /\ \A n \in 1 .. Len(u) - 1 : SubSeq(u, 1, Len(u) - 1)[n] = u[n]
<1>1. Len(u) \in Nat \ {0}
    OBVIOUS
<1>2. \A l \in Nat : l < Len(u) =>
          /\ SubSeq(u, 1, l) \in Seq(S) /\ Len(SubSeq(u, 1, l)) = l
          /\ \A n \in 1 .. l : SubSeq(u, 1, l)[n] = u[n]
    OBVIOUS
<1>3. Len(u) - 1 \in Nat /\ Len(u) - 1 < Len(u)
    BY <1>1
<1> QED
    BY <1>2, <1>3

LEMMA PlaceMeans ==
    ASSUME NEW s, NEW b, NEW c2, NEW sv, NEW st, NEW ar, NEW ap, NEW p, NEW cl, NEW cm,
           Place(s, b, c2, sv, st, ar, ap, p, cl, cm)
    PROVE  AsMeant(s, p, cm)
<1> DEFINE N == Cardinality(Begins(s, ";"))
           m == Meant(s)
           done == IF p \in {"command", "done"} THEN cm ELSE Front(cm)
           l == IF p \in {"command", "done"} THEN Len(cm) ELSE Len(cm) - 1
           C == Seq(Seq(Chars))
<1>1. s \in Seq(Chars) /\ cm \in Seq(C) /\ Len(cm) <= N
    BY DEF Place
<1>2. N \in Nat
    BY <1>1, PartsSeq
<1>3. Len(m) = N /\ \E S : m \in Seq(S)
    BY <1>1, MeantIs
<1>4. \A n \in 1 .. N : m[n] = Args(Parts(s, ";")[n])
    BY <1>1, MeantIs
<1>5. Len(cm) \in Nat
  <2>1. cm \in Seq(C)
      BY <1>1
  <2>2. \A S : \A u \in Seq(S) : Len(u) \in Nat
      OBVIOUS
  <2> HIDE DEF C
  <2> QED
      BY <2>1, <2>2
<1>6. p = "done" => Len(cm) = N
    BY DEF Place
<1>7. Done(s, cm, l) /\ (p \notin {"command", "done"} => Len(cm) > 0)
    BY DEF Place
<1> HIDE DEF N, m, C
<1>8. l \in Nat /\ l <= N /\ (p = "done" => l = N)
    BY <1>1, <1>2, <1>5, <1>6, <1>7
<1>9. done \in Seq(C) /\ Len(done) = l /\ \A n \in 1 .. l : done[n] = cm[n]
  <2>1. CASE p \in {"command", "done"}
      BY <1>1, <2>1
  <2>2. CASE p \notin {"command", "done"}
    <3>1. done = SubSeq(cm, 1, Len(cm) - 1) /\ l = Len(cm) - 1 /\ Len(cm) > 0
        BY <1>7, <2>2 DEF Front
    <3> HIDE DEF done, l
    <3> QED
        BY <1>1, <3>1, FrontIs
  <2> QED
      BY <2>1, <2>2
<1> HIDE DEF done, l
<1>10. PICK S : m \in Seq(S)
    BY <1>3
<1>11. \A n \in 1 .. l : done[n] = m[n]
  <2> TAKE n \in 1 .. l
  <2>1. n \in 1 .. N
      BY <1>2, <1>8
  <2>2. cm[n] = Args(Parts(s, ";")[n])
      BY <1>7 DEF Done
  <2> QED
      BY <1>4, <1>9, <2>1, <2>2
<1>12. l <= Len(m)
    BY <1>3, <1>8
<1>13. IsPrefix(done, m) /\ (l = Len(m) => done = m)
    BY <1>8, <1>9, <1>10, <1>11, <1>12, PrefixIs
<1> QED
    BY <1>3, <1>8, <1>13 DEF AsMeant, done, m

-----------------------------------------------------------------------------
\* All threads.
Whole(f) == f = [t \in Threads |-> f[t]]
PlaceOf(t) == Place(message[t], buf[t], cmd2[t], saveptr[t], stm[t], arg[t], argptr[t], stage[t], calls[t], cmds[t])
Cutting ==
    /\ Whole(buf) /\ Whole(saveptr) /\ Whole(cmd2) /\ Whole(stm) /\ Whole(arg) /\ Whole(argptr)
    /\ Whole(stage) /\ Whole(calls) /\ Whole(cmds)
    /\ \A t \in Threads : PlaceOf(t)

LEMMA CuttingInit == CutInit => Cutting
<1> SUFFICES ASSUME CutInit PROVE Cutting
    OBVIOUS
<1>1. /\ buf = [t \in Threads |-> Terminated(message[t])]
      /\ saveptr = [t \in Threads |-> NULL] /\ cmd2 = [t \in Threads |-> 1]
      /\ stm = [t \in Threads |-> Terminated(<< >>)]
      /\ argptr = [t \in Threads |-> 1] /\ arg = [t \in Threads |-> NULL]
      /\ stage = [t \in Threads |-> "command"] /\ calls = [t \in Threads |-> 0]
      /\ cmds = [t \in Threads |-> << >>]
      /\ \A t \in Threads : message[t] \in Messages[t]
    BY DEF CutInit
<1>2. /\ Whole(buf) /\ Whole(saveptr) /\ Whole(cmd2) /\ Whole(stm) /\ Whole(arg) /\ Whole(argptr)
      /\ Whole(stage) /\ Whole(calls) /\ Whole(cmds)
    BY <1>1 DEF Whole
<1>3. ASSUME NEW t \in Threads PROVE PlaceOf(t)
  <2> DEFINE s == message[t]
             e == << >>
  <2>1. s \in Seq(Chars)
    <3>1. s \in Messages[t]
        BY <1>1
    <3>2. Chars = {"w", "x", ",", ";"}
        BY DEF Chars
    <3> QED
        BY <3>1, <3>2, TokensAssumption
  <2>2. /\ buf[t] = Terminated(s) /\ cmd2[t] = 1 /\ stage[t] = "command" /\ cmds[t] = e
      BY <1>1
  <2> HIDE DEF s
  <2>3. Len(s) \in Nat /\ 0 \in {0, 1} /\ Len(s) = 0 + Len(s)
    <3>1. \A S : \A u \in Seq(S) : Len(u) \in Nat
        OBVIOUS
    <3>2. Len(s) \in Nat
        BY <2>1, <3>1
    <3> QED
        BY <3>2
  <2>4. \A j \in 0 + 1 .. 0 + Len(s) : s[j] = s[j - 0]
      BY <2>3
  <2>5. Cut(Terminated(s), s, 0, ";", 0 + 1, 0)
      BY <2>1, <2>3, <2>4, FirstCut
  <2>6. From(1, saveptr[t]) = 0 + 1
      BY DEF From, NULL
  <2>7. e \in Seq(Seq(Seq(Chars))) /\ Len(e) = 0
      BY EmptySeq
  <2> HIDE DEF e
  <2>8. Cut(buf[t], s, 0, ";", From(cmd2[t], saveptr[t]), Len(e))
      BY <2>2, <2>5, <2>6, <2>7
  <2>9. Cardinality(Begins(s, ";")) \in Nat
      BY <2>1, PartsSeq
  <2>10. Len(e) <= Cardinality(Begins(s, ";"))
    <3>1. \A n \in Nat : 0 <= n
        OBVIOUS
    <3> QED
        BY <2>7, <2>9, <3>1
  <2>11. Done(s, e, Len(e))
    <3>1. \A l : l = 0 => \A n \in 1 .. l : FALSE
        OBVIOUS
    <3>2. \A n \in 1 .. Len(e) : FALSE
        BY <2>7, <3>1
    <3> QED
        BY <3>2 DEF Done
  <2>12. stage[t] \in {"command", "done", "cut", "cutall"} /\ stage[t] # "done" /\ stage[t] \notin {"cut", "cutall"}
      BY <2>2
  <2> QED
      BY <2>1, <2>2, <2>7, <2>8, <2>10, <2>11, <2>12 DEF PlaceOf, Place, s
<1> QED
    BY <1>2, <1>3 DEF Cutting

-----------------------------------------------------------------------------
LEMMA WholeExcept ==
    ASSUME NEW f, Whole(f), NEW t \in Threads, NEW x
    PROVE  /\ Whole([f EXCEPT ![t] = x]) /\ [f EXCEPT ![t] = x][t] = x
           /\ \A u \in Threads \ {t} : [f EXCEPT ![t] = x][u] = f[u]
<1>1. f = [u \in Threads |-> f[u]]
    BY DEF Whole
<1>2. DOMAIN f = Threads
    BY <1>1
<1> DEFINE g == [f EXCEPT ![t] = x]
<1>3. g = [u \in Threads |-> IF u = t THEN x ELSE f[u]]
    BY <1>1, <1>2
<1> HIDE DEF g
<1>4. g[t] = x /\ \A u \in Threads \ {t} : g[u] = f[u]
    BY <1>3
<1>5. g = [u \in Threads |-> g[u]]
    BY <1>3
<1> QED
    BY <1>4, <1>5 DEF Whole, g

\* A step of thread t leaves the others alone.
Kept(f, g, t) == Whole(g) /\ \A u \in Threads \ {t} : g[u] = f[u]
AllKept(t) ==
    /\ Kept(buf, buf', t) /\ Kept(saveptr, saveptr', t) /\ Kept(cmd2, cmd2', t)
    /\ Kept(stm, stm', t) /\ Kept(arg, arg', t) /\ Kept(argptr, argptr', t)
    /\ Kept(stage, stage', t) /\ Kept(calls, calls', t) /\ Kept(cmds, cmds', t)
    /\ message' = message

LEMMA ExceptKept ==
    ASSUME NEW f, Whole(f), NEW t \in Threads, NEW x
    PROVE  Kept(f, [f EXCEPT ![t] = x], t) /\ [f EXCEPT ![t] = x][t] = x
BY WholeExcept DEF Kept

LEMMA SameKept == ASSUME NEW f, Whole(f), NEW t \in Threads PROVE Kept(f, f, t)
BY DEF Kept

LEMMA OthersCut ==
    ASSUME Cutting, NEW t \in Threads, AllKept(t), PlaceOf(t)'
    PROVE  Cutting'
<1>1. /\ Whole(buf') /\ Whole(saveptr') /\ Whole(cmd2') /\ Whole(stm') /\ Whole(arg') /\ Whole(argptr')
      /\ Whole(stage') /\ Whole(calls') /\ Whole(cmds')
    BY DEF AllKept, Kept
<1>2. ASSUME NEW u \in Threads, u # t PROVE PlaceOf(u)'
  <2>1. PlaceOf(u)
      BY DEF Cutting
  <2>2. /\ buf'[u] = buf[u] /\ saveptr'[u] = saveptr[u] /\ cmd2'[u] = cmd2[u] /\ stm'[u] = stm[u]
        /\ arg'[u] = arg[u] /\ argptr'[u] = argptr[u] /\ stage'[u] = stage[u] /\ calls'[u] = calls[u]
        /\ cmds'[u] = cmds[u] /\ message'[u] = message[u]
      BY <1>2 DEF AllKept, Kept
  <2> QED
      BY <2>1, <2>2 DEF PlaceOf
<1>3. \A u \in Threads : PlaceOf(u)'
    BY <1>2
<1> QED
    BY <1>1, <1>3 DEF Cutting, Whole

LEMMA CommandKeeps ==
    ASSUME Cutting, NEW t \in Threads, Command(t)
    PROVE  Cutting'
<1> DEFINE r == MyStrtok(buf[t], cmd2[t], ";", saveptr[t])
           c == Text(r.b, r.res)
<1>1. /\ Whole(buf) /\ Whole(saveptr) /\ Whole(cmd2) /\ Whole(stm) /\ Whole(arg) /\ Whole(argptr)
      /\ Whole(stage) /\ Whole(calls) /\ Whole(cmds) /\ PlaceOf(t)
    BY DEF Cutting
<1>2. /\ stage[t] = "command"
      /\ buf' = [buf EXCEPT ![t] = r.b]
      /\ saveptr' = [saveptr EXCEPT ![t] = r.save]
      /\ cmd2' = [cmd2 EXCEPT ![t] = NULL]
      /\ calls' = [calls EXCEPT ![t] = 0] /\ message' = message /\ argptr' = argptr
    BY DEF Command
<1>3. r.res = NULL => stage' = [stage EXCEPT ![t] = "done"] /\ stm' = stm /\ arg' = arg /\ cmds' = cmds
    BY DEF Command
<1>4. r.res # NULL =>
        /\ stm' = [stm EXCEPT ![t] = Terminated(c)] /\ arg' = [arg EXCEPT ![t] = 2]
        /\ \E f \in {"cut", "cutall"} : stage' = IF c[1] = "w" THEN [stage EXCEPT ![t] = f] ELSE stage
        /\ cmds' = [cmds EXCEPT ![t] = Append(cmds[t], << >>)]
    BY DEF Command
<1>5. Place(message[t], buf[t], cmd2[t], saveptr[t], stm[t], arg[t], argptr[t], "command", calls[t], cmds[t])
    BY <1>1, <1>2 DEF PlaceOf
<1>6. NoCommand(message[t], cmd2[t], r, cmds[t])
    BY <1>5, LoopEnds
<1>7. NextCommand(message[t], r, cmds[t], c)
    BY <1>5, LoopGoesOn
<1> HIDE DEF r, c
<1>8. /\ Kept(buf, buf', t) /\ Kept(saveptr, saveptr', t) /\ Kept(cmd2, cmd2', t) /\ Kept(calls, calls', t)
      /\ Kept(argptr, argptr', t)
      /\ buf'[t] = r.b /\ saveptr'[t] = r.save /\ cmd2'[t] = NULL /\ calls'[t] = 0 /\ argptr'[t] = argptr[t]
      /\ message'[t] = message[t]
    BY <1>1, <1>2, ExceptKept, SameKept
<1>9. CASE r.res = NULL
  <2>1. /\ Kept(stage, stage', t) /\ Kept(stm, stm', t) /\ Kept(arg, arg', t) /\ Kept(cmds, cmds', t)
        /\ stage'[t] = "done" /\ cmds'[t] = cmds[t]
      BY <1>1, <1>3, <1>9, ExceptKept, SameKept
  <2>2. AllKept(t)
      BY <1>2, <1>8, <2>1 DEF AllKept
  <2>3. Place(message[t], r.b, NULL, r.save, stm'[t], arg'[t], argptr'[t], "done", calls'[t], cmds[t])
      BY <1>6, <1>9 DEF NoCommand
  <2>4. PlaceOf(t)'
      BY <1>8, <2>1, <2>3 DEF PlaceOf
  <2> QED
      BY <2>2, <2>4, OthersCut
<1>10. CASE r.res # NULL
  <2>1. /\ Kept(stm, stm', t) /\ Kept(arg, arg', t) /\ Kept(cmds, cmds', t)
        /\ stm'[t] = Terminated(c) /\ arg'[t] = 2 /\ cmds'[t] = Append(cmds[t], << >>)
    <3>1. /\ stm' = [stm EXCEPT ![t] = Terminated(c)] /\ arg' = [arg EXCEPT ![t] = 2]
          /\ cmds' = [cmds EXCEPT ![t] = Append(cmds[t], << >>)]
        BY <1>4, <1>10
    <3>2. Kept(stm, stm', t) /\ stm'[t] = Terminated(c)
        BY <1>1, <3>1, ExceptKept
    <3>3. Kept(arg, arg', t) /\ arg'[t] = 2
        BY <1>1, <3>1, ExceptKept
    <3>4. Kept(cmds, cmds', t) /\ cmds'[t] = Append(cmds[t], << >>)
        BY <1>1, <3>1, ExceptKept
    <3> QED
        BY <3>2, <3>3, <3>4
  <2>5. \E f \in {"cut", "cutall"} : stage' = IF c[1] = "w" THEN [stage EXCEPT ![t] = f] ELSE stage
      BY <1>4, <1>10, Zenon
  <2>2. PICK f \in {"cut", "cutall"} : stage' = IF c[1] = "w" THEN [stage EXCEPT ![t] = f] ELSE stage
      BY <2>5, Zenon
  <2>3. CASE c[1] = "w"
    <3>1. Kept(stage, stage', t) /\ stage'[t] = f
        BY <1>1, <2>2, <2>3, ExceptKept
    <3>2. AllKept(t)
        BY <1>2, <1>8, <2>1, <3>1 DEF AllKept
    <3>3. Place(message[t], r.b, NULL, r.save, Terminated(c), 2, argptr[t], f, 0, Append(cmds[t], << >>))
        BY <1>7, <1>10, <2>3 DEF NextCommand
    <3>4. PlaceOf(t)'
        BY <1>8, <2>1, <3>1, <3>3 DEF PlaceOf
    <3> QED
        BY <3>2, <3>4, OthersCut
  <2>4. CASE c[1] # "w"
    <3>1. Kept(stage, stage', t) /\ stage'[t] = "command"
        BY <1>1, <1>2, <2>2, <2>4, SameKept
    <3>2. AllKept(t)
        BY <1>2, <1>8, <2>1, <3>1 DEF AllKept
    <3>3. Place(message[t], r.b, NULL, r.save, Terminated(c), 2, argptr[t], "command", 0, Append(cmds[t], << >>))
        BY <1>7, <1>10, <2>4 DEF NextCommand
    <3>4. PlaceOf(t)'
        BY <1>8, <2>1, <3>1, <3>3 DEF PlaceOf
    <3> QED
        BY <3>2, <3>4, OthersCut
  <2> QED
      BY <2>3, <2>4
<1> QED
    BY <1>9, <1>10

LEMMA ParameterKeeps ==
    ASSUME Cutting, NEW t \in Threads, Parameter(t)
    PROVE  Cutting'
<1> DEFINE r == MyStrtok(stm[t], arg[t], ",", argptr[t])
           k == Len(cmds[t])
           now == More(r, cmds[t][k])
           q == IF calls[t] + 1 = MaxArgs \/ (r.res = NULL /\ stage[t] = "cut") THEN "command" ELSE stage[t]
<1>1. /\ Whole(buf) /\ Whole(saveptr) /\ Whole(cmd2) /\ Whole(stm) /\ Whole(arg) /\ Whole(argptr)
      /\ Whole(stage) /\ Whole(calls) /\ Whole(cmds) /\ PlaceOf(t)
    BY DEF Cutting
<1>2. stage[t] \in {"cut", "cutall"}
    BY DEF Parameter
<1>3. /\ stm' = [stm EXCEPT ![t] = r.b]
      /\ argptr' = [argptr EXCEPT ![t] = r.save]
      /\ arg' = [arg EXCEPT ![t] = NULL]
      /\ calls' = [calls EXCEPT ![t] = calls[t] + 1]
      /\ message' = message /\ buf' = buf /\ saveptr' = saveptr /\ cmd2' = cmd2
    BY DEF Parameter
<1>4. cmds' = [cmds EXCEPT ![t] = [cmds[t] EXCEPT ![k] = now]]
    BY DEF Parameter, More
<1>5. stage' = IF calls'[t] = MaxArgs \/ (r.res = NULL /\ stage[t] = "cut") THEN [stage EXCEPT ![t] = "command"] ELSE stage
    BY DEF Parameter
<1>6. ParameterStep(message[t], buf[t], cmd2[t], saveptr[t], stage[t], calls[t], cmds[t], r)
    BY <1>1, <1>2, CutGoesOn DEF PlaceOf
<1>7. Place(message[t], buf[t], cmd2[t], saveptr[t], r.b, NULL, r.save, q, calls[t] + 1, [cmds[t] EXCEPT ![k] = now])
    BY <1>6 DEF ParameterStep
<1> HIDE DEF r, now, k
<1>8. /\ Kept(stm, stm', t) /\ Kept(argptr, argptr', t) /\ Kept(arg, arg', t) /\ Kept(calls, calls', t)
      /\ stm'[t] = r.b /\ argptr'[t] = r.save /\ arg'[t] = NULL /\ calls'[t] = calls[t] + 1
    BY <1>1, <1>3, ExceptKept
<1>9. /\ Kept(cmds, cmds', t) /\ cmds'[t] = [cmds[t] EXCEPT ![k] = now]
    BY <1>1, <1>4, ExceptKept
<1>10. /\ Kept(buf, buf', t) /\ Kept(saveptr, saveptr', t) /\ Kept(cmd2, cmd2', t)
       /\ buf'[t] = buf[t] /\ saveptr'[t] = saveptr[t] /\ cmd2'[t] = cmd2[t] /\ message'[t] = message[t]
    BY <1>1, <1>3, SameKept
<1>11. Kept(stage, stage', t) /\ stage'[t] = q
  <2>1. CASE calls'[t] = MaxArgs \/ (r.res = NULL /\ stage[t] = "cut")
      BY <1>1, <1>5, <1>8, <2>1, ExceptKept
  <2>2. CASE ~(calls'[t] = MaxArgs \/ (r.res = NULL /\ stage[t] = "cut"))
      BY <1>1, <1>5, <1>8, <2>2, SameKept
  <2> QED
      BY <2>1, <2>2
<1> HIDE DEF q
<1>12. AllKept(t)
    BY <1>3, <1>8, <1>9, <1>10, <1>11 DEF AllKept
<1>13. PlaceOf(t)'
    BY <1>7, <1>8, <1>9, <1>10, <1>11 DEF PlaceOf
<1> QED
    BY <1>12, <1>13, OthersCut

LEMMA CuttingStep == Cutting /\ [CutNext]_cutvars => Cutting'
<1> SUFFICES ASSUME Cutting, [CutNext]_cutvars PROVE Cutting'
    OBVIOUS
<1>1. CASE UNCHANGED cutvars
    BY <1>1 DEF cutvars, Cutting, Whole, PlaceOf
<1>2. CASE Quiet
    BY <1>2 DEF Quiet, cutvars, Cutting, Whole, PlaceOf
<1>3. ASSUME NEW t \in Threads, Command(t) PROVE Cutting'
    BY <1>3, CommandKeeps
<1>4. ASSUME NEW t \in Threads, Parameter(t) PROVE Cutting'
    BY <1>4, ParameterKeeps
<1> QED
    BY <1>1, <1>2, <1>3, <1>4 DEF CutNext

LEMMA CuttingMeans == Cutting => TokensAsMeant
<1> SUFFICES ASSUME Cutting, NEW t \in Threads PROVE AsMeant(message[t], stage[t], cmds[t])
    BY DEF TokensAsMeant, AsMeant
<1>1. PlaceOf(t)
    BY DEF Cutting
<1> QED
    BY <1>1, PlaceMeans DEF PlaceOf

\* What MY_strtok_r and the cut functions have taken from a message is at any
\* time the beginning of what the message means, and all of it in the end.
THEOREM AlwaysAsMeant == CutSpec => []TokensAsMeant
<1>1. CutSpec => []Cutting
    BY CuttingInit, CuttingStep, PTL DEF CutSpec
<1> QED
    BY <1>1, CuttingMeans, PTL
=============================================================================
