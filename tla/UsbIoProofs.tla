---------------------------- MODULE UsbIoProofs ----------------------------
(***************************************************************************)
(* Theorems about UsbIo for every set of threads and boards, every menu,   *)
(* buffer size and number of failures.                                     *)
(***************************************************************************)
EXTENDS UsbIo, TLAPS, FiniteSetTheorems

\* What a thread's place in the code says about its operation; with TypeOK it
\* is what every step relies on.
PlaceAt(t) ==
    /\ pc[t] \in {"latch", "request", "fetch"} =>
          op[t].kind = "in" /\ Len(got[t]) < Len(op[t].at) /\ h[t] = op[t].b
    /\ pc[t] \in WritePcs => op[t].kind = "out" /\ h[t] = op[t].b
    /\ pc[t] \in {"announce", "data", "close"} => op[t].kind \in {"out", "flush"}
    /\ pc[t] \in StartPcs => op[t].kind = "start"
    /\ pc[t] \in FlushPcs => op[t].kind = "flush"
    /\ pc[t] = "count" => n[t] + Len(op[t].at) <= OutBufCells
    /\ gate[t] \in {"seen", "in"} => pc[t] \in Transfers

PlaceOK == \A t \in Threads : PlaceAt(t)

Placed == TypeOK /\ PlaceOK

\* Storing cells in a register array yields a register array.
LEMMA StoreType ==
    ASSUME NEW f \in [Addr -> Byte], NEW cs \in Seq(Cell)
    PROVE  Store(f, cs) \in [Addr -> Byte]
<1>1. ASSUME NEW a \in Addr PROVE Store(f, cs)[a] \in Byte
  <2>1. \A i \in 1 .. Len(cs) : cs[i][2] \in Byte
      BY DEF Cell
  <2> QED
      BY <2>1 DEF Store
<1> QED
    BY <1>1 DEF Store

\* Facts about the menus that the steps need, without the sequences.
LEMMA MenuFacts ==
    ASSUME NEW t \in Threads, NEW o \in Menu[t]
    PROVE  /\ o \in Op /\ o.kind \in Kinds /\ o.b \in Boards /\ o.at \in Seq(Addr)
           /\ o # None /\ o.kind # "none"
           /\ o.kind = "in" => Len(o.at) > 0
           /\ o.kind = "out" => Cells(o) \in Seq(Cell) /\ Len(Cells(o)) = Len(o.at)
<1>1. o \in Op
    BY MenuAssumption
<1>2. o.kind \in Kinds /\ o.b \in Boards /\ o.at \in Seq(Addr) /\ o.dat \in Seq(Byte)
    BY <1>1 DEF Op
<1>3. o.kind # "none"
    BY <1>2 DEF Kinds
<1>4. o # None
    BY <1>3 DEF None
<1>5. o.kind = "in" => Len(o.at) > 0
    BY <1>2, MenuAssumption
<1>6. ASSUME o.kind = "out"
      PROVE  Cells(o) \in Seq(Cell) /\ Len(Cells(o)) = Len(o.at)
  <2>1. Len(o.dat) = Len(o.at)
      BY <1>6, MenuAssumption
  <2>2. \A i \in 1 .. Len(o.at) : <<o.at[i], o.dat[i]>> \in Cell
      BY <1>2, <2>1 DEF Cell
  <2> QED
      BY <1>2, <2>2 DEF Cells
<1> QED
    BY <1>1, <1>2, <1>3, <1>4, <1>5, <1>6

LEMMA PlacedInit == Init => Placed
BY AddrAssumption, BufferAssumption, BoundAssumption
   DEF Init, Placed, TypeOK, PlaceOK, PlaceAt, Addr, Byte, Cell, Pcs, Transfers, StartPcs, FlushPcs,
       WritePcs, None

LEMMA ModBound ==
    ASSUME NEW a \in Nat, NEW m \in Nat \ {0}
    PROVE  a % m \in Nat /\ a % m <= a
<1>1. CASE a < m
    BY <1>1
<1>2. CASE m <= a
    BY <1>2
<1> QED
    BY <1>1, <1>2

\* What cusb_bwrite sends is a sequence of cells, from a call or from OUTBUF.
LEMMA PayloadType ==
    ASSUME Placed, NEW t \in Threads, pc[t] \in {"announce", "data"}
    PROVE  Payload(t) \in Seq(Cell)
<1>1. op[t] \in Menu[t] /\ op[t].kind \in {"out", "flush"}
    BY DEF Placed, TypeOK, PlaceOK, PlaceAt
<1>2. CASE op[t].kind = "out"
    BY <1>1, <1>2, MenuFacts DEF Payload, IsFlush
<1>3. CASE op[t].kind = "flush"
  <2>1. n[t] % CountMod \in 0 .. OutBufCells
    <3>1. n[t] \in Nat /\ n[t] <= OutBufCells
        BY BufferAssumption DEF Placed, TypeOK
    <3> QED
        BY <3>1, ModBound, BufferAssumption
  <2>2. \A i \in 1 .. (n[t] % CountMod) : OUTBUF[i - 1] \in Cell
      BY <2>1, BufferAssumption DEF Placed, TypeOK
  <2> QED
      BY <1>3, <2>1, <2>2 DEF Payload, IsFlush
<1> QED
    BY <1>1, <1>2, <1>3

LEMMA PlacedStep == Placed /\ [Next]_vars => Placed'
<1> SUFFICES ASSUME Placed, [Next]_vars PROVE Placed'
    OBVIOUS
<1> USE AddrAssumption, BufferAssumption, BoundAssumption, NoBoardAssumption
        DEF Placed, TypeOK, PlaceOK, PlaceAt, Transfers, StartPcs, FlushPcs, WritePcs, Pcs
<1>SeeIdleBus. ASSUME NEW t \in Threads, SeeIdleBus(t) PROVE Placed'
    BY <1>SeeIdleBus DEF SeeIdleBus, At, Goto, IsFlush, AfterWrite, flags, burst, faults, client, boards
<1>TakeBus. ASSUME NEW t \in Threads, TakeBus(t) PROVE Placed'
    BY <1>TakeBus DEF TakeBus, At, Goto, IsFlush, AfterWrite, flags, burst, faults, client, boards
<1>LeaveBus. ASSUME NEW t \in Threads, LeaveBus(t) PROVE Placed'
    BY <1>LeaveBus DEF LeaveBus, At, Goto, IsFlush, AfterWrite, flags, burst, faults, client, boards
<1>Route. ASSUME NEW t \in Threads, Route(t) PROVE Placed'
    BY <1>Route DEF Route, At, Goto, IsFlush, AfterWrite, flags, burst, faults, client, boards
<1>TestHandle. ASSUME NEW t \in Threads, TestHandle(t) PROVE Placed'
    BY <1>TestHandle DEF TestHandle, At, Goto, IsFlush, AfterWrite, flags, burst, faults, client, boards
<1>SetHandle. ASSUME NEW t \in Threads, SetHandle(t) PROVE Placed'
    BY <1>SetHandle DEF SetHandle, At, Goto, IsFlush, AfterWrite, flags, burst, faults, client, boards
<1>CloseBoard. ASSUME NEW t \in Threads, CloseBoard(t) PROVE Placed'
    BY <1>CloseBoard DEF CloseBoard, At, Goto, IsFlush, AfterWrite, flags, burst, faults, client, boards
<1>SeeNoBurst. ASSUME NEW t \in Threads, SeeNoBurst(t) PROVE Placed'
    BY <1>SeeNoBurst DEF SeeNoBurst, At, Goto, IsFlush, AfterWrite, flags, burst, faults, client, boards
<1>TakeBurst. ASSUME NEW t \in Threads, TakeBurst(t) PROVE Placed'
    BY <1>TakeBurst DEF TakeBurst, At, Goto, IsFlush, AfterWrite, flags, burst, faults, client, boards
<1>ZeroCount. ASSUME NEW t \in Threads, ZeroCount(t) PROVE Placed'
    BY <1>ZeroCount DEF ZeroCount, At, Goto, IsFlush, AfterWrite, flags, burst, faults, client, boards
<1>SwitchOn. ASSUME NEW t \in Threads, SwitchOn(t) PROVE Placed'
    BY <1>SwitchOn DEF SwitchOn, At, Goto, IsFlush, AfterWrite, flags, burst, faults, client, boards
<1>NoHandle. ASSUME NEW t \in Threads, NoHandle(t) PROVE Placed'
    BY <1>NoHandle DEF NoHandle, At, Goto, IsFlush, AfterWrite, flags, burst, faults, client, boards
<1>TestCount. ASSUME NEW t \in Threads, TestCount(t) PROVE Placed'
  <2>1. pc' \in [Threads -> Pcs]
      BY <1>TestCount DEF TestCount, At, Goto
  <2>2. h' \in [Threads -> Boards \union {NoBoard}] /\ n' \in [Threads -> 0 .. OutBufCells]
      BY <1>TestCount DEF TestCount
  <2>3. ASSUME NEW u \in Threads PROVE PlaceAt(u)' /\ (pc'[u] # "idle" => op[u] # None)
      BY <1>TestCount DEF TestCount, At, Goto
  <2> QED
      BY <1>TestCount, <2>1, <2>2, <2>3 DEF TestCount, flags, burst, faults, client, boards
<1>ForgetCount. ASSUME NEW t \in Threads, ForgetCount(t) PROVE Placed'
    BY <1>ForgetCount DEF ForgetCount, At, Goto, IsFlush, AfterWrite, flags, burst, faults, client, boards
<1>SwitchOff. ASSUME NEW t \in Threads, SwitchOff(t) PROVE Placed'
    BY <1>SwitchOff DEF SwitchOff, At, Goto, IsFlush, AfterWrite, flags, burst, faults, client, boards
<1>ForgetHandle. ASSUME NEW t \in Threads, ForgetHandle(t) PROVE Placed'
    BY <1>ForgetHandle DEF ForgetHandle, At, Goto, IsFlush, AfterWrite, flags, burst, faults, client, boards
<1>ReleaseBurst. ASSUME NEW t \in Threads, ReleaseBurst(t) PROVE Placed'
    BY <1>ReleaseBurst DEF ReleaseBurst, At, Goto, IsFlush, AfterWrite, flags, burst, faults, client, boards
<1>Call. ASSUME NEW t \in Threads, NEW o \in Menu[t], Call(t, o) PROVE Placed'
  <2>1. o \in Op /\ o.b \in Boards /\ o.kind \in Kinds /\ o.kind # "none" /\ o # None
      BY MenuFacts
  <2>2. calls' \in [Threads -> 0 .. MaxCalls]
      BY <1>Call DEF Call
  <2>3. UNCHANGED <<flags, burst, faults, gate, n, open, boards>>
      BY <1>Call DEF Call
  <2>4. CASE ReturnsAtOnce(t, o)
    <3>1. NoBoardResult(o) \in Seq(Nat)
        BY MenuFacts DEF NoBoardResult
    <3>2. got' \in [Threads -> Seq(Nat)]
        BY <2>4, <3>1 DEF ReturnsAtOnce
    <3>3. ASSUME NEW u \in Threads PROVE PlaceAt(u)'
        BY <1>Call, <2>3, <2>4 DEF ReturnsAtOnce, Call, At
    <3> QED
        BY <2>2, <2>3, <2>4, <3>2, <3>3 DEF ReturnsAtOnce, flags, burst, faults, boards
  <2>5. CASE Begins(t, o)
    <3>1. Entry[o.kind] \in Pcs \ {"idle"}
        BY <2>1 DEF Entry, Kinds
    <3>2. pc' \in [Threads -> Pcs] /\ got' \in [Threads -> Seq(Nat)]
        BY <2>5, <3>1 DEF Begins, Goto
    <3>3. op' \in [Threads -> Op \union {None}] /\ h' \in [Threads -> Boards \union {NoBoard}]
        BY <2>5, <2>1 DEF Begins
    <3>4. ASSUME NEW u \in Threads
          PROVE  op'[u] \in Menu[u] \union {None} /\ (pc'[u] # "idle" => op'[u] # None)
        BY <2>5, <2>1, <3>1 DEF Begins, Goto
    <3>5. ASSUME NEW u \in Threads PROVE PlaceAt(u)'
      <4>1. CASE u # t
          BY <2>3, <2>5, <4>1 DEF Begins, Goto
      <4>2. CASE u = t
        <5>1. gate[t] = "out" /\ gate' = gate
            BY <1>Call, <2>3 DEF Call, At
        <5>2. o.kind = "in" => Len(o.at) > 0
            BY MenuFacts
        <5> QED
            BY <2>1, <2>5, <4>2, <5>1, <5>2 DEF Begins, Goto, Entry, Kinds
      <4> QED
          BY <4>1, <4>2
    <3> QED
        BY <2>2, <2>3, <3>2, <3>3, <3>4, <3>5 DEF flags, burst, faults, boards
  <2> QED
      BY <1>Call, <2>4, <2>5 DEF Call
<1>SetAddress. ASSUME NEW t \in Threads, SetAddress(t) PROVE Placed'
  <2>1. op[t] \in Menu[t]
      BY <1>SetAddress DEF SetAddress, Transfer
  <2>2. op[t].at[Len(got[t]) + 1] \in Addr
      BY <1>SetAddress, <2>1, MenuFacts DEF SetAddress, Transfer
  <2>3. latch' \in [Boards -> Addr]
      BY <1>SetAddress, <2>2 DEF SetAddress, Succeeds
  <2>4. fails' \in 0 .. MaxFail
      BY <1>SetAddress DEF SetAddress, Succeeds, Fails
  <2> QED
      BY <1>SetAddress, <2>3, <2>4 DEF SetAddress, Transfer, Goto, flags, burst, client
<1>Request. ASSUME NEW t \in Threads, Request(t) PROVE Placed'
  <2>1. fifo' \in [Boards -> Seq(Byte)]
    <3>1. ASSUME h[t] \in Boards
          PROVE  Append(fifo[h[t]], reg[h[t]][latch[h[t]]]) \in Seq(Byte)
        BY <3>1
    <3> QED
        BY <1>Request, <3>1 DEF Request, Succeeds
  <2>2. fails' \in 0 .. MaxFail
      BY <1>Request DEF Request, Succeeds, Fails
  <2> QED
      BY <1>Request, <2>1, <2>2 DEF Request, Transfer, Goto, flags, burst, client
<1>Fetch. ASSUME NEW t \in Threads, Fetch(t) PROVE Placed'
  <2>1. fifo' \in [Boards -> Seq(Byte)]
    <3>1. ASSUME h[t] \in Boards, fifo[h[t]] # << >>
          PROVE  Tail(fifo[h[t]]) \in Seq(Byte)
        BY <3>1
    <3> QED
        BY <1>Fetch, <3>1 DEF Fetch, Succeeds
  <2>2. fails' \in 0 .. MaxFail
      BY <1>Fetch DEF Fetch, Succeeds, Fails
  <2>3. PICK v \in Nat : got' = [got EXCEPT ![t] = Append(@, v)]
    <3>1. ASSUME h[t] \in Boards, fifo[h[t]] # << >>
          PROVE  Head(fifo[h[t]]) \in Nat
        BY <3>1 DEF Byte
    <3>2. Byte \subseteq Nat
        BY DEF Byte
    <3> QED
        BY <1>Fetch, <3>1, <3>2 DEF Fetch, Succeeds
  <2>4. got' \in [Threads -> Seq(Nat)] /\ Len(got'[t]) = Len(got[t]) + 1
      BY <2>3
  <2> QED
      BY <1>Fetch, <2>1, <2>2, <2>3, <2>4 DEF Fetch, Transfer, Goto, flags, burst, client
<1>StoreCells. ASSUME NEW t \in Threads, StoreCells(t) PROVE Placed'
  <2>1. op[t] \in Menu[t] /\ op[t].kind = "out"
      BY <1>StoreCells DEF StoreCells, At
  <2>2. Cells(op[t]) \in Seq(Cell) /\ Len(Cells(op[t])) = Len(op[t].at) /\ op[t].at \in Seq(Addr)
      BY <2>1, MenuFacts
  <2>3. OUTBUF' \in [0 .. OutBufCells - 1 -> Cell]
    <3> DEFINE cs == Cells(op[t])
    <3>1. \A i \in 1 .. Len(cs) : cs[i] \in Cell
        BY <2>2
    <3>2. CASE UNCHANGED OUTBUF
        BY <3>2
    <3>3. CASE OUTBUF' = [i \in DOMAIN OUTBUF |->
                             IF i \in WRCT .. (WRCT + Len(cs)) - 1
                             THEN cs[i - WRCT + 1] ELSE OUTBUF[i]]
      <4>1. ASSUME NEW i \in 0 .. OutBufCells - 1, i \in WRCT .. (WRCT + Len(cs)) - 1
            PROVE  cs[i - WRCT + 1] \in Cell
          BY <3>1, <4>1, <2>2
      <4> QED
          BY <3>3, <4>1
    <3> QED
        BY <1>StoreCells, <3>2, <3>3 DEF StoreCells
  <2>4. n' \in [Threads -> 0 .. OutBufCells] /\ pc' \in [Threads -> Pcs]
        /\ halted' \in {"no", "exit", "overrun"}
      BY <1>StoreCells DEF StoreCells, At, Goto
  <2>5. ASSUME NEW u \in Threads PROVE PlaceAt(u)' /\ (pc'[u] # "idle" => op[u] # None)
    <3>1. /\ gate' = gate /\ op' = op /\ got' = got /\ h' = h
          /\ pc[t] = "store" /\ gate[t] = "out"
        BY <1>StoreCells DEF StoreCells, At
    <3>2. \/ UNCHANGED <<pc, n>>
          \/ /\ WRCT + Len(op[t].at) <= OutBufCells
             /\ n' = [n EXCEPT ![t] = WRCT]
             /\ pc' = [pc EXCEPT ![t] = "count"]
      <4> DEFINE last == WRCT + Len(Cells(op[t]))
      <4>1. CASE BURST_H # h[t] \/ last > OutBufCells
          BY <1>StoreCells, <4>1 DEF StoreCells
      <4>2. CASE BURST_H = h[t] /\ ~(last > OutBufCells)
        <5>1. n' = [n EXCEPT ![t] = WRCT] /\ pc' = [pc EXCEPT ![t] = "count"]
            BY <1>StoreCells, <4>2 DEF StoreCells, Goto
        <5>2. WRCT + Len(op[t].at) <= OutBufCells
            BY <2>2, <4>2, BufferAssumption
        <5> QED
            BY <5>1, <5>2
      <4> QED
          BY <4>1, <4>2
    <3> QED
        BY <2>1, <3>1, <3>2
  <2> QED
      BY <1>StoreCells, <2>3, <2>4, <2>5 DEF StoreCells, flags, client, boards
<1>CountCells. ASSUME NEW t \in Threads, CountCells(t) PROVE Placed'
  <2>1. op[t] \in Menu[t] /\ op[t].at \in Seq(Addr)
      BY <1>CountCells, MenuFacts DEF CountCells, At
  <2> QED
      BY <1>CountCells, <2>1 DEF CountCells, At, Goto, flags, faults, client, boards
<1>Announce. ASSUME NEW t \in Threads, Announce(t) PROVE Placed'
  <2>1. Payload(t) \in Seq(Cell)
      BY <1>Announce, PayloadType DEF Announce, Transfer
  <2>2. owed' \in [Boards -> Int]
      BY <1>Announce, <2>1 DEF Announce, Succeeds
  <2>3. fails' \in 0 .. MaxFail
      BY <1>Announce DEF Announce, Succeeds, Fails
  <2>4. pc' \in [Threads -> Pcs] /\ gate' \in [Threads -> {"out", "seen", "in", "sent"}]
      BY <1>Announce DEF Announce, Transfer, Goto
  <2>5. ASSUME NEW u \in Threads PROVE PlaceAt(u)' /\ (pc'[u] # "idle" => op[u] # None)
      BY <1>Announce DEF Announce, Transfer, Goto
  <2> QED
      BY <1>Announce, <2>2, <2>3, <2>4, <2>5 DEF Announce, flags, burst, client
<1>SendData. ASSUME NEW t \in Threads, SendData(t) PROVE Placed'
  <2>1. Payload(t) \in Seq(Cell)
      BY <1>SendData, PayloadType DEF SendData, Transfer
  <2>2. owed' \in [Boards -> Int]
      BY <1>SendData, <2>1 DEF SendData, Succeeds
  <2>2a. reg' \in [Boards -> [Addr -> Byte]]
    <3>1. ASSUME h[t] \in Boards PROVE Store(reg[h[t]], Payload(t)) \in [Addr -> Byte]
        BY <2>1, <3>1, StoreType
    <3> QED
        BY <1>SendData, <3>1 DEF SendData, Succeeds
  <2>3. fails' \in 0 .. MaxFail
      BY <1>SendData DEF SendData, Succeeds, Fails
  <2>4. pc' \in [Threads -> Pcs] /\ gate' \in [Threads -> {"out", "seen", "in", "sent"}]
      BY <1>SendData DEF SendData, Transfer, Goto, AfterWrite
  <2>5. ASSUME NEW u \in Threads PROVE PlaceAt(u)' /\ (pc'[u] # "idle" => op[u] # None)
      BY <1>SendData DEF SendData, Transfer, Goto, AfterWrite, IsFlush
  <2> QED
      BY <1>SendData, <2>2, <2>2a, <2>3, <2>4, <2>5 DEF SendData, flags, burst, client
<1>BoardChanges. ASSUME NEW b \in Present, BoardChanges(b) PROVE Placed'
  <2>1. reg' \in [Boards -> [Addr -> Byte]]
    <3>1. b \in Boards
        BY BoardAssumption
    <3>2. PICK a \in StatusAddrs, v \in Byte : reg' = [reg EXCEPT ![b][a] = v]
        BY <1>BoardChanges DEF BoardChanges
    <3> QED
        BY <3>1, <3>2
  <2> QED
      BY <1>BoardChanges, <2>1 DEF BoardChanges, flags, burst, faults, client
<1>Stutter. ASSUME UNCHANGED vars PROVE Placed'
    BY <1>Stutter DEF vars, flags, burst, faults, client, boards
<1> QED
    BY <1>SeeIdleBus, <1>TakeBus, <1>LeaveBus, <1>Route, <1>TestHandle, <1>SetHandle, <1>CloseBoard,
       <1>SeeNoBurst, <1>TakeBurst, <1>ZeroCount, <1>SwitchOn, <1>NoHandle, <1>TestCount,
       <1>ForgetCount, <1>SwitchOff, <1>ForgetHandle, <1>ReleaseBurst, <1>Call, <1>SetAddress,
       <1>Request, <1>Fetch, <1>StoreCells, <1>CountCells, <1>Announce, <1>SendData,
       <1>BoardChanges, <1>Stutter
    DEF Next, Step, Bus, Read, Write, Start, Flush, Finished

\* Spec keeps every variable in its range: no transfer is sent with an index
\* past the operation's addresses, no count exceeds OUTBUF.
THEOREM TypeCorrect == Spec => []TypeOK
<1>1. Placed => TypeOK
    BY DEF Placed
<1> QED
    BY <1>1, PlacedInit, PlacedStep, PTL DEF Spec

-----------------------------------------------------------------------------
LEMMA FlagsOwnedInit == Init => FlagsOwned
BY DEF Init, FlagsOwned

LEMMA FlagsOwnedStep == Placed /\ FlagsOwned /\ [Next]_vars => FlagsOwned'
<1> SUFFICES ASSUME Placed, FlagsOwned, [Next]_vars PROVE FlagsOwned'
    OBVIOUS
<1>0. gate \in [Threads -> {"out", "seen", "in", "sent"}] /\ open \in [Threads -> BOOLEAN]
    BY DEF Placed, TypeOK
<1> USE DEF FlagsOwned
\* usbin and usbout: the flag follows the thread that wrote it last.
<1>1. ASSUME NEW t \in Threads, Bus(t) PROVE FlagsOwned'
    BY <1>0, <1>1 DEF Bus, SeeIdleBus, TakeBus, LeaveBus, flags, client
\* A transfer keeps its thread inside.
<1>2. ASSUME NEW t \in Threads, UNCHANGED <<USB_BUSY, OUTBURST_BUSY, open>>,
             gate' = gate \/ (gate[t] = "in" /\ gate' = [gate EXCEPT ![t] = "sent"])
      PROVE  FlagsOwned'
    BY <1>0, <1>2
<1>3. ASSUME NEW t \in Threads, Read(t) PROVE FlagsOwned'
    BY <1>2, <1>3 DEF Read, SetAddress, Request, Fetch, Transfer, flags, client
<1>4. ASSUME NEW t \in Threads, Announce(t) \/ SendData(t) PROVE FlagsOwned'
    BY <1>2, <1>4 DEF Announce, SendData, Transfer, flags, client
<1>5. ASSUME NEW t \in Threads,
             Route(t) \/ TestHandle(t) \/ SetHandle(t) \/ StoreCells(t) \/ CountCells(t) \/ CloseBoard(t)
      PROVE  FlagsOwned'
    BY <1>2, <1>5
    DEF Route, TestHandle, SetHandle, StoreCells, CountCells, CloseBoard, flags, client
\* The burst flag is set and reset together with the duty to flush.
<1>6. ASSUME NEW t \in Threads, TakeBurst(t) \/ ReleaseBurst(t) PROVE FlagsOwned'
    BY <1>0, <1>6 DEF TakeBurst, ReleaseBurst
<1>7. ASSUME NEW t \in Threads,
             SeeNoBurst(t) \/ ZeroCount(t) \/ SwitchOn(t) \/ NoHandle(t)
             \/ TestCount(t) \/ ForgetCount(t) \/ SwitchOff(t) \/ ForgetHandle(t)
      PROVE  FlagsOwned'
    BY <1>2, <1>7 DEF SeeNoBurst, ZeroCount, SwitchOn, NoHandle, TestCount, ForgetCount, SwitchOff,
                      ForgetHandle, flags, client
<1>8. ASSUME NEW t \in Threads, NEW o \in Menu[t], Call(t, o) PROVE FlagsOwned'
    BY <1>2, <1>8 DEF Call, flags
<1>9. ASSUME NEW b \in Present, BoardChanges(b) PROVE FlagsOwned'
    BY <1>9 DEF BoardChanges, flags, client
<1>10. ASSUME UNCHANGED vars PROVE FlagsOwned'
    BY <1>10 DEF vars, flags, client
<1> QED
    BY <1>1, <1>3, <1>4, <1>5, <1>6, <1>7, <1>8, <1>9, <1>10
    DEF Next, Step, Write, Start, Flush, Finished

\* The busy flags never outlive their users, for any number of threads,
\* any races on the flags and any failures: what usbin and
\* uio_outBurstStart wait for is always some thread's to release.
THEOREM FlagsAlwaysOwned == Spec => []FlagsOwned
<1>1. Init => Placed /\ FlagsOwned
    BY PlacedInit, FlagsOwnedInit
<1>2. (Placed /\ FlagsOwned) /\ [Next]_vars => (Placed /\ FlagsOwned)'
    BY PlacedStep, FlagsOwnedStep
<1> QED
    BY <1>1, <1>2, PTL DEF Spec

-----------------------------------------------------------------------------
\* Without a failed transfer no board is closed.
NothingClosed ==
    fails = 0 =>
        /\ closed = {}
        /\ \A t \in Threads : pc[t] = "close" => h[t] = NoBoard

ReadInv == Placed /\ NothingClosed /\ AnswersAreOwn

LEMMA ReadInvInit == Init => ReadInv
<1>1. Init => NothingClosed
    BY DEF Init, NothingClosed
<1>2. Init => AnswersAreOwn
    BY DEF Init, AnswersAreOwn
<1> QED
    BY PlacedInit, <1>1, <1>2 DEF ReadInv

LEMMA NothingClosedStep == Placed /\ NothingClosed /\ [Next]_vars => NothingClosed'
<1> SUFFICES ASSUME Placed, NothingClosed, [Next]_vars, fails' = 0
             PROVE  NothingClosed'
    BY DEF NothingClosed
<1>0. pc \in [Threads -> Pcs] /\ h \in [Threads -> Boards \union {NoBoard}] /\ fails \in Nat
    BY BoundAssumption DEF Placed, TypeOK
<1> USE DEF NothingClosed
\* Steps that close nothing and do not enter the error path.
<1>1. ASSUME UNCHANGED <<closed, fails>>,
             \A u \in Threads : pc'[u] = "close" => pc[u] = "close" /\ h'[u] = h[u]
      PROVE  NothingClosed'
    BY <1>1
<1>2. ASSUME NEW t \in Threads, Bus(t) PROVE NothingClosed'
    BY <1>1, <1>2 DEF Bus, SeeIdleBus, TakeBus, LeaveBus, faults
<1>3. ASSUME NEW t \in Threads, SetAddress(t) \/ Request(t) \/ Fetch(t) PROVE NothingClosed'
    BY <1>0, <1>3 DEF SetAddress, Request, Fetch, Goto, Succeeds, Fails, Transfer
<1>4. ASSUME NEW t \in Threads, Announce(t) \/ SendData(t) PROVE NothingClosed'
  <2>1. CASE Succeeds(h[t])
      BY <1>0, <1>4, <2>1
      DEF Announce, SendData, Goto, Succeeds, Fails, AfterWrite, Transfer
  <2>2. CASE Fails(h[t])
    <3>1. h[t] = NoBoard /\ fails = 0
        BY <1>0, <2>2 DEF Fails
    <3> QED
        BY <1>0, <1>4, <3>1 DEF Announce, SendData, Goto, AfterWrite, Transfer
  <2> QED
      BY <1>4, <2>1, <2>2 DEF Announce, SendData
<1>5. ASSUME NEW t \in Threads, CloseBoard(t) PROVE NothingClosed'
    BY <1>0, <1>5 DEF CloseBoard, At, Goto, AfterWrite
<1>6. ASSUME NEW t \in Threads,
             Route(t) \/ TestHandle(t) \/ SetHandle(t) \/ StoreCells(t) \/ CountCells(t)
      PROVE  NothingClosed'
    BY <1>0, <1>1, <1>6
    DEF Route, TestHandle, SetHandle, StoreCells, CountCells, At, Goto, faults
<1>7. ASSUME NEW t \in Threads, Start(t) PROVE NothingClosed'
    BY <1>0, <1>1, <1>7
    DEF Start, SeeNoBurst, TakeBurst, ZeroCount, SwitchOn, NoHandle, At, Goto, faults
<1>8. ASSUME NEW t \in Threads, Flush(t) PROVE NothingClosed'
    BY <1>0, <1>1, <1>8
    DEF Flush, TestCount, ForgetCount, SwitchOff, ForgetHandle, ReleaseBurst, At, Goto, faults
<1>9. ASSUME NEW t \in Threads, NEW o \in Menu[t], Call(t, o) PROVE NothingClosed'
  <2>1. Entry[o.kind] # "close"
      BY MenuFacts DEF Kinds, Entry
  <2>2. pc[t] = "idle" /\ UNCHANGED <<closed, fails>>
      BY <1>9 DEF Call, At, faults
  <2>3. CASE ReturnsAtOnce(t, o)
      BY <1>1, <2>2, <2>3 DEF ReturnsAtOnce
  <2>4. CASE Begins(t, o)
      BY <1>0, <1>1, <2>1, <2>2, <2>4 DEF Begins, Goto
  <2> QED
      BY <1>9, <2>3, <2>4 DEF Call
<1>10. ASSUME NEW b \in Present, BoardChanges(b) PROVE NothingClosed'
    BY <1>1, <1>10 DEF BoardChanges, faults
<1>11. ASSUME UNCHANGED vars PROVE NothingClosed'
    BY <1>1, <1>11 DEF vars, faults
<1> QED
    BY <1>2, <1>3, <1>4, <1>5, <1>6, <1>7, <1>8, <1>9, <1>10, <1>11
    DEF Next, Step, Read, Write, Finished

LEMMA AnswersAreOwnStep == ReadInv /\ [Next]_vars => AnswersAreOwn'
<1> SUFFICES ASSUME Placed, NothingClosed, AnswersAreOwn, [Next]_vars, fails' = 0,
                    NEW t \in Threads, NEW b \in Boards, Owns(t, b)
             PROVE  /\ pc'[t] = "request" /\ h'[t] = b => latch'[b] = op'[t].at[Len(got'[t]) + 1]
                    /\ Len(fifo'[b]) = IF pc'[t] = "fetch" /\ h'[t] = b THEN 1 ELSE 0
    BY DEF ReadInv, AnswersAreOwn, Owns
<1> DEFINE Goal == /\ pc'[t] = "request" /\ h'[t] = b => latch'[b] = op'[t].at[Len(got'[t]) + 1]
                   /\ Len(fifo'[b]) = IF pc'[t] = "fetch" /\ h'[t] = b THEN 1 ELSE 0
<1>1. /\ pc \in [Threads -> Pcs] /\ h \in [Threads -> Boards \union {NoBoard}] /\ fails \in Nat
      /\ fifo \in [Boards -> Seq(Byte)] /\ latch \in [Boards -> Addr]
      /\ got \in [Threads -> Seq(Nat)]
    BY BoundAssumption DEF Placed, TypeOK
\* No failure has been counted, so the invariant speaks of this state.
<1>2. fails = 0
    BY <1>1 DEF Next, Step, Bus, Read, Write, Start, Flush, Finished, Call, SeeIdleBus, TakeBus, LeaveBus,
       SetAddress, Request, Fetch, Route, TestHandle, SetHandle, StoreCells, CountCells, Announce,
       SendData, CloseBoard, SeeNoBurst, TakeBurst, ZeroCount, SwitchOn, NoHandle, TestCount,
       ForgetCount, SwitchOff, ForgetHandle, ReleaseBurst, BoardChanges, Succeeds, Fails, faults, vars
<1>3. /\ closed = {}
      /\ pc[t] = "request" /\ h[t] = b => latch[b] = op[t].at[Len(got[t]) + 1]
      /\ Len(fifo[b]) = IF pc[t] = "fetch" /\ h[t] = b THEN 1 ELSE 0
    BY <1>2 DEF NothingClosed, AnswersAreOwn
\* Other threads' reads address other boards.
<1>4. ASSUME NEW u \in Threads, u # t, pc[u] \in {"latch", "request", "fetch"}
      PROVE  h[u] # b
    BY <1>4 DEF Placed, TypeOK, PlaceOK, PlaceAt, Owns
<1>5. b # NoBoard
    BY NoBoardAssumption
\* What leaves t's place in a read, the latch and the fifo alone is harmless.
<1>6. ASSUME UNCHANGED <<latch, fifo>>,
             \/ pc'[t] \notin {"request", "fetch"} /\ pc[t] \notin {"request", "fetch"}
             \/ pc'[t] = pc[t] /\ h'[t] = h[t] /\ op'[t] = op[t] /\ got'[t] = got[t]
      PROVE  Goal
    BY <1>3, <1>6
<1> HIDE DEF Goal
<1>7. ASSUME NEW u \in Threads, SetAddress(u) PROVE Goal
  <2>1. CASE u = t
      BY <1>7, <1>1, <1>3, <1>5, <1>2, <2>1 DEF SetAddress, Transfer, Goto, Succeeds, Fails, Goal
  <2>2. CASE u # t
    <3>1. h[u] # b
        BY <1>7, <1>4, <2>2 DEF SetAddress, Transfer
    <3> QED
        BY <1>7, <1>1, <1>3, <2>2, <3>1 DEF SetAddress, Transfer, Goto, Succeeds, Goal
  <2> QED
      BY <2>1, <2>2
<1>8. ASSUME NEW u \in Threads, Request(u) PROVE Goal
  <2>1. CASE u = t /\ h[t] = b
      BY <1>8, <1>1, <1>2, <1>3, <1>5, <2>1 DEF Request, Transfer, Goto, Succeeds, Fails, Goal
  <2>2. CASE h[u] # b
      BY <1>8, <1>1, <1>3, <2>2 DEF Request, Transfer, Goto, Succeeds, Goal
  <2> QED
      BY <1>8, <1>4, <2>1, <2>2 DEF Request, Transfer
<1>9. ASSUME NEW u \in Threads, Fetch(u) PROVE Goal
  <2>1. CASE u = t /\ h[t] = b
    <3>1. fifo[b] # << >> /\ pc[t] = "fetch"
        BY <1>9, <1>3, <2>1 DEF Fetch, Transfer
    <3>2. fifo' = [fifo EXCEPT ![b] = Tail(@)]
        BY <1>9, <1>2, <1>3, <1>5, <2>1, <3>1 DEF Fetch, Succeeds, Fails
    <3>3. Len(fifo'[b]) = 0
        BY <1>1, <1>3, <2>1, <3>1, <3>2
    <3> QED
        BY <1>9, <1>1, <2>1, <3>3 DEF Fetch, Goto, Goal
  <2>2. CASE h[u] # b
      BY <1>9, <1>1, <1>3, <2>2 DEF Fetch, Transfer, Goto, Succeeds, Goal
  <2> QED
      BY <1>9, <1>4, <2>1, <2>2 DEF Fetch, Transfer
<1>10. ASSUME NEW u \in Threads, Bus(u) PROVE Goal
    BY <1>10, <1>6 DEF Bus, SeeIdleBus, TakeBus, LeaveBus, boards
<1>11. ASSUME NEW u \in Threads, Write(u) PROVE Goal
    BY <1>11, <1>1, <1>6
    DEF Write, Route, TestHandle, SetHandle, StoreCells, CountCells, Announce, SendData, CloseBoard,
        At, Transfer, Goto, AfterWrite, boards
<1>12. ASSUME NEW u \in Threads, Start(u) PROVE Goal
    BY <1>12, <1>1, <1>6
    DEF Start, SeeNoBurst, TakeBurst, ZeroCount, SwitchOn, NoHandle, At, Goto, boards
<1>13. ASSUME NEW u \in Threads, Flush(u) PROVE Goal
    BY <1>13, <1>1, <1>6
    DEF Flush, TestCount, ForgetCount, SwitchOff, ForgetHandle, ReleaseBurst, At, Goto, boards
<1>14. ASSUME NEW u \in Threads, NEW o \in Menu[u], Call(u, o) PROVE Goal
  <2>1. Entry[o.kind] \notin {"request", "fetch"}
      BY MenuFacts DEF Kinds, Entry
  <2>2. pc[u] = "idle" /\ UNCHANGED <<latch, fifo>>
      BY <1>14 DEF Call, At, boards
  <2>3. CASE ReturnsAtOnce(u, o)
      BY <1>1, <1>6, <2>2, <2>3 DEF ReturnsAtOnce
  <2>4. CASE Begins(u, o)
      BY <1>1, <1>6, <2>1, <2>2, <2>4 DEF Begins, Goto
  <2> QED
      BY <1>14, <2>3, <2>4 DEF Call
<1>15. ASSUME NEW c \in Present, BoardChanges(c) PROVE Goal
    BY <1>15, <1>6 DEF BoardChanges
<1>16. ASSUME UNCHANGED vars PROVE Goal
    BY <1>16, <1>6 DEF vars, boards
<1> QED
    BY <1>7, <1>8, <1>9, <1>10, <1>11, <1>12, <1>13, <1>14, <1>15, <1>16 DEF Next, Step, Read, Finished, Goal

\* A board that one thread alone addresses gives that thread the answers to
\* its own requests, for any number of threads and boards, with bursts
\* running and without mutual exclusion of the transfers, until a transfer
\* fails.
THEOREM AnswersAlwaysOwn == Spec => []AnswersAreOwn
<1>1. ReadInv /\ [Next]_vars => ReadInv'
    BY PlacedStep, NothingClosedStep, AnswersAreOwnStep DEF ReadInv
<1>2. ReadInv => AnswersAreOwn
    BY DEF ReadInv
<1> QED
    BY <1>1, <1>2, ReadInvInit, PTL DEF Spec

-----------------------------------------------------------------------------
\* The discipline of the clients: with it the handle test never ends the
\* process.
Starts(t) == \E o \in Menu[t] : o.kind = "start"

BufferPcs == {"htest", "hset", "store", "count"}

\* The place of a thread with respect to bursts: only one that starts bursts
\* has one open, flushes one or writes into OUTBUF, and one that stores has
\* been let through the handle test.
BurstAt(t) ==
    /\ open[t] \/ op[t].kind = "flush" \/ pc[t] \in BufferPcs => Starts(t)
    /\ pc[t] = "store" => BURST_H = h[t]

BurstInv ==
    /\ halted # "exit"
    /\ WRON = 1 => \E t \in Threads : Starts(t)
    /\ BURST_H # NoBoard => \E t \in Threads : Starts(t) /\ \E o \in Writes(t) : o.b = BURST_H
    /\ \A t \in Threads : BurstAt(t)

\* Nobody else starts a burst or writes when some thread starts bursts.
LEMMA OneStarter ==
    ASSUME Disciplined, NEW t \in Threads, NEW u \in Threads, Starts(t),
           Starts(u) \/ Writes(u) # {}
    PROVE  t = u
BY DEF Disciplined, Starts

LEMMA BurstInvInit == Init => BurstInv
BY DEF Init, BurstInv, BurstAt, BufferPcs, None

\* A thread in the code of a start, a flush or a buffered write starts bursts.
LEMMA BurstPlaces ==
    ASSUME Placed, BurstInv, NEW t \in Threads,
           pc[t] \in StartPcs \union FlushPcs \union BufferPcs \/ op[t].kind \in {"start", "flush"}
    PROVE  Starts(t)
BY DEF Placed, TypeOK, PlaceOK, PlaceAt, BurstInv, BurstAt, Starts, None

\* The thread of a write whose place is inside the burst is the starter.
LEMMA WriterStarts ==
    ASSUME Disciplined, Placed, BurstInv, NEW t \in Threads, pc[t] \in WritePcs,
           NEW u \in Threads, Starts(u)
    PROVE  u = t
<1>1. op[t] \in Writes(t)
    BY DEF Placed, TypeOK, PlaceOK, PlaceAt, Writes, WritePcs, None
<1> QED
    BY <1>1, OneStarter

\* A step that leaves the switches of the burst and the operations alone, and
\* lets only the starter into the code of a buffered write.
LEMMA BurstKept ==
    ASSUME BurstInv, UNCHANGED <<WRON, BURST_H, halted, open, op>>,
           \A u \in Threads :
              \/ pc'[u] = pc[u] /\ h'[u] = h[u]
              \/ pc'[u] \notin BufferPcs
              \/ pc'[u] \in BufferPcs \ {"store"} /\ Starts(u)
    PROVE  BurstInv'
BY DEF BurstInv, BurstAt, Starts, Writes, BufferPcs

\* A step of thread t, a starter, that switches the burst or lets it go.
LEMMA BurstSwitched ==
    ASSUME Disciplined, Placed, BurstInv, NEW t \in Threads, Starts(t),
           UNCHANGED <<halted, op, h>>, BURST_H' \in {BURST_H, NoBoard},
           pc[t] \in StartPcs \union FlushPcs, NEW p \in Pcs \ BufferPcs,
           pc' = [pc EXCEPT ![t] = p],
           \A u \in Threads \ {t} : open'[u] = open[u]
    PROVE  BurstInv'
<1>0. pc \in [Threads -> Pcs]
    BY DEF Placed, TypeOK
<1>1. \A u \in Threads : pc[u] # "store"
    BY WriterStarts DEF StartPcs, FlushPcs, WritePcs
<1> QED
    BY <1>0, <1>1 DEF BurstInv, BurstAt, Starts, Writes, BufferPcs

LEMMA BurstStep == Disciplined /\ Placed /\ BurstInv /\ [Next]_vars => BurstInv'
<1> SUFFICES ASSUME Disciplined, Placed, BurstInv, [Next]_vars PROVE BurstInv'
    OBVIOUS
<1>0. /\ pc \in [Threads -> Pcs] /\ WRON \in {0, 1} /\ h \in [Threads -> Boards \union {NoBoard}]
      /\ op \in [Threads -> Op \union {None}] /\ open \in [Threads -> BOOLEAN]
    BY DEF Placed, TypeOK
<1>1. ASSUME NEW t \in Threads, Bus(t) PROVE BurstInv'
    BY <1>1, BurstKept DEF Bus, SeeIdleBus, TakeBus, LeaveBus, flags, burst, faults, client
<1>2. ASSUME NEW t \in Threads, Read(t) PROVE BurstInv'
  <2>1. UNCHANGED <<WRON, BURST_H, halted, open, op, h>>
      BY <1>2 DEF Read, SetAddress, Request, Fetch, burst, client
  <2>2. \E x \in {"request", "fetch", "latch", "idle"} : pc' = [pc EXCEPT ![t] = x]
      BY <1>2 DEF Read, SetAddress, Request, Fetch, Goto
  <2> QED
      BY <1>0, <2>1, <2>2, BurstKept DEF BufferPcs
<1>3. ASSUME NEW t \in Threads, Announce(t) \/ SendData(t) \/ CloseBoard(t) PROVE BurstInv'
  <2>1. UNCHANGED <<WRON, BURST_H, halted, open, op, h>>
      BY <1>3 DEF Announce, SendData, CloseBoard, burst, client
  <2>2. \E x \in {"data", "close", "idle", "uncount"} : pc' = [pc EXCEPT ![t] = x]
      BY <1>3 DEF Announce, SendData, CloseBoard, AfterWrite, Goto
  <2> QED
      BY <1>0, <2>1, <2>2, BurstKept DEF BufferPcs
<1>4. ASSUME NEW t \in Threads, Route(t) PROVE BurstInv'
  <2>1. UNCHANGED <<WRON, BURST_H, halted, open, op, h>>
      BY <1>4 DEF Route, burst, faults, client
  <2>2. CASE WRON = 1
    <3>1. Starts(t)
        BY <1>4, <2>2, WriterStarts DEF BurstInv, Route, At, WritePcs
    <3> QED
        BY <1>0, <1>4, <2>1, <2>2, <3>1, BurstKept DEF Route, Goto, BufferPcs
  <2>3. CASE WRON # 1
      BY <1>0, <1>4, <2>1, <2>3, BurstKept DEF Route, Goto, BufferPcs
  <2> QED
      BY <2>2, <2>3
\* The handle of an open burst is that of the one board the starter writes to.
<1>5. ASSUME NEW t \in Threads, TestHandle(t) PROVE BurstInv'
  <2>1. UNCHANGED <<WRON, BURST_H, halted, open, op, h>> /\ pc[t] = "htest"
      BY <1>5 DEF TestHandle, At, burst, faults, client
  <2>2. Starts(t)
      BY <2>1, BurstPlaces DEF BufferPcs
  <2>3. CASE BURST_H = NoBoard
      BY <1>0, <1>5, <2>1, <2>2, <2>3, BurstKept DEF TestHandle, Goto, BufferPcs
  <2>4. CASE BURST_H # NoBoard
    <3>1. PICK u \in Threads : Starts(u) /\ \E o \in Writes(u) : o.b = BURST_H
        BY <2>4 DEF BurstInv
    <3>2. u = t
        BY <2>1, <3>1, WriterStarts DEF WritePcs
    <3>3. op[t] \in Writes(t) /\ h[t] = op[t].b
        BY <2>1 DEF Placed, TypeOK, PlaceOK, PlaceAt, Writes, WritePcs, None
    <3>4. \A p, q \in Writes(t) : p.b = q.b
        BY <2>2 DEF Disciplined, Starts
    <3>5. h[t] = BURST_H
        BY <3>1, <3>2, <3>3, <3>4
    <3>6. pc' = [pc EXCEPT ![t] = "store"]
        BY <1>5, <2>4 DEF TestHandle, Goto
    <3> QED
        BY <1>0, <2>1, <2>2, <3>5, <3>6 DEF BurstInv, BurstAt, BufferPcs, Starts, Writes
  <2> QED
      BY <2>3, <2>4
<1>6. ASSUME NEW t \in Threads, SetHandle(t) PROVE BurstInv'
  <2>1. /\ UNCHANGED <<WRON, halted, open, op, h>> /\ pc[t] = "hset"
        /\ BURST_H' = h[t] /\ pc' = [pc EXCEPT ![t] = "store"]
      BY <1>6 DEF SetHandle, At, Goto, faults, client
  <2>2. Starts(t)
      BY <2>1, BurstPlaces DEF BufferPcs
  <2>3. op[t] \in Writes(t) /\ h[t] = op[t].b
      BY <2>1 DEF Placed, TypeOK, PlaceOK, PlaceAt, Writes, WritePcs, None
  <2>4. \A u \in Threads : u # t => pc[u] # "store"
      BY <2>2, WriterStarts DEF WritePcs
  <2> QED
      BY <1>0, <2>1, <2>2, <2>3, <2>4 DEF BurstInv, BurstAt, BufferPcs, Starts, Writes
<1>7. ASSUME NEW t \in Threads, StoreCells(t) PROVE BurstInv'
  <2>1. UNCHANGED <<WRON, BURST_H, open, op, h>> /\ pc[t] = "store"
      BY <1>7 DEF StoreCells, At, client
  <2>2. BURST_H = h[t] /\ Starts(t)
      BY <2>1, BurstPlaces DEF BurstInv, BurstAt, BufferPcs
  <2>3. halted' # "exit"
      BY <1>7, <2>2 DEF StoreCells, At
  <2>4. pc' = pc \/ pc' = [pc EXCEPT ![t] = "count"]
      BY <1>7 DEF StoreCells, Goto
  <2> QED
      BY <1>0, <2>1, <2>2, <2>3, <2>4 DEF BurstInv, BurstAt, BufferPcs, Starts, Writes
<1>8. ASSUME NEW t \in Threads, CountCells(t) PROVE BurstInv'
    BY <1>0, <1>8, BurstKept DEF CountCells, Goto, faults, client, BufferPcs
<1>9. ASSUME NEW t \in Threads, Start(t) \/ Flush(t) PROVE BurstInv'
  <2>1. /\ pc[t] \in StartPcs \union FlushPcs
        /\ UNCHANGED <<halted, op>> /\ BURST_H' \in {BURST_H, NoBoard}
        /\ \A u \in Threads \ {t} : open'[u] = open[u]
    <3>1. CASE Start(t)
        BY <1>0, <3>1 DEF Start, SeeNoBurst, TakeBurst, ZeroCount, SwitchOn, NoHandle, At, burst, faults,
                    client, StartPcs
    <3>2. CASE Flush(t)
        BY <1>0, <3>2 DEF Flush, TestCount, ForgetCount, SwitchOff, ForgetHandle, ReleaseBurst, At, burst,
                    faults, client, FlushPcs
    <3> QED
        BY <1>9, <3>1, <3>2
  <2>2. Starts(t)
      BY <2>1, BurstPlaces
  <2>3. PICK p \in Pcs \ BufferPcs : pc' = [pc EXCEPT ![t] = p]
      BY <1>9 DEF Start, SeeNoBurst, TakeBurst, ZeroCount, SwitchOn, NoHandle, Goto,
                  Flush, TestCount, ForgetCount, SwitchOff, ForgetHandle, ReleaseBurst,
                  Pcs, Transfers, StartPcs, FlushPcs, WritePcs, BufferPcs
  <2>4. CASE UNCHANGED h
      BY <2>1, <2>2, <2>3, <2>4, BurstSwitched
  <2>5. CASE TestCount(t)
      BY <1>0, <2>3, <2>5, BurstKept DEF TestCount, burst, faults, client
  <2> QED
      BY <1>9, <2>4, <2>5
      DEF Start, SeeNoBurst, TakeBurst, ZeroCount, SwitchOn, NoHandle,
          Flush, ForgetCount, SwitchOff, ForgetHandle, ReleaseBurst
<1>10. ASSUME NEW t \in Threads, NEW o \in Menu[t], Call(t, o) PROVE BurstInv'
  <2>1. /\ UNCHANGED <<WRON, BURST_H, halted, open>> /\ pc[t] = "idle"
        /\ o.kind = "flush" => Starts(t)
      BY <1>10 DEF Call, At, burst, faults, BurstInv, BurstAt
  <2>2. CASE ReturnsAtOnce(t, o)
      BY <2>1, <2>2, BurstKept DEF ReturnsAtOnce
  <2>3. CASE Begins(t, o)
    <3>1. Entry[o.kind] \notin BufferPcs
        BY MenuFacts DEF Kinds, Entry, BufferPcs
    <3>2. /\ \A u \in Threads : u # t => pc'[u] = pc[u] /\ op'[u] = op[u] /\ h'[u] = h[u]
          /\ pc'[t] = Entry[o.kind] /\ op'[t] = o
        BY <1>0, <2>3 DEF Begins, Goto
    <3> QED
        BY <2>1, <3>1, <3>2 DEF BurstInv, BurstAt, Starts, Writes, BufferPcs
  <2> QED
      BY <1>10, <2>2, <2>3 DEF Call
<1>11. ASSUME NEW b \in Present, BoardChanges(b) PROVE BurstInv'
    BY <1>11, BurstKept DEF BoardChanges, burst, faults, client
<1>12. ASSUME UNCHANGED vars PROVE BurstInv'
    BY <1>12, BurstKept DEF vars, burst, faults, client
<1> QED
    BY <1>1, <1>2, <1>3, <1>4, <1>5, <1>6, <1>7, <1>8, <1>9, <1>10, <1>11, <1>12
    DEF Next, Step, Write, Finished

\* Clients of which one alone opens bursts, writes, and writes to one board
\* never meet the exit(1) of uio_outb and uio_outw, however the starts,
\* flushes and reads interleave and whatever transfers fail.
THEOREM BurstHandleNeverDiffers == ASSUME Disciplined PROVE Spec => []BurstHandleAgrees
<1>1. Placed /\ BurstInv /\ [Next]_vars => (Placed /\ BurstInv)'
    BY PlacedStep, BurstStep
<1>2. BurstInv => BurstHandleAgrees
    BY DEF BurstInv, BurstHandleAgrees
<1> QED
    BY <1>1, <1>2, PlacedInit, BurstInvInit, PTL DEF Spec

-----------------------------------------------------------------------------
\* The cells that a board was told of and that a thread is about to send.
Coming(b) ==
    {x \in Threads \X Nat :
        pc[x[1]] = "data" /\ h[x[1]] = b /\ x[2] \in 1 .. Len(Payload(x[1]))}

\* Unless a failure has ended or is about to end the use of the board, it
\* waits for exactly these cells.
DebtOf(b) ==
    \/ b \in closed
    \/ \E t \in Threads : pc[t] = "close" /\ h[t] = b
    \/ IsFiniteSet(Coming(b)) /\ owed[b] = Cardinality(Coming(b))

DebtInv == \A b \in Boards : DebtOf(b)

LEMMA DebtInit == Init => DebtInv
<1> SUFFICES ASSUME Init, NEW b \in Boards PROVE DebtOf(b)
    BY DEF DebtInv
<1>1. Coming(b) = {} /\ owed[b] = 0
    BY DEF Init, Coming
<1> QED
    BY <1>1, FS_EmptySet DEF DebtOf

\* The part of Coming that thread t sends.
Share(t) == {t} \X (1 .. Len(Payload(t)))

LEMMA ShareSize ==
    ASSUME Placed, NEW t \in Threads, pc[t] \in {"announce", "data"}
    PROVE  IsFiniteSet(Share(t)) /\ Cardinality(Share(t)) = Len(Payload(t))
<1>1. Len(Payload(t)) \in Nat
    BY PayloadType
<1>2. IsFiniteSet(1 .. Len(Payload(t))) /\ Cardinality(1 .. Len(Payload(t))) = Len(Payload(t))
    BY <1>1, FS_Interval
<1>3. IsFiniteSet({t}) /\ Cardinality({t}) = 1
    BY FS_Singleton
<1>4. Cardinality(Share(t)) = 1 * Len(Payload(t)) /\ IsFiniteSet(Share(t))
    BY <1>2, <1>3, FS_Product DEF Share
<1> QED
    BY <1>1, <1>4

\* Two disjoint finite sets.
LEMMA DisjointSizes ==
    ASSUME NEW S, NEW T, IsFiniteSet(S), IsFiniteSet(T), S \cap T = {}
    PROVE  IsFiniteSet(S \union T) /\ Cardinality(S \union T) = Cardinality(S) + Cardinality(T)
<1>1. Cardinality(S \cap T) = 0
    BY FS_EmptySet
<1>2. Cardinality(S) \in Nat /\ Cardinality(T) \in Nat
    BY FS_CardinalityType
<1>3. /\ IsFiniteSet(S \union T)
      /\ Cardinality(S \union T) = Cardinality(S) + Cardinality(T) - Cardinality(S \cap T)
    BY FS_Union
<1> QED
    BY <1>1, <1>2, <1>3

\* A step that changes neither who waits to send how much nor what is owed.
LEMMA DebtKept ==
    ASSUME DebtInv, closed \subseteq closed', owed' = owed,
           \A t \in Threads :
              /\ pc[t] = "data" <=> pc'[t] = "data"
              /\ pc[t] = "data" => h'[t] = h[t] /\ Len(Payload(t))' = Len(Payload(t))
              /\ pc[t] = "close" => (pc'[t] = "close" /\ h'[t] = h[t]) \/ h[t] \in closed' \union {NoBoard}
    PROVE  DebtInv'
<1> SUFFICES ASSUME NEW b \in Boards PROVE DebtOf(b)'
    BY DEF DebtInv
<1>1. Coming(b)' = Coming(b)
    BY DEF Coming
<1>2. DebtOf(b) /\ b # NoBoard
    BY NoBoardAssumption DEF DebtInv
<1> QED
    BY <1>1, <1>2 DEF DebtOf

LEMMA DebtStep == Placed /\ DebtInv /\ [Next]_vars => DebtInv'
<1> SUFFICES ASSUME Placed, DebtInv, [Next]_vars PROVE DebtInv'
    OBVIOUS
<1>0. /\ pc \in [Threads -> Pcs] /\ h \in [Threads -> Boards \union {NoBoard}]
      /\ op \in [Threads -> Op \union {None}] /\ n \in [Threads -> 0 .. OutBufCells]
      /\ owed \in [Boards -> Int]
    BY DEF Placed, TypeOK
\* The length of what a thread is about to send is that of its operation, or
\* the count that it has loaded.
<1>L. ASSUME NEW t \in Threads, op'[t] = op[t], n'[t] = n[t]
      PROVE  Len(Payload(t))' = Len(Payload(t))
  <2>1. CASE op[t].kind = "flush"
    <3>1. n[t] % CountMod \in Nat
        BY <1>0, ModBound, BufferAssumption
    <3> QED
        BY <1>L, <2>1, <3>1 DEF Payload, IsFlush
  <2>2. CASE op[t].kind # "flush"
      BY <1>L, <2>2 DEF Payload, IsFlush, Cells
  <2> QED
      BY <2>1, <2>2
\* Steps that do not enter or leave the code of cusb_bwrite's second transfer.
<1>1. ASSUME NEW t \in Threads, UNCHANGED <<closed, owed>>,
             pc[t] \notin {"data", "close"}, pc'[t] \notin {"data", "close"},
             \A u \in Threads \ {t} :
                 pc'[u] = pc[u] /\ h'[u] = h[u] /\ op'[u] = op[u] /\ n'[u] = n[u]
      PROVE  DebtInv'
    BY <1>1, <1>L, DebtKept
<1>2. ASSUME NEW t \in Threads, Bus(t) PROVE DebtInv'
    BY <1>2, <1>L, DebtKept DEF Bus, SeeIdleBus, TakeBus, LeaveBus, faults, boards
<1>3. ASSUME NEW t \in Threads, Read(t) PROVE DebtInv'
  <2>1. UNCHANGED <<closed, owed, op, n, h>> /\ pc[t] \in {"latch", "request", "fetch"}
      BY <1>3 DEF Read, SetAddress, Request, Fetch, Transfer
  <2>2. \E x \in {"request", "fetch", "latch", "idle"} : pc' = [pc EXCEPT ![t] = x]
      BY <1>3 DEF Read, SetAddress, Request, Fetch, Goto
  <2> QED
      BY <1>0, <1>1, <2>1, <2>2
<1>4. ASSUME NEW t \in Threads,
             Route(t) \/ TestHandle(t) \/ SetHandle(t) \/ CountCells(t) \/ Start(t)
      PROVE  DebtInv'
  <2>1. UNCHANGED <<closed, owed, op, n, h>> /\ pc[t] \in StartPcs \union WritePcs
      BY <1>4 DEF Route, TestHandle, SetHandle, CountCells, Start, SeeNoBurst, TakeBurst,
                  ZeroCount, SwitchOn, NoHandle, At, faults, boards, StartPcs, WritePcs
  <2>2. \E x \in {"htest", "announce", "hset", "store", "idle", "take", "zero", "on", "nohandle"} :
            pc' = [pc EXCEPT ![t] = x]
      BY <1>4 DEF Route, TestHandle, SetHandle, CountCells, Start, SeeNoBurst, TakeBurst,
                  ZeroCount, SwitchOn, NoHandle, Goto
  <2> QED
      BY <1>0, <1>1, <2>1, <2>2 DEF StartPcs, WritePcs
<1>5. ASSUME NEW t \in Threads, StoreCells(t) PROVE DebtInv'
  <2>1. UNCHANGED <<closed, owed, op, h>> /\ pc[t] = "store"
      BY <1>5 DEF StoreCells, At, boards
  <2>2. \/ pc' = pc /\ n' = n
        \/ pc' = [pc EXCEPT ![t] = "count"] /\ n' = [n EXCEPT ![t] = WRCT]
      BY <1>5 DEF StoreCells, Goto
  <2> QED
      BY <1>0, <1>1, <2>1, <2>2
<1>6. ASSUME NEW t \in Threads, Flush(t) PROVE DebtInv'
  <2>1. UNCHANGED <<closed, owed, op>> /\ pc[t] \in FlushPcs
      BY <1>6 DEF Flush, TestCount, ForgetCount, SwitchOff, ForgetHandle, ReleaseBurst,
                  At, faults, boards, FlushPcs
  <2>2. /\ \E x \in {"announce", "uncount", "off", "forget", "release", "idle"} :
              pc' = [pc EXCEPT ![t] = x]
        /\ h' = h \/ h' = [h EXCEPT ![t] = BURST_H]
        /\ n' = n \/ n' = [n EXCEPT ![t] = WRCT]
      BY <1>6 DEF Flush, TestCount, ForgetCount, SwitchOff, ForgetHandle, ReleaseBurst, Goto
  <2> QED
      BY <1>0, <1>1, <2>1, <2>2 DEF FlushPcs
<1>7. ASSUME NEW t \in Threads, NEW o \in Menu[t], Call(t, o) PROVE DebtInv'
  <2>1. Entry[o.kind] \notin {"data", "close"}
      BY MenuFacts DEF Kinds, Entry
  <2>2. pc[t] = "idle" /\ UNCHANGED <<closed, owed, n>>
      BY <1>7 DEF Call, At, faults, boards
  <2>3. CASE ReturnsAtOnce(t, o)
      BY <1>1, <2>2, <2>3 DEF ReturnsAtOnce
  <2>4. CASE Begins(t, o)
      BY <1>0, <1>1, <2>1, <2>2, <2>4 DEF Begins, Goto
  <2> QED
      BY <1>7, <2>3, <2>4 DEF Call
\* The board is told of the cells: they are coming, or the handle is closed.
<1>8. ASSUME NEW t \in Threads, Announce(t) PROVE DebtInv'
  <2> SUFFICES ASSUME NEW b \in Boards PROVE DebtOf(b)'
      BY DEF DebtInv
  <2>0. /\ UNCHANGED <<closed, op, n, h>> /\ pc[t] = "announce" /\ DebtOf(b)
        /\ \A u \in Threads : Len(Payload(u))' = Len(Payload(u))
      BY <1>8, <1>L DEF Announce, Transfer, DebtInv
  <2>1. CASE pc' = [pc EXCEPT ![t] = "close"] /\ owed' = owed
    <3>1. Coming(b)' = Coming(b)
        BY <1>0, <2>0, <2>1 DEF Coming
    <3> QED
        BY <1>0, <2>0, <2>1, <3>1 DEF DebtOf
  <2>2. CASE /\ pc' = [pc EXCEPT ![t] = "data"]
             /\ owed' = [owed EXCEPT ![h[t]] = @ + Len(Payload(t))]
    <3>1. CASE h[t] = b
      <4>1. Coming(b)' = Coming(b) \union Share(t) /\ Coming(b) \cap Share(t) = {}
          BY <1>0, <2>0, <2>2, <3>1 DEF Coming, Share
      <4>2. owed'[b] = owed[b] + Len(Payload(t))
          BY <1>0, <2>2, <3>1
      <4>3. IsFiniteSet(Share(t)) /\ Cardinality(Share(t)) = Len(Payload(t))
          BY <2>0, ShareSize
      <4>4. CASE IsFiniteSet(Coming(b)) /\ owed[b] = Cardinality(Coming(b))
          BY <4>1, <4>2, <4>3, <4>4, DisjointSizes DEF DebtOf
      <4> QED
          BY <1>0, <2>0, <2>2, <4>4 DEF DebtOf
    <3>2. CASE h[t] # b
      <4>1. Coming(b)' = Coming(b)
          BY <1>0, <2>0, <2>2, <3>2 DEF Coming
      <4>2. owed'[b] = owed[b]
          BY <1>0, <2>2, <3>2
      <4> QED
          BY <1>0, <2>0, <2>2, <4>1, <4>2 DEF DebtOf
    <3> QED
        BY <3>1, <3>2
  <2> QED
      BY <1>8, <2>1, <2>2 DEF Announce, Goto
\* The cells come, or the handle is closed.
<1>9. ASSUME NEW t \in Threads, SendData(t) PROVE DebtInv'
  <2> SUFFICES ASSUME NEW b \in Boards PROVE DebtOf(b)'
      BY DEF DebtInv
  <2>0. /\ UNCHANGED <<closed, op, n, h>> /\ pc[t] = "data" /\ DebtOf(b)
        /\ \A u \in Threads : Len(Payload(u))' = Len(Payload(u))
      BY <1>9, <1>L DEF SendData, Transfer, DebtInv
  <2>1. CASE pc' = [pc EXCEPT ![t] = "close"] /\ owed' = owed
    <3>1. CASE h[t] = b
        BY <1>0, <2>0, <2>1, <3>1 DEF DebtOf
    <3>2. CASE h[t] # b
      <4>1. Coming(b)' = Coming(b)
          BY <1>0, <2>0, <2>1, <3>2 DEF Coming
      <4> QED
          BY <1>0, <2>0, <2>1, <4>1 DEF DebtOf
    <3> QED
        BY <3>1, <3>2
  <2>2. CASE /\ pc' = [pc EXCEPT ![t] = AfterWrite(t)]
             /\ owed' = [owed EXCEPT ![h[t]] = @ - Len(Payload(t))]
    <3>0. AfterWrite(t) \notin {"data", "close"}
        BY DEF AfterWrite
    <3>1. CASE h[t] = b
      <4>1. Coming(b) = Coming(b)' \union Share(t) /\ Coming(b)' \cap Share(t) = {}
          BY <1>0, <2>0, <2>2, <3>0, <3>1, PayloadType DEF Coming, Share
      <4>2. owed'[b] = owed[b] - Len(Payload(t))
          BY <1>0, <2>2, <3>1
      <4>3. IsFiniteSet(Share(t)) /\ Cardinality(Share(t)) = Len(Payload(t))
          BY <2>0, ShareSize
      <4>4. CASE IsFiniteSet(Coming(b)) /\ owed[b] = Cardinality(Coming(b))
        <5>1. Coming(b)' \in SUBSET Coming(b)
            BY <4>1
        <5>2. IsFiniteSet(Coming(b)')
            BY <4>4, <5>1, FS_Subset
        <5>3. Cardinality(Coming(b)) = Cardinality(Coming(b)') + Len(Payload(t))
            BY <4>1, <4>3, <5>2, DisjointSizes
        <5>4. Cardinality(Coming(b)') \in Nat /\ Len(Payload(t)) \in Nat
            BY <2>0, <5>2, FS_CardinalityType, PayloadType
        <5> QED
            BY <4>2, <4>4, <5>2, <5>3, <5>4 DEF DebtOf
      <4> QED
          BY <1>0, <2>0, <2>2, <4>4 DEF DebtOf
    <3>2. CASE h[t] # b
      <4>1. Coming(b)' = Coming(b)
          BY <1>0, <2>0, <2>2, <3>0, <3>2 DEF Coming
      <4>2. owed'[b] = owed[b]
          BY <1>0, <2>2, <3>2
      <4> QED
          BY <1>0, <2>0, <2>2, <4>1, <4>2 DEF DebtOf
    <3> QED
        BY <3>1, <3>2
  <2> QED
      BY <1>9, <2>1, <2>2 DEF SendData, Goto
<1>10. ASSUME NEW t \in Threads, CloseBoard(t) PROVE DebtInv'
  <2>1. /\ UNCHANGED <<owed, op, n, h>> /\ pc[t] = "close"
        /\ closed' = closed \union ({h[t]} \ {NoBoard})
        /\ pc' = [pc EXCEPT ![t] = AfterWrite(t)] /\ AfterWrite(t) \notin {"data", "close"}
      BY <1>10 DEF CloseBoard, At, Goto, AfterWrite, boards
  <2>2. h[t] \in closed' \union {NoBoard}
      BY <2>1
  <2> QED
      BY <1>0, <1>L, <2>1, <2>2, DebtKept
<1>11. ASSUME NEW b \in Present, BoardChanges(b) PROVE DebtInv'
    BY <1>11, <1>L, DebtKept DEF BoardChanges, faults
<1>12. ASSUME UNCHANGED vars PROVE DebtInv'
    BY <1>12, <1>L, DebtKept DEF vars, faults, boards
<1> QED
    BY <1>2, <1>3, <1>4, <1>5, <1>6, <1>7, <1>8, <1>9, <1>10, <1>11, <1>12
    DEF Next, Step, Write, Finished

\* However many threads write to one board, and whichever of their transfers
\* fail: a board that waits for cells gets them next, or its handle is closed
\* or about to be.
THEOREM HalfToldAlwaysClosed == Spec => []HalfToldIsClosed
<1>1. DebtInv => HalfToldIsClosed
  <2> SUFFICES ASSUME DebtInv, NEW b \in Boards, owed[b] # 0, b \notin closed
               PROVE  \E t \in Threads : pc[t] \in {"data", "close"} /\ h[t] = b
      BY DEF HalfToldIsClosed
  <2>1. CASE IsFiniteSet(Coming(b)) /\ owed[b] = Cardinality(Coming(b))
    <3>1. Coming(b) # {}
        BY <2>1, FS_EmptySet
    <3> QED
        BY <3>1 DEF Coming
  <2> QED
      BY <2>1 DEF DebtInv, DebtOf
<1>2. (Placed /\ DebtInv) /\ [Next]_vars => (Placed /\ DebtInv)'
    BY PlacedStep, DebtStep
<1> QED
    BY <1>1, <1>2, PlacedInit, DebtInit, PTL DEF Spec

-----------------------------------------------------------------------------
\* The refinement of RegisterFile.  As long as nothing fails and no burst has
\* more cells than its count can tell apart, the buffer of the open burst is
\* what its one writer has put there.

Faultless == fails = 0 /\ WRCT < CountMod

\* Thread t has a burst whose cells count.
Collects(t) == open[t] /\ pc[t] \notin StartPcs \union (FlushPcs \ {"test"})
Sends(t) == pc[t] \in {"announce", "data"}

BufferAt(t) ==
    /\ pc[t] # "close"
    /\ open[t] /\ pc[t] \notin {"zero", "on", "forget", "release"} => WRON = 1
    /\ (~open[t] /\ Starts(t)) \/ pc[t] \in {"forget", "release"} => WRON = 0
    /\ pc[t] \in BufferPcs \union {"zero", "on", "nohandle"} \union FlushPcs => open[t]
    /\ pc[t] \in {"poll", "take"} => ~open[t]
    /\ Sends(t) => (open[t] <=> op[t].kind = "flush")
    /\ pc[t] \in {"on", "nohandle"} => WRCT = 0
    /\ Collects(t) /\ BURST_H = NoBoard => WRCT = 0
    /\ pc[t] = "hset" => BURST_H = NoBoard
    /\ pc[t] \in {"store", "count"} => BURST_H = h[t]
    /\ pc[t] = "count" =>
          /\ n[t] = WRCT
          /\ \A i \in 1 .. Len(op[t].at) : OUTBUF[WRCT + i - 1] = Cells(op[t])[i]
    /\ Sends(t) /\ op[t].kind = "out" => h[t] = op[t].b
    /\ Sends(t) /\ op[t].kind = "flush" => h[t] = BURST_H /\ n[t] = WRCT /\ WRCT # 0

BufferOK == \A t \in Threads : BufferAt(t)

MapInv == ReadInv /\ BurstInv /\ BufferOK

LEMMA BufferInit == Init => BufferOK
BY DEF Init, BufferOK, BufferAt, BufferPcs, FlushPcs, StartPcs, Sends, Collects

\* What a step of t leaves of the other threads.
Only(t) ==
    \A u \in Threads \ {t} :
        /\ pc'[u] = pc[u] /\ op'[u] = op[u] /\ open'[u] = open[u]
        /\ h'[u] = h[u] /\ n'[u] = n[u] /\ got'[u] = got[u]

Buffer == <<WRON, WRCT, BURST_H, OUTBUF>>

LEMMA OnlyIt ==
    ASSUME Placed, NEW t \in Threads, Step(t) \/ \E o \in Menu[t] : Call(t, o)
    PROVE  Only(t)
<1>0. /\ pc \in [Threads -> Pcs] /\ op \in [Threads -> Op \union {None}] /\ open \in [Threads -> BOOLEAN]
      /\ h \in [Threads -> Boards \union {NoBoard}] /\ n \in [Threads -> 0 .. OutBufCells]
      /\ got \in [Threads -> Seq(Nat)]
    BY DEF Placed, TypeOK
<1>1. CASE Bus(t)
    BY <1>1 DEF Bus, SeeIdleBus, TakeBus, LeaveBus, client, Only
<1>2. CASE Read(t)
    BY <1>0, <1>2 DEF Read, SetAddress, Request, Fetch, Goto, client, Only
<1>3. CASE Write(t)
    BY <1>0, <1>3 DEF Write, Route, TestHandle, SetHandle, StoreCells, CountCells, Announce, SendData,
                CloseBoard, Goto, client, Only
<1>4. CASE Start(t)
    BY <1>0, <1>4 DEF Start, SeeNoBurst, TakeBurst, ZeroCount, SwitchOn, NoHandle, Goto, client, Only
<1>5. CASE Flush(t)
    BY <1>0, <1>5 DEF Flush, TestCount, ForgetCount, SwitchOff, ForgetHandle, ReleaseBurst, Goto, client, Only
<1>6. ASSUME NEW o \in Menu[t], Call(t, o) PROVE Only(t)
    BY <1>0, <1>6 DEF Call, ReturnsAtOnce, Begins, Goto, client, Only
<1> QED
    BY <1>1, <1>2, <1>3, <1>4, <1>5, <1>6 DEF Step

\* A thread whose step it is not keeps its place: nothing of the buffer
\* changes, or a starter changes it and the thread has no burst.
LEMMA BufferKept ==
    ASSUME NEW u \in Threads, BufferAt(u), UNCHANGED Buffer,
           pc'[u] = pc[u], op'[u] = op[u], open'[u] = open[u], h'[u] = h[u], n'[u] = n[u]
    PROVE  BufferAt(u)'
BY DEF BufferAt, Collects, Sends, Buffer, Starts

LEMMA BufferApart ==
    ASSUME Placed, BurstInv, NEW u \in Threads, ~Starts(u), BufferAt(u),
           pc'[u] = pc[u], op'[u] = op[u], open'[u] = open[u], h'[u] = h[u]
    PROVE  BufferAt(u)'
<1>1. ~open[u] /\ op[u].kind # "flush" /\ pc[u] \notin StartPcs \union FlushPcs \union BufferPcs
    BY BurstPlaces DEF BurstInv, BurstAt
<1> QED
    BY <1>1 DEF BufferAt, Collects, Sends, Starts, StartPcs, FlushPcs, BufferPcs

LEMMA BufferFrom ==
    ASSUME Disciplined, Placed, BurstInv, BufferOK, NEW t \in Threads, Only(t), BufferAt(t)',
           Starts(t) \/ UNCHANGED Buffer
    PROVE  BufferOK'
<1>1. ASSUME NEW u \in Threads \ {t} PROVE BufferAt(u)'
  <2>1. CASE Starts(t)
    <3>1. ~Starts(u)
        BY <2>1, OneStarter
    <3> QED
        BY <3>1, BufferApart DEF Only, BufferOK
  <2>2. CASE UNCHANGED Buffer
      BY <2>2, BufferKept DEF Only, BufferOK
  <2> QED
      BY <2>1, <2>2
<1> QED
    BY <1>1 DEF BufferOK

\* Every transfer comes off.
LEMMA AllSucceed ==
    ASSUME Placed, NothingClosed, BufferOK, fails = 0, fails' = 0, NEW t \in Threads
    PROVE  /\ Fails(h[t]) => h[t] = NoBoard
           /\ pc[t] \in Transfers => h[t] \in Boards
<1>1. Fails(h[t]) => h[t] = NoBoard
    BY DEF Fails, NothingClosed
<1>2. ASSUME pc[t] \in Transfers PROVE h[t] \in Boards
  <2>1. op[t] \in Menu[t] /\ h[t] \in Boards \union {NoBoard} /\ pc[t] # "idle"
      BY <1>2 DEF Placed, TypeOK, None, Transfers
  <2>2. CASE pc[t] \in {"latch", "request", "fetch"}
      BY <2>1, <2>2, MenuFacts DEF Placed, PlaceOK, PlaceAt
  <2>3. CASE pc[t] \in {"announce", "data"}
    <3>1. op[t].kind \in {"out", "flush"}
        BY <2>3 DEF Placed, PlaceOK, PlaceAt
    <3>2. CASE op[t].kind = "out"
        BY <2>1, <2>3, <3>2, MenuFacts DEF BufferOK, BufferAt, Sends
    <3>3. CASE op[t].kind = "flush"
      <4>1. open[t] /\ Collects(t) /\ WRCT # 0 /\ h[t] = BURST_H
          BY <2>3, <3>3 DEF BufferOK, BufferAt, Sends, Collects, StartPcs, FlushPcs
      <4> QED
          BY <2>1, <4>1 DEF BufferOK, BufferAt
    <3> QED
        BY <3>1, <3>2, <3>3
  <2> QED
      BY <1>2, <2>2, <2>3 DEF Transfers
<1> QED
    BY <1>1, <1>2

LEMMA BufferStep ==
    ASSUME Disciplined, Placed, NothingClosed, BurstInv, BufferOK, fails = 0, fails' = 0, [Next]_vars
    PROVE  BufferOK'
<1>0. /\ pc \in [Threads -> Pcs] /\ op \in [Threads -> Op \union {None}] /\ open \in [Threads -> BOOLEAN]
      /\ h \in [Threads -> Boards \union {NoBoard}] /\ n \in [Threads -> 0 .. OutBufCells]
      /\ WRCT \in Nat /\ WRON \in {0, 1}
    BY BufferAssumption DEF Placed, TypeOK
<1>1. \A u \in Threads : BufferAt(u)
    BY DEF BufferOK
<1>2. ASSUME NEW t \in Threads, Bus(t) PROVE BufferOK'
  <2>1. UNCHANGED Buffer /\ Only(t) /\ UNCHANGED <<pc, op, open, h, n>>
      BY <1>2, OnlyIt DEF Bus, SeeIdleBus, TakeBus, LeaveBus, burst, client, Buffer, Step
  <2> QED
      BY <1>1, <2>1, BufferKept DEF BufferOK
<1>3. ASSUME NEW t \in Threads, Read(t) PROVE BufferOK'
  <2>1. Only(t) /\ UNCHANGED Buffer /\ UNCHANGED <<op, open, h, n>> /\ op[t].kind = "in"
        /\ pc[t] \in {"latch", "request", "fetch"}
      BY <1>3, OnlyIt DEF Read, SetAddress, Request, Fetch, Transfer, burst, client, Buffer, Step,
                          Placed, PlaceOK, PlaceAt
  <2>2. pc'[t] \in {"request", "fetch", "latch", "idle"}
      BY <1>0, <1>3 DEF Read, SetAddress, Request, Fetch, Goto
  <2>3. BufferAt(t)'
      BY <1>1, <2>1, <2>2 DEF BufferAt, Collects, Sends, Buffer, BufferPcs, StartPcs, FlushPcs, Starts
  <2> QED
      BY <2>1, <2>3, BufferFrom
<1>4. ASSUME NEW t \in Threads, Announce(t) PROVE BufferOK'
  <2>1. Only(t) /\ UNCHANGED Buffer /\ UNCHANGED <<op, open, h, n>> /\ pc[t] = "announce"
      BY <1>4, OnlyIt DEF Announce, Transfer, burst, client, Buffer, Step, Write
  <2>2. pc'[t] = "data"
      BY <1>0, <1>4, <2>1, AllSucceed, NoBoardAssumption DEF Announce, Goto, Transfers
  <2>3. BufferAt(t)'
      BY <1>1, <2>1, <2>2 DEF BufferAt, Collects, Sends, Buffer, BufferPcs, StartPcs, FlushPcs, Starts
  <2> QED
      BY <2>1, <2>3, BufferFrom
<1>5. ASSUME NEW t \in Threads, SendData(t) PROVE BufferOK'
  <2>1. Only(t) /\ UNCHANGED Buffer /\ UNCHANGED <<op, open, h, n>> /\ pc[t] = "data"
      BY <1>5, OnlyIt DEF SendData, Transfer, burst, client, Buffer, Step, Write
  <2>2. pc'[t] = AfterWrite(t) /\ op[t].kind \in {"out", "flush"}
      BY <1>0, <1>5, <2>1, AllSucceed, NoBoardAssumption
      DEF SendData, Goto, Transfers, Placed, PlaceOK, PlaceAt
  <2>3. BufferAt(t)'
      BY <1>1, <2>1, <2>2 DEF AfterWrite, IsFlush, BufferAt, Collects, Sends, Buffer, BufferPcs, StartPcs,
                              FlushPcs, Starts
  <2> QED
      BY <2>1, <2>3, BufferFrom
<1>6. ASSUME NEW t \in Threads, CloseBoard(t) PROVE BufferOK'
    BY <1>6, <1>1 DEF CloseBoard, At, BufferAt
\* A write finds the burst open exactly if it is its own.
<1>7. ASSUME NEW t \in Threads, Route(t) PROVE BufferOK'
  <2>1. Only(t) /\ UNCHANGED Buffer /\ UNCHANGED <<op, open, h, n>> /\ pc[t] = "route"
        /\ op[t].kind = "out" /\ h[t] = op[t].b
      BY <1>7, OnlyIt DEF Route, At, burst, client, Buffer, Step, Write, Placed, PlaceOK, PlaceAt, WritePcs
  <2>2. pc'[t] = IF WRON = 1 THEN "htest" ELSE "announce"
      BY <1>0, <1>7 DEF Route, Goto
  <2>3. CASE WRON = 1
    <3>1. Starts(t) /\ open[t]
        BY <1>0, <1>1, <2>1, <2>3, WriterStarts DEF BurstInv, BufferAt, WritePcs
    <3> QED
        BY <1>1, <2>1, <2>2, <2>3, <3>1, BufferFrom
        DEF BufferAt, Collects, Sends, Buffer, BufferPcs, StartPcs, FlushPcs, Starts
  <2>4. CASE WRON # 1
    <3>1. ~open[t]
        BY <1>0, <1>1, <2>1, <2>4 DEF BufferAt
    <3> QED
        BY <1>1, <2>1, <2>2, <2>4, <3>1, BufferFrom
        DEF BufferAt, Collects, Sends, Buffer, BufferPcs, StartPcs, FlushPcs, Starts
  <2> QED
      BY <2>3, <2>4
<1>8. ASSUME NEW t \in Threads, TestHandle(t) PROVE BufferOK'
  <2>1. Only(t) /\ UNCHANGED Buffer /\ UNCHANGED <<op, open, h, n>> /\ pc[t] = "htest"
      BY <1>8, OnlyIt DEF TestHandle, At, burst, client, Buffer, Step, Write
  <2>2. pc'[t] = IF BURST_H = NoBoard THEN "hset" ELSE "store"
      BY <1>0, <1>8 DEF TestHandle, Goto
  <2>3. pc'[t] = "store" => BURST_H = h[t]
      BY <1>8, <2>1, BurstStep DEF BurstInv, BurstAt, Next, Step, Write, Buffer
  <2>4. BufferAt(t)'
      BY <1>1, <2>1, <2>2, <2>3 DEF BufferAt, Collects, Sends, Buffer, BufferPcs, StartPcs, FlushPcs, Starts
  <2> QED
      BY <2>1, <2>4, BufferFrom
<1>9. ASSUME NEW t \in Threads, SetHandle(t) PROVE BufferOK'
  <2>1. Only(t) /\ UNCHANGED <<WRON, WRCT, OUTBUF, op, open, h, n>> /\ pc[t] = "hset"
        /\ BURST_H' = h[t] /\ pc'[t] = "store"
      BY <1>0, <1>9, OnlyIt DEF SetHandle, At, Goto, client, Step, Write
  <2>2. Starts(t) /\ open[t] /\ h[t] # NoBoard
    <3>1. op[t] \in Menu[t] /\ h[t] = op[t].b
        BY <2>1 DEF Placed, TypeOK, PlaceOK, PlaceAt, WritePcs, None
    <3> QED
        BY <1>1, <2>1, <3>1, BurstPlaces, MenuFacts, NoBoardAssumption DEF BufferAt, BufferPcs
  <2>3. WRCT = 0
      BY <1>1, <2>1, <2>2 DEF BufferAt, Collects, StartPcs, FlushPcs
  <2>4. BufferAt(t)'
      BY <1>1, <2>1, <2>2, <2>3 DEF BufferAt, Collects, Sends, BufferPcs, StartPcs, FlushPcs, Starts
  <2> QED
      BY <2>1, <2>2, <2>4, BufferFrom
<1>10. ASSUME NEW t \in Threads, StoreCells(t) PROVE BufferOK'
  <2>1. Only(t) /\ UNCHANGED <<WRON, WRCT, BURST_H, op, open, h>> /\ pc[t] = "store"
      BY <1>10, OnlyIt DEF StoreCells, At, client, Step, Write
  <2>2. Starts(t) /\ open[t] /\ BURST_H = h[t]
      BY <1>1, <2>1, BurstPlaces DEF BufferAt, BufferPcs
  <2>3. CASE UNCHANGED <<OUTBUF, n, pc>>
      BY <1>1, <2>1, <2>3, BufferKept DEF BufferOK, Buffer
  <2>4. CASE /\ WRCT + Len(Cells(op[t])) <= OutBufCells
             /\ OUTBUF' = [i \in DOMAIN OUTBUF |->
                              IF i \in WRCT .. WRCT + Len(Cells(op[t])) - 1
                              THEN Cells(op[t])[i - WRCT + 1] ELSE OUTBUF[i]]
             /\ n' = [n EXCEPT ![t] = WRCT] /\ Goto(t, "count")
    <3>1. pc'[t] = "count" /\ n'[t] = WRCT
        BY <1>0, <2>4, BufferAssumption DEF Goto, Placed, TypeOK
    <3>2. op[t] \in Menu[t] /\ op[t].kind = "out"
        BY <2>1 DEF Placed, TypeOK, PlaceOK, PlaceAt, WritePcs, None
    <3>3. Len(Cells(op[t])) = Len(op[t].at) /\ Len(op[t].at) \in Nat
        BY <3>2, MenuFacts
    <3>4. ASSUME NEW i \in 1 .. Len(op[t].at) PROVE OUTBUF'[WRCT + i - 1] = Cells(op[t])[i]
      <4>1. WRCT + i - 1 \in 0 .. OutBufCells - 1 /\ WRCT + i - 1 \in WRCT .. WRCT + Len(Cells(op[t])) - 1
            /\ (WRCT + i - 1) - WRCT + 1 = i
          BY <1>0, <2>4, <3>3, BufferAssumption
      <4>2. DOMAIN OUTBUF = 0 .. OutBufCells - 1
          BY DEF Placed, TypeOK
      <4> QED
          BY <2>4, <4>1, <4>2
    <3>5. BufferAt(t)'
        BY <1>1, <2>1, <2>2, <3>1, <3>4 DEF BufferAt, Collects, Sends, BufferPcs, StartPcs, FlushPcs, Starts,
           Cells
    <3> QED
        BY <2>1, <2>2, <3>5, BufferFrom
  <2> QED
      BY <1>0, <1>10, <2>2, <2>3, <2>4, BufferAssumption DEF StoreCells
<1>11. ASSUME NEW t \in Threads, CountCells(t) PROVE BufferOK'
  <2>1. Only(t) /\ UNCHANGED <<WRON, BURST_H, OUTBUF, op, open, h, n>> /\ pc[t] = "count" /\ pc'[t] = "idle"
      BY <1>0, <1>11, OnlyIt DEF CountCells, At, Goto, client, Step, Write
  <2>2. Starts(t) /\ open[t] /\ BURST_H = h[t] /\ h[t] # NoBoard
    <3>1. op[t] \in Menu[t] /\ h[t] = op[t].b
        BY <2>1 DEF Placed, TypeOK, PlaceOK, PlaceAt, WritePcs, None
    <3> QED
        BY <1>1, <2>1, <3>1, BurstPlaces, MenuFacts, NoBoardAssumption DEF BufferAt, BufferPcs
  <2>3. BufferAt(t)'
      BY <1>1, <2>1, <2>2 DEF BufferAt, Collects, Sends, BufferPcs, StartPcs, FlushPcs, Starts
  <2> QED
      BY <2>1, <2>2, <2>3, BufferFrom
<1>12. ASSUME NEW t \in Threads, Start(t) PROVE BufferOK'
  <2>1. Only(t) /\ pc[t] \in StartPcs /\ UNCHANGED <<op, h, n, OUTBUF>>
      BY <1>12, OnlyIt DEF Start, SeeNoBurst, TakeBurst, ZeroCount, SwitchOn, NoHandle, At, Step, StartPcs,
                           burst, client
  <2>2. Starts(t) /\ op[t].kind = "start"
      BY <2>1, BurstPlaces DEF Placed, PlaceOK, PlaceAt
  <2>3. BufferAt(t)'
    <3>1. CASE SeeNoBurst(t) \/ TakeBurst(t)
        BY <1>0, <1>1, <2>1, <2>2, <3>1 DEF SeeNoBurst, TakeBurst, At, Goto, burst, client, BufferAt, Collects,
           Sends, BufferPcs, StartPcs, FlushPcs, Starts
    <3>2. CASE ZeroCount(t) \/ SwitchOn(t) \/ NoHandle(t)
        BY <1>0, <1>1, <2>1, <2>2, <3>2 DEF ZeroCount, SwitchOn, NoHandle, At, Goto, client, BufferAt, Collects,
           Sends, BufferPcs, StartPcs, FlushPcs, Starts
    <3> QED
        BY <1>12, <3>1, <3>2 DEF Start
  <2> QED
      BY <2>1, <2>2, <2>3, BufferFrom
<1>13. ASSUME NEW t \in Threads, Flush(t) PROVE BufferOK'
  <2>1. Only(t) /\ pc[t] \in FlushPcs /\ UNCHANGED <<op, OUTBUF>>
      BY <1>13, OnlyIt DEF Flush, TestCount, ForgetCount, SwitchOff, ForgetHandle, ReleaseBurst, At, Step, FlushPcs,
                           burst, client
  <2>2. Starts(t) /\ op[t].kind = "flush" /\ open[t]
      BY <1>1, <2>1, BurstPlaces DEF Placed, PlaceOK, PlaceAt, BufferAt
  <2>3. BufferAt(t)'
    <3>1. CASE TestCount(t)
      <4>1. pc[t] = "test" /\ UNCHANGED Buffer /\ UNCHANGED open
          BY <3>1 DEF TestCount, At, burst, client, Buffer
      <4>2. WRCT \in 0 .. OutBufCells
          BY DEF Placed, TypeOK
      <4>3. CASE WRCT # 0
        <5>1. pc'[t] = "announce" /\ h'[t] = BURST_H /\ n'[t] = WRCT
            BY <1>0, <3>1, <4>2, <4>3 DEF TestCount, Goto
        <5> QED
            BY <1>1, <2>1, <2>2, <4>1, <4>3, <5>1
            DEF BufferAt, Collects, Sends, Buffer, BufferPcs, StartPcs, FlushPcs, Starts
      <4>4. CASE WRCT = 0
        <5>1. pc'[t] = "uncount" /\ UNCHANGED <<h, n>>
            BY <1>0, <3>1, <4>4 DEF TestCount, Goto
        <5> QED
            BY <1>1, <2>1, <2>2, <4>1, <4>4, <5>1
            DEF BufferAt, Collects, Sends, Buffer, BufferPcs, StartPcs, FlushPcs, Starts
      <4> QED
          BY <4>3, <4>4
    <3>2. CASE ForgetCount(t) \/ SwitchOff(t) \/ ForgetHandle(t) \/ ReleaseBurst(t)
        BY <1>0, <1>1, <2>1, <2>2, <3>2 DEF ForgetCount, SwitchOff, ForgetHandle, ReleaseBurst, At, Goto, burst,
           client, BufferAt, Collects, Sends, BufferPcs, StartPcs, FlushPcs, Starts
    <3> QED
        BY <1>13, <3>1, <3>2 DEF Flush
  <2> QED
      BY <2>1, <2>2, <2>3, BufferFrom
<1>14. ASSUME NEW t \in Threads, NEW o \in Menu[t], Call(t, o) PROVE BufferOK'
  <2>1. Only(t) /\ UNCHANGED Buffer /\ UNCHANGED <<open, n>> /\ pc[t] = "idle"
      BY <1>14, OnlyIt DEF Call, At, burst, Buffer
  <2>2. CASE ReturnsAtOnce(t, o)
      BY <1>1, <2>1, <2>2, BufferKept DEF ReturnsAtOnce, BufferOK
  <2>3. CASE Begins(t, o)
    <3>1. pc'[t] = Entry[o.kind] /\ op'[t] = o
        BY <1>0, <2>3 DEF Begins, Goto
    <3>2. o.kind \in Kinds
        BY MenuFacts
    <3>3. (o.kind = "start" => ~open[t]) /\ (o.kind = "flush" => open[t])
        BY <1>14 DEF Call
    <3>4. pc'[t] \in {"latch", "route"} \/ (pc'[t] = "poll" /\ ~open[t]) \/ (pc'[t] = "test" /\ open[t])
        BY <3>1, <3>2, <3>3 DEF Kinds, Entry
    <3>5. BufferAt(t)'
        BY <1>1, <2>1, <3>4 DEF BufferAt, Collects, Sends, Buffer, BufferPcs, StartPcs, FlushPcs, Starts
    <3> QED
        BY <2>1, <3>5, BufferFrom
  <2> QED
      BY <1>14, <2>2, <2>3 DEF Call
<1>15. ASSUME NEW b \in Present, BoardChanges(b) PROVE BufferOK'
    BY <1>15, BufferKept DEF BoardChanges, burst, client, Buffer, BufferOK
<1>16. ASSUME UNCHANGED vars PROVE BufferOK'
    BY <1>16, BufferKept DEF vars, burst, client, Buffer, BufferOK
<1> QED
    BY <1>2, <1>3, <1>4, <1>5, <1>6, <1>7, <1>8, <1>9, <1>10, <1>11, <1>12, <1>13, <1>14, <1>15, <1>16
    DEF Next, Step, Write, Finished

-----------------------------------------------------------------------------
\* The mapping, and what a step of RegisterFile is in terms of it.

Job  == [t \in Threads |-> IF pc[t] = "idle" THEN None ELSE op[t]]
Got  == [t \in Threads |-> IF pc[t] = "fetch" THEN got[t] \o fifo[h[t]] ELSE got[t]]
Opened == [t \in Threads |-> open[t] /\ pc[t] \notin StartPcs]
Buf  == [t \in Threads |->
            IF open[t] /\ pc[t] \notin StartPcs \union (FlushPcs \ {"test"})
            THEN [i \in 1 .. WRCT |-> <<BURST_H, OUTBUF[i - 1][1], OUTBUF[i - 1][2]>>]
            ELSE << >>]

Mapped == <<reg, Job, Got, Opened, Buf>>

LEMMA InitMapped == Init => RF!Init
<1> SUFFICES ASSUME Init PROVE RF!Init
    OBVIOUS
<1>1. Job = [t \in Threads |-> None]
    BY DEF Init, Job
<1>2. Got = [t \in Threads |-> << >>]
    BY DEF Init, Got
<1>3. Opened = [t \in Threads |-> FALSE]
    BY DEF Init, Opened
<1>4. Buf = [t \in Threads |-> << >>]
    BY DEF Init, Buf
<1>5. reg = [b \in Boards |-> [a \in Addr |-> 0]]
    BY DEF Init
<1> QED
    BY <1>1, <1>2, <1>3, <1>4, <1>5 DEF RF!Init, Job, Got, Opened, Buf, RF!None, None, RF!Addr, Addr

LEMMA Stutters == UNCHANGED Mapped => UNCHANGED RF!vars
BY DEF Mapped, RF!vars, Job, Got, Opened, Buf

LEMMA IsSample ==
    ASSUME NEW t \in Threads, Job[t].kind = "in", Len(Got[t]) < Len(Job[t].at),
           Got' = [Got EXCEPT ![t] = Append(Got[t], reg[Job[t].b][Job[t].at[Len(Got[t]) + 1]])],
           UNCHANGED <<reg, Job, Opened, Buf>>
    PROVE  RF!Next
<1>1. RF!Sample(t)
    BY DEF RF!Sample, Job, Got, Opened, Buf
<1> QED
    BY <1>1 DEF RF!Next

LEMMA IsCall ==
    ASSUME NEW t \in Threads, NEW o \in Menu[t], Job[t] = None,
           o.kind = "start" => ~Opened[t], o.kind = "flush" => Opened[t],
           IF Absent(o)
           THEN /\ Got' = [Got EXCEPT ![t] = IF o.kind = "in" THEN NoBoardResult(o) ELSE << >>]
                /\ UNCHANGED Job
           ELSE Job' = [Job EXCEPT ![t] = o] /\ Got' = [Got EXCEPT ![t] = << >>],
           UNCHANGED <<reg, Opened, Buf>>
    PROVE  RF!Next
<1>1. RF!Call(t, o)
  <2>1. /\ Job[t] = RF!None /\ (o.kind = "start" => ~Opened[t]) /\ (o.kind = "flush" => Opened[t])
        /\ IF o.kind \in {"in", "out"} /\ o.b \notin Present
           THEN /\ Got' = [Got EXCEPT ![t] = IF o.kind = "in" THEN RF!NoBoardResult(o) ELSE << >>]
                /\ UNCHANGED Job
           ELSE Job' = [Job EXCEPT ![t] = o] /\ Got' = [Got EXCEPT ![t] = << >>]
        /\ UNCHANGED <<reg, Opened, Buf>>
      BY DEF Absent, None, RF!None, NoBoardResult, RF!NoBoardResult
  <2> QED
      BY <2>1 DEF RF!Call, Job, Got, Opened, Buf
<1> QED
    BY <1>1 DEF RF!Next

LEMMA IsReadReturns ==
    ASSUME NEW t \in Threads, Job[t].kind = "in", Len(Got[t]) = Len(Job[t].at),
           Job' = [Job EXCEPT ![t] = None], UNCHANGED <<reg, Got, Opened, Buf>>
    PROVE  RF!Next
<1>1. Job' = [Job EXCEPT ![t] = RF!None]
    BY DEF None, RF!None
<1>2. RF!ReadReturns(t)
    BY <1>1 DEF RF!ReadReturns, Job, Got, Opened, Buf
<1> QED
    BY <1>2 DEF RF!Next

LEMMA IsWriteNow ==
    ASSUME NEW t \in Threads, Job[t].kind = "out", ~Opened[t],
           reg' = [reg EXCEPT ![Job[t].b] = Store(reg[Job[t].b], Cells(Job[t]))],
           Job' = [Job EXCEPT ![t] = None], UNCHANGED <<Got, Opened, Buf>>
    PROVE  RF!Next
<1>1. Job' = [Job EXCEPT ![t] = RF!None]
    BY DEF None, RF!None
<1>2. reg' = [reg EXCEPT ![Job[t].b] = RF!Store(reg[Job[t].b], RF!Cells(Job[t]))]
    BY DEF Store, RF!Store, IsLastOf, RF!IsLastOf, Cells, RF!Cells
<1>3. RF!WriteNow(t)
    BY <1>1, <1>2 DEF RF!WriteNow, Job, Got, Opened, Buf
<1> QED
    BY <1>3 DEF RF!Next

LEMMA IsWriteLater ==
    ASSUME NEW t \in Threads, Job[t].kind = "out", Opened[t],
           Buf' = [Buf EXCEPT ![t] =
                      Buf[t] \o [i \in 1 .. Len(Job[t].at) |->
                                    <<Job[t].b, Job[t].at[i], Job[t].dat[i]>>]],
           Job' = [Job EXCEPT ![t] = None], UNCHANGED <<reg, Got, Opened>>
    PROVE  RF!Next
<1>1. Job' = [Job EXCEPT ![t] = RF!None]
    BY DEF None, RF!None
<1>2. RF!WriteLater(t)
    BY <1>1 DEF RF!WriteLater, Job, Got, Opened, Buf
<1> QED
    BY <1>2 DEF RF!Next

LEMMA IsBurstOpens ==
    ASSUME NEW t \in Threads, Job[t].kind = "start", Opened' = [Opened EXCEPT ![t] = TRUE],
           Job' = [Job EXCEPT ![t] = None], UNCHANGED <<reg, Got, Buf>>
    PROVE  RF!Next
<1>1. Job' = [Job EXCEPT ![t] = RF!None]
    BY DEF None, RF!None
<1>2. RF!BurstOpens(t)
    BY <1>1 DEF RF!BurstOpens, Job, Got, Opened, Buf
<1> QED
    BY <1>2 DEF RF!Next

LEMMA IsBurstStored ==
    ASSUME NEW t \in Threads, Job[t].kind = "flush", Buf[t] # << >>,
           reg' = RF!StoreBurst(Buf[t]), Buf' = [Buf EXCEPT ![t] = << >>],
           UNCHANGED <<Job, Got, Opened>>
    PROVE  RF!Next
<1>1. RF!BurstStored(t)
    BY DEF RF!BurstStored, Job, Got, Opened, Buf
<1> QED
    BY <1>1 DEF RF!Next

LEMMA IsBurstCloses ==
    ASSUME NEW t \in Threads, Job[t].kind = "flush", Buf[t] = << >>,
           Opened' = [Opened EXCEPT ![t] = FALSE],
           Job' = [Job EXCEPT ![t] = None], UNCHANGED <<reg, Got, Buf>>
    PROVE  RF!Next
<1>1. Job' = [Job EXCEPT ![t] = RF!None]
    BY DEF None, RF!None
<1>2. RF!BurstCloses(t)
    BY <1>1 DEF RF!BurstCloses, Job, Got, Opened, Buf
<1> QED
    BY <1>2 DEF RF!Next

LEMMA IsBoardChanges ==
    ASSUME NEW b \in Present, \E a \in StatusAddrs, v \in Byte : reg' = [reg EXCEPT ![b][a] = v],
           UNCHANGED <<Job, Got, Opened, Buf>>
    PROVE  RF!Next
<1>1. RF!BoardChanges(b)
    BY DEF RF!BoardChanges, Job, Got, Opened, Buf, Byte, RF!Byte
<1> QED
    BY <1>1 DEF RF!Next

-----------------------------------------------------------------------------
\* What a step of t leaves of the mapping.

Others(t) ==
    \A u \in Threads \ {t} :
        Job'[u] = Job[u] /\ Got'[u] = Got[u] /\ Opened'[u] = Opened[u] /\ Buf'[u] = Buf[u]

LEMMA OthersMapped ==
    ASSUME Disciplined, Placed, BurstInv, NEW t \in Threads, Only(t), Starts(t) \/ UNCHANGED Buffer,
           \A b \in Boards : \/ fifo'[b] = fifo[b]
                             \/ pc[t] \in {"request", "fetch"} /\ h[t] = b
    PROVE  Others(t)
<1> SUFFICES ASSUME NEW u \in Threads \ {t}
             PROVE  Job'[u] = Job[u] /\ Got'[u] = Got[u] /\ Opened'[u] = Opened[u] /\ Buf'[u] = Buf[u]
    BY DEF Others
<1>1. Job'[u] = Job[u] /\ Opened'[u] = Opened[u]
    BY DEF Only, Job, Opened
<1>2. Buf'[u] = Buf[u]
  <2>1. CASE Starts(t)
    <3>1. ~open[u] /\ ~open'[u]
        BY <2>1, OneStarter DEF BurstInv, BurstAt, Only
    <3> QED
        BY <3>1 DEF Buf
  <2>2. CASE UNCHANGED Buffer
      BY <2>2 DEF Buf, Buffer, Only
  <2> QED
      BY <2>1, <2>2
<1>3. Got'[u] = Got[u]
  <2>1. CASE pc[u] = "fetch"
    <3>1. op[u] \in Menu[u] /\ op[u].kind = "in" /\ h[u] = op[u].b
        BY <2>1 DEF Placed, TypeOK, PlaceOK, PlaceAt, None
    <3>2. h[u] \in Boards
        BY <3>1, MenuFacts
    <3>3. pc[t] \in {"request", "fetch"} => h[t] # h[u]
      <4> SUFFICES ASSUME pc[t] \in {"request", "fetch"} PROVE h[t] # h[u]
          OBVIOUS
      <4>1. op[t] \in Menu[t] /\ op[t].kind = "in" /\ h[t] = op[t].b
          BY DEF Placed, TypeOK, PlaceOK, PlaceAt, None
      <4> QED
          BY <3>1, <4>1 DEF Disciplined, Owns
    <3>4. fifo'[h[u]] = fifo[h[u]]
        BY <3>2, <3>3
    <3> QED
        BY <3>4 DEF Got, Only
  <2>2. CASE pc[u] # "fetch"
      BY <2>2 DEF Got, Only
  <2> QED
      BY <2>1, <2>2
<1> QED
    BY <1>1, <1>2, <1>3

LEMMA Folded ==
    ASSUME NEW t \in Threads, Others(t)
    PROVE  /\ Job' = [Job EXCEPT ![t] = Job'[t]] /\ (Job'[t] = Job[t] => Job' = Job)
           /\ Got' = [Got EXCEPT ![t] = Got'[t]] /\ (Got'[t] = Got[t] => Got' = Got)
           /\ Opened' = [Opened EXCEPT ![t] = Opened'[t]] /\ (Opened'[t] = Opened[t] => Opened' = Opened)
           /\ Buf' = [Buf EXCEPT ![t] = Buf'[t]] /\ (Buf'[t] = Buf[t] => Buf' = Buf)
<1>1. Job' = [Job EXCEPT ![t] = Job'[t]] /\ (Job'[t] = Job[t] => Job' = Job)
    BY DEF Others, Job
<1>2. Got' = [Got EXCEPT ![t] = Got'[t]] /\ (Got'[t] = Got[t] => Got' = Got)
    BY DEF Others, Got
<1>3. Opened' = [Opened EXCEPT ![t] = Opened'[t]] /\ (Opened'[t] = Opened[t] => Opened' = Opened)
    BY DEF Others, Opened
<1>4. Buf' = [Buf EXCEPT ![t] = Buf'[t]] /\ (Buf'[t] = Buf[t] => Buf' = Buf)
    BY DEF Others, Buf
<1> QED
    BY <1>1, <1>2, <1>3, <1>4

LEMMA Silent ==
    ASSUME NEW t \in Threads, Others(t), reg' = reg, Job'[t] = Job[t], Got'[t] = Got[t],
           Opened'[t] = Opened[t], Buf'[t] = Buf[t]
    PROVE  UNCHANGED RF!vars
<1>1. UNCHANGED Mapped
    BY Folded DEF Mapped
<1> QED
    BY <1>1, Stutters

LEMMA Joined ==
    ASSUME NEW S, NEW s \in Seq(S), NEW w \in Seq(S), NEW z \in Seq(S), Len(z) = Len(s) + Len(w),
           \A i \in 1 .. Len(s) : z[i] = s[i], \A i \in 1 .. Len(w) : z[Len(s) + i] = w[i]
    PROVE  z = s \o w
<1>1. Len(s \o w) = Len(z)
    OBVIOUS
<1>2. ASSUME NEW i \in 1 .. Len(z) PROVE z[i] = (s \o w)[i]
  <2>1. CASE i <= Len(s)
      BY <2>1
  <2>2. CASE i > Len(s)
    <3>1. i - Len(s) \in 1 .. Len(w) /\ Len(s) + (i - Len(s)) = i
        BY <2>2
    <3> QED
        BY <2>2, <3>1
  <2> QED
      BY <2>1, <2>2
<1> QED
    BY <1>1, <1>2

LEMMA OneByte ==
    ASSUME NEW s \in Seq(Nat), NEW q \in Seq(Byte), NEW x \in Byte
    PROVE  /\ Len(q) = 0 => s \o Append(q, x) = Append(s, x)
           /\ Len(q) = 1 => s \o q = Append(s, Head(q))
<1>1. q \in Seq(Nat) /\ x \in Nat
    BY AddrAssumption DEF Byte
<1>2. ASSUME Len(q) = 0 PROVE Append(s, x) = s \o Append(q, x)
  <2>1. Append(q, x) \in Seq(Nat) /\ Append(s, x) \in Seq(Nat) /\ Len(Append(q, x)) = 1
        /\ Append(q, x)[1] = x
      BY <1>1, <1>2
  <2>2. Len(Append(s, x)) = Len(s) + 1 /\ Append(s, x)[Len(s) + 1] = x
        /\ \A i \in 1 .. Len(s) : Append(s, x)[i] = s[i]
      BY <1>1
  <2> DEFINE w == Append(q, x)
             z == Append(s, x)
  <2> HIDE DEF w, z
  <2>3. w \in Seq(Nat) /\ z \in Seq(Nat) /\ Len(z) = Len(s) + Len(w)
        /\ (\A i \in 1 .. Len(s) : z[i] = s[i]) /\ \A i \in 1 .. Len(w) : z[Len(s) + i] = w[i]
      BY <2>1, <2>2 DEF w, z
  <2> QED
      BY <2>3, Joined DEF w, z
<1>3. ASSUME Len(q) = 1 PROVE Append(s, Head(q)) = s \o q
  <2>1. Head(q) = q[1] /\ q[1] \in Nat
      BY <1>1, <1>3
  <2>2. Len(Append(s, q[1])) = Len(s) + 1 /\ Append(s, q[1])[Len(s) + 1] = q[1]
        /\ Append(s, q[1]) \in Seq(Nat) /\ \A i \in 1 .. Len(s) : Append(s, q[1])[i] = s[i]
      BY <2>1
  <2> DEFINE z == Append(s, q[1])
  <2> HIDE DEF z
  <2>3. z \in Seq(Nat) /\ Len(z) = Len(s) + Len(q)
        /\ (\A i \in 1 .. Len(s) : z[i] = s[i]) /\ \A i \in 1 .. Len(q) : z[Len(s) + i] = q[i]
      BY <1>1, <1>3, <2>2 DEF z
  <2>4. z = s \o q
      BY <1>1, <2>3, Joined
  <2> QED
      BY <2>1, <2>4 DEF z
<1> QED
    BY <1>2, <1>3

-----------------------------------------------------------------------------
\* Every step is one of RegisterFile or none.

Mapping == RF!Next \/ UNCHANGED RF!vars

\* The steps of a read: RegisterFile samples a byte when the board answers.
LEMMA ReadMapped ==
    ASSUME Disciplined, Placed, NothingClosed, AnswersAreOwn, BurstInv, BufferOK, fails = 0, fails' = 0,
           NEW t \in Threads, Read(t)
    PROVE  Mapping
<1>0. /\ pc \in [Threads -> Pcs] /\ got \in [Threads -> Seq(Nat)] /\ fifo \in [Boards -> Seq(Byte)]
      /\ reg \in [Boards -> [Addr -> Byte]] /\ latch \in [Boards -> Addr]
    BY DEF Placed, TypeOK
<1>1. pc[t] \in {"latch", "request", "fetch"} /\ Only(t) /\ UNCHANGED Buffer
      /\ UNCHANGED <<op, open, h, n, reg>>
    BY <1>0, OnlyIt DEF Read, SetAddress, Request, Fetch, Transfer, Buffer, burst, client, Step
<1>2. op[t] \in Menu[t] /\ op[t].kind = "in" /\ h[t] = op[t].b /\ Len(got[t]) < Len(op[t].at)
      /\ h[t] \in Boards /\ Owns(t, h[t])
    BY <1>1, MenuFacts DEF Placed, TypeOK, PlaceOK, PlaceAt, None, Disciplined
<1>3. ~Fails(h[t])
    BY <1>2, AllSucceed, NoBoardAssumption
<1>4. Others(t)
  <2>1. \A b \in Boards : fifo'[b] = fifo[b] \/ (pc[t] \in {"request", "fetch"} /\ h[t] = b)
      BY <1>0 DEF Read, SetAddress, Request, Fetch, Transfer
  <2> QED
      BY <1>1, <2>1, OthersMapped
<1>5. pc'[t] \notin StartPcs \union FlushPcs /\ pc[t] \notin StartPcs \union FlushPcs
    BY <1>0, <1>1 DEF Read, SetAddress, Request, Fetch, Goto, StartPcs, FlushPcs
<1>6. Opened'[t] = Opened[t] /\ Buf'[t] = Buf[t]
    BY <1>1, <1>5 DEF Opened, Buf, Buffer
<1>7. Job[t] = op[t]
    BY <1>1 DEF Job
<1>8. Len(fifo[h[t]]) = IF pc[t] = "fetch" THEN 1 ELSE 0
    BY <1>2 DEF AnswersAreOwn
<1>9. CASE SetAddress(t)
  <2>1. pc[t] = "latch" /\ pc'[t] = "request" /\ got'[t] = got[t]
      BY <1>0, <1>9 DEF SetAddress, Transfer, Goto
  <2>2. Job'[t] = Job[t] /\ Got'[t] = Got[t]
      BY <1>1, <2>1 DEF Job, Got
  <2> QED
      BY <1>1, <1>4, <1>6, <2>2, Silent DEF Mapping
<1>10. CASE Request(t)
  <2>1. pc[t] = "request" /\ pc'[t] = "fetch" /\ got'[t] = got[t]
        /\ fifo'[h[t]] = Append(fifo[h[t]], reg[h[t]][latch[h[t]]])
      BY <1>0, <1>2, <1>3, <1>10 DEF Request, Transfer, Goto
  <2>2. latch[h[t]] = op[t].at[Len(got[t]) + 1]
      BY <1>2, <2>1 DEF AnswersAreOwn
  <2>3. reg[h[t]][latch[h[t]]] \in Byte
      BY <1>0, <1>2
  <2>4. Got[t] = got[t] /\ Got'[t] = got[t] \o fifo'[h[t]]
      BY <1>1, <2>1 DEF Got
  <2>5. Got'[t] = Append(got[t], reg[h[t]][latch[h[t]]])
      BY <1>0, <1>2, <1>8, <2>1, <2>3, <2>4, OneByte
  <2>6. Job'[t] = Job[t]
      BY <1>1, <2>1 DEF Job
  <2>7. RF!Next
    <3>1. /\ Job[t].kind = "in" /\ Len(Got[t]) < Len(Job[t].at)
          /\ Got'[t] = Append(Got[t], reg[Job[t].b][Job[t].at[Len(Got[t]) + 1]])
        BY <1>2, <1>7, <2>2, <2>4, <2>5
    <3>2. /\ Got' = [Got EXCEPT ![t] = Append(Got[t], reg[Job[t].b][Job[t].at[Len(Got[t]) + 1]])]
          /\ UNCHANGED <<reg, Job, Opened, Buf>>
        BY <1>1, <1>4, <1>6, <2>6, <3>1, Folded
    <3> QED
        BY <3>1, <3>2, IsSample
  <2> QED
      BY <2>7 DEF Mapping
<1>11. CASE Fetch(t)
  <2>0. pc[t] = "fetch"
      BY <1>11 DEF Fetch, Transfer
  <2>1. Len(fifo[h[t]]) = 1 /\ fifo[h[t]] \in Seq(Byte)
      BY <1>0, <1>2, <1>8, <2>0
  <2>2. \A q \in Seq(Byte) : Len(q) = 1 => q # << >> /\ Head(q) \in Byte
      OBVIOUS
  <2>3. /\ pc[t] = "fetch" /\ Len(fifo[h[t]]) = 1 /\ fifo[h[t]] \in Seq(Byte)
        /\ fifo[h[t]] # << >> /\ Head(fifo[h[t]]) \in Byte
      BY <2>0, <2>1, <2>2
  <2>4. got'[t] = Append(got[t], Head(fifo[h[t]]))
        /\ pc'[t] = IF Len(got[t]) + 1 < Len(op[t].at) THEN "latch" ELSE "idle"
      BY <1>0, <1>2, <1>3, <1>11, <2>3 DEF Fetch, Goto
  <2>5. Got[t] = got[t] \o fifo[h[t]] /\ Got'[t] = got'[t]
      BY <2>3, <2>4 DEF Got
  <2>6. Got'[t] = Got[t]
      BY <1>0, <2>3, <2>4, <2>5, OneByte
  <2>7. CASE Len(got[t]) + 1 < Len(op[t].at)
    <3>1. Job'[t] = Job[t]
        BY <1>1, <2>3, <2>4, <2>7 DEF Job
    <3> QED
        BY <1>1, <1>4, <1>6, <2>6, <3>1, Silent DEF Mapping
  <2>8. CASE ~(Len(got[t]) + 1 < Len(op[t].at))
    <3>1. Job'[t] = None
        BY <2>4, <2>8 DEF Job
    <3>2. op[t].at \in Seq(Addr) /\ Head(fifo[h[t]]) \in Nat
        BY <1>2, <2>3, MenuFacts, AddrAssumption DEF Byte
    <3>3. op[t].at \in Seq(Addr) /\ got[t] \in Seq(Nat) /\ Head(fifo[h[t]]) \in Nat
        BY <1>0, <3>2
    <3>4. \A s \in Seq(Nat), x \in Nat : Len(Append(s, x)) = Len(s) + 1
        OBVIOUS
    <3>5. Len(Got[t]) = Len(got[t]) + 1
        BY <2>4, <2>5, <2>6, <3>3, <3>4, Zenon
    <3>6. Job[t].kind = "in" /\ Len(Got[t]) = Len(Job[t].at)
        BY <1>2, <1>7, <2>8, <3>3, <3>5
    <3>7. Job' = [Job EXCEPT ![t] = None] /\ UNCHANGED <<reg, Got, Opened, Buf>>
        BY <1>1, <1>4, <1>6, <2>6, <3>1, Folded
    <3> QED
        BY <3>6, <3>7, IsReadReturns DEF Mapping
  <2> QED
      BY <2>7, <2>8
<1> QED
    BY <1>9, <1>10, <1>11 DEF Read

\* The steps of a write.
LEMMA PayloadIs ==
    ASSUME Placed, BufferOK, WRCT < CountMod, NEW t \in Threads, pc[t] \in {"announce", "data"}
    PROVE  /\ op[t] \in Menu[t] /\ op[t].kind \in {"out", "flush"} /\ h[t] \in Boards
           /\ op[t].kind = "out" => Payload(t) = Cells(op[t]) /\ h[t] = op[t].b /\ ~open[t]
           /\ op[t].kind = "flush" =>
                 /\ Payload(t) = [i \in 1 .. WRCT |-> OUTBUF[i - 1]]
                 /\ h[t] = BURST_H /\ WRCT # 0 /\ open[t]
<1>1. op[t] \in Menu[t] /\ op[t].kind \in {"out", "flush"} /\ Sends(t) /\ BufferAt(t)
    BY DEF Placed, TypeOK, PlaceOK, PlaceAt, None, Sends, BufferOK
<1>2. CASE op[t].kind = "out"
    BY <1>1, <1>2, MenuFacts DEF Payload, IsFlush, BufferAt
<1>3. CASE op[t].kind = "flush"
  <2>1. h[t] = BURST_H /\ n[t] = WRCT /\ WRCT # 0 /\ open[t]
      BY <1>1, <1>3 DEF BufferAt
  <2>2. Collects(t)
      BY <2>1 DEF Collects, StartPcs, FlushPcs
  <2>3. h[t] \in Boards
      BY <1>1, <2>1, <2>2 DEF BufferAt, Placed, TypeOK
  <2>4. WRCT \in Nat /\ CountMod \in Nat \ {0}
      BY BufferAssumption DEF Placed, TypeOK
  <2>5. \A x \in Nat, m \in Nat \ {0} : x < m => x % m = x
      OBVIOUS
  <2>6. n[t] % CountMod = WRCT
      BY <2>1, <2>4, <2>5
  <2> QED
      BY <1>1, <1>3, <2>1, <2>3, <2>6 DEF Payload, IsFlush
<1> QED
    BY <1>1, <1>2, <1>3

\* The byte that a register gets is that of the last cell for it, if any.
LEMMA Stored ==
    ASSUME NEW f \in [Addr -> Byte], NEW cs, NEW a \in Addr, NEW i \in 1 .. Len(cs), IsLastOf(cs, a, i)
    PROVE  Store(f, cs)[a] = cs[i][2]
<1> DEFINE k == CHOOSE x \in 1 .. Len(cs) : IsLastOf(cs, a, x)
<1>1. k \in 1 .. Len(cs) /\ IsLastOf(cs, a, k)
    OBVIOUS
<1> HIDE DEF k
<1>2. k = i
    BY <1>1 DEF IsLastOf
<1>3. Store(f, cs)[a] = cs[k][2]
    BY DEF Store, k
<1> QED
    BY <1>2, <1>3

LEMMA NotStored ==
    ASSUME NEW f \in [Addr -> Byte], NEW cs, NEW a \in Addr, \A i \in 1 .. Len(cs) : ~IsLastOf(cs, a, i)
    PROVE  Store(f, cs)[a] = f[a]
BY DEF Store

LEMMA StoredByBurst ==
    ASSUME NEW cs, NEW b \in Boards, NEW a \in Addr, NEW i \in 1 .. Len(cs), RF!IsLastAt(cs, b, a, i)
    PROVE  RF!StoreBurst(cs)[b][a] = cs[i][3]
<1> DEFINE k == CHOOSE x \in 1 .. Len(cs) : RF!IsLastAt(cs, b, a, x)
<1>1. k \in 1 .. Len(cs) /\ RF!IsLastAt(cs, b, a, k)
    OBVIOUS
<1> HIDE DEF k
<1>2. k = i
    BY <1>1 DEF RF!IsLastAt
<1>3. RF!StoreBurst(cs)[b][a] = cs[k][3]
    BY DEF RF!StoreBurst, k, RF!Addr, Addr
<1> QED
    BY <1>2, <1>3

LEMMA NotStoredByBurst ==
    ASSUME NEW cs, NEW b \in Boards, NEW a \in Addr, \A i \in 1 .. Len(cs) : ~RF!IsLastAt(cs, b, a, i)
    PROVE  RF!StoreBurst(cs)[b][a] = reg[b][a]
BY DEF RF!StoreBurst, RF!Addr, Addr

\* Storing the cells of the buffer on its board is storing the burst.
CellsTo(b, p, q) ==
    /\ Len(q) = Len(p)
    /\ \A i \in 1 .. Len(p) : q[i][1] = b /\ q[i][2] = p[i][1] /\ q[i][3] = p[i][2]

LEMMA StoresBurst ==
    ASSUME reg \in [Boards -> [Addr -> Byte]], NEW b \in Boards, NEW p \in Seq(Cell), NEW q, CellsTo(b, p, q)
    PROVE  [reg EXCEPT ![b] = Store(reg[b], p)] = RF!StoreBurst(q)
<1> DEFINE F == [reg EXCEPT ![b] = Store(reg[b], p)]
<1>1. /\ F = [c \in Boards |-> F[c]]
      /\ \A c \in Boards : F[c] = IF c = b THEN Store(reg[b], p) ELSE reg[c]
    OBVIOUS
<1> HIDE DEF F
<1>2. ASSUME NEW c \in Boards, NEW a \in Addr PROVE F[c][a] = RF!StoreBurst(q)[c][a]
  <2>1. CASE c = b
    <3>1. \A i \in 1 .. Len(p) : RF!IsLastAt(q, b, a, i) <=> IsLastOf(p, a, i)
        BY DEF RF!IsLastAt, IsLastOf, CellsTo
    <3>2. reg[b] \in [Addr -> Byte]
        OBVIOUS
    <3>3. F[b] = Store(reg[b], p)
        BY <1>1
    <3>4. ASSUME NEW i \in 1 .. Len(p), IsLastOf(p, a, i) PROVE F[c][a] = RF!StoreBurst(q)[c][a]
      <4>1. Store(reg[b], p)[a] = p[i][2]
          BY <3>2, <3>4, Stored
      <4>2. RF!StoreBurst(q)[b][a] = q[i][3]
          BY <3>1, <3>4, StoredByBurst DEF CellsTo
      <4> QED
          BY <2>1, <3>3, <4>1, <4>2 DEF CellsTo
    <3>5. ASSUME \A i \in 1 .. Len(p) : ~IsLastOf(p, a, i) PROVE F[c][a] = RF!StoreBurst(q)[c][a]
      <4>1. Store(reg[b], p)[a] = reg[b][a]
          BY <3>2, <3>5, NotStored
      <4>2. RF!StoreBurst(q)[b][a] = reg[b][a]
          BY <3>1, <3>5, NotStoredByBurst DEF CellsTo
      <4> QED
          BY <2>1, <3>3, <4>1, <4>2
    <3> QED
        BY <3>4, <3>5
  <2>2. CASE c # b
    <3>1. \A i \in 1 .. Len(p) : ~RF!IsLastAt(q, c, a, i)
        BY <2>2 DEF RF!IsLastAt, CellsTo
    <3> QED
        BY <1>1, <2>2, <3>1, NotStoredByBurst DEF CellsTo
  <2> QED
      BY <2>1, <2>2
<1>3. /\ RF!StoreBurst(q) = [c \in Boards |-> RF!StoreBurst(q)[c]]
      /\ \A c \in Boards : RF!StoreBurst(q)[c] = [a \in Addr |-> RF!StoreBurst(q)[c][a]]
    BY DEF RF!StoreBurst, RF!Addr, Addr
<1>4. \A c \in Boards : F[c] = [a \in Addr |-> F[c][a]]
  <2>1. Store(reg[b], p) \in [Addr -> Byte]
      BY StoreType
  <2> QED
      BY <1>1, <2>1
<1>5. \A c \in Boards : F[c] = RF!StoreBurst(q)[c]
    BY <1>2, <1>3, <1>4
<1>6. F = RF!StoreBurst(q)
    BY <1>3, <1>5, <1>1
<1> QED
    BY <1>6 DEF F

\* A step that does nothing to what RegisterFile sees: the boards, the buffer,
\* and whether the thread is in a call, in a fetch, in a start or in a flush.
LEMMA Unseen ==
    ASSUME Disciplined, Placed, BurstInv, NEW t \in Threads, Only(t), UNCHANGED Buffer,
           UNCHANGED <<reg, fifo, op>>, open'[t] = open[t], got'[t] = got[t],
           (pc'[t] = "idle") <=> (pc[t] = "idle"), pc[t] # "fetch", pc'[t] # "fetch",
           (pc'[t] \in StartPcs) <=> (pc[t] \in StartPcs),
           (pc'[t] \in FlushPcs \ {"test"}) <=> (pc[t] \in FlushPcs \ {"test"})
    PROVE  UNCHANGED RF!vars
<1>1. Others(t)
    BY OthersMapped
<1>2. Job'[t] = Job[t]
    BY DEF Job
<1>3. Got'[t] = Got[t]
    BY DEF Got
<1>4. Opened'[t] = Opened[t]
    BY DEF Opened
<1>5. Buf'[t] = Buf[t]
    BY DEF Buf, Buffer
<1> QED
    BY <1>1, <1>2, <1>3, <1>4, <1>5, Silent

\* A thread that has its burst open, and is not starting or flushing it.
LEMMA OpenBuf ==
    ASSUME NEW t \in Threads, Collects(t)
    PROVE  Opened[t] /\ Buf[t] = [i \in 1 .. WRCT |-> <<BURST_H, OUTBUF[i - 1][1], OUTBUF[i - 1][2]>>]
BY DEF Collects, Opened, Buf

LEMMA WriteMapped ==
    ASSUME Disciplined, Placed, NothingClosed, BurstInv, BufferOK, fails = 0, fails' = 0,
           WRCT < CountMod, NEW t \in Threads, Write(t)
    PROVE  Mapping
<1>0. /\ pc \in [Threads -> Pcs] /\ got \in [Threads -> Seq(Nat)] /\ n \in [Threads -> 0 .. OutBufCells]
      /\ reg \in [Boards -> [Addr -> Byte]] /\ OUTBUF \in [0 .. OutBufCells - 1 -> Cell]
      /\ WRCT \in 0 .. OutBufCells /\ OutBufCells \in Nat
    BY BufferAssumption DEF Placed, TypeOK
<1>1. Only(t) /\ BufferAt(t)
    BY OnlyIt DEF Step, BufferOK
<1>2. CASE Route(t) \/ TestHandle(t)
  <2>1. /\ UNCHANGED Buffer /\ UNCHANGED <<reg, fifo, op, open, got>> /\ pc[t] \in {"route", "htest"}
        /\ pc'[t] \in {"htest", "announce", "hset", "store"}
      BY <1>0, <1>2 DEF Route, TestHandle, At, Goto, burst, client, boards, Buffer
  <2> QED
      BY <1>1, <2>1, Unseen DEF Mapping, StartPcs, FlushPcs
<1>3. CASE SetHandle(t)
  <2>1. /\ UNCHANGED <<reg, fifo, op, open, got, WRCT, OUTBUF>> /\ pc[t] = "hset" /\ pc'[t] = "store"
      BY <1>0, <1>3 DEF SetHandle, At, Goto, client, boards
  <2>2. Starts(t) /\ open[t] /\ BURST_H = NoBoard
      BY <1>1, <2>1, BurstPlaces DEF BufferAt, BufferPcs
  <2>3. Collects(t) /\ Collects(t)' /\ WRCT = 0
      BY <1>1, <2>1, <2>2 DEF Collects, BufferAt, StartPcs, FlushPcs
  <2>4. Others(t)
      BY <1>1, <2>1, <2>2, OthersMapped
  <2>5. Buf[t] = << >> /\ Buf'[t] = << >>
      BY <2>1, <2>3 DEF Buf, Collects
  <2>6. Job'[t] = Job[t] /\ Got'[t] = Got[t] /\ Opened'[t] = Opened[t]
      BY <2>1 DEF Job, Got, Opened, StartPcs
  <2> QED
      BY <2>1, <2>4, <2>5, <2>6, Silent DEF Mapping
<1>4. CASE StoreCells(t)
  <2>1. /\ UNCHANGED <<reg, fifo, op, open, got, WRCT, BURST_H>> /\ pc[t] = "store" /\ pc'[t] \in {"store", "count"}
      BY <1>0, <1>4 DEF StoreCells, At, Goto, client, boards
  <2>2. Starts(t) /\ Collects(t) /\ Collects(t)'
      BY <1>1, <2>1, BurstPlaces DEF BufferAt, BufferPcs, Collects, StartPcs, FlushPcs
  <2>3. \A i \in 1 .. WRCT : OUTBUF'[i - 1] = OUTBUF[i - 1]
    <3>1. CASE OUTBUF' = OUTBUF
        BY <3>1
    <3>2. CASE OUTBUF' = [i \in DOMAIN OUTBUF |->
                             IF i \in WRCT .. WRCT + Len(Cells(op[t])) - 1
                             THEN Cells(op[t])[i - WRCT + 1] ELSE OUTBUF[i]]
      <4> SUFFICES ASSUME NEW i \in 1 .. WRCT PROVE OUTBUF'[i - 1] = OUTBUF[i - 1]
          OBVIOUS
      <4>1. i - 1 \in DOMAIN OUTBUF /\ i - 1 \notin WRCT .. WRCT + Len(Cells(op[t])) - 1
          BY <1>0
      <4> QED
          BY <3>2, <4>1
    <3>3. \/ OUTBUF' = OUTBUF
          \/ OUTBUF' = [i \in DOMAIN OUTBUF |->
                           IF i \in WRCT .. WRCT + Len(Cells(op[t])) - 1
                           THEN Cells(op[t])[i - WRCT + 1] ELSE OUTBUF[i]]
      <4>1. op[t] \in Menu[t] /\ op[t].kind = "out"
          BY <2>1 DEF Placed, TypeOK, PlaceOK, PlaceAt, WritePcs, None
      <4>0. BURST_H = h[t] /\ Len(Cells(op[t])) \in Nat /\ WRCT \in Nat /\ OutBufCells \in Nat
          BY <1>0, <1>1, <2>1, <4>1, MenuFacts DEF BufferAt
      <4>2. CASE WRCT + Len(Cells(op[t])) > OutBufCells
          BY <1>4, <4>0, <4>2 DEF StoreCells
      <4>3. CASE ~(WRCT + Len(Cells(op[t])) > OutBufCells)
          BY <1>4, <4>0, <4>3 DEF StoreCells
      <4> QED
          BY <4>2, <4>3
    <3> QED
        BY <3>1, <3>2, <3>3
  <2>4. Others(t)
      BY <1>1, <2>1, <2>2, OthersMapped
  <2>5. Buf'[t] = Buf[t]
      BY <2>1, <2>2, <2>3, OpenBuf DEF Collects, Buf
  <2>6. Job'[t] = Job[t] /\ Got'[t] = Got[t] /\ Opened'[t] = Opened[t]
      BY <2>1 DEF Job, Got, Opened, StartPcs
  <2> QED
      BY <2>1, <2>4, <2>5, <2>6, Silent DEF Mapping
\* What was stored and is then counted is a write inside the burst.
<1>5. CASE CountCells(t)
  <2>1. /\ UNCHANGED <<reg, fifo, op, open, got, h, BURST_H, OUTBUF>> /\ pc[t] = "count" /\ pc'[t] = "idle"
        /\ WRCT' = n[t] + Len(op[t].at)
      BY <1>0, <1>5 DEF CountCells, At, Goto, client, boards
  <2>2. /\ Starts(t) /\ Collects(t) /\ Collects(t)' /\ BURST_H = h[t] /\ n[t] = WRCT
        /\ \A i \in 1 .. Len(op[t].at) : OUTBUF[WRCT + i - 1] = Cells(op[t])[i]
      BY <1>1, <2>1, BurstPlaces DEF BufferAt, BufferPcs, Collects, StartPcs, FlushPcs
  <2>3. /\ op[t] \in Menu[t] /\ op[t].kind = "out" /\ h[t] = op[t].b /\ WRCT + Len(op[t].at) <= OutBufCells
      BY <2>1, <2>2 DEF Placed, TypeOK, PlaceOK, PlaceAt, None, WritePcs
  <2>4. /\ op[t].b \in Boards /\ op[t].at \in Seq(Addr) /\ Len(Cells(op[t])) = Len(op[t].at)
        /\ op[t].dat \in Seq(Byte) /\ Len(op[t].dat) = Len(op[t].at)
      BY <2>3, MenuFacts, MenuAssumption DEF Op
  <2> DEFINE S == Boards \X Addr \X Byte
             L == Len(op[t].at)
             w == [i \in 1 .. L |-> <<op[t].b, op[t].at[i], op[t].dat[i]>>]
  <2>5. L \in Nat /\ w \in Seq(S) /\ Len(w) = L
    <3>1. \A i \in 1 .. L : op[t].at[i] \in Addr /\ op[t].dat[i] \in Byte
        BY <2>4
    <3> QED
        BY <2>4, <3>1
  <2>6. \A i \in 1 .. WRCT + L : <<BURST_H, OUTBUF[i - 1][1], OUTBUF[i - 1][2]>> \in S
    <3> SUFFICES ASSUME NEW i \in 1 .. WRCT + L
                 PROVE  <<BURST_H, OUTBUF[i - 1][1], OUTBUF[i - 1][2]>> \in S
        OBVIOUS
    <3>1. i - 1 \in 0 .. OutBufCells - 1
        BY <1>0, <2>3, <2>5
    <3>2. OUTBUF[i - 1] \in Cell
        BY <1>0, <3>1
    <3> QED
        BY <2>2, <2>3, <2>4, <3>2 DEF Cell
  <2>7. Buf[t] = [i \in 1 .. WRCT |-> <<BURST_H, OUTBUF[i - 1][1], OUTBUF[i - 1][2]>>]
        /\ Buf'[t] = [i \in 1 .. WRCT + L |-> <<BURST_H, OUTBUF[i - 1][1], OUTBUF[i - 1][2]>>]
    <3>1. Buf[t] = [i \in 1 .. WRCT |-> <<BURST_H, OUTBUF[i - 1][1], OUTBUF[i - 1][2]>>]
        BY <2>2, OpenBuf
    <3>2. Buf'[t] = [i \in 1 .. WRCT' |-> <<BURST_H', OUTBUF'[i - 1][1], OUTBUF'[i - 1][2]>>]
        BY <2>2 DEF Collects, Buf
    <3> QED
        BY <2>1, <2>2, <3>1, <3>2
  <2>8. Buf[t] \in Seq(S) /\ Len(Buf[t]) = WRCT /\ Buf'[t] \in Seq(S) /\ Len(Buf'[t]) = WRCT + L
    <3> HIDE DEF S
    <3>1. WRCT \in Nat /\ WRCT + L \in Nat /\ 1 .. WRCT \subseteq 1 .. WRCT + L
        BY <1>0, <2>5
    <3>2. \A i \in 1 .. WRCT : <<BURST_H, OUTBUF[i - 1][1], OUTBUF[i - 1][2]>> \in S
        BY <2>6, <3>1
    <3>3. Buf[t] \in Seq(S) /\ Len(Buf[t]) = WRCT
        BY <2>7, <3>1, <3>2
    <3>4. Buf'[t] \in Seq(S) /\ Len(Buf'[t]) = WRCT + L
        BY <2>6, <2>7, <3>1
    <3> QED
        BY <3>3, <3>4
  <2>9. /\ \A i \in 1 .. WRCT : Buf'[t][i] = Buf[t][i]
        /\ \A i \in 1 .. L : Buf'[t][WRCT + i] = w[i]
    <3>1. ASSUME NEW i \in 1 .. WRCT PROVE Buf'[t][i] = Buf[t][i]
        BY <1>0, <2>5, <2>7
    <3>2. ASSUME NEW i \in 1 .. L PROVE Buf'[t][WRCT + i] = w[i]
      <4>1. WRCT + i \in 1 .. WRCT + L /\ WRCT + i - 1 = (WRCT + i) - 1
          BY <1>0, <2>5
      <4>2. OUTBUF[WRCT + i - 1] = <<op[t].at[i], op[t].dat[i]>>
          BY <2>2 DEF Cells
      <4>3. Buf'[t][WRCT + i] = <<BURST_H, OUTBUF[WRCT + i - 1][1], OUTBUF[WRCT + i - 1][2]>>
          BY <2>7, <4>1
      <4> QED
          BY <2>2, <2>3, <4>2, <4>3
    <3> QED
        BY <3>1, <3>2
  <2> HIDE DEF w, S, L
  <2>10. Buf'[t] = Buf[t] \o w
    <3>1. /\ Len(Buf'[t]) = Len(Buf[t]) + Len(w)
          /\ \A i \in 1 .. Len(Buf[t]) : Buf'[t][i] = Buf[t][i]
          /\ \A i \in 1 .. Len(w) : Buf'[t][Len(Buf[t]) + i] = w[i]
        BY <2>5, <2>8, <2>9
    <3> QED
        BY <2>5, <2>8, <3>1, Joined
  <2>11. Others(t)
      BY <1>1, <2>1, <2>2, OthersMapped
  <2>12. Job[t] = op[t] /\ Job'[t] = None /\ Got'[t] = Got[t] /\ Opened[t] /\ Opened'[t] = Opened[t]
      BY <2>1, <2>2, OpenBuf DEF Job, Got, Opened, Collects
  <2>13. Buf' = [Buf EXCEPT ![t] = Buf[t] \o w] /\ Job' = [Job EXCEPT ![t] = None]
         /\ UNCHANGED <<reg, Got, Opened>>
      BY <2>1, <2>10, <2>11, <2>12, Folded
  <2>14. w = [i \in 1 .. Len(Job[t].at) |-> <<Job[t].b, Job[t].at[i], Job[t].dat[i]>>]
      BY <2>12 DEF w, L
  <2> QED
      BY <2>3, <2>12, <2>13, <2>14, IsWriteLater DEF Mapping
<1>6. CASE Announce(t)
  <2>1. /\ UNCHANGED Buffer /\ UNCHANGED <<reg, fifo, op, open, got, h>> /\ pc[t] = "announce"
      BY <1>6 DEF Announce, Transfer, burst, client, Buffer
  <2>2. pc'[t] = "data"
      BY <1>0, <1>6, <2>1, AllSucceed, NoBoardAssumption DEF Announce, Goto, Transfers
  <2> QED
      BY <1>1, <2>1, <2>2, Unseen DEF Mapping, StartPcs, FlushPcs
<1>7. CASE SendData(t)
  <2>1. /\ UNCHANGED Buffer /\ UNCHANGED <<fifo, op, open, got, h>> /\ pc[t] = "data"
      BY <1>7 DEF SendData, Transfer, burst, client, Buffer
  <2>2. /\ op[t] \in Menu[t] /\ op[t].kind \in {"out", "flush"} /\ h[t] \in Boards
        /\ op[t].kind = "out" => Payload(t) = Cells(op[t]) /\ h[t] = op[t].b /\ ~open[t]
        /\ op[t].kind = "flush" =>
              /\ Payload(t) = [i \in 1 .. WRCT |-> OUTBUF[i - 1]]
              /\ h[t] = BURST_H /\ WRCT # 0 /\ open[t]
      BY <2>1, PayloadIs
  <2>3. pc'[t] = AfterWrite(t) /\ reg' = [reg EXCEPT ![h[t]] = Store(reg[h[t]], Payload(t))]
      BY <1>0, <1>7, <2>1, <2>2, AllSucceed, NoBoardAssumption DEF SendData, Goto
  <2>4. Others(t)
      BY <1>1, <2>1, OthersMapped
  <2>5. Got'[t] = Got[t] /\ Job[t] = op[t] /\ Opened'[t] = Opened[t]
      BY <2>1, <2>3 DEF Job, Got, Opened, AfterWrite, StartPcs
  <2>6. CASE op[t].kind = "out"
    <3>1. pc'[t] = "idle" /\ Job'[t] = None /\ ~Opened[t] /\ Buf'[t] = Buf[t]
        BY <2>1, <2>2, <2>3, <2>6 DEF AfterWrite, IsFlush, Job, Opened, Buf
    <3>2. Job' = [Job EXCEPT ![t] = None] /\ UNCHANGED <<Got, Opened, Buf>>
        BY <2>4, <2>5, <3>1, Folded
    <3>3. reg' = [reg EXCEPT ![Job[t].b] = Store(reg[Job[t].b], Cells(Job[t]))]
        BY <2>2, <2>3, <2>5, <2>6
    <3> QED
        BY <2>5, <2>6, <3>1, <3>2, <3>3, IsWriteNow DEF Mapping
  <2>7. CASE op[t].kind = "flush"
    <3>1. pc'[t] = "uncount" /\ Job'[t] = Job[t] /\ Collects(t) /\ Buf'[t] = << >>
        BY <2>1, <2>2, <2>3, <2>7 DEF AfterWrite, IsFlush, Job, Buf, Collects, StartPcs, FlushPcs
    <3> DEFINE q == Buf[t]
               x == Payload(t)
    <3>2. x \in Seq(Cell)
        BY <2>1, PayloadType
    <3>3. /\ q = [i \in 1 .. WRCT |-> <<h[t], OUTBUF[i - 1][1], OUTBUF[i - 1][2]>>]
          /\ x = [i \in 1 .. WRCT |-> OUTBUF[i - 1]]
        BY <2>2, <2>7, <3>1, OpenBuf
    <3> HIDE DEF q, x
    <3>4. WRCT \in Nat \ {0}
        BY <1>0, <2>2, <2>7
    <3>5. Len(q) = WRCT /\ Len(x) = WRCT /\ q # << >>
        BY <3>4, <3>3
    <3>6. \A i \in 1 .. Len(x) : q[i][1] = h[t] /\ q[i][2] = x[i][1] /\ q[i][3] = x[i][2]
        BY <3>4, <3>5, <3>3
    <3>7. [reg EXCEPT ![h[t]] = Store(reg[h[t]], x)] = RF!StoreBurst(q)
      <4>1. reg \in [Boards -> [Addr -> Byte]] /\ h[t] \in Boards /\ Len(q) = Len(x)
          BY <1>0, <2>2, <3>5
      <4>2. CellsTo(h[t], x, q)
          BY <3>6, <4>1 DEF CellsTo
      <4> QED
          BY <3>2, <4>1, <4>2, StoresBurst
    <3>8. reg' = RF!StoreBurst(Buf[t]) /\ Buf[t] # << >>
        BY <2>3, <3>5, <3>7 DEF q, x
    <3>9. Buf' = [Buf EXCEPT ![t] = << >>] /\ UNCHANGED <<Job, Got, Opened>>
        BY <2>4, <2>5, <3>1, Folded
    <3> QED
        BY <2>5, <2>7, <3>8, <3>9, IsBurstStored DEF Mapping
  <2> QED
      BY <2>2, <2>6, <2>7
<1>8. CASE CloseBoard(t)
    BY <1>1, <1>8 DEF CloseBoard, At, BufferAt
<1> QED
    BY <1>2, <1>3, <1>4, <1>5, <1>6, <1>7, <1>8 DEF Write

\* usbin and usbout are nothing to RegisterFile.
LEMMA BusMapped ==
    ASSUME Disciplined, Placed, BurstInv, NEW t \in Threads, Bus(t)
    PROVE  Mapping
<1>1. Only(t)
    BY OnlyIt DEF Step
<1>2. UNCHANGED Buffer /\ UNCHANGED <<reg, fifo, op, open, got, h, pc>>
    BY DEF Bus, SeeIdleBus, TakeBus, LeaveBus, burst, client, boards, Buffer
<1>3. Others(t)
    BY <1>1, <1>2, OthersMapped
<1>4. Job'[t] = Job[t] /\ Got'[t] = Got[t] /\ Opened'[t] = Opened[t] /\ Buf'[t] = Buf[t]
    BY <1>2 DEF Job, Got, Opened, Buf, Buffer
<1> QED
    BY <1>2, <1>3, <1>4, Silent DEF Mapping

\* Nor are the switches of a burst while its thread is inside a start, or
\* inside a flush that has sent what there was.
LEMMA Switching ==
    ASSUME Disciplined, Placed, BurstInv, NEW t \in Threads, Only(t), Starts(t),
           UNCHANGED <<reg, fifo, op, got>>,
           \/ pc[t] \in StartPcs /\ pc'[t] \in StartPcs
           \/ pc[t] \in FlushPcs \ {"test"} /\ pc'[t] \in FlushPcs \ {"test"} /\ open'[t] = open[t]
    PROVE  Mapping
<1>1. Others(t)
    BY OthersMapped
<1>2. Job'[t] = Job[t] /\ Got'[t] = Got[t]
    BY DEF Job, Got, StartPcs, FlushPcs
<1>3. Opened'[t] = Opened[t]
    BY DEF Opened, StartPcs, FlushPcs
<1>4. Buf'[t] = << >> /\ Buf[t] = << >>
    BY DEF Buf
<1> QED
    BY <1>1, <1>2, <1>3, <1>4, Silent DEF Mapping

LEMMA StartMapped ==
    ASSUME Disciplined, Placed, BurstInv, BufferOK, NEW t \in Threads, Start(t)
    PROVE  Mapping
<1>0. pc \in [Threads -> Pcs] /\ open \in [Threads -> BOOLEAN]
    BY DEF Placed, TypeOK
<1>1. Only(t) /\ BufferAt(t)
    BY OnlyIt DEF Step, BufferOK
<1>2. UNCHANGED <<reg, fifo, op, got>> /\ pc[t] \in StartPcs
    BY DEF Start, SeeNoBurst, TakeBurst, ZeroCount, SwitchOn, NoHandle, At, boards, StartPcs
<1>3. Starts(t) /\ op[t].kind = "start"
    BY <1>2, BurstPlaces DEF Placed, PlaceOK, PlaceAt
<1>4. CASE NoHandle(t)
  <2>1. pc[t] = "nohandle" /\ pc'[t] = "idle" /\ UNCHANGED <<open, WRCT>>
      BY <1>0, <1>4 DEF NoHandle, At, Goto, client
  <2>2. open[t] /\ WRCT = 0
      BY <1>1, <2>1 DEF BufferAt
  <2>3. Others(t)
      BY <1>1, <1>2, <1>3, <2>1, OthersMapped
  <2>4. Job[t] = op[t] /\ Job'[t] = None /\ Got'[t] = Got[t]
      BY <1>2, <2>1 DEF Job, Got
  <2>5. Opened'[t] = TRUE
      BY <2>1, <2>2 DEF Opened, StartPcs
  <2>6. Buf[t] = << >> /\ Buf'[t] = << >>
    <3>1. Buf[t] = << >>
        BY <1>2 DEF Buf
    <3>2. Buf'[t] = [i \in 1 .. WRCT' |-> <<BURST_H', OUTBUF'[i - 1][1], OUTBUF'[i - 1][2]>>]
        BY <2>1, <2>2 DEF Buf, StartPcs, FlushPcs
    <3> QED
        BY <2>1, <2>2, <3>1, <3>2
  <2>7. /\ Opened' = [Opened EXCEPT ![t] = TRUE] /\ Job' = [Job EXCEPT ![t] = None]
        /\ UNCHANGED <<reg, Got, Buf>>
      BY <1>2, <2>3, <2>4, <2>5, <2>6, Folded
  <2> QED
      BY <1>3, <2>4, <2>7, IsBurstOpens DEF Mapping
<1>5. CASE SeeNoBurst(t) \/ TakeBurst(t) \/ ZeroCount(t) \/ SwitchOn(t)
  <2>1. pc'[t] \in StartPcs
      BY <1>0, <1>5 DEF SeeNoBurst, TakeBurst, ZeroCount, SwitchOn, Goto, StartPcs
  <2> QED
      BY <1>1, <1>2, <1>3, <2>1, Switching
<1> QED
    BY <1>4, <1>5 DEF Start

LEMMA FlushMapped ==
    ASSUME Disciplined, Placed, BurstInv, BufferOK, NEW t \in Threads, Flush(t)
    PROVE  Mapping
<1>0. pc \in [Threads -> Pcs] /\ open \in [Threads -> BOOLEAN]
    BY DEF Placed, TypeOK
<1>1. Only(t) /\ BufferAt(t)
    BY OnlyIt DEF Step, BufferOK
<1>2. UNCHANGED <<reg, fifo, op, got>> /\ pc[t] \in FlushPcs
    BY DEF Flush, TestCount, ForgetCount, SwitchOff, ForgetHandle, ReleaseBurst, At, boards, FlushPcs
<1>3. Starts(t) /\ op[t].kind = "flush"
    BY <1>2, BurstPlaces DEF Placed, PlaceOK, PlaceAt
<1>4. CASE TestCount(t)
  <2>1. pc[t] = "test" /\ UNCHANGED Buffer /\ UNCHANGED open
      BY <1>4 DEF TestCount, At, burst, client, Buffer
  <2>2. CASE pc'[t] = "announce"
      BY <1>1, <1>2, <2>1, <2>2, Unseen DEF Mapping, StartPcs, FlushPcs
  <2>3. CASE pc'[t] = "uncount" /\ WRCT = 0
    <3>1. Others(t)
        BY <1>1, <1>2, <1>3, OthersMapped
    <3>2. Job'[t] = Job[t] /\ Got'[t] = Got[t] /\ Opened'[t] = Opened[t]
        BY <1>2, <2>1, <2>3 DEF Job, Got, Opened, StartPcs
    <3>3. Collects(t)
        BY <1>1, <2>1 DEF Collects, BufferAt, StartPcs, FlushPcs
    <3>4. Buf[t] = << >> /\ Buf'[t] = << >>
      <4>1. Buf[t] = [i \in 1 .. WRCT |-> <<BURST_H, OUTBUF[i - 1][1], OUTBUF[i - 1][2]>>]
          BY <3>3, OpenBuf
      <4>2. Buf'[t] = << >>
          BY <2>3 DEF Buf, FlushPcs
      <4> QED
          BY <2>3, <4>1, <4>2
    <3> QED
        BY <1>2, <3>1, <3>2, <3>4, Silent DEF Mapping
  <2>4. pc'[t] = "announce" \/ (pc'[t] = "uncount" /\ WRCT = 0)
      BY <1>0, <1>4 DEF TestCount, Goto
  <2> QED
      BY <2>2, <2>3, <2>4
<1>5. CASE ForgetCount(t) \/ SwitchOff(t) \/ ForgetHandle(t)
  <2>1. pc[t] \in FlushPcs \ {"test"} /\ pc'[t] \in FlushPcs \ {"test"} /\ open' = open
      BY <1>0, <1>5 DEF ForgetCount, SwitchOff, ForgetHandle, At, Goto, FlushPcs, client
  <2> QED
      BY <1>1, <1>2, <1>3, <2>1, Switching
<1>6. CASE ReleaseBurst(t)
  <2>1. pc[t] = "release" /\ pc'[t] = "idle" /\ ~open'[t]
      BY <1>0, <1>6 DEF ReleaseBurst, At, Goto
  <2>2. Others(t)
      BY <1>1, <1>2, <1>3, OthersMapped
  <2>3. Job[t] = op[t] /\ Job'[t] = None /\ Got'[t] = Got[t] /\ Opened'[t] = FALSE
      BY <1>2, <2>1 DEF Job, Got, Opened
  <2>4. Buf[t] = << >> /\ Buf'[t] = << >>
      BY <2>1 DEF Buf, FlushPcs
  <2>5. /\ Opened' = [Opened EXCEPT ![t] = FALSE] /\ Job' = [Job EXCEPT ![t] = None]
        /\ UNCHANGED <<reg, Got, Buf>>
      BY <1>2, <2>2, <2>3, <2>4, Folded
  <2> QED
      BY <1>3, <2>3, <2>4, <2>5, IsBurstCloses DEF Mapping
<1> QED
    BY <1>4, <1>5, <1>6 DEF Flush

LEMMA CallMapped ==
    ASSUME Disciplined, Placed, BurstInv, NEW t \in Threads, NEW o \in Menu[t], Call(t, o)
    PROVE  Mapping
<1>0. pc \in [Threads -> Pcs] /\ op \in [Threads -> Op \union {None}] /\ got \in [Threads -> Seq(Nat)]
    BY DEF Placed, TypeOK
<1>1. Only(t)
    BY OnlyIt
<1>2. UNCHANGED Buffer /\ UNCHANGED <<reg, fifo, open>> /\ pc[t] = "idle"
    BY DEF Call, At, burst, boards, Buffer
<1>3. Others(t)
    BY <1>1, <1>2, OthersMapped
<1>4. o.kind \in Kinds /\ o # None
    BY MenuFacts
<1>5. Job[t] = None /\ Opened[t] = open[t]
    BY <1>0, <1>2 DEF Job, Opened, StartPcs, Placed, TypeOK
<1>6. (o.kind = "start" => ~Opened[t]) /\ (o.kind = "flush" => Opened[t])
    BY <1>5 DEF Call
<1>7. CASE ReturnsAtOnce(t, o)
  <2>1. Absent(o) /\ Job'[t] = Job[t] /\ Opened'[t] = Opened[t] /\ Buf'[t] = Buf[t]
      BY <1>2, <1>7 DEF ReturnsAtOnce, Job, Opened, Buf, Buffer
  <2>2. Got'[t] = IF o.kind = "in" THEN NoBoardResult(o) ELSE << >>
      BY <1>0, <1>2, <1>7 DEF ReturnsAtOnce, Got
  <2>3. /\ Got' = [Got EXCEPT ![t] = IF o.kind = "in" THEN NoBoardResult(o) ELSE << >>]
        /\ UNCHANGED <<Job, reg, Opened, Buf>>
      BY <1>2, <1>3, <2>1, <2>2, Folded
  <2> QED
      BY <1>5, <1>6, <2>1, <2>3, IsCall DEF Mapping
<1>8. CASE Begins(t, o)
  <2>1. ~Absent(o) /\ pc'[t] = Entry[o.kind] /\ op'[t] = o /\ got'[t] = << >>
      BY <1>0, <1>8 DEF Begins, Goto
  <2>2. pc'[t] \in {"latch", "route", "poll", "test"} /\ (pc'[t] = "poll" => ~open[t])
      BY <1>4, <1>5, <1>6, <2>1 DEF Kinds, Entry
  <2>3. Job'[t] = o /\ Got'[t] = << >>
      BY <2>1, <2>2 DEF Job, Got
  <2>4. Opened'[t] = Opened[t] /\ Buf'[t] = Buf[t]
      BY <1>2, <2>2 DEF Opened, Buf, Buffer, StartPcs, FlushPcs
  <2>5. /\ Job' = [Job EXCEPT ![t] = o] /\ Got' = [Got EXCEPT ![t] = << >>]
        /\ UNCHANGED <<reg, Opened, Buf>>
      BY <1>2, <1>3, <2>3, <2>4, Folded
  <2> QED
      BY <1>5, <1>6, <2>1, <2>5, IsCall DEF Mapping
<1> QED
    BY <1>7, <1>8 DEF Call

LEMMA StepMapped ==
    ASSUME Disciplined, Placed, NothingClosed, AnswersAreOwn, BurstInv, BufferOK,
           Faultless, Faultless', [Next]_vars
    PROVE  Mapping
<1>0. fails = 0 /\ fails' = 0 /\ WRCT < CountMod
    BY DEF Faultless
<1>1. ASSUME NEW t \in Threads, Step(t) PROVE Mapping
    BY <1>0, <1>1, BusMapped, ReadMapped, WriteMapped, StartMapped, FlushMapped DEF Step
<1>2. ASSUME NEW t \in Threads, NEW o \in Menu[t], Call(t, o) PROVE Mapping
    BY <1>2, CallMapped
<1>3. ASSUME NEW b \in Present, BoardChanges(b) PROVE Mapping
  <2>1. UNCHANGED <<Job, Got, Opened, Buf>>
      BY <1>3 DEF BoardChanges, burst, client, Job, Got, Opened, Buf
  <2> QED
      BY <1>3, <2>1, IsBoardChanges DEF BoardChanges, Mapping
<1>4. ASSUME UNCHANGED vars PROVE Mapping
  <2>1. UNCHANGED Mapped
      BY <1>4 DEF vars, burst, client, boards, Mapped, Job, Got, Opened, Buf
  <2> QED
      BY <2>1, Stutters DEF Mapping
<1> QED
    BY <1>1, <1>2, <1>3, <1>4 DEF Next, Finished

\* For disciplined clients the operations of cusb.c are the atomic ones of the
\* register file, as long as no transfer fails and a burst has fewer cells than
\* its uint16_t byte count can tell apart: a word is read byte by byte, a write
\* outside a burst is stored at once, and the writes of a burst are stored
\* together, in order, by its flush, whatever the other threads do meanwhile
\* with the bus, the flags and their own boards.
THEOREM RegistersImplemented ==
    ASSUME Disciplined
    PROVE  Spec /\ []Faultless => ImplementsRegisterFile
<1>1. Init => MapInv
    BY ReadInvInit, BurstInvInit, BufferInit DEF MapInv
<1>2. MapInv /\ Faultless /\ Faultless' /\ [Next]_vars => MapInv'
  <2> SUFFICES ASSUME ReadInv, BurstInv, BufferOK, Faultless, Faultless', [Next]_vars
               PROVE  ReadInv' /\ BurstInv' /\ BufferOK'
      BY DEF MapInv
  <2>1. ReadInv' /\ BurstInv'
      BY PlacedStep, NothingClosedStep, AnswersAreOwnStep, BurstStep DEF ReadInv
  <2>2. BufferOK'
    <3>1. fails = 0 /\ fails' = 0 /\ NothingClosed
        BY DEF Faultless, ReadInv
    <3> QED
        BY <3>1, BufferStep DEF ReadInv
  <2> QED
      BY <2>1, <2>2
<1>3. MapInv /\ Faultless /\ Faultless' /\ [Next]_vars => [RF!Next]_RF!vars
    BY StepMapped DEF MapInv, ReadInv, Mapping
<1> QED
    BY <1>1, <1>2, <1>3, InitMapped, PTL DEF Spec, ImplementsRegisterFile, RF!Spec
=============================================================================
