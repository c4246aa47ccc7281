------------------------------- MODULE UsbIo -------------------------------
(***************************************************************************)
(* cusb.c as the threads of the server run it: every register operation is *)
(* a series of USB transfers, each between usbin() and usbout(), and the   *)
(* burst writes are collected in one buffer that all threads share.  None  *)
(* of the flags is tested and set in one step, and nothing but usbin and   *)
(* usbout is held during a series.                                         *)
(*                                                                         *)
(* A thread runs the code at pc[t]; while that is a transfer, gate[t] says *)
(* how far it is inside usbin .. usbout:                                   *)
(*   "out"  before or in the polling loop of usbin                         *)
(*   "seen" has read USB_BUSY = 0, has not yet set it                      *)
(*   "in"   has set USB_BUSY; the transfer is next                         *)
(*   "sent" the transfer is over; usbout is next (pc has moved on)         *)
(***************************************************************************)
EXTENDS DeviceIo

CONSTANTS
    OutBufCells,  \* cells that OUTBUF holds (65540 bytes, 2 a cell)
    CountMod,     \* cells that a uint16_t byte count can tell apart (32768)
    MaxCalls,     \* bound: calls of a thread, flushes not counted
    MaxFail       \* bound: transfers that fail although the board is there

ASSUME BufferAssumption == OutBufCells \in Nat /\ CountMod \in Nat \ {0}
ASSUME BoundAssumption == MaxCalls \in Nat /\ MaxFail \in Nat

NoBoard == "no board"
ASSUME NoBoardAssumption == NoBoard \notin Boards

Cell == Addr \X Byte

VARIABLES
    \* the program's globals
    USB_BUSY, OUTBURST_BUSY,
    WRON,       \* a burst is open: writes go to OUTBUF
    WRCT,       \* cells in OUTBUF (the code counts bytes)
    OUTBUF,     \* OUTBUF[i]: cell i of the buffer
    BURST_H,    \* the board of the open burst, NoBoard before its first write
    halted,     \* "no", "exit" after exit(1), "overrun" after a write past OUTBUF
    \* the threads
    pc, gate, op, got,
    h,          \* h[t]: the board that t's transfers address
    n,          \* n[t]: the value of WRCT that t has loaded
    open,       \* open[t]: t has started a burst and not finished its flush
    calls,
    \* the boards (external)
    reg,        \* reg[b][a]: register a
    latch,      \* latch[b]: the I/O address that SWRITE has set
    fifo,       \* fifo[b]: bytes that wait in RFIFO to be read
    owed,       \* owed[b]: cells announced by BWRITE that TFIFO has not brought
    closed,     \* boards whose handle has been closed after an error
    fails

flags   == <<USB_BUSY, OUTBURST_BUSY>>
burst   == <<WRON, WRCT, OUTBUF, BURST_H>>
boards  == <<reg, latch, fifo, owed>>
faults  == <<halted, closed, fails>>
client  == <<open, calls>>
vars == <<flags, burst, faults, pc, gate, op, got, h, n, client, boards>>

Transfers == {"latch", "request", "fetch", "announce", "data"}
StartPcs  == {"poll", "take", "zero", "on", "nohandle"}
FlushPcs  == {"test", "uncount", "off", "forget", "release"}
WritePcs  == {"route", "htest", "hset", "store", "count"}
Pcs == {"idle", "close"} \union Transfers \union StartPcs \union FlushPcs \union WritePcs

Entry == [in |-> "latch", out |-> "route", start |-> "poll", flush |-> "test"]

Init ==
    /\ USB_BUSY = 0 /\ OUTBURST_BUSY = 0
    /\ WRON = 0 /\ WRCT = 0 /\ BURST_H = NoBoard
    /\ OUTBUF = [i \in 0 .. OutBufCells - 1 |-> <<0, 0>>]
    /\ halted = "no" /\ closed = {} /\ fails = 0
    /\ pc = [t \in Threads |-> "idle"]
    /\ gate = [t \in Threads |-> "out"]
    /\ op = [t \in Threads |-> None]
    /\ got = [t \in Threads |-> << >>]
    /\ h = [t \in Threads |-> NoBoard]
    /\ n = [t \in Threads |-> 0]
    /\ open = [t \in Threads |-> FALSE]
    /\ calls = [t \in Threads |-> 0]
    /\ reg = [b \in Boards |-> [a \in Addr |-> 0]]
    /\ latch = [b \in Boards |-> 0]
    /\ fifo = [b \in Boards |-> << >>]
    /\ owed = [b \in Boards |-> 0]

-----------------------------------------------------------------------------
\* Helpers.

\* Thread t runs the code at p, outside usbin .. usbout.
At(t, p) == halted = "no" /\ pc[t] = p /\ gate[t] = "out"
Goto(t, p) == pc' = [pc EXCEPT ![t] = p]

\* Thread t does the transfer at p and then owes usbout.
Transfer(t, p) ==
    /\ halted = "no" /\ pc[t] = p /\ gate[t] = "in"
    /\ gate' = [gate EXCEPT ![t] = "sent"]

\* DeviceIoControl succeeds only on an open handle; it fails on a closed or
\* null one, and at most MaxFail times for another reason (cable, timeout).
Succeeds(b) == b \notin closed \union {NoBoard} /\ UNCHANGED fails
Fails(b) ==
    \/ b \in closed \union {NoBoard} /\ UNCHANGED fails
    \/ fails < MaxFail /\ fails' = fails + 1

-----------------------------------------------------------------------------
\* The client calls an operation.  uio_add2h finds the handle; an operation
\* on an absent board returns at once.  Clients bracket their bursts: start
\* outside one, flush inside.
Absent(o) == o.kind \in {"in", "out"} /\ o.b \notin Present

ReturnsAtOnce(t, o) ==
    /\ Absent(o)
    /\ got' = [got EXCEPT ![t] = IF o.kind = "in" THEN NoBoardResult(o) ELSE << >>]
    /\ UNCHANGED <<pc, op, h>>

\* Mutant: the handle is kept in a variable that all threads share.
Begins_SharedHandle(t, o) ==
    /\ ~Absent(o)
    /\ Goto(t, Entry[o.kind])
    /\ op' = [op EXCEPT ![t] = o]
    /\ h' = [u \in Threads |-> IF o.kind \in {"in", "out"} THEN o.b ELSE NoBoard]
    /\ got' = [got EXCEPT ![t] = << >>]

Begins(t, o) ==
    /\ ~Absent(o)
    /\ Goto(t, Entry[o.kind])
    /\ op' = [op EXCEPT ![t] = o]
    /\ h' = [h EXCEPT ![t] = IF o.kind \in {"in", "out"} THEN o.b ELSE NoBoard]
    /\ got' = [got EXCEPT ![t] = << >>]

Call(t, o) ==
    /\ At(t, "idle")
    /\ o.kind = "start" => ~open[t]
    /\ o.kind = "flush" => open[t]
    /\ o.kind # "flush" => calls[t] < MaxCalls
    /\ calls' = [calls EXCEPT ![t] = IF o.kind = "flush" THEN @ ELSE @ + 1]
    /\ ReturnsAtOnce(t, o) \/ Begins(t, o)
    /\ UNCHANGED <<flags, burst, faults, gate, n, open, boards>>

-----------------------------------------------------------------------------
\* usbin and usbout.

\* usbin: the loop ends on USB_BUSY = 0 ...
SeeIdleBus(t) ==
    /\ halted = "no" /\ pc[t] \in Transfers /\ gate[t] = "out"
    /\ USB_BUSY = 0
    /\ gate' = [gate EXCEPT ![t] = "seen"]
    /\ UNCHANGED <<flags, burst, faults, pc, op, got, h, n, client, boards>>

\* ... and the flag is set afterwards, whatever it is by then.
TakeBus(t) ==
    /\ halted = "no" /\ gate[t] = "seen"
    /\ USB_BUSY' = 1
    /\ gate' = [gate EXCEPT ![t] = "in"]
    /\ UNCHANGED <<OUTBURST_BUSY, burst, faults, pc, op, got, h, n, client, boards>>

\* Mutant: the flag is counted down.
LeaveBus_CountsDown(t) ==
    /\ halted = "no" /\ gate[t] = "sent"
    /\ USB_BUSY' = USB_BUSY - 1
    /\ gate' = [gate EXCEPT ![t] = "out"]
    /\ UNCHANGED <<OUTBURST_BUSY, burst, faults, pc, op, got, h, n, client, boards>>

\* Mutant: an error return of cusb_bulk_write comes before usbout.
LeaveBus_NotAfterError(t) ==
    /\ halted = "no" /\ gate[t] = "sent"
    /\ USB_BUSY' = IF pc[t] = "close" THEN USB_BUSY ELSE 0
    /\ gate' = [gate EXCEPT ![t] = "out"]
    /\ UNCHANGED <<OUTBURST_BUSY, burst, faults, pc, op, got, h, n, client, boards>>

\* usbout
LeaveBus(t) ==
    /\ halted = "no" /\ gate[t] = "sent"
    /\ USB_BUSY' = 0
    /\ gate' = [gate EXCEPT ![t] = "out"]
    /\ UNCHANGED <<OUTBURST_BUSY, burst, faults, pc, op, got, h, n, client, boards>>

-----------------------------------------------------------------------------
\* Mutant: both bytes of a word are read at the address of the first.
SetAddress_SameAddress(t) ==
    /\ Transfer(t, "latch")
    /\ \/ Succeeds(h[t]) /\ latch' = [latch EXCEPT ![h[t]] = op[t].at[1]]
       \/ Fails(h[t]) /\ UNCHANGED latch
    /\ Goto(t, "request")
    /\ UNCHANGED <<flags, burst, halted, closed, op, got, h, n, client, reg, fifo, owed>>

\* cusb_inb, cusb_inw: for each byte SWRITE of its address, SREAD, and the
\* answer from RFIFO.  No result of these transfers is looked at.
SetAddress(t) ==
    /\ Transfer(t, "latch")
    /\ \/ Succeeds(h[t]) /\ latch' = [latch EXCEPT ![h[t]] = op[t].at[Len(got[t]) + 1]]
       \/ Fails(h[t]) /\ UNCHANGED latch
    /\ Goto(t, "request")
    /\ UNCHANGED <<flags, burst, halted, closed, op, got, h, n, client, reg, fifo, owed>>

Request(t) ==
    /\ Transfer(t, "request")
    /\ \/ /\ Succeeds(h[t])
          /\ fifo' = [fifo EXCEPT ![h[t]] = Append(@, reg[h[t]][latch[h[t]]])]
       \/ Fails(h[t]) /\ UNCHANGED fifo
    /\ Goto(t, "fetch")
    /\ UNCHANGED <<flags, burst, halted, closed, op, got, h, n, client, reg, latch, owed>>

\* An empty RFIFO is a failed transfer too; the byte then returned is what
\* the uninitialised local buffer holds.
Fetch(t) ==
    /\ Transfer(t, "fetch")
    /\ \/ /\ Succeeds(h[t]) /\ fifo[h[t]] # << >>
          /\ got' = [got EXCEPT ![t] = Append(@, Head(fifo[h[t]]))]
          /\ fifo' = [fifo EXCEPT ![h[t]] = Tail(@)]
       \/ /\ \/ Fails(h[t])
             \/ Succeeds(h[t]) /\ fifo[h[t]] = << >>
          /\ \E v \in Byte : got' = [got EXCEPT ![t] = Append(@, v)]
          /\ UNCHANGED fifo
    /\ Goto(t, IF Len(got[t]) + 1 < Len(op[t].at) THEN "latch" ELSE "idle")
    /\ UNCHANGED <<flags, burst, halted, closed, op, h, n, client, reg, latch, owed>>

-----------------------------------------------------------------------------
\* uio_outb, uio_outw: into OUTBUF while a burst is open, else to the board.
Route(t) ==
    /\ At(t, "route")
    /\ Goto(t, IF WRON = 1 THEN "htest" ELSE "announce")
    /\ UNCHANGED <<flags, burst, faults, gate, op, got, h, n, client, boards>>

\* Mutant: the first write of a burst does not set BURST_H.
TestHandle_NeverSets(t) ==
    /\ At(t, "htest")
    /\ Goto(t, "store")
    /\ UNCHANGED <<flags, burst, faults, gate, op, got, h, n, client, boards>>

TestHandle(t) ==
    /\ At(t, "htest")
    /\ Goto(t, IF BURST_H = NoBoard THEN "hset" ELSE "store")
    /\ UNCHANGED <<flags, burst, faults, gate, op, got, h, n, client, boards>>

SetHandle(t) ==
    /\ At(t, "hset")
    /\ BURST_H' = h[t]
    /\ Goto(t, "store")
    /\ UNCHANGED <<flags, WRON, WRCT, OUTBUF, faults, gate, op, got, h, n, client, boards>>

\* The handle is compared, WRCT loaded and the bytes stored behind it; no
\* bound is tested.
StoreCells(t) ==
    LET cs == Cells(op[t])
        last == WRCT + Len(cs)
    IN  /\ At(t, "store")
        /\ CASE BURST_H # h[t] ->
                  halted' = "exit" /\ UNCHANGED <<OUTBUF, n, pc>>
             [] BURST_H = h[t] /\ last > OutBufCells ->
                  halted' = "overrun" /\ UNCHANGED <<OUTBUF, n, pc>>
             [] OTHER ->
                  /\ OUTBUF' = [i \in DOMAIN OUTBUF |->
                                   IF i \in WRCT .. last - 1
                                   THEN cs[i - WRCT + 1] ELSE OUTBUF[i]]
                  /\ n' = [n EXCEPT ![t] = WRCT]
                  /\ Goto(t, "count")
                  /\ UNCHANGED halted
        /\ UNCHANGED <<flags, WRON, WRCT, BURST_H, closed, fails, gate, op, got, h, client, boards>>

\* Mutant: a word is counted as a byte.
CountCells_OneCell(t) ==
    /\ At(t, "count")
    /\ WRCT' = n[t] + 1
    /\ Goto(t, "idle")
    /\ UNCHANGED <<flags, WRON, OUTBUF, BURST_H, faults, gate, op, got, h, n, client, boards>>

\* WRCT++, 2 or 4 times: the count goes on from the value that was loaded.
CountCells(t) ==
    /\ At(t, "count")
    /\ WRCT' = n[t] + Len(op[t].at)
    /\ Goto(t, "idle")
    /\ UNCHANGED <<flags, WRON, OUTBUF, BURST_H, faults, gate, op, got, h, n, client, boards>>

-----------------------------------------------------------------------------
\* cusb_bwrite: BWRITE announces the size on CPIPE, the cells go to TFIFO.

IsFlush(t) == op[t].kind = "flush"
AfterWrite(t) == IF IsFlush(t) THEN "uncount" ELSE "idle"

\* The uint16_t byte count of cusb_outburst keeps the low 16 bits.
Payload(t) ==
    IF IsFlush(t)
    THEN [i \in 1 .. (n[t] % CountMod) |-> OUTBUF[i - 1]]
    ELSE Cells(op[t])

Announce(t) ==
    /\ Transfer(t, "announce")
    /\ \/ /\ Succeeds(h[t])
          /\ owed' = [owed EXCEPT ![h[t]] = @ + Len(Payload(t))]
          /\ Goto(t, "data")
       \/ /\ Fails(h[t])
          /\ Goto(t, "close") /\ UNCHANGED owed
    /\ UNCHANGED <<flags, burst, halted, closed, op, got, h, n, client, reg, latch, fifo>>

SendData(t) ==
    /\ Transfer(t, "data")
    /\ \/ /\ Succeeds(h[t])
          /\ reg' = [reg EXCEPT ![h[t]] = Store(@, Payload(t))]
          /\ owed' = [owed EXCEPT ![h[t]] = @ - Len(Payload(t))]
          /\ Goto(t, AfterWrite(t))
       \/ /\ Fails(h[t])
          /\ Goto(t, "close") /\ UNCHANGED <<reg, owed>>
    /\ UNCHANGED <<flags, burst, halted, closed, op, got, h, n, client, latch, fifo>>

\* Mutant: the write returns without closing the handle.
CloseBoard_Forgotten(t) ==
    /\ At(t, "close")
    /\ Goto(t, AfterWrite(t))
    /\ UNCHANGED <<flags, burst, faults, gate, op, got, h, n, client, boards>>

\* After an error the handle is closed, and stays in uio_db.
CloseBoard(t) ==
    /\ At(t, "close")
    /\ closed' = closed \union ({h[t]} \ {NoBoard})
    /\ Goto(t, AfterWrite(t))
    /\ UNCHANGED <<flags, burst, halted, fails, gate, op, got, h, n, client, boards>>

-----------------------------------------------------------------------------
\* uio_outBurstStart, one assignment a step.
SeeNoBurst(t) ==
    /\ At(t, "poll") /\ OUTBURST_BUSY = 0
    /\ Goto(t, "take")
    /\ UNCHANGED <<flags, burst, faults, gate, op, got, h, n, client, boards>>

TakeBurst(t) ==
    /\ At(t, "take")
    /\ OUTBURST_BUSY' = 1
    /\ open' = [open EXCEPT ![t] = TRUE]
    /\ Goto(t, "zero")
    /\ UNCHANGED <<USB_BUSY, burst, faults, gate, op, got, h, n, calls, boards>>

ZeroCount(t) ==
    /\ At(t, "zero")
    /\ WRCT' = 0
    /\ Goto(t, "on")
    /\ UNCHANGED <<flags, WRON, OUTBUF, BURST_H, faults, gate, op, got, h, n, client, boards>>

SwitchOn(t) ==
    /\ At(t, "on")
    /\ WRON' = 1
    /\ Goto(t, "nohandle")
    /\ UNCHANGED <<flags, WRCT, OUTBUF, BURST_H, faults, gate, op, got, h, n, client, boards>>

NoHandle(t) ==
    /\ At(t, "nohandle")
    /\ BURST_H' = NoBoard
    /\ Goto(t, "idle")
    /\ UNCHANGED <<flags, WRON, WRCT, OUTBUF, faults, gate, op, got, h, n, client, boards>>

-----------------------------------------------------------------------------
\* Mutant: the flush of an empty burst returns before the resets.
TestCount_ReturnsIfEmpty(t) ==
    /\ At(t, "test")
    /\ IF WRCT # 0
       THEN /\ h' = [h EXCEPT ![t] = BURST_H]
            /\ n' = [n EXCEPT ![t] = WRCT]
            /\ Goto(t, "announce")
       ELSE Goto(t, "idle") /\ UNCHANGED <<h, n>>
    /\ UNCHANGED <<flags, burst, faults, gate, op, got, client, boards>>

\* uio_outBurstFlush: what has been counted is sent, then all is reset.
TestCount(t) ==
    /\ At(t, "test")
    /\ IF WRCT # 0
       THEN /\ h' = [h EXCEPT ![t] = BURST_H]
            /\ n' = [n EXCEPT ![t] = WRCT]
            /\ Goto(t, "announce")
       ELSE Goto(t, "uncount") /\ UNCHANGED <<h, n>>
    /\ UNCHANGED <<flags, burst, faults, gate, op, got, client, boards>>

ForgetCount(t) ==
    /\ At(t, "uncount")
    /\ WRCT' = 0
    /\ Goto(t, "off")
    /\ UNCHANGED <<flags, WRON, OUTBUF, BURST_H, faults, gate, op, got, h, n, client, boards>>

SwitchOff(t) ==
    /\ At(t, "off")
    /\ WRON' = 0
    /\ Goto(t, "forget")
    /\ UNCHANGED <<flags, WRCT, OUTBUF, BURST_H, faults, gate, op, got, h, n, client, boards>>

ForgetHandle(t) ==
    /\ At(t, "forget")
    /\ BURST_H' = NoBoard
    /\ Goto(t, "release")
    /\ UNCHANGED <<flags, WRON, WRCT, OUTBUF, faults, gate, op, got, h, n, client, boards>>

ReleaseBurst(t) ==
    /\ At(t, "release")
    /\ OUTBURST_BUSY' = 0
    /\ open' = [open EXCEPT ![t] = FALSE]
    /\ Goto(t, "idle")
    /\ UNCHANGED <<USB_BUSY, burst, faults, gate, op, got, h, n, calls, boards>>

-----------------------------------------------------------------------------
\* A board changes one of its own registers.
BoardChanges(b) ==
    /\ halted = "no"
    /\ \E a \in StatusAddrs, v \in Byte : reg' = [reg EXCEPT ![b][a] = v]
    /\ UNCHANGED <<flags, burst, faults, pc, gate, op, got, h, n, client, latch, fifo, owed>>

\* The process has ended, or every client has made all its calls.
Finished ==
    /\ \/ halted # "no"
       \/ \A t \in Threads : /\ pc[t] = "idle" /\ gate[t] = "out" /\ ~open[t]
                             /\ calls[t] = MaxCalls \/ Menu[t] = {}
    /\ UNCHANGED vars

Bus(t)   == SeeIdleBus(t) \/ TakeBus(t) \/ LeaveBus(t)
Read(t)  == SetAddress(t) \/ Request(t) \/ Fetch(t)
Write(t) == \/ Route(t) \/ TestHandle(t) \/ SetHandle(t) \/ StoreCells(t) \/ CountCells(t)
            \/ Announce(t) \/ SendData(t) \/ CloseBoard(t)
Start(t) == SeeNoBurst(t) \/ TakeBurst(t) \/ ZeroCount(t) \/ SwitchOn(t) \/ NoHandle(t)
Flush(t) == TestCount(t) \/ ForgetCount(t) \/ SwitchOff(t) \/ ForgetHandle(t) \/ ReleaseBurst(t)

\* A step of t inside an operation that it has called.
Step(t) == Bus(t) \/ Read(t) \/ Write(t) \/ Start(t) \/ Flush(t)

Next ==
    \/ \E t \in Threads : Step(t) \/ \E o \in Menu[t] : Call(t, o)
    \/ \E b \in Present : BoardChanges(b)
    \/ Finished

Spec == Init /\ [][Next]_vars

\* The scheduler runs every thread that is not asleep, and a client that has
\* opened a burst flushes it in the end (writeData does, and the Lua scripts
\* that call OutBurstStart are expected to).
Fairness ==
    \A t \in Threads :
        /\ WF_vars(Step(t))
        /\ WF_vars(\E o \in Menu[t] : o.kind = "flush" /\ Call(t, o))

FairSpec == Spec /\ Fairness

-----------------------------------------------------------------------------
\* Properties.

\* Every variable keeps its range.  In particular the count never passes the
\* end of OUTBUF in a process that goes on, although two writers may add to
\* values of WRCT that they loaded before (uio_outb, uio_outw).
TypeOK ==
    /\ USB_BUSY \in {0, 1} /\ OUTBURST_BUSY \in {0, 1} /\ WRON \in {0, 1}
    /\ WRCT \in 0 .. OutBufCells
    /\ OUTBUF \in [0 .. OutBufCells - 1 -> Cell]
    /\ BURST_H \in Boards \union {NoBoard}
    /\ halted \in {"no", "exit", "overrun"}
    /\ pc \in [Threads -> Pcs]
    /\ gate \in [Threads -> {"out", "seen", "in", "sent"}]
    /\ op \in [Threads -> Op \union {None}]
    /\ \A t \in Threads :
          /\ op[t] \in Menu[t] \union {None}
          /\ pc[t] # "idle" => op[t] # None
    /\ got \in [Threads -> Seq(Nat)]
    /\ h \in [Threads -> Boards \union {NoBoard}]
    /\ n \in [Threads -> 0 .. OutBufCells]
    /\ open \in [Threads -> BOOLEAN]
    /\ calls \in [Threads -> 0 .. MaxCalls]
    /\ reg \in [Boards -> [Addr -> Byte]]
    /\ latch \in [Boards -> Addr]
    /\ fifo \in [Boards -> Seq(Byte)]
    /\ owed \in [Boards -> Int]
    /\ closed \subseteq Boards
    /\ fails \in 0 .. MaxFail

\* Neither busy flag outlives its users: USB_BUSY is set only while some
\* thread is between its own TakeBus and LeaveBus, OUTBURST_BUSY only while
\* some thread has a burst to flush, whatever races on the flags, error
\* returns and closed handles there have been.  (usbin, usbout and
\* uio_outBurstStart test and set in two steps; a flag left behind would
\* hang every later caller.)
FlagsOwned ==
    /\ USB_BUSY = 1 => \E t \in Threads : gate[t] \in {"in", "sent"}
    /\ OUTBURST_BUSY = 1 => \E t \in Threads : open[t]

\* A board that was told to expect data which never came gets no further
\* command: the thread whose write failed is about to close the handle, or
\* has (the two error returns of cusb_bwrite).
HalfToldIsClosed ==
    \A b \in Boards :
        owed[b] # 0 =>
            \/ b \in closed
            \/ \E t \in Threads : pc[t] \in {"data", "close"} /\ h[t] = b

\* Only thread t addresses board b.
Owns(t, b) ==
    \A u \in Threads \ {t} : \A o \in Menu[u] : o.kind \in {"in", "out"} => o.b # b

\* A read of a board that no other thread addresses gets the answer to its
\* own request, whatever other threads do meanwhile on other boards and with
\* bursts, and although usbin does not exclude them: at SREAD the board holds
\* the address that this read has set, and RFIFO holds at most the one byte
\* that it has asked for.  (cusb_inb and cusb_inw release the bus between
\* SWRITE, SREAD and the transfer from RFIFO.)
AnswersAreOwn ==
    fails = 0 =>
        \A t \in Threads, b \in Boards :
            Owns(t, b) =>
                /\ pc[t] = "request" /\ h[t] = b => latch[b] = op[t].at[Len(got[t]) + 1]
                /\ Len(fifo[b]) = IF pc[t] = "fetch" /\ h[t] = b THEN 1 ELSE 0

\* Every call returns, unless the process has ended: no thread sleeps for
\* ever on a flag, and no transfer is left without its usbout.
CallsReturn ==
    \A t \in Threads :
        pc[t] # "idle" \/ gate[t] # "out" ~>
            halted # "no" \/ (pc[t] = "idle" /\ gate[t] = "out")

\* The writes of a burst all address the board of its first write, so that
\* the handle test of uio_outb and uio_outw never ends the process.
BurstHandleAgrees == halted # "exit"

\* The register file that the boards implement for disciplined clients: a
\* byte counts as read when the board has answered SREAD, a burst as stored
\* when its data has been sent.
RF == INSTANCE RegisterFile WITH
    job  <- [t \in Threads |-> IF pc[t] = "idle" THEN None ELSE op[t]],
    got  <- [t \in Threads |->
                IF pc[t] = "fetch" THEN got[t] \o fifo[h[t]] ELSE got[t]],
    open <- [t \in Threads |-> open[t] /\ pc[t] \notin StartPcs],
    buf  <- [t \in Threads |->
                IF open[t] /\ pc[t] \notin StartPcs \union (FlushPcs \ {"test"})
                THEN [i \in 1 .. WRCT |-> <<BURST_H, OUTBUF[i - 1][1], OUTBUF[i - 1][2]>>]
                ELSE << >>]

\* The operations are the atomic ones of the register file.
ImplementsRegisterFile == RF!Spec

\* The discipline under which they are: every board belongs to one thread,
\* and a thread that opens bursts is the only one that writes, and writes to
\* one board.
Writes(t) == {o \in Menu[t] : o.kind = "out"}
Disciplined ==
    /\ \A t \in Threads : \A o \in Menu[t] : o.kind \in {"in", "out"} => Owns(t, o.b)
    /\ \A t \in Threads : \A o \in Menu[t] :
          o.kind = "start" =>
              /\ \A u \in Threads \ {t} :
                    Writes(u) = {} /\ \A p \in Menu[u] : p.kind # "start"
              /\ \A p, q \in Writes(t) : p.b = q.b
=============================================================================
