---------------------------- MODULE PulserServer ----------------------------
(***************************************************************************)
(* The pulser commands (compu_pulser.cpp, pulgen.cpp, pulbrd.cpp): what a  *)
(* message does to the parameters, the pulse memory in RAM of the PC, and  *)
(* the board.  A message is one command when it comes over TCP (tcp3.c     *)
(* cuts at every delimiter) and may be several when a Lua script passes it *)
(* to callPG.  compuPULSER runs the commands of the message and collects   *)
(* requests; execPULSER then updates, starts and stops, in that order.     *)
(*                                                                         *)
(* pul1, its copy `old' and the board are shared by all clients, without a *)
(* lock.  Contents of the pulse memory are told apart by how they came     *)
(* about: the parameters that make() used, and the edits since.            *)
(*                                                                         *)
(* The memory is loaded in one burst: from outburst_start to the flush     *)
(* every register write of every thread goes into one buffer (cusb.c).  A  *)
(* write of another client there makes cells of it, or races the counter   *)
(* of the buffer, so that what the flush writes is open.                   *)
(***************************************************************************)
EXTENDS Integers, Sequences

CONSTANTS
    Clients,      \* connections to port 5025, and the Lua thread
    Params,       \* values of the pulse parameters together
    Edits,        \* makepulse, erasepulse, makecommand, poke
    Counts,       \* repeat counts (0 .. 0xffff), 0: for ever
    Msgs,         \* Msgs[t]: the messages, sequences of commands, that t may send
    InitialParam  \* the parameters that initPulserBoard sets

Commands ==
    [c : {"set"}, v : Params] \union
    [c : {"edit"}, v : Edits] \union
    [c : {"setmode"}, v : {0, 1}] \union
    [c : {"start"}, v : Counts] \union
    [c : {"memclr", "update", "stop", "isrun"}, v : {0}]

ASSUME InitialAssumption == InitialParam \in Params /\ 0 \in Counts
ASSUME MsgsAssumption == \A t \in Clients : Msgs[t] \subseteq Seq(Commands)

\* Contents of a pulse memory: the cells that clear() or clearpulm() leave, or
\* those of make(); torn: any other cells.
Contents == [base : Params \union {"cleared", "zero", "torn"}, edits : SUBSET Edits]
Fresh(b) == [base |-> b, edits |-> {}]
Made(p) == Fresh(p)

NoCopy == [params |-> "none"]

\* The board: its memory, whether it runs, the loop counter, whether the memory
\* address is 0, and the mode register (12), which stopNow sets to 2 and 0 and
\* start to 0x08 or 0x0c.
Boards == [ram : Contents, running : BOOLEAN, count : Counts, atZero : BOOLEAN,
           mode : {"clear", "data", "run"}]

VARIABLES
    \* pul1
    params, extmode, modified, loopn,
    databuf,    \* the pulse memory in the PC
    old,        \* pulseUpdate's copy of pul1 at its last update
    board,      \* (external)
    \* the burst
    busy,       \* OUTBURST_BUSY and WRON: writes go into OUTBUF
    took,       \* took[t]: what databuf held when t began to store it
    disturbed,  \* the clients into whose burst, or between whose mode and go, another has written
    spoilt,     \* the last burst was disturbed
    \* the clients
    pc, msg, stts,
    step,       \* step[t]: the place in stopNow or writeData
    made,       \* made[t]: the parameters that t's make() has begun with
    drivers     \* history: who has sent other commands than stop and isrun

pul1    == <<params, extmode, modified, loopn>>
burst   == <<busy, took, disturbed, spoilt>>
clients == <<pc, msg, stts, step>>
vars    == <<pul1, databuf, old, board, burst, clients, made, drivers>>

\* The places where a client is inside stopNow, and inside writeData.
Stopping == {"xstop", "ustop", "start", "halt", "stop"}
Loading  == {"xram", "uram"}

Pcs == Stopping \union Loading \union
       {"idle", "compu", "update", "zero", "make", "ready", "unmark", "copy",
        "count", "rewind", "mode", "go"}

Init ==
    /\ params = InitialParam /\ extmode = 1 /\ modified = 0 /\ loopn = 0
    /\ databuf = Made(InitialParam)
    /\ old = NoCopy
    /\ board = [ram |-> Fresh("zero"), running |-> FALSE, count |-> 0, atZero |-> TRUE, mode |-> "clear"]
    /\ busy = FALSE /\ took = [t \in Clients |-> Fresh("zero")]
    /\ disturbed = {} /\ spoilt = FALSE
    /\ pc = [t \in Clients |-> "idle"]
    /\ msg = [t \in Clients |-> << >>]
    /\ stts = [t \in Clients |-> {}]
    /\ step = [t \in Clients |-> 0]
    /\ made = [t \in Clients |-> InitialParam] /\ drivers = {}

Goto(t, p) == pc' = [pc EXCEPT ![t] = p] /\ step' = [step EXCEPT ![t] = 0]
Onward(t) == step' = [step EXCEPT ![t] = @ + 1] /\ pc' = pc

\* What memcmp compares and `old = pul1' copies: the fields of pul1, not the
\* cells that mem.databuf points to.
Snapshot == [params |-> params, extmode |-> extmode, modified |-> modified, loopn |-> loopn]

-----------------------------------------------------------------------------
\* Registers.

\* t is between outburst_start and outburst_flush.
InBurst(t) == pc[t] \in Loading /\ step[t] = 2

\* Whom a register write of t disturbs.
Crossed(t) == {u \in Clients \ {t} : InBurst(u) \/ pc[u] = "go"}

\* outpulserb, outpulserw: the board becomes b, unless a burst is open; then
\* the write goes into the buffer.  (The write of t that follows a mode is go.)
Out(t, b) ==
    /\ board' = IF busy THEN board ELSE b
    /\ disturbed' = (disturbed \ {t}) \union Crossed(t)
    /\ UNCHANGED <<busy, took, spoilt>>

-----------------------------------------------------------------------------
\* compuPULSER.
Receive(t, m) ==
    /\ pc[t] = "idle"
    /\ drivers' = IF \A i \in DOMAIN m : m[i].c \in {"stop", "isrun"} THEN drivers
                  ELSE drivers \union {t}
    /\ msg' = [msg EXCEPT ![t] = m]
    /\ stts' = [stts EXCEPT ![t] = {}]
    /\ Goto(t, "compu")
    /\ UNCHANGED <<pul1, databuf, old, board, burst, made>>

Requests(c) ==
    CASE c = "start"  -> {"start", "remake"}
      [] c = "update" -> {"remake"}
      [] c = "stop"   -> {"stop"}
      [] OTHER        -> {}

\* Mutant: memclr does not mark the memory.
Marks_NotMemclr(c) == c = "edit"

\* The commands that set p.modified.
Marks(c) == c \in {"edit", "memclr"}

\* isrun? resets the status register.
Interpret(t) ==
    LET cmd == Head(msg[t])
    IN  /\ pc[t] = "compu" /\ msg[t] # << >>
        /\ stts' = [stts EXCEPT ![t] = @ \union Requests(cmd.c)]
        /\ params'   = IF cmd.c = "set" THEN cmd.v ELSE params
        /\ extmode'  = IF cmd.c = "setmode" THEN cmd.v ELSE extmode
        /\ loopn'    = IF cmd.c = "start" THEN cmd.v ELSE loopn
        /\ modified' = IF Marks(cmd.c) THEN 1 ELSE modified
        /\ databuf'  = CASE cmd.c = "edit"   -> [databuf EXCEPT !.edits = @ \union {cmd.v}]
                         [] cmd.c = "memclr" -> Fresh("cleared")
                         [] OTHER            -> databuf
        /\ IF cmd.c = "isrun" THEN Out(t, board) ELSE UNCHANGED <<board, burst>>
        /\ msg' = [msg EXCEPT ![t] = Tail(@)]
        /\ UNCHANGED <<old, pc, step, made>>

-----------------------------------------------------------------------------
\* Mutant: a start comes before the update that it asks for.
Then_StartFirst(t, requests) ==
    CASE "start" \in requests -> "start"
      [] "start" \notin requests /\ "remake" \in requests -> "update"
      [] requests = {"stop"} -> "stop"
      [] OTHER -> "idle"

\* execPULSER: the requests of the message, in the order 0x08, 0x02, 0x04.
Then(t, requests) ==
    CASE "remake" \in requests -> "update"
      [] "remake" \notin requests /\ "start" \in requests -> "start"
      [] requests = {"stop"} -> "stop"
      [] OTHER -> "idle"
AfterUpdate(t) == Then(t, stts[t] \ {"remake"})
AfterStart(t)  == Then(t, stts[t] \ {"remake", "start"})

Interpreted(t) ==
    /\ pc[t] = "compu" /\ msg[t] = << >>
    /\ Goto(t, Then(t, stts[t]))
    /\ UNCHANGED <<pul1, databuf, old, board, burst, msg, stts, made>>

-----------------------------------------------------------------------------
\* PULBRD::stopNow(0): 13 to 0, which halts; 12 to 2 with the data registers
\* 8 and 14 to 0; 12 to 0.
AfterStop(t) ==
    CASE pc[t] = "xstop" -> "xram"
      [] pc[t] = "ustop" -> "uram"
      [] pc[t] = "start" -> "count"
      [] pc[t] = "halt"  -> "rewind"
      [] OTHER           -> "idle"

StopNow(t) ==
    /\ pc[t] \in Stopping
    /\ \/ /\ step[t] = 0
          /\ Out(t, [board EXCEPT !.running = FALSE])
          /\ Onward(t)
       \/ /\ step[t] = 1
          /\ Out(t, [board EXCEPT !.mode = "data"])
          /\ Onward(t)
       \/ /\ step[t] = 2
          /\ Out(t, [board EXCEPT !.mode = "clear"])
          /\ Goto(t, AfterStop(t))
    /\ UNCHANGED <<pul1, databuf, old, msg, stts, made>>

-----------------------------------------------------------------------------
\* PULBRD::writeData.

\* uio_outBurstStart waits for the flag, and sets it in a step of its own.
AwaitBurst(t) ==
    /\ pc[t] \in Loading /\ step[t] = 0
    /\ ~busy
    /\ Onward(t)
    /\ UNCHANGED <<pul1, databuf, old, board, burst, msg, stts, made>>

\* A thread that comes in while another's burst is open disturbs it, and is
\* disturbed by it.
OpenBurst(t) ==
    /\ pc[t] \in Loading /\ step[t] = 1
    /\ busy' = TRUE
    /\ took' = [took EXCEPT ![t] = databuf]
    /\ LET others == {u \in Clients \ {t} : InBurst(u)}
       IN  disturbed' = disturbed \union others \union (IF others = {} THEN {} ELSE {t})
    /\ Onward(t)
    /\ UNCHANGED <<pul1, databuf, old, board, spoilt, msg, stts, made>>

AfterLoad(t) == IF pc[t] = "uram" THEN "copy" ELSE AfterUpdate(t)

\* What the cells become: those of databuf, which it may have changed meanwhile.
Stored(t) == IF databuf = took[t] THEN {databuf} ELSE {databuf, took[t], Fresh("torn")}

\* What a disturbed burst writes: lost and shifted bytes reach any register.
AnyBoard(t) ==
    [ram : Stored(t) \union {board.ram, Fresh("torn")}, running : BOOLEAN, count : Counts,
     atZero : BOOLEAN, mode : {"clear", "data", "run"}]

\* The whole buffer at once.
FlushBurst(t) ==
    /\ InBurst(t)
    /\ \/ /\ t \in disturbed
          /\ board' \in AnyBoard(t)
          /\ spoilt' = TRUE
       \/ /\ t \notin disturbed
          /\ \E cells \in Stored(t) : board' = [board EXCEPT !.ram = cells, !.atZero = FALSE]
          /\ spoilt' = FALSE
    /\ busy' = FALSE
    /\ disturbed' = disturbed \ {t}
    /\ took' = [took EXCEPT ![t] = Fresh("zero")]
    /\ Goto(t, AfterLoad(t))
    /\ UNCHANGED <<pul1, databuf, old, msg, stts, made>>

\* Another thread has flushed while t stores: the writes of t go straight to
\* the board.
SpillBurst(t) ==
    /\ InBurst(t) /\ ~busy
    /\ board' \in AnyBoard(t)
    /\ spoilt' = TRUE
    /\ UNCHANGED <<pul1, databuf, old, busy, took, disturbed, clients, made>>

-----------------------------------------------------------------------------
\* pulseUpdate.  In extended mode the edited memory is loaded as it is; in
\* standard mode only a difference from the last update makes it anew.
Compare(t) ==
    /\ pc[t] = "update"
    /\ Goto(t, IF extmode = 1 THEN "xstop"
               ELSE IF Snapshot = old THEN AfterUpdate(t)
               ELSE "zero")
    /\ UNCHANGED <<pul1, databuf, old, board, burst, msg, stts, made>>

ClearPulm(t) ==
    /\ pc[t] = "zero"
    /\ databuf' = Fresh("zero")
    /\ Goto(t, "make")
    /\ UNCHANGED <<pul1, old, board, burst, msg, stts, made>>

\* make() reads the parameters one after the other.
MakeBegins(t) ==
    /\ pc[t] = "make"
    /\ made' = [made EXCEPT ![t] = params]
    /\ Goto(t, "ready")
    /\ UNCHANGED <<pul1, databuf, old, board, burst, msg, stts>>

MakeEnds(t) ==
    /\ pc[t] = "ready"
    /\ databuf' \in IF params = made[t] THEN {Made(params)}
                    ELSE {Made(params), Made(made[t]), Fresh("torn")}
    /\ Goto(t, "unmark")
    /\ UNCHANGED <<pul1, old, board, burst, msg, stts, made>>

\* Mutant: the mark is counted down.
Unmark_CountsDown(t) ==
    /\ pc[t] = "unmark"
    /\ modified' = modified - 1
    /\ Goto(t, "ustop")
    /\ UNCHANGED <<params, extmode, loopn, databuf, old, board, burst, msg, stts, made>>

\* Mutant: the memory is loaded without a stop.
Unmark_NoStop(t) ==
    /\ pc[t] = "unmark"
    /\ modified' = 0
    /\ Goto(t, "uram")
    /\ UNCHANGED <<params, extmode, loopn, databuf, old, board, burst, msg, stts, made>>

Unmark(t) ==
    /\ pc[t] = "unmark"
    /\ modified' = 0
    /\ Goto(t, "ustop")
    /\ UNCHANGED <<params, extmode, loopn, databuf, old, board, burst, msg, stts, made>>

Copy(t) ==
    /\ pc[t] = "copy"
    /\ old' = Snapshot
    /\ Goto(t, AfterUpdate(t))
    /\ UNCHANGED <<pul1, databuf, board, burst, msg, stts, made>>

-----------------------------------------------------------------------------
\* PULGEN::start(0): stop, loop counter, then PULBRD::start(0), which stops
\* again, sets the address, then the mode, and runs.
WriteCount(t) ==
    /\ pc[t] = "count"
    /\ Out(t, [board EXCEPT !.count = loopn])
    /\ Goto(t, "halt")
    /\ UNCHANGED <<pul1, databuf, old, msg, stts, made>>

Rewind(t) ==
    /\ pc[t] = "rewind"
    /\ Out(t, [board EXCEPT !.atZero = TRUE])
    /\ Goto(t, "mode")
    /\ UNCHANGED <<pul1, databuf, old, msg, stts, made>>

SetMode(t) ==
    /\ pc[t] = "mode"
    /\ Out(t, [board EXCEPT !.mode = "run"])
    /\ Goto(t, "go")
    /\ UNCHANGED <<pul1, databuf, old, msg, stts, made>>

Go(t) ==
    /\ pc[t] = "go"
    /\ Out(t, [board EXCEPT !.running = TRUE])
    /\ Goto(t, AfterStart(t))
    /\ UNCHANGED <<pul1, databuf, old, msg, stts, made>>

\* The board has repeated its memory count times.
BoardEnds ==
    /\ board.running /\ board.count # 0
    /\ board' = [board EXCEPT !.running = FALSE]
    /\ UNCHANGED <<pul1, databuf, old, burst, clients, made, drivers>>

WriteData(t) == AwaitBurst(t) \/ OpenBurst(t) \/ FlushBurst(t) \/ SpillBurst(t)
Update(t) ==
    \/ Compare(t) \/ ClearPulm(t) \/ MakeBegins(t) \/ MakeEnds(t) \/ Unmark(t)
    \/ WriteData(t) \/ Copy(t)
Start(t) == WriteCount(t) \/ Rewind(t) \/ SetMode(t) \/ Go(t)
Exec(t) ==
    /\ Interpret(t) \/ Interpreted(t) \/ StopNow(t) \/ Update(t) \/ Start(t)
    /\ UNCHANGED drivers

Next ==
    \/ \E t \in Clients : Exec(t) \/ \E m \in Msgs[t] : Receive(t, m)
    \/ BoardEnds

Spec == Init /\ [][Next]_vars

-----------------------------------------------------------------------------
\* Properties.

\* Every variable keeps its range, whatever clients interleave in compuPULSER,
\* pulseUpdate, PULGEN::start and the bursts, and no client leaves stopNow or
\* writeData half way.
TypeOK ==
    /\ params \in Params /\ extmode \in {0, 1} /\ modified \in {0, 1} /\ loopn \in Counts
    /\ databuf \in Contents /\ board \in Boards
    /\ old \in [params : Params, extmode : {0, 1}, modified : {0, 1}, loopn : Counts] \union {NoCopy}
    /\ busy \in BOOLEAN /\ took \in [Clients -> Contents]
    /\ disturbed \subseteq Clients /\ spoilt \in BOOLEAN
    /\ pc \in [Clients -> Pcs]
    /\ msg \in [Clients -> Seq(Commands)]
    /\ stts \in [Clients -> SUBSET {"start", "stop", "remake"}]
    /\ step \in [Clients -> 0 .. 2]
    /\ made \in [Clients -> Params] /\ drivers \subseteq Clients
    /\ \A t \in Clients : pc[t] \notin Stopping \union Loading => step[t] = 0

\* What the board should hold: in standard mode the pulses of the parameters,
\* in extended mode those that have been edited.
Wanted == IF extmode = 1 THEN databuf ELSE Made(params)

\* Nobody but t has sent more than stop and isrun so far.
Drives(t) == drivers \subseteq {t}

\* An update that finds nothing changed leaves the board as it is ("not
\* change" in pulseUpdate), so its memory holds the pulses of the parameters.
\* It does not if another client has set one after make(), or has written into
\* the burst: the copy of pul1 is made all the same.
UnchangedIsLoaded ==
    [][\A t \in Clients :
        Compare(t) /\ extmode = 0 /\ Snapshot = old => board.ram = Made(params)]_vars

\* The same for a client who alone drives the pulser while others stop it at
\* any time, unless one of their stops fell into the last burst.  (The
\* comparison sees neither the cells, only the mark that edits set, nor what
\* reached the board.)
SkipIsSafe ==
    [][\A t \in Clients :
        Compare(t) /\ extmode = 0 /\ Snapshot = old /\ Drives(t)
            => spoilt \/ board.ram = Made(params)]_vars

\* A start of a client who alone drives reaches the board and runs what it has
\* asked for: the memory of the mode, unless the last burst was disturbed, from
\* address 0, as often as the last start command said, and in the mode of a
\* run, unless another client has written between mode and go.
StartsWanted ==
    [][\A t \in Clients : Go(t) /\ Drives(t) =>
        /\ board'.running /\ board.atZero /\ board.count = loopn
        /\ spoilt \/ board.ram = Wanted
        /\ t \in disturbed \/ board.mode = "run"]_vars

\* As long as at most one client has driven, the memory of the board is never
\* written while the board runs from it, unless by a burst that is disturbed.
LoadsWhenStopped ==
    [][board'.ram # board.ram /\ (\E t \in Clients : Drives(t))
          => spoilt' \/ ~board.running]_vars
=============================================================================
