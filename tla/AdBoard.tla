------------------------------- MODULE AdBoard -------------------------------
(***************************************************************************)
(* The AD server (compu_ad.cpp), its board class (moddv14.cpp) and the     *)
(* input burst (cusb.c).  Each connection runs its commands in a thread of *)
(* its own, all on the one object dv14 and the registers of one board; a   *)
(* thread can lose the processor between any two device calls.  A command  *)
(* is the sequence of its device calls.                                    *)
(*                                                                         *)
(* A sample is [ch, at, acq]: the channel, the address in the wave memory  *)
(* and the acquisition that wrote it.                                      *)
(***************************************************************************)
EXTENDS SampleFreq, Sequences

CONSTANTS
    Clients,
    Menu,       \* Menu[t]: the commands that client t sends
    Block,      \* BLOCK_SIZE in samples (1024)
    Word,       \* values of a 16-bit word, for the trigger counter
    MaxCmds     \* bound: MaxCmds[t] commands of client t

\* The columns count from 1 ("col:1..n", moddv14.cpp:139).
Commands ==
    [c : {"startad"}, w : Nat, it : Nat] \union [c : {"readwave", "readmemory"}, col : Nat \ {0}]
    \union [c : {"readmemoryb"}, at : Nat, n : Nat]
    \union [c : {"readstatus", "gettriggercount"}] \union [c : {"setsamplefreq"}, f : Nat]

ASSUME AdAssumption ==
    /\ Block \in Nat \ {0} /\ Word \in Nat \ {0}
    /\ MaxCmds \in [Clients -> Nat] /\ Menu \in [Clients -> SUBSET Commands]

VARIABLES
    wavesize, ites,     \* members of DV14; cols and flip are used as ites is
    divide_n, prescaler,
    halted,     \* the process has ended by a division by zero
    burstBusy,  \* INBURST_BUSY
    reg,        \* registers of the board, the number acq of its start, count of its triggers
    latch,      \* the input port that the last SWRITE selected
    job,        \* what each thread is at
    met,        \* history: the commands of others that have gone on during its own
    used        \* commands it has run
clock == <<divide_n, prescaler, halted>>
vars == <<wavesize, ites, clock, burstBusy, reg, latch, job, met, used>>

Channels == {"cos", "sin"}
Min2(a, b) == IF a < b THEN a ELSE b

\* Commands: startad with w samples and it triggers, readwave and readmemory
\* of a column, readmemoryb, readstatus, gettriggercount and setsamplefreq.
Idle == [cmd |-> [c |-> "none"], todo |-> << >>, n |-> 0, at |-> 0, size |-> 0, left |-> 0,
         cos |-> << >>, sin |-> << >>, res |-> 0, alone |-> TRUE]
IsRead(cmd) == cmd.c \in {"readwave", "readmemory", "readmemoryb"}

-----------------------------------------------------------------------------
\* Device calls of the commands, in their order.

\* Mutant: the sampling goes on while the registers are set.
StartAD_NoOff(w) ==
    IF w = 0 THEN <<"assign">>
    ELSE <<"assign", "mode", "clock", "size", "shots", "setcos", "setsin", "on">>

\* A start without samples only changes cols and ites.  flip and cols go with
\* the mode and the shots.
StartAD(w) ==
    IF w = 0 THEN <<"assign">>
    ELSE <<"assign", "off", "mode", "clock", "size", "shots", "setcos", "setsin", "on">>

\* Mutant: the addresses are set while the sampling still moves them.
ReadMemory_AddressFirst ==
    <<"setcos", "setsin", "off", "poll", "take", "cos", "coscopy", "release",
      "poll", "take", "sin", "sincopy", "release">>

ReadMemory == <<"off", "setcos", "setsin", "poll", "take", "cos", "coscopy", "release",
                "poll", "take", "sin", "sincopy", "release">>

\* Mutant: the counter is read while it runs.
GetTriggerCount_Running == <<"high", "low">>

GetTriggerCount == <<"off", "high", "low">>

\* GetSampleFreq loads the two members for the answer.
SetSampleFreq == <<"divide", "prescale", "load", "answer">>

Script(cmd) ==
    CASE cmd.c = "startad" -> StartAD(cmd.w)
      [] cmd.c = "readwave" -> IF cmd.col < 2 THEN <<"test", "enter">> \o ReadMemory
                               ELSE <<"enter">> \o ReadMemory
      [] cmd.c \in {"readmemory", "readmemoryb"} -> <<"enter">> \o ReadMemory
      [] cmd.c = "readstatus" -> <<"status">>
      [] cmd.c = "gettriggercount" -> GetTriggerCount
      [] cmd.c = "setsamplefreq" -> SetSampleFreq

-----------------------------------------------------------------------------
Init ==
    /\ wavesize = 2 /\ ites = 1         \* 256 and not set, in the code
    /\ divide_n = Divider(BoardFreq) /\ prescaler = Prescaler(BoardFreq) /\ halted = FALSE
    /\ burstBusy = FALSE /\ latch = "status"
    /\ reg = [on |-> FALSE, ended |-> FALSE, mode |-> 0, clock |-> 0, size |-> 0,
              shots |-> 1, count |-> 0, acq |-> 0, cos |-> 0, sin |-> 0]
    /\ job = [t \in Clients |-> Idle] /\ met = [t \in Clients |-> {}]
    /\ used = [t \in Clients |-> 0]

Others(j, t) == [u \in Clients |-> IF u # t /\ j[u].todo # << >>
                                   THEN [j[u] EXCEPT !.alone = FALSE] ELSE j[u]]

\* The commands of a client one after the other.  readwave and readmemory
\* allocate by wavesize, readmemoryb by its argument.
Begin(t) ==
    /\ ~halted /\ job[t].todo = << >> /\ used[t] < MaxCmds[t]
    /\ \E cmd \in Menu[t] :
          job' = [job EXCEPT ![t] = [Idle EXCEPT
                    !.cmd = cmd, !.todo = Script(cmd),
                    !.n = IF cmd.c = "readmemoryb" THEN cmd.n ELSE wavesize]]
    /\ met' = [met EXCEPT ![t] = {}] /\ used' = [used EXCEPT ![t] = @ + 1]
    /\ UNCHANGED <<wavesize, ites, clock, burstBusy, reg, latch>>

\* Client t makes the step s and goes on with the next one, as j, or is done.
At(t, s) == ~halted /\ job[t].todo # << >> /\ Head(job[t].todo) = s
Go(t, j) == job' = [Others(job, t) EXCEPT ![t] = [j EXCEPT !.todo = Tail(@)]]
Done(t, res) == job' = [Others(job, t) EXCEPT ![t].todo = << >>, ![t].res = res]

\* StartAD: ites before the test of samples, wavesize after it.
Assign(t) ==
    /\ At(t, "assign") /\ Go(t, job[t])
    /\ ites' = job[t].cmd.it
    /\ wavesize' = IF job[t].cmd.w = 0 THEN wavesize ELSE job[t].cmd.w
    /\ UNCHANGED <<clock, burstBusy, reg, latch, used>>

\* SetSampleFreq, and GetSampleFreq for the answer.
Frequency(t) ==
    /\ \/ At(t, "divide") /\ divide_n' = Divider(job[t].cmd.f) /\ Go(t, job[t])
          /\ UNCHANGED <<prescaler, halted>>
       \/ At(t, "prescale") /\ prescaler' = Prescaler(job[t].cmd.f) /\ Go(t, job[t])
          /\ UNCHANGED <<divide_n, halted>>
       \/ At(t, "load") /\ Go(t, [job[t] EXCEPT !.res = divide_n]) /\ UNCHANGED clock
       \/ /\ At(t, "answer") /\ UNCHANGED <<divide_n, prescaler>>
          /\ LET g == SampleFreq(job[t].res, prescaler)
             IN  IF g = Crash THEN halted' = TRUE /\ UNCHANGED job ELSE Done(t, g) /\ UNCHANGED halted
    /\ UNCHANGED <<wavesize, ites, burstBusy, reg, latch, used>>

\* The writes of registers.  The number of shots is what ites is by now.
Write(t) ==
    /\ \/ At(t, "off")    /\ reg' = [reg EXCEPT !.on = FALSE]
       \/ At(t, "mode")   /\ reg' = [reg EXCEPT !.mode = prescaler]
       \/ At(t, "clock")  /\ reg' = [reg EXCEPT !.clock = divide_n]
       \/ At(t, "size")   /\ reg' = [reg EXCEPT !.size = job[t].cmd.w]
       \/ At(t, "shots")  /\ reg' = [reg EXCEPT !.shots = ites]
       \/ At(t, "setcos") /\ reg' = [reg EXCEPT !.cos = job[t].at]
       \/ At(t, "setsin") /\ reg' = [reg EXCEPT !.sin = job[t].at]
       \/ At(t, "on")     /\ reg' = [reg EXCEPT !.on = TRUE, !.ended = FALSE,
                                                !.acq = @ + 1, !.count = 0]
    /\ Go(t, job[t])
    /\ UNCHANGED <<wavesize, ites, clock, burstBusy, latch, used>>

\* ReadWave(col, wv): what the status register says of the first wave.  When
\* the board sets BUSY, no code says.
ReadWaveTest(busy) == IF ~busy THEN -1 ELSE IF ~reg.ended THEN 0 ELSE 1

\* Reads of registers: the status, for readstatus or for ReadWave, and the two
\* words of the counter of triggers.
Read(t) ==
    /\ \/ /\ At(t, "status") /\ Done(t, 1) /\ latch' = "status"
       \/ /\ At(t, "test") /\ latch' = "status"
          /\ \E busy \in BOOLEAN : IF ReadWaveTest(busy) = 1 THEN Go(t, job[t])
                                   ELSE Done(t, ReadWaveTest(busy))
       \/ At(t, "high") /\ latch' = "count" /\ Go(t, [job[t] EXCEPT !.res = Word * (reg.count \div Word)])
       \/ At(t, "low") /\ latch' = "count" /\ Done(t, job[t].res + (reg.count % Word) + 1)
    /\ UNCHANGED <<wavesize, ites, clock, burstBusy, reg, used>>

\* Mutant: readmemoryb reads as many samples as the last wave had.
Extent_OfWave(cmd) ==
    [at |-> IF cmd.c = "readmemoryb" THEN cmd.at ELSE wavesize * (cmd.col - 1), size |-> wavesize]

\* ReadWave takes every column below 2 for the first.
Column(cmd) == IF cmd.c = "readwave" /\ cmd.col < 2 THEN 1 ELSE cmd.col

\* ReadMemory(col, wv): wavesize is read again, for the address and the length.
Extent(cmd) ==
    IF cmd.c = "readmemoryb" THEN [at |-> cmd.at, size |-> cmd.n]
    ELSE [at |-> wavesize * (Column(cmd) - 1), size |-> wavesize]

Enter(t) ==
    /\ At(t, "enter")
    /\ LET e == Extent(job[t].cmd)
       IN  Go(t, [job[t] EXCEPT !.at = e.at, !.size = e.size])
    /\ UNCHANGED <<wavesize, ites, clock, burstBusy, reg, latch, used>>

\* Mutant: a burst that ends with a part of a block keeps the flag.
Released_AfterWholeBlocks(t) == job[t].size % Block # 0

\* INBURST_BUSY after the burst: uio_inburst clears it however it ended.
Released(t) == FALSE

\* uio_inburst: the flag is tested, set and cleared in steps of its own.
Flag(t) ==
    /\ \/ At(t, "poll") /\ ~burstBusy /\ burstBusy' = burstBusy
       \/ At(t, "take") /\ burstBusy' = TRUE
       \/ At(t, "release") /\ burstBusy' = Released(t)
    /\ IF Tail(job[t].todo) = << >> THEN Done(t, 1) ELSE Go(t, job[t])
    /\ UNCHANGED <<wavesize, ites, clock, reg, latch, used>>

\* cusb_inburst: the port, then blocks.
Select(t) ==
    /\ \E ch \in Channels : At(t, ch) /\ latch' = ch
    /\ Go(t, [job[t] EXCEPT !.left = job[t].size])
    /\ UNCHANGED <<wavesize, ites, clock, burstBusy, reg, used>>

\* BREAD and RFIFO: Block samples of the port that is selected by now, whose
\* address counter moves on; the last block is used in part.
Port == IF latch \in Channels THEN [i \in 1 .. Block |-> [ch |-> latch, at |-> reg[latch] + i - 1,
                                                          acq |-> reg.acq]]
        ELSE [i \in 1 .. Block |-> [ch |-> latch, at |-> 0, acq |-> 0]]

\* while( 0 < nbyte ), after a whole block.
More(left) == left > Block

\* Mutant: memcpy of the whole block.
Used_WholeBlock(left) == Block

\* The samples of a block that are copied.
Used(left) == Min2(left, Block)

Copying == [cos |-> "coscopy", sin |-> "sincopy"]
Copy(t) ==
    /\ \E ch \in Channels :
          /\ At(t, Copying[ch])
          /\ LET j   == job[t]
                 now == [j EXCEPT ![ch] = @ \o SubSeq(Port, 1, Used(j.left)),
                                  !.left = @ - Used(@)]
             IN  IF More(j.left) THEN job' = [Others(job, t) EXCEPT ![t] = now] ELSE Go(t, now)
    /\ reg' = IF latch \in Channels THEN [reg EXCEPT ![latch] = @ + Block] ELSE reg
    /\ UNCHANGED <<wavesize, ites, clock, burstBusy, latch, used>>

\* External, the board: a trigger while it samples is counted, writes a block
\* of samples and leaves the addresses behind it; the last one ends the
\* sampling, with END 1.
Trigger ==
    /\ ~halted /\ reg.on /\ ~reg.ended
    /\ reg' = [reg EXCEPT !.count = @ + 1, !.ended = reg.count + 1 >= reg.shots,
                          !.cos = reg.size, !.sin = reg.size]
    /\ UNCHANGED <<wavesize, ites, clock, burstBusy, latch, job, met, used>>

\* The commands under way meet that of t.
Meets(t) ==
    met' = [u \in Clients |-> IF u # t /\ job[u].todo # << >>
                              THEN met[u] \union {job[t].cmd.c} ELSE met[u]]

Step(t) == /\ \/ Assign(t) \/ Frequency(t) \/ Write(t) \/ Read(t)
              \/ Enter(t) \/ Flag(t) \/ Select(t) \/ Copy(t)
           /\ Meets(t)
Next == Trigger \/ \E t \in Clients : Begin(t) \/ Step(t)

\* A thread that is not blocked goes on.
Spec == Init /\ [][Next]_vars /\ \A t \in Clients : WF_vars(Step(t))

-----------------------------------------------------------------------------
\* Properties.

Samples == [ch : Channels \union {"status", "count"}, at : Nat, acq : Nat]

\* A job keeps to its command, and no burst has more samples than it asked
\* for.  (The calls of moddv14.cpp in a thread.)
TypeOK ==
    /\ wavesize \in Nat \ {0} /\ ites \in Nat /\ burstBusy \in BOOLEAN /\ halted \in BOOLEAN
    /\ divide_n \in 0 .. 255 /\ prescaler \in Prescalers
    /\ latch \in Channels \union {"status", "count"}
    /\ \A t \in Clients :
          /\ job[t].left \in 0 .. job[t].size
          /\ \A ch \in Channels : job[t][ch] \in Seq(Samples) /\ Len(job[t][ch]) <= job[t].size

Ends(t) == job[t].todo # << >> /\ job'[t].todo = << >>

\* What a read of n samples from at must send: both channels of the same
\* addresses, in order, of one acquisition.
Whole(j) ==
    /\ j.n = j.size
    /\ \A ch \in Channels :
          /\ Len(j[ch]) = j.n
          /\ \A i \in 1 .. j.n : /\ j[ch][i].ch = ch /\ j[ch][i].at = j.at + i - 1
                                 /\ j[ch][i].acq = j.cos[1].acq

\* readwave, readmemory and readmemoryb send what was asked for as long as no
\* other thread gets to the board while they run, wherever the other threads
\* were stopped: whatever the size of the last block, however the addresses
\* moved before, and while triggers come.
AloneIsWhole ==
    [][\A t \in Clients : Ends(t) /\ IsRead(job[t].cmd) /\ job'[t].res = 1 /\ job'[t].alone
                            => Whole(job'[t])]_vars

\* The registers change while the board samples only under a startad into
\* which that of another client has come; and without that, and without
\* another's setsamplefreq, the board starts with what startad said and with
\* the clock that is set.  (StartAD stops it first; wavesize, ites, cols, flip,
\* divide_n and prescaler are members that every thread shares.)
StartsAsAsked ==
    [][/\ reg.on /\ reg'.on /\ <<reg.mode, reg.clock, reg.size, reg.shots>>'
                                # <<reg.mode, reg.clock, reg.size, reg.shots>>
            => \E t \in Clients :
                  job[t].todo # << >> /\ job[t].cmd.c = "startad" /\ "startad" \in met[t]
       /\ \A t \in Clients :
             At(t, "on") /\ reg' # reg /\ "startad" \notin met[t] /\ "setsamplefreq" \notin met[t] =>
                /\ reg.size = job[t].cmd.w /\ reg.shots = job[t].cmd.it
                /\ reg.mode = prescaler /\ reg.clock = divide_n]_vars

\* What ReadMemory stores fits in the buffer that compuAD allocated, although
\* both read wavesize, unless a startad of another client has come in between.
BufferHolds ==
    \A t \in Clients :
        "startad" \notin met[t] =>
            job[t].size <= IF job[t].cmd.c = "readwave" THEN 2 * job[t].n ELSE job[t].n

\* gettriggercount answers with a count that the board really has, not with
\* words of two counts, if no other thread reaches the board in between: the
\* triggers that come until it is stopped do not tear it.
CountNotTorn ==
    [][\A t \in Clients : Ends(t) /\ job[t].cmd.c = "gettriggercount" /\ job'[t].alone
                            => job'[t].res = reg.count + 1]_vars

\* A setsamplefreq that answers has set the best clock that the board can do,
\* for every frequency up to the board's own, unless that of another client has
\* come in between: the loop over the prescaler leaves neither precision nor
\* bits behind.
ClosestIsSet ==
    [][\A t \in Clients :
          Ends(t) /\ job[t].cmd.c = "setsamplefreq" /\ job[t].cmd.f \in 1 .. BoardFreq
          /\ "setsamplefreq" \notin met[t]
             => Closest(job[t].cmd.f, divide_n', prescaler')]_vars

\* Every command returns, unless the process has ended: the burst flag is
\* always given back.
CommandsReturn == \A t \in Clients : job[t].todo # << >> ~> job[t].todo = << >> \/ halted
=============================================================================
