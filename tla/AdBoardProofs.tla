---------------------------- MODULE AdBoardProofs ----------------------------
(***************************************************************************)
(* Theorems about AdBoard, for every clock of the board, every frequency   *)
(* that is asked for, every number of clients, every menu and every size   *)
(* of a wave and of a block.                                               *)
(*                                                                         *)
(* First the sample clock.  Then the commands that run side by side: the   *)
(* invariant AdInv says where each thread is in its script and, of a       *)
(* thread that no other one has disturbed since it began, how the board    *)
(* stands at that place.                                                   *)
(***************************************************************************)
EXTENDS AdBoard, SequenceTheorems, TLAPS

-----------------------------------------------------------------------------
\* Quotients.

LEMMA QuotientBounds ==
    ASSUME NEW a \in Nat, NEW b \in Nat \ {0}
    PROVE  /\ a \div b \in Nat
           /\ (a \div b) * b <= a
           /\ a < (a \div b) * b + b
OBVIOUS

LEMMA Monotone ==
    ASSUME NEW x \in Nat, NEW y \in Nat, x <= y, NEW z \in Nat
    PROVE  x * z <= y * z
OBVIOUS

\* What divides.
LEMMA AtMost ==
    ASSUME NEW a \in Nat, NEW b \in Nat \ {0}, NEW x \in Nat
    PROVE  x <= a \div b <=> x * b <= a
<1> DEFINE q == a \div b
<1>1. q \in Nat /\ q * b <= a /\ a < q * b + b
    BY QuotientBounds
<1> HIDE DEF q
<1>2. ASSUME x <= q PROVE x * b <= a
  <2>1. x * b <= q * b
      BY <1>1, <1>2, Monotone
  <2>2. x * b \in Nat /\ q * b \in Nat
      BY <1>1
  <2> QED
      BY <1>1, <2>1, <2>2
<1>3. ASSUME ~(x <= q) PROVE ~(x * b <= a)
  <2>1. q + 1 <= x
      BY <1>1, <1>3
  <2>2. (q + 1) * b <= x * b
      BY <1>1, <2>1, Monotone
  <2>3. (q + 1) * b = q * b + b
      BY <1>1
  <2>4. x * b \in Nat /\ q * b \in Nat
      BY <1>1
  <2> QED
      BY <1>1, <2>2, <2>3, <2>4
<1> QED
    BY <1>2, <1>3 DEF q

LEMMA Shifts ==
    /\ \A p \in Prescalers : Shift[p + 1] \in Nat \ {0} /\ Shift[p + 1] <= 128
    /\ \A p, q \in Prescalers : q < p => 2 * Shift[q + 1] <= Shift[p + 1]
    /\ \A p, q \in Prescalers : p <= q => \E k \in Nat : Shift[q + 1] = k * Shift[p + 1]
BY DEF Prescalers, Shift

LEMMA Products ==
    ASSUME NEW x \in Nat, NEW y \in Nat, NEW z \in Nat
    PROVE  (x * y) * z = (x * z) * y /\ x * y \in Nat /\ (x * y) * z \in Nat
OBVIOUS

\* A divider is possible for f exactly when its division of the clock is.
LEMMA QuotientMeans ==
    ASSUME NEW f \in Nat \ {0}, NEW p \in Prescalers, NEW x \in Nat
    PROVE  /\ Quotient(f, p) \in Nat
           /\ x <= Quotient(f, p) <=> Division(x, p) <= BoardFreq \div f
           /\ Division(x, p) \in Nat
<1> DEFINE s == Shift[p + 1]
           c == BoardFreq \div s
<1>1. s \in Nat \ {0} /\ BoardFreq \in Nat
    BY Shifts, BoardAssumption
<1> HIDE DEF s
<1>2. c \in Nat
    BY <1>1, QuotientBounds
<1>3. x <= c \div f <=> x * f <= c
  <2> HIDE DEF c
  <2> QED
      BY <1>2, AtMost
<1>4. x * f <= c <=> (x * f) * s <= BoardFreq
    BY <1>1, AtMost, Products
<1>5. x * s <= BoardFreq \div f <=> (x * s) * f <= BoardFreq
    BY <1>1, AtMost, Products
<1>6. (x * f) * s = (x * s) * f /\ x * s \in Nat
    BY <1>1, Products
<1>7. c \div f \in Nat
  <2> HIDE DEF c
  <2> QED
      BY <1>2, QuotientBounds
<1> QED
    BY <1>3, <1>4, <1>5, <1>6, <1>7 DEF Quotient, Division, s

\* A setting that the prescaler makes possible is the best with it and with
\* every larger one.
LEMMA LargerPrescaler ==
    ASSUME NEW f \in Nat \ {0}, NEW p \in Prescalers, NEW q \in Prescalers, p <= q,
           NEW e \in Nat, Division(e, q) <= BoardFreq \div f
    PROVE  Division(e, q) <= Division(Quotient(f, p), p)
<1> DEFINE s == Shift[p + 1]
           m == Quotient(f, p)
<1>1. PICK k \in Nat : Shift[q + 1] = k * s
    BY Shifts
<1>2. s \in Nat /\ m \in Nat
    BY Shifts, QuotientMeans
<1> HIDE DEF s, m
<1>3. e * (k * s) = (e * k) * s /\ e * k \in Nat
    BY <1>2
<1>4. Division(e, q) = Division(e * k, p)
    BY <1>1, <1>3 DEF Division, s
<1>5. e * k <= m
    BY <1>3, <1>4, QuotientMeans DEF m
<1>6. (e * k) * s <= m * s
    BY <1>2, <1>3, <1>5, Monotone
<1> QED
    BY <1>1, <1>3, <1>6 DEF Division, s, m

\* A smaller prescaler, whose quotient does not fit in the divider, leaves at
\* least half of its range.
LEMMA SmallerPrescaler ==
    ASSUME NEW f \in Nat \ {0}, NEW p \in Prescalers, NEW q \in Prescalers, q < p,
           ~Enough(f, p - 1), NEW e \in 1 .. 255
    PROVE  Division(e, q) <= Division(Quotient(f, p), p)
<1> DEFINE s == Shift[p + 1]
           z == Shift[q + 1]
           m == Quotient(f, p)
<1>1. p - 1 \in Prescalers /\ s = 2 * Shift[(p - 1) + 1]
    BY DEF Prescalers, Shift
<1>2. 256 <= Quotient(f, p - 1)
    BY <1>1, QuotientMeans DEF Enough
<1>3. 256 * Shift[(p - 1) + 1] <= BoardFreq \div f
    BY <1>1, <1>2, QuotientMeans DEF Division
<1>4. s \in Nat /\ z \in Nat /\ m \in Nat /\ 2 * z <= s /\ Shift[(p - 1) + 1] \in Nat
    BY <1>1, Shifts, QuotientMeans
<1>5. 128 * s <= BoardFreq \div f
    BY <1>1, <1>3, <1>4
<1>6. 128 <= m
    BY <1>5, QuotientMeans DEF Division
<1> HIDE DEF s, z, m
<1>7. 128 * s <= m * s
    BY <1>4, <1>6, Monotone
<1>8. e * z <= 256 * z
    BY <1>4, Monotone
<1>9. e * z \in Nat /\ m * s \in Nat
    BY <1>4
<1> QED
    BY <1>4, <1>7, <1>8, <1>9 DEF Division, s, z, m

\* What is not below the frequency that was asked for.
LEMMA NotSlower ==
    ASSUME NEW f \in 1 .. BoardFreq, NEW p \in Prescalers, NEW d \in 1 .. 255,
           Division(d, p) <= BoardFreq \div f
    PROVE  f <= SampleFreq(d, p)
<1> DEFINE y == d * Shift[p + 1]
<1>1. y \in Nat \ {0} /\ f \in Nat \ {0} /\ BoardFreq \in Nat
    BY Shifts, BoardAssumption
<1>2. y <= BoardFreq \div f
    BY DEF Division
<1> HIDE DEF y
<1>3. y * f <= BoardFreq /\ y * f = f * y
    BY <1>1, <1>2, AtMost
<1>4. f <= BoardFreq \div y
    BY <1>1, <1>3, AtMost
<1> QED
    BY <1>1, <1>4 DEF SampleFreq, y

\* The first prescaler with which the quotient fits exists if any does.
LEMMA FirstExists ==
    ASSUME NEW f, \E p \in Prescalers : Enough(f, p)
    PROVE  \E p \in Prescalers : First(f, p)
BY DEF Prescalers, First

\* Whatever frequency is asked for, a divider that is not stored as 0 is, with
\* its prescaler, the best setting that the board has.
LEMMA ChosenIsClosest ==
    ASSUME NEW f \in 1 .. BoardFreq, Divider(f) # 0
    PROVE  Closest(f, Divider(f), Prescaler(f))
<1>0. f \in Nat \ {0} /\ ~(f > BoardFreq) /\ f # 0
    BY BoardAssumption
<1>1. CASE \E p \in Prescalers : Enough(f, p)
  <2> DEFINE p == CHOOSE q \in Prescalers : First(f, q)
             m == Quotient(f, p)
  <2>1. p \in Prescalers /\ First(f, p)
      BY <1>1, FirstExists
  <2>2. Chosen(f) = [n |-> m, p |-> p]
      BY <1>0, <1>1 DEF Chosen
  <2> HIDE DEF p
  <2>3. m \in Nat /\ m <= 256
    <3>1. m \in Nat
        BY <1>0, <2>1, QuotientMeans
    <3>2. m <= 256
        BY <2>1 DEF First, Enough
    <3> QED
        BY <3>1, <3>2
  <2>4. Divider(f) = m /\ m \in 1 .. 255 /\ Prescaler(f) = p
      BY <2>2, <2>3 DEF Divider, Prescaler
  <2>5. ASSUME NEW e \in 1 .. 255, NEW q \in Prescalers, Division(e, q) <= BoardFreq \div f
        PROVE  Division(e, q) <= Division(m, p)
    <3>1. CASE p <= q
        BY <1>0, <2>1, <2>5, <3>1, LargerPrescaler
    <3>2. CASE q < p
      <4>1. p - 1 \in Prescalers /\ p - 1 < p
          BY <2>1, <3>2 DEF Prescalers
      <4>2. ~Enough(f, p - 1)
          BY <2>1, <4>1 DEF First
      <4> QED
          BY <1>0, <2>1, <3>2, <4>2, SmallerPrescaler
    <3> QED
        BY <2>1, <3>1, <3>2 DEF Prescalers
  <2>6. Division(m, p) <= BoardFreq \div f
      BY <1>0, <2>1, <2>4, QuotientMeans
  <2>7. f <= SampleFreq(m, p)
      BY <2>1, <2>4, <2>6, NotSlower
  <2> QED
      BY <2>4, <2>5, <2>7 DEF Closest
\* Even the largest division is too fast: it is then set.
<1>2. CASE ~\E p \in Prescalers : Enough(f, p)
  <2>1. Divider(f) = 255 /\ Prescaler(f) = 7 /\ 7 \in Prescalers
      BY <1>0, <1>2 DEF Chosen, Divider, Prescaler, Prescalers
  <2>2. 255 <= Quotient(f, 7)
      BY <1>0, <1>2, <2>1, QuotientMeans DEF Enough
  <2>3. Division(255, 7) <= BoardFreq \div f
      BY <1>0, <2>1, <2>2, QuotientMeans
  <2>4. f <= SampleFreq(255, 7)
      BY <2>1, <2>3, NotSlower
  <2>5. ASSUME NEW e \in 1 .. 255, NEW q \in Prescalers
        PROVE  Division(e, q) <= Division(255, 7)
    <3>1. Shift[q + 1] \in Nat /\ Shift[q + 1] <= 128 /\ Shift[8] = 128
        BY Shifts DEF Shift
    <3>2. e * Shift[q + 1] <= 255 * Shift[q + 1]
        BY <3>1, Monotone
    <3>3. e * Shift[q + 1] \in Nat
        BY <3>1
    <3> QED
        BY <3>1, <3>2, <3>3 DEF Division
  <2> QED
      BY <2>1, <2>4, <2>5 DEF Closest
<1> QED
    BY <1>1, <1>2

-----------------------------------------------------------------------------
\* What a thread is at, by the number of device calls that it has left.

DeviceCalls ==
    {"assign", "off", "mode", "clock", "size", "shots", "setcos", "setsin", "on", "test", "enter",
     "poll", "take", "cos", "coscopy", "release", "sin", "sincopy", "high", "low", "status",
     "divide", "prescale", "load", "answer"}

Cmds == Commands \union {[c |-> "none"]}
Jobs == [cmd : Cmds, todo : Seq(DeviceCalls), n : Nat, at : Nat, size : Nat, left : Nat,
         cos : Seq(Samples), sin : Seq(Samples), res : Int, alone : BOOLEAN]
Regs == [on : BOOLEAN, ended : BOOLEAN, mode : Int, clock : Int, size : Nat,
         shots : Nat, count : Nat, acq : Nat, cos : Nat, sin : Nat]

Typed ==
    /\ wavesize \in Nat \ {0} /\ ites \in Nat /\ burstBusy \in BOOLEAN /\ halted \in BOOLEAN
    /\ divide_n \in 0 .. 255 /\ prescaler \in Prescalers
    /\ latch \in Channels \union {"status", "count"}
    /\ reg \in Regs /\ job \in [Clients -> Jobs]

\* The calls of readwave of the first column; other reads begin later in it.
ReadSteps == <<"test", "enter", "off", "setcos", "setsin", "poll", "take", "cos", "coscopy",
               "release", "poll", "take", "sin", "sincopy", "release">>
Steps(cmd) == IF IsRead(cmd) THEN ReadSteps ELSE Script(cmd)

\* What is left is the end of the script.
EndOf(todo, s) ==
    /\ Len(todo) <= Len(s)
    /\ \A i \in 1 .. Len(todo) : todo[i] = s[Len(s) - Len(todo) + i]
Suffix(todo, cmd) == todo # << >> => EndOf(todo, Steps(cmd))

\* The arguments of a command.
LEMMA CmdFacts ==
    ASSUME NEW cmd \in Cmds
    PROVE  /\ cmd.c \in {"none", "startad", "readwave", "readmemory", "readmemoryb", "readstatus",
                         "gettriggercount", "setsamplefreq"}
           /\ cmd.c = "startad" => cmd.w \in Nat /\ cmd.it \in Nat
           /\ cmd.c \in {"readwave", "readmemory"} => cmd.col \in Nat \ {0}
           /\ cmd.c = "readmemoryb" => cmd.at \in Nat /\ cmd.n \in Nat
           /\ cmd.c = "setsamplefreq" => cmd.f \in Nat
BY DEF Cmds, Commands

\* The next call of a thread that is at the end of a script.
LEMMA HeadIs ==
    ASSUME NEW todo \in Seq(DeviceCalls), todo # << >>, NEW s, EndOf(todo, s)
    PROVE  /\ Len(todo) \in Nat \ {0} /\ Len(todo) <= Len(s)
           /\ Head(todo) = s[Len(s) - Len(todo) + 1]
<1>1. Len(todo) \in Nat \ {0} /\ Head(todo) = todo[1] /\ 1 \in 1 .. Len(todo)
    OBVIOUS
<1> QED
    BY <1>1 DEF EndOf

\* The rest after a call is an end of the script as well.
LEMMA Onward ==
    ASSUME NEW todo \in Seq(DeviceCalls), todo # << >>, NEW s, Len(s) \in Nat, EndOf(todo, s)
    PROVE  /\ EndOf(Tail(todo), s)
           /\ Tail(todo) \in Seq(DeviceCalls) /\ Len(Tail(todo)) = Len(todo) - 1
           /\ (Tail(todo) = << >> <=> Len(todo) = 1)
<1>1. /\ Len(todo) \in Nat \ {0}
      /\ Tail(todo) \in Seq(DeviceCalls) /\ Len(Tail(todo)) = Len(todo) - 1
      /\ \A i \in 1 .. Len(Tail(todo)) : Tail(todo)[i] = todo[i + 1]
    OBVIOUS
<1> DEFINE k == Tail(todo)
           n == Len(todo)
<1> HIDE DEF k, n
<1>2. /\ n \in Nat \ {0} /\ k \in Seq(DeviceCalls) /\ Len(k) = n - 1
      /\ \A i \in 1 .. n - 1 : k[i] = todo[i + 1]
    BY <1>1 DEF k, n
<1>3. n <= Len(s) /\ \A i \in 1 .. n : todo[i] = s[Len(s) - n + i]
    BY DEF EndOf, n
<1>4. ASSUME NEW i \in 1 .. n - 1 PROVE k[i] = s[Len(s) - (n - 1) + i]
  <2>1. i + 1 \in 1 .. n /\ Len(s) - n + (i + 1) = Len(s) - (n - 1) + i
      BY <1>2
  <2> QED
      BY <1>2, <1>3, <2>1
<1>5. EndOf(k, s)
    BY <1>2, <1>3, <1>4 DEF EndOf
<1>6. k = << >> <=> n = 1
    BY <1>2
<1> QED
    BY <1>2, <1>5, <1>6 DEF k, n

\* Where a read is when it makes a call.
LEMMA ReadCalls ==
    ASSUME NEW todo \in Seq(DeviceCalls), todo # << >>, NEW cmd \in Cmds, Suffix(todo, cmd),
           IsRead(cmd)
    PROVE  LET n == Len(todo)
               s == Head(todo)
           IN  /\ n \in 1 .. 15
               /\ n = 15 <=> s = "test"
               /\ n = 14 <=> s = "enter"
               /\ n = 13 <=> s = "off"
               /\ n = 12 <=> s = "setcos"
               /\ n = 11 <=> s = "setsin"
               /\ n \in {10, 5} <=> s = "poll"
               /\ n \in {9, 4} <=> s = "take"
               /\ n = 8 <=> s = "cos"
               /\ n = 7 <=> s = "coscopy"
               /\ n \in {6, 1} <=> s = "release"
               /\ n = 3 <=> s = "sin"
               /\ n = 2 <=> s = "sincopy"
<1>1. Len(ReadSteps) = 15
    BY DEF ReadSteps
<1> DEFINE n == Len(todo)
           s == Head(todo)
<1> HIDE DEF n, s
<1>2. n \in Nat \ {0} /\ n <= Len(ReadSteps) /\ s = ReadSteps[Len(ReadSteps) - n + 1]
  <2>1. EndOf(todo, ReadSteps)
      BY DEF Suffix, Steps
  <2> QED
      BY <2>1, HeadIs DEF n, s
<1>3. n \in 1 .. 15 /\ s = ReadSteps[16 - n]
    BY <1>1, <1>2
<1>4. /\ n = 15 <=> s = "test"
      /\ n = 14 <=> s = "enter"
      /\ n = 13 <=> s = "off"
    BY <1>3 DEF ReadSteps
<1>5. /\ n = 12 <=> s = "setcos"
      /\ n = 11 <=> s = "setsin"
      /\ n \in {10, 5} <=> s = "poll"
    BY <1>3 DEF ReadSteps
<1>6. /\ n \in {9, 4} <=> s = "take"
      /\ n = 8 <=> s = "cos"
      /\ n = 7 <=> s = "coscopy"
    BY <1>3 DEF ReadSteps
<1>7. /\ n \in {6, 1} <=> s = "release"
      /\ n = 3 <=> s = "sin"
      /\ n = 2 <=> s = "sincopy"
    BY <1>3 DEF ReadSteps
<1> QED
    BY <1>3, <1>4, <1>5, <1>6, <1>7 DEF n, s

\* Where a start is.
LEMMA StartCalls ==
    ASSUME NEW todo \in Seq(DeviceCalls), todo # << >>, NEW cmd \in Cmds, Suffix(todo, cmd),
           cmd.c = "startad"
    PROVE  LET n == Len(todo)
               s == Head(todo)
           IN  IF cmd.w = 0 THEN n = 1 /\ s = "assign"
               ELSE /\ n \in 1 .. 9
                    /\ n = 9 <=> s = "assign"
                    /\ n = 8 <=> s = "off"
                    /\ n = 7 <=> s = "mode"
                    /\ n = 6 <=> s = "clock"
                    /\ n = 5 <=> s = "size"
                    /\ n = 4 <=> s = "shots"
                    /\ n = 3 <=> s = "setcos"
                    /\ n = 2 <=> s = "setsin"
                    /\ n = 1 <=> s = "on"
<1>0. Steps(cmd) = StartAD(cmd.w)
    BY DEF Steps, IsRead, Script
<1>1. CASE cmd.w = 0
  <2>1. EndOf(todo, <<"assign">>)
      BY <1>0, <1>1 DEF StartAD, Suffix
  <2> QED
      BY <1>1, <2>1, HeadIs
<1>2. CASE cmd.w # 0
  <2> DEFINE n == Len(todo)
             S == <<"assign", "off", "mode", "clock", "size", "shots", "setcos", "setsin", "on">>
  <2>1. Steps(cmd) = S /\ Len(S) = 9
      BY <1>0, <1>2 DEF StartAD
  <2> DEFINE h == Head(todo)
  <2> HIDE DEF S, n, h
  <2>2. n \in Nat \ {0} /\ n <= Len(S) /\ h = S[Len(S) - n + 1]
    <3>1. EndOf(todo, S)
        BY <2>1 DEF Suffix
    <3> QED
        BY <3>1, HeadIs DEF n, h
  <2>3. n \in 1 .. 9 /\ h = S[10 - n]
      BY <2>1, <2>2
  <2>4. /\ n = 9 <=> h = "assign"
        /\ n = 8 <=> h = "off"
        /\ n = 7 <=> h = "mode"
      BY <2>3 DEF S
  <2>5. /\ n = 6 <=> h = "clock"
        /\ n = 5 <=> h = "size"
        /\ n = 4 <=> h = "shots"
      BY <2>3 DEF S
  <2>6. /\ n = 3 <=> h = "setcos"
        /\ n = 2 <=> h = "setsin"
        /\ n = 1 <=> h = "on"
      BY <2>3 DEF S
  <2> QED
      BY <1>2, <2>3, <2>4, <2>5, <2>6 DEF n, h
<1> QED
    BY <1>1, <1>2

\* Where the others are.
LEMMA OtherCalls ==
    ASSUME NEW todo \in Seq(DeviceCalls), todo # << >>, NEW cmd \in Cmds, Suffix(todo, cmd),
           ~IsRead(cmd), cmd.c # "startad", cmd.c # "none"
    PROVE  LET n == Len(todo)
               s == Head(todo)
           IN  \/ cmd.c = "readstatus" /\ n = 1 /\ s = "status"
               \/ /\ cmd.c = "setsamplefreq" /\ n \in 1 .. 4
                  /\ n = 4 <=> s = "divide"
                  /\ n = 3 <=> s = "prescale"
                  /\ n = 2 <=> s = "load"
                  /\ n = 1 <=> s = "answer"
               \/ /\ cmd.c = "gettriggercount" /\ n \in 1 .. 3
                  /\ n = 3 <=> s = "off"
                  /\ n = 2 <=> s = "high"
                  /\ n = 1 <=> s = "low"
<1>1. cmd.c \in {"readstatus", "gettriggercount", "setsamplefreq"}
    BY CmdFacts DEF IsRead
<1>2. CASE cmd.c = "gettriggercount"
  <2>1. EndOf(todo, <<"off", "high", "low">>)
      BY <1>2 DEF Steps, IsRead, Script, GetTriggerCount, Suffix
  <2> DEFINE S == <<"off", "high", "low">>
             n == Len(todo)
             h == Head(todo)
  <2>2. Len(S) = 3
      OBVIOUS
  <2> HIDE DEF S, n, h
  <2>3. n \in Nat \ {0} /\ n <= Len(S) /\ h = S[Len(S) - n + 1]
      BY <2>1, HeadIs DEF S, n, h
  <2>4. n \in 1 .. 3 /\ h = S[4 - n]
      BY <2>2, <2>3
  <2>5. n = 3 <=> h = "off"
      BY <2>4 DEF S
  <2>6. n = 2 <=> h = "high"
      BY <2>4 DEF S
  <2>7. n = 1 <=> h = "low"
      BY <2>4 DEF S
  <2> QED
      BY <1>2, <2>4, <2>5, <2>6, <2>7 DEF n, h
<1>3. CASE cmd.c = "readstatus"
  <2>1. EndOf(todo, <<"status">>)
      BY <1>3 DEF Steps, IsRead, Script, Suffix
  <2> QED
      BY <1>3, <2>1, HeadIs
<1>4. CASE cmd.c = "setsamplefreq"
  <2>1. EndOf(todo, <<"divide", "prescale", "load", "answer">>)
      BY <1>4 DEF Steps, IsRead, Script, SetSampleFreq, Suffix
  <2> DEFINE S == <<"divide", "prescale", "load", "answer">>
             n == Len(todo)
             h == Head(todo)
  <2>2. Len(S) = 4
      OBVIOUS
  <2> HIDE DEF S, n, h
  <2>3. n \in Nat \ {0} /\ n <= Len(S) /\ h = S[Len(S) - n + 1]
      BY <2>1, HeadIs DEF S, n, h
  <2>4. n \in 1 .. 4 /\ h = S[5 - n]
      BY <2>2, <2>3
  <2>5. /\ n = 4 <=> h = "divide"
        /\ n = 3 <=> h = "prescale"
      BY <2>4 DEF S
  <2>6. /\ n = 2 <=> h = "load"
        /\ n = 1 <=> h = "answer"
      BY <2>4 DEF S
  <2> QED
      BY <1>4, <2>4, <2>5, <2>6 DEF n, h
<1> QED
    BY <1>1, <1>2, <1>3, <1>4

-----------------------------------------------------------------------------
\* The jobs of the threads.

\* What a read has stored when it has so many calls left, and what a
\* setsamplefreq has loaded.
Lengths(j) ==
    IF IsRead(j.cmd)
    THEN LET n == Len(j.todo)
         IN  /\ j.cmd.c = "readmemoryb" => j.n = j.cmd.n
             /\ n >= 14 => j.size = 0
             /\ n >= 8 => j.cos = << >> /\ j.left = 0
             /\ n >= 3 => j.sin = << >>
             /\ n = 7 => Len(j.cos) + j.left = j.size
             /\ n \in 1 .. 6 => Len(j.cos) = j.size
             /\ n = 2 => Len(j.sin) + j.left = j.size
             /\ n = 1 => Len(j.sin) = j.size
             /\ j.left <= j.size /\ Len(j.cos) <= j.size /\ Len(j.sin) <= j.size
    ELSE /\ j.cos = << >> /\ j.sin = << >> /\ j.left = 0 /\ j.size = 0
         /\ j.cmd.c = "setsamplefreq" /\ Len(j.todo) = 1 => j.res \in Nat

\* The samples of a channel are those at the addresses that were asked for, of
\* the last acquisition.
Samples1(s, ch, at, acq) ==
    \A i \in 1 .. Len(s) : s[i] = [ch |-> ch, at |-> at + i - 1, acq |-> acq]

\* What a read that no other thread disturbs finds on the board r, whose port
\* is l, when w is wavesize: the sampling is off, the addresses have moved as
\* far as samples are stored, and the port is its own.
ReadAlone(j, r, l, w) ==
    LET n == Len(j.todo)
    IN  /\ n >= 14 /\ j.cmd.c # "readmemoryb" => j.n = w
        /\ n <= 13 => j.n = j.size
        /\ n <= 12 => ~r.on
        /\ n \in 7 .. 11 => r.cos = j.at + Len(j.cos)
        /\ n \in 2 .. 10 => r.sin = j.at + Len(j.sin)
        /\ n = 7 => l = "cos"
        /\ n = 2 => l = "sin"
        /\ Samples1(j.cos, "cos", j.at, r.acq) /\ Samples1(j.sin, "sin", j.at, r.acq)

\* And a gettriggercount: the count stands still between its two words.
CountAlone(j, r) ==
    LET n == Len(j.todo)
    IN  /\ n <= 2 => ~r.on
        /\ n = 1 => j.res = Word * (r.count \div Word)

Undisturbed(j, r, l, w) ==
    j.todo # << >> /\ j.alone =>
        /\ IsRead(j.cmd) => ReadAlone(j, r, l, w)
        /\ j.cmd.c = "gettriggercount" => CountAlone(j, r)

Right(j, r, l, w) ==
    /\ j.todo # << >> => j.cmd.c # "none"
    /\ Suffix(j.todo, j.cmd) /\ Lengths(j) /\ Undisturbed(j, r, l, w)

AdInv == Typed /\ \A t \in Clients : Right(job[t], reg, latch, wavesize)

-----------------------------------------------------------------------------
\* A step of thread t takes its job to j, and disturbs the others.
Leads(t, j) == job' = [Others(job, t) EXCEPT ![t] = j]

\* What such a step does to the job of each thread.
LEMMA LeadsTo ==
    ASSUME Typed, NEW t \in Clients, NEW j \in Jobs, Leads(t, j)
    PROVE  /\ job' \in [Clients -> Jobs] /\ job'[t] = j
           /\ \A u \in Clients \ {t} :
                 \/ job[u].todo = << >> /\ job'[u] = job[u]
                 \/ job'[u] = [job[u] EXCEPT !.alone = FALSE]
<1>1. \A u \in Clients : [job[u] EXCEPT !.alone = FALSE] \in Jobs
    BY DEF Typed, Jobs
<1>2. Others(job, t) \in [Clients -> Jobs]
    BY <1>1 DEF Others, Typed
<1> QED
    BY <1>2 DEF Leads, Others, Typed

\* Nothing is claimed of the board for a job that has been disturbed.
LEMMA NotAlone ==
    ASSUME NEW j \in Jobs, NEW r, NEW l, NEW w, NEW r1, NEW l1, NEW w1, Right(j, r, l, w)
    PROVE  Right([j EXCEPT !.alone = FALSE], r1, l1, w1)
<1> DEFINE k == [j EXCEPT !.alone = FALSE]
<1>1. /\ k.cmd = j.cmd /\ k.todo = j.todo /\ k.n = j.n /\ k.at = j.at /\ k.size = j.size
      /\ k.left = j.left /\ k.cos = j.cos /\ k.sin = j.sin /\ k.res = j.res /\ ~k.alone
    BY DEF Jobs
<1> HIDE DEF k
<1>2. Right(k, r1, l1, w1)
    BY <1>1 DEF Right, Lengths, Undisturbed
<1> QED
    BY <1>2 DEF k

\* A step keeps the jobs right when it keeps its own right: those of the others
\* are disturbed.
LEMMA LeadsRight ==
    ASSUME AdInv, NEW t \in Clients, NEW j \in Jobs, Leads(t, j),
           NEW r, NEW l, NEW w, Right(j, r, l, w)
    PROVE  /\ job' \in [Clients -> Jobs]
           /\ \A u \in Clients : Right(job'[u], r, l, w)
<1>1. /\ job' \in [Clients -> Jobs] /\ job'[t] = j
      /\ \A u \in Clients \ {t} :
            \/ job[u].todo = << >> /\ job'[u] = job[u]
            \/ job'[u] = [job[u] EXCEPT !.alone = FALSE]
    BY LeadsTo DEF AdInv
<1>2. ASSUME NEW u \in Clients \ {t} PROVE Right(job'[u], r, l, w)
  <2>1. job[u] \in Jobs /\ Right(job[u], reg, latch, wavesize)
      BY DEF AdInv, Typed
  <2>2. CASE job[u].todo = << >> /\ job'[u] = job[u]
    <3>1. Right(job[u], r, l, w)
        BY <2>1, <2>2 DEF Right, Undisturbed
    <3> QED
        BY <2>2, <3>1
  <2>3. CASE job'[u] = [job[u] EXCEPT !.alone = FALSE]
      BY <2>1, <2>3, NotAlone
  <2> QED
      BY <1>1, <2>2, <2>3
<1> QED
    BY <1>1, <1>2

\* Go leads to the rest of the script, Done to its end.
LEMMA Going ==
    ASSUME AdInv, NEW t \in Clients, job[t].todo # << >>,
           NEW j \in Jobs, j.todo = job[t].todo, j.cmd = job[t].cmd
    PROVE  LET k == [j EXCEPT !.todo = Tail(@)]
           IN  /\ k \in Jobs /\ Suffix(k.todo, k.cmd) /\ Len(k.todo) = Len(j.todo) - 1
               /\ (k.todo = << >> <=> Len(j.todo) = 1)
               /\ (Go(t, j) => Leads(t, k))
               /\ k.cmd = j.cmd /\ k.n = j.n /\ k.at = j.at /\ k.size = j.size /\ k.left = j.left
               /\ k.cos = j.cos /\ k.sin = j.sin /\ k.alone = j.alone /\ k.res = j.res
<1> DEFINE k == [j EXCEPT !.todo = Tail(@)]
<1>1. /\ job[t] \in Jobs /\ job[t].todo \in Seq(DeviceCalls) /\ job[t].cmd \in Cmds
      /\ EndOf(job[t].todo, Steps(job[t].cmd)) /\ job[t].cmd.c # "none"
    BY DEF AdInv, Typed, Jobs, Right, Suffix
<1>2. Len(Steps(job[t].cmd)) \in Nat
    BY <1>1, CmdFacts
    DEF Steps, ReadSteps, Script, StartAD, GetTriggerCount, SetSampleFreq, IsRead
<1>3. /\ EndOf(Tail(j.todo), Steps(j.cmd)) /\ Tail(j.todo) \in Seq(DeviceCalls)
      /\ Len(Tail(j.todo)) = Len(j.todo) - 1 /\ (Tail(j.todo) = << >> <=> Len(j.todo) = 1)
    BY <1>1, <1>2, Onward
<1>4. k.todo = Tail(j.todo) /\ k \in Jobs
    BY <1>3 DEF Jobs
<1>5. /\ k.cmd = j.cmd /\ k.n = j.n /\ k.at = j.at /\ k.size = j.size /\ k.left = j.left
      /\ k.cos = j.cos /\ k.sin = j.sin /\ k.alone = j.alone /\ k.res = j.res
    BY DEF Jobs
<1>6. Go(t, j) => Leads(t, k)
    BY DEF Go, Leads
<1> QED
    BY <1>3, <1>4, <1>5, <1>6 DEF Suffix

\* A command that is done claims nothing of the board.
LEMMA Ending ==
    ASSUME AdInv, NEW t \in Clients, NEW res \in Int, Done(t, res)
    PROVE  LET k == [job[t] EXCEPT !.todo = << >>, !.res = res]
           IN  /\ k \in Jobs /\ Leads(t, k) /\ k.todo = << >> /\ k.cmd = job[t].cmd
               /\ k.n = job[t].n /\ k.at = job[t].at /\ k.size = job[t].size
               /\ k.left = job[t].left /\ k.cos = job[t].cos /\ k.sin = job[t].sin
               /\ k.alone = job[t].alone /\ k.res = res
               /\ \A r, l, w : Right(k, r, l, w)
<1> DEFINE k == [job[t] EXCEPT !.todo = << >>, !.res = res]
<1>1. job[t] \in Jobs /\ Right(job[t], reg, latch, wavesize)
    BY DEF AdInv, Typed
<1>2. /\ k \in Jobs /\ k.todo = << >> /\ k.cmd = job[t].cmd
      /\ k.n = job[t].n /\ k.at = job[t].at /\ k.size = job[t].size
      /\ k.left = job[t].left /\ k.cos = job[t].cos /\ k.sin = job[t].sin
      /\ k.alone = job[t].alone /\ k.res = res
  <2> DEFINE j == job[t]
  <2>1. j \in Jobs /\ << >> \in Seq(DeviceCalls)
      BY <1>1
  <2> HIDE DEF j
  <2> QED
      BY <2>1 DEF Jobs, j
<1>3. Leads(t, k)
  <2>1. [Others(job, t) EXCEPT ![t].todo = << >>, ![t].res = res] = [Others(job, t) EXCEPT ![t] = k]
      BY DEF Others, AdInv, Typed
  <2> QED
      BY <2>1 DEF Done, Leads
<1> HIDE DEF k
<1>4. ASSUME NEW r, NEW l, NEW w PROVE Right(k, r, l, w)
  <2>1. Len(k.todo) = 0
      BY <1>2
  <2>2. Lengths(k)
      BY <1>1, <1>2, <2>1 DEF Right, Lengths
  <2> QED
      BY <1>2, <2>2 DEF Right, Suffix, Undisturbed
<1> QED
    BY <1>2, <1>3, <1>4 DEF k

-----------------------------------------------------------------------------
\* Every step keeps what is right about the jobs.

JobsAre(r, l, w) == job' \in [Clients -> Jobs] /\ \A u \in Clients : Right(job'[u], r, l, w)

\* A thread that is about to make a call.
LEMMA Calls ==
    ASSUME AdInv, NEW t \in Clients, NEW s, At(t, s)
    PROVE  /\ job[t] \in Jobs /\ job[t].todo \in Seq(DeviceCalls) /\ job[t].todo # << >>
           /\ Head(job[t].todo) = s /\ Len(job[t].todo) \in Nat \ {0}
           /\ job[t].cmd \in Cmds /\ job[t].cmd.c # "none" /\ Suffix(job[t].todo, job[t].cmd)
           /\ Right(job[t], reg, latch, wavesize)
BY DEF AdInv, Typed, Jobs, Right, At

\* The commands that neither read nor count.
LEMMA PlainRight ==
    ASSUME NEW j \in Jobs, j.cmd.c \in {"startad", "readstatus", "setsamplefreq"},
           Lengths(j), NEW k \in Jobs, k.cmd = j.cmd, Suffix(k.todo, k.cmd),
           k.cos = j.cos, k.sin = j.sin, k.left = j.left, k.size = j.size,
           k.cmd.c = "setsamplefreq" /\ Len(k.todo) = 1 => k.res \in Nat,
           NEW r, NEW l, NEW w
    PROVE  Right(k, r, l, w)
BY DEF Right, Lengths, Undisturbed, IsRead

\* A start that sets wavesize disturbs the reads that have allocated by it.
LEMMA AssignKeeps ==
    ASSUME AdInv, NEW t \in Clients, Assign(t), NEW w PROVE JobsAre(reg, latch, w)
<1>1. At(t, "assign") /\ Go(t, job[t])
    BY DEF Assign
<1>2. job[t].cmd.c = "startad"
    BY <1>1, Calls, ReadCalls, OtherCalls
<1> DEFINE k == [job[t] EXCEPT !.todo = Tail(@)]
<1>3. job[t] \in Jobs /\ job[t].todo # << >> /\ Lengths(job[t])
    BY <1>1, Calls DEF Right
<1>4. /\ k \in Jobs /\ Suffix(k.todo, k.cmd) /\ Leads(t, k) /\ k.cmd = job[t].cmd
      /\ k.size = job[t].size /\ k.left = job[t].left /\ k.cos = job[t].cos /\ k.sin = job[t].sin
    BY <1>1, <1>3, Going
<1> HIDE DEF k
<1>5. Right(k, reg, latch, w)
    BY <1>2, <1>3, <1>4, PlainRight
<1> QED
    BY <1>4, <1>5, LeadsRight DEF JobsAre

\* The step of a read that only goes on.
LEMMA ReadGoes ==
    ASSUME NEW j \in Jobs, j.todo # << >>, IsRead(j.cmd), NEW k \in Jobs,
           k.cmd = j.cmd, Suffix(k.todo, k.cmd), Len(k.todo) = Len(j.todo) - 1,
           k.n = j.n, k.at = j.at, k.size = j.size, k.left = j.left, k.cos = j.cos,
           k.sin = j.sin, k.alone = j.alone, j.cmd.c # "none", Lengths(j),
           Len(j.todo) \in {15, 13, 12, 11, 10, 9, 6, 5, 4}, NEW r, NEW l, NEW w,
           j.alone /\ k.todo # << >> => ReadAlone(k, r, l, w)
    PROVE  Right(k, r, l, w)
<1> DEFINE n == Len(j.todo)
           m == Len(k.todo)
<1>1. m = n - 1 /\ n \in {15, 13, 12, 11, 10, 9, 6, 5, 4} /\ IsRead(k.cmd)
    OBVIOUS
<1> HIDE DEF n, m
<1>2. Lengths(k)
  <2>1. (m >= 14 => n >= 14) /\ (m >= 8 => n >= 8) /\ (m >= 3 => n >= 3)
      BY <1>1
  <2>2. m # 7 /\ m # 2 /\ m # 1 /\ (m \in 1 .. 6 => n \in 1 .. 6)
      BY <1>1
  <2> QED
      BY <1>1, <2>1, <2>2 DEF Lengths, n, m
<1> QED
    BY <1>2 DEF Right, Undisturbed, IsRead

\* The same for a counter.
LEMMA CountGoes ==
    ASSUME NEW j \in Jobs, j.cmd.c = "gettriggercount", Lengths(j), NEW k \in Jobs,
           k.cmd = j.cmd, Suffix(k.todo, k.cmd), k.size = j.size, k.left = j.left,
           k.cos = j.cos, k.sin = j.sin, k.alone = j.alone, NEW r, NEW l, NEW w,
           j.alone /\ k.todo # << >> => CountAlone(k, r)
    PROVE  Right(k, r, l, w)
BY DEF Right, Lengths, Undisturbed, IsRead

\* Nothing is stored yet.
LEMMA NoSamples == ASSUME NEW ch, NEW at, NEW acq PROVE Samples1(<< >>, ch, at, acq)
BY DEF Samples1

\* The writes stop the board and set the addresses, of which the read that makes
\* them has stored nothing yet.
LEMMA WriteKeeps ==
    ASSUME AdInv, NEW t \in Clients, Write(t) PROVE JobsAre(reg', latch, wavesize)
<1>1. PICK s \in {"off", "mode", "clock", "size", "shots", "setcos", "setsin", "on"} : At(t, s)
    BY DEF Write
<1> DEFINE j == job[t]
           k == [job[t] EXCEPT !.todo = Tail(@)]
           n == Len(j.todo)
<1>2. /\ j \in Jobs /\ j.todo # << >> /\ Lengths(j) /\ Head(j.todo) = s /\ n \in Nat \ {0}
      /\ j.cmd \in Cmds /\ j.cmd.c # "none" /\ Suffix(j.todo, j.cmd) /\ j.todo \in Seq(DeviceCalls)
      /\ Right(j, reg, latch, wavesize)
    BY <1>1, Calls DEF Right
<1>3. Go(t, j)
    BY DEF Write
<1>4. /\ k \in Jobs /\ Suffix(k.todo, k.cmd) /\ Leads(t, k) /\ k.cmd = j.cmd
      /\ Len(k.todo) = n - 1 /\ (k.todo = << >> <=> n = 1)
      /\ k.n = j.n /\ k.at = j.at /\ k.size = j.size /\ k.left = j.left
      /\ k.cos = j.cos /\ k.sin = j.sin /\ k.alone = j.alone /\ k.res = j.res
    BY <1>2, <1>3, Going
<1>R. reg \in Regs
    BY DEF AdInv, Typed
<1> HIDE DEF j, k, n
<1>5. CASE IsRead(j.cmd)
  <2>1. \/ n = 13 /\ s = "off"
        \/ n = 12 /\ s = "setcos"
        \/ n = 11 /\ s = "setsin"
    <3>1. /\ n = 13 <=> s = "off"
          /\ n = 12 <=> s = "setcos"
          /\ n = 11 <=> s = "setsin"
          /\ s \notin {"mode", "clock", "size", "shots", "on"}
        BY <1>2, <1>5, ReadCalls DEF n
    <3> QED
        BY <3>1
  <2>2. j.cos = << >> /\ j.sin = << >>
    <3>1. n >= 8 /\ n >= 3
        BY <2>1
    <3> QED
        BY <1>2, <1>5, <3>1 DEF Lengths, n
  <2>3. ASSUME j.alone PROVE ReadAlone(k, reg', latch, wavesize)
    <3>1. ReadAlone(j, reg, latch, wavesize)
        BY <1>2, <1>5, <2>3 DEF Right, Undisturbed
    <3>2. /\ n = 13 => reg' = [reg EXCEPT !.on = FALSE]
          /\ n = 12 => reg' = [reg EXCEPT !.cos = j.at]
          /\ n = 11 => reg' = [reg EXCEPT !.sin = j.at]
        BY <1>1, <1>2, <2>1 DEF Write, At, j
    <3>3. k.n = k.size /\ ~reg'.on
      <4>1. n <= 13 /\ (n # 13 => n <= 12)
          BY <2>1
      <4>2. j.n = j.size /\ (n # 13 => ~reg.on)
          BY <3>1, <4>1 DEF ReadAlone, n
      <4> QED
          BY <1>4, <1>R, <2>1, <3>2, <4>2 DEF Regs
    <3>4. Len(k.cos) = 0 /\ Len(k.sin) = 0 /\ k.at \in Nat
        BY <1>4, <2>2 DEF Jobs
    <3>5. (n = 12 \/ n = 11) => reg'.cos = k.at
        BY <1>4, <1>R, <2>2, <3>1, <3>2, <3>4 DEF ReadAlone, n, Regs
    <3>6. n = 11 => reg'.sin = k.at
        BY <1>4, <1>R, <3>2 DEF Regs
    <3> QED
        BY <1>4, <2>1, <2>2, <3>3, <3>4, <3>5, <3>6, NoSamples DEF ReadAlone
  <2>4. Right(k, reg', latch, wavesize)
      BY <1>2, <1>4, <1>5, <2>1, <2>3, ReadGoes DEF n
  <2> QED
      BY <1>2, <1>4, <2>4, LeadsRight DEF JobsAre
<1>6. CASE j.cmd.c = "startad"
  <2>1. Right(k, reg', latch, wavesize)
      BY <1>2, <1>4, <1>6, PlainRight
  <2> QED
      BY <1>2, <1>4, <2>1, LeadsRight DEF JobsAre
<1>7. CASE ~IsRead(j.cmd) /\ j.cmd.c # "startad"
  <2>1. j.cmd.c = "gettriggercount" /\ n = 3 /\ s = "off"
    <3>1. \/ j.cmd.c = "readstatus" /\ s = "status"
          \/ j.cmd.c = "setsamplefreq" /\ s \in {"divide", "prescale", "load", "answer"}
          \/ /\ j.cmd.c = "gettriggercount" /\ n \in 1 .. 3
             /\ n = 3 <=> s = "off"
             /\ n = 2 <=> s = "high"
             /\ n = 1 <=> s = "low"
        BY <1>2, <1>7, OtherCalls DEF n
    <3> QED
        BY <3>1
  <2>2. CountAlone(k, reg')
    <3>1. reg' = [reg EXCEPT !.on = FALSE]
        BY <1>1, <1>2, <2>1 DEF Write, At, j
    <3> QED
        BY <1>R, <1>4, <2>1, <3>1 DEF CountAlone, Regs
  <2>3. Right(k, reg', latch, wavesize)
      BY <1>2, <1>4, <2>1, <2>2, CountGoes
  <2> QED
      BY <1>2, <1>4, <2>3, LeadsRight DEF JobsAre
<1> QED
    BY <1>5, <1>6, <1>7

\* ReadMemory finds wavesize as the allocation did, if nobody has set it since.
LEMMA EnterKeeps ==
    ASSUME AdInv, NEW t \in Clients, Enter(t) PROVE JobsAre(reg, latch, wavesize)
<1> DEFINE j == job[t]
           e == Extent(j.cmd)
           i == [job[t] EXCEPT !.at = e.at, !.size = e.size]
           k == [i EXCEPT !.todo = Tail(@)]
           n == Len(j.todo)
<1>1. At(t, "enter") /\ Go(t, i)
    BY DEF Enter
<1>2. /\ j \in Jobs /\ j.todo # << >> /\ Lengths(j) /\ Head(j.todo) = "enter" /\ n \in Nat \ {0}
      /\ j.cmd \in Cmds /\ j.cmd.c # "none" /\ Suffix(j.todo, j.cmd) /\ j.todo \in Seq(DeviceCalls)
      /\ Right(j, reg, latch, wavesize)
    BY <1>1, Calls DEF Right
<1>3. IsRead(j.cmd) /\ n = 14
    BY <1>2, ReadCalls, StartCalls, OtherCalls
<1>4. /\ e.at \in Nat
      /\ e.size = IF j.cmd.c = "readmemoryb" THEN j.cmd.n ELSE wavesize
      /\ e.size \in Nat
  <2>1. wavesize \in Nat
      BY DEF AdInv, Typed
  <2>2. CASE j.cmd.c = "readmemoryb"
      BY <1>2, <2>2, CmdFacts DEF Extent
  <2>3. CASE j.cmd.c # "readmemoryb"
    <3>1. j.cmd.c \in {"readwave", "readmemory"} /\ Column(j.cmd) - 1 \in Nat
        BY <1>2, <1>3, <2>3, CmdFacts DEF IsRead, Column
    <3>2. wavesize * (Column(j.cmd) - 1) \in Nat
        BY <2>1, <3>1
    <3> QED
        BY <2>1, <2>3, <3>2 DEF Extent
  <2> QED
      BY <2>2, <2>3
<1> HIDE DEF e
<1>5. /\ i \in Jobs /\ i.todo = j.todo /\ i.cmd = j.cmd /\ i.at = e.at /\ i.size = e.size
      /\ i.n = j.n /\ i.left = j.left /\ i.cos = j.cos /\ i.sin = j.sin /\ i.alone = j.alone
    BY <1>2, <1>4 DEF Jobs
<1> HIDE DEF i
<1>6. /\ k \in Jobs /\ Suffix(k.todo, k.cmd) /\ Leads(t, k) /\ k.cmd = j.cmd
      /\ Len(k.todo) = n - 1
      /\ k.n = j.n /\ k.at = e.at /\ k.size = e.size /\ k.left = j.left
      /\ k.cos = j.cos /\ k.sin = j.sin /\ k.alone = j.alone
    BY <1>1, <1>2, <1>5, Going
<1> HIDE DEF j, k, n
<1>7. k.cos = << >> /\ k.sin = << >> /\ k.left = 0 /\ Len(k.todo) = 13
    BY <1>2, <1>3, <1>6 DEF Lengths, n
<1>8. Lengths(k)
  <2>1. Len(k.cos) = 0 /\ Len(k.sin) = 0 /\ k.size \in Nat
      BY <1>4, <1>6, <1>7
  <2> QED
      BY <1>2, <1>3, <1>6, <1>7, <2>1 DEF Lengths
<1>9. k.alone => ReadAlone(k, reg, latch, wavesize)
  <2> SUFFICES ASSUME j.alone PROVE ReadAlone(k, reg, latch, wavesize)
      BY <1>6
  <2>1. ReadAlone(j, reg, latch, wavesize)
      BY <1>2, <1>3 DEF Right, Undisturbed
  <2>2. k.n = k.size
      BY <1>2, <1>3, <1>4, <1>6, <2>1 DEF ReadAlone, Lengths, n
  <2> QED
      BY <1>7, <2>2, NoSamples DEF ReadAlone
<1>10. Right(k, reg, latch, wavesize)
    BY <1>2, <1>3, <1>6, <1>8, <1>9 DEF Right, Undisturbed, IsRead
<1> QED
    BY <1>6, <1>10, LeadsRight DEF JobsAre

\* The last call of a command.
LEMMA EndingKeeps ==
    ASSUME AdInv, NEW t \in Clients, NEW res \in Int, Done(t, res), NEW r, NEW l, NEW w
    PROVE  JobsAre(r, l, w)
<1> DEFINE k == [job[t] EXCEPT !.todo = << >>, !.res = res]
<1>1. k \in Jobs /\ Leads(t, k) /\ Right(k, r, l, w)
    BY Ending
<1> HIDE DEF k
<1> QED
    BY <1>1, LeadsRight DEF JobsAre

\* The test of readwave goes on or ends; the first word of the counter is taken
\* from a board that is off.
LEMMA ReadKeeps ==
    ASSUME AdInv, NEW t \in Clients, Read(t) PROVE JobsAre(reg, latch', wavesize)
<1>1. PICK s \in {"status", "test", "high", "low"} : At(t, s)
    BY DEF Read
<1> DEFINE j == job[t]
           n == Len(j.todo)
<1>2. /\ j \in Jobs /\ j.todo # << >> /\ Lengths(j) /\ Head(j.todo) = s /\ n \in Nat \ {0}
      /\ j.cmd \in Cmds /\ j.cmd.c # "none" /\ Suffix(j.todo, j.cmd) /\ j.todo \in Seq(DeviceCalls)
      /\ Right(j, reg, latch, wavesize)
    BY <1>1, Calls DEF Right
<1>3. ASSUME NEW res \in Int, Done(t, res) PROVE JobsAre(reg, latch', wavesize)
    BY <1>3, EndingKeeps
<1>4. reg.count \in Nat /\ Word \in Nat \ {0} /\ j.res \in Int
    BY <1>2, AdAssumption DEF AdInv, Typed, Regs, Jobs
<1>5. reg.count \div Word \in Nat /\ reg.count % Word \in Nat
    BY <1>4
<1>6. CASE s = "status"
  <2>1. Done(t, 1)
      BY <1>1, <1>6 DEF Read, At
  <2> QED
      BY <1>3, <2>1
<1>7. CASE s = "test"
  <2>1. PICK busy \in BOOLEAN :
           IF ReadWaveTest(busy) = 1 THEN Go(t, j) ELSE Done(t, ReadWaveTest(busy))
      BY <1>1, <1>7 DEF Read, At
  <2>2. CASE ReadWaveTest(busy) = 1
    <3> DEFINE k == [job[t] EXCEPT !.todo = Tail(@)]
    <3>1. IsRead(j.cmd) /\ n = 15
        BY <1>2, <1>7, ReadCalls, StartCalls, OtherCalls
    <3>2. /\ k \in Jobs /\ Suffix(k.todo, k.cmd) /\ Leads(t, k) /\ k.cmd = j.cmd
          /\ Len(k.todo) = n - 1
          /\ k.n = j.n /\ k.at = j.at /\ k.size = j.size /\ k.left = j.left
          /\ k.cos = j.cos /\ k.sin = j.sin /\ k.alone = j.alone
        BY <1>2, <2>1, <2>2, Going
    <3> HIDE DEF k, j
    <3>3. j.cos = << >> /\ j.sin = << >> /\ Len(k.todo) = 14
        BY <1>2, <3>1, <3>2 DEF Lengths
    <3>4. ASSUME j.alone PROVE ReadAlone(k, reg, latch', wavesize)
      <4>1. j.cmd.c # "readmemoryb" => j.n = wavesize
          BY <1>2, <3>1, <3>4 DEF Right, Undisturbed, ReadAlone
      <4>2. k.cmd.c # "readmemoryb" => k.n = wavesize
          BY <3>2, <4>1
      <4>3. Samples1(k.cos, "cos", k.at, reg.acq) /\ Samples1(k.sin, "sin", k.at, reg.acq)
          BY <3>2, <3>3, NoSamples
      <4> QED
          BY <3>3, <4>2, <4>3 DEF ReadAlone
    <3>5. Right(k, reg, latch', wavesize)
        BY <1>2, <3>1, <3>2, <3>4, ReadGoes
    <3> QED
        BY <1>2, <3>2, <3>5, LeadsRight DEF JobsAre
  <2>3. CASE ReadWaveTest(busy) # 1
      BY <1>3, <2>1, <2>3 DEF ReadWaveTest
  <2> QED
      BY <2>2, <2>3
<1>8. CASE s \in {"high", "low"}
  <2>1. /\ j.cmd.c = "gettriggercount"
        /\ n = 2 <=> s = "high"
        /\ n = 1 <=> s = "low"
    <3>1. ~IsRead(j.cmd) /\ j.cmd.c # "startad"
        BY <1>2, <1>8, ReadCalls, StartCalls
    <3> QED
        BY <1>2, <1>8, <3>1, OtherCalls
  <2>2. CASE s = "low"
    <3>1. Done(t, j.res + (reg.count % Word) + 1)
        BY <1>1, <2>2 DEF Read, At
    <3> QED
        BY <1>3, <1>4, <1>5, <3>1
  <2>3. CASE s = "high"
    <3> DEFINE i == [job[t] EXCEPT !.res = Word * (reg.count \div Word)]
               k == [i EXCEPT !.todo = Tail(@)]
    <3>1. Go(t, i)
        BY <1>1, <2>3 DEF Read, At
    <3>2. Word * (reg.count \div Word) \in Int
        BY <1>4, <1>5
    <3>3. /\ i \in Jobs /\ i.todo = j.todo /\ i.cmd = j.cmd /\ i.size = j.size /\ i.left = j.left
          /\ i.cos = j.cos /\ i.sin = j.sin /\ i.alone = j.alone
          /\ i.res = Word * (reg.count \div Word)
        BY <1>2, <3>2 DEF Jobs
    <3> HIDE DEF i
    <3>4. /\ k \in Jobs /\ Suffix(k.todo, k.cmd) /\ Leads(t, k) /\ k.cmd = j.cmd
          /\ Len(k.todo) = n - 1 /\ k.size = j.size /\ k.left = j.left
          /\ k.cos = j.cos /\ k.sin = j.sin /\ k.alone = j.alone
          /\ k.res = Word * (reg.count \div Word)
        BY <1>2, <3>1, <3>3, Going
    <3> HIDE DEF k, j
    <3>5. ASSUME j.alone PROVE CountAlone(k, reg)
      <4>1. n = 2 /\ Len(k.todo) = 1
          BY <2>1, <2>3, <3>4
      <4>2. CountAlone(j, reg)
          BY <1>2, <2>1, <3>5 DEF Right, Undisturbed
      <4>3. ~reg.on
          BY <4>1, <4>2 DEF CountAlone
      <4> QED
          BY <3>4, <4>1, <4>3 DEF CountAlone
    <3>6. Right(k, reg, latch', wavesize)
        BY <1>2, <2>1, <3>4, <3>5, CountGoes
    <3> QED
        BY <1>2, <3>4, <3>6, LeadsRight DEF JobsAre
  <2> QED
      BY <1>8, <2>2, <2>3
<1> QED
    BY <1>6, <1>7, <1>8

\* The flag changes nothing of the board.
LEMMA FlagKeeps ==
    ASSUME AdInv, NEW t \in Clients, Flag(t) PROVE JobsAre(reg, latch, wavesize)
<1>1. PICK s \in {"poll", "take", "release"} : At(t, s)
    BY DEF Flag
<1> DEFINE j == job[t]
           k == [job[t] EXCEPT !.todo = Tail(@)]
           n == Len(j.todo)
<1>2. /\ j \in Jobs /\ j.todo # << >> /\ Lengths(j) /\ Head(j.todo) = s /\ n \in Nat \ {0}
      /\ j.cmd \in Cmds /\ j.cmd.c # "none" /\ Suffix(j.todo, j.cmd) /\ j.todo \in Seq(DeviceCalls)
      /\ Right(j, reg, latch, wavesize)
    BY <1>1, Calls DEF Right
<1>3. IF Tail(j.todo) = << >> THEN Done(t, 1) ELSE Go(t, j)
    BY DEF Flag
<1>4. CASE Tail(j.todo) = << >>
    BY <1>3, <1>4, EndingKeeps
<1>5. CASE Tail(j.todo) # << >>
  <2>1. /\ k \in Jobs /\ Suffix(k.todo, k.cmd) /\ Leads(t, k) /\ k.cmd = j.cmd
        /\ Len(k.todo) = n - 1 /\ (k.todo = << >> <=> n = 1) /\ k.todo = Tail(j.todo)
        /\ k.n = j.n /\ k.at = j.at /\ k.size = j.size /\ k.left = j.left
        /\ k.cos = j.cos /\ k.sin = j.sin /\ k.alone = j.alone
    <3>1. k.todo = Tail(j.todo)
        BY <1>2 DEF Jobs
    <3> QED
        BY <1>2, <1>3, <1>5, <3>1, Going
  <2>2. IsRead(j.cmd)
      BY <1>2, StartCalls, OtherCalls
  <2>3. n \in {10, 9, 6, 5, 4}
    <3>1. /\ n \in {10, 5} <=> s = "poll"
          /\ n \in {9, 4} <=> s = "take"
          /\ n \in {6, 1} <=> s = "release"
        BY <1>2, <2>2, ReadCalls
    <3>2. n # 1
        BY <1>5, <2>1
    <3> QED
        BY <3>1, <3>2
  <2> HIDE DEF j, k, n
  <2>4. ASSUME j.alone PROVE ReadAlone(k, reg, latch, wavesize)
    <3>1. ReadAlone(j, reg, latch, wavesize)
        BY <1>2, <2>2, <2>4 DEF Right, Undisturbed
    <3> DEFINE m == Len(k.todo)
    <3> HIDE DEF m
    <3>2. /\ n <= 12 /\ n \in 2 .. 10 /\ n # 7 /\ n # 2 /\ m # 7 /\ m # 2 /\ m < 13
          /\ (m \in 7 .. 11 => n \in 7 .. 11) /\ n <= 13
        BY <2>1, <2>3 DEF m
    <3>3. /\ j.n = j.size /\ ~reg.on /\ (n \in 7 .. 11 => reg.cos = j.at + Len(j.cos))
          /\ reg.sin = j.at + Len(j.sin)
          /\ Samples1(j.cos, "cos", j.at, reg.acq) /\ Samples1(j.sin, "sin", j.at, reg.acq)
        BY <3>1, <3>2 DEF ReadAlone, n
    <3>4. ~(m >= 14)
        BY <2>1, <2>3 DEF m
    <3> QED
        BY <2>1, <3>2, <3>3, <3>4 DEF ReadAlone, m
  <2>5. Right(k, reg, latch, wavesize)
      BY <1>2, <2>1, <2>2, <2>3, <2>4, ReadGoes DEF n
  <2> QED
      BY <1>2, <2>1, <2>5, LeadsRight DEF JobsAre
<1> QED
    BY <1>4, <1>5

\* The port is the one of the channel, with nothing stored of it.
LEMMA SelectKeeps ==
    ASSUME AdInv, NEW t \in Clients, Select(t) PROVE JobsAre(reg, latch', wavesize)
<1>1. PICK ch \in Channels : At(t, ch) /\ latch' = ch
    BY DEF Select
<1> DEFINE j == job[t]
           i == [job[t] EXCEPT !.left = job[t].size]
           k == [i EXCEPT !.todo = Tail(@)]
           n == Len(j.todo)
<1>2. /\ j \in Jobs /\ j.todo # << >> /\ Lengths(j) /\ Head(j.todo) = ch /\ n \in Nat \ {0}
      /\ j.cmd \in Cmds /\ j.cmd.c # "none" /\ Suffix(j.todo, j.cmd) /\ j.todo \in Seq(DeviceCalls)
      /\ Right(j, reg, latch, wavesize)
    BY <1>1, Calls DEF Right
<1>3. IsRead(j.cmd)
    BY <1>2, StartCalls, OtherCalls DEF Channels
<1>4. \/ n = 8 /\ ch = "cos"
      \/ n = 3 /\ ch = "sin"
    BY <1>2, <1>3, ReadCalls DEF Channels
<1>5. Go(t, i)
    BY DEF Select
<1>6. /\ i \in Jobs /\ i.todo = j.todo /\ i.cmd = j.cmd /\ i.at = j.at /\ i.size = j.size
      /\ i.n = j.n /\ i.left = j.size /\ i.cos = j.cos /\ i.sin = j.sin /\ i.alone = j.alone
    BY <1>2 DEF Jobs
<1> HIDE DEF i
<1>7. /\ k \in Jobs /\ Suffix(k.todo, k.cmd) /\ Leads(t, k) /\ k.cmd = j.cmd
      /\ Len(k.todo) = n - 1
      /\ k.n = j.n /\ k.at = j.at /\ k.size = j.size /\ k.left = j.size
      /\ k.cos = j.cos /\ k.sin = j.sin /\ k.alone = j.alone
    BY <1>2, <1>5, <1>6, Going
<1> HIDE DEF j, k, n
<1>8. Lengths(k)
  <2>1. j.sin = << >> /\ Len(j.sin) = 0 /\ (n = 8 => j.cos = << >> /\ Len(j.cos) = 0)
    <3>1. n >= 3 /\ (n = 8 => n >= 8)
        BY <1>4
    <3> QED
        BY <1>2, <1>3, <3>1 DEF Lengths, n
  <2>2. /\ j.cmd.c = "readmemoryb" => j.n = j.cmd.n
        /\ n = 3 => Len(j.cos) = j.size
        /\ Len(j.cos) <= j.size
    <3>1. n = 3 => n \in 1 .. 6
        OBVIOUS
    <3> QED
        BY <1>2, <1>3, <3>1 DEF Lengths, n
  <2>3. j.size \in Nat
      BY <1>2 DEF Jobs
  <2>4. \/ Len(k.todo) = 7 /\ n = 8
        \/ Len(k.todo) = 2 /\ n = 3
      BY <1>4, <1>7
  <2>5. CASE Len(k.todo) = 7 /\ n = 8
      BY <1>3, <1>7, <2>1, <2>2, <2>3, <2>5 DEF Lengths
  <2>6. CASE Len(k.todo) = 2 /\ n = 3
      BY <1>3, <1>7, <2>1, <2>2, <2>3, <2>6 DEF Lengths
  <2> QED
      BY <2>4, <2>5, <2>6
<1>9. ASSUME j.alone PROVE ReadAlone(k, reg, latch', wavesize)
  <2>1. ReadAlone(j, reg, latch, wavesize)
      BY <1>2, <1>3, <1>9 DEF Right, Undisturbed
  <2>2. /\ j.n = j.size /\ ~reg.on /\ (n = 8 => reg.cos = j.at + Len(j.cos))
        /\ reg.sin = j.at + Len(j.sin)
        /\ Samples1(j.cos, "cos", j.at, reg.acq) /\ Samples1(j.sin, "sin", j.at, reg.acq)
    <3>1. n <= 13 /\ n <= 12 /\ n \in 2 .. 10 /\ (n = 8 => n \in 7 .. 11)
        BY <1>4
    <3> QED
        BY <2>1, <3>1 DEF ReadAlone, n
  <2>3. n = 8 \/ n = 3
      BY <1>4
  <2> QED
      BY <1>1, <1>4, <1>7, <2>2, <2>3 DEF ReadAlone
<1>10. Right(k, reg, latch', wavesize)
    BY <1>2, <1>3, <1>7, <1>8, <1>9 DEF Right, Undisturbed, IsRead
<1> QED
    BY <1>2, <1>7, <1>10, LeadsRight DEF JobsAre

\* A block from the port of the board.
LEMMA PortFacts ==
    ASSUME Typed, NEW m \in 0 .. Block
    PROVE  LET b == SubSeq(Port, 1, m)
           IN  /\ b \in Seq(Samples) /\ Len(b) = m
               /\ latch \in Channels =>
                     \A i \in 1 .. m : b[i] = [ch |-> latch, at |-> reg[latch] + i - 1, acq |-> reg.acq]
<1>1. Block \in Nat \ {0} /\ reg \in Regs /\ latch \in Channels \union {"status", "count"}
    BY AdAssumption DEF Typed
<1>2. latch \in Channels => reg[latch] \in Nat
    BY <1>1 DEF Channels, Regs
<1>3. reg.acq \in Nat
    BY <1>1 DEF Regs
<1>4. ASSUME NEW i \in 1 .. Block
      PROVE  /\ Port[i] \in Samples
             /\ latch \in Channels => Port[i] = [ch |-> latch, at |-> reg[latch] + i - 1, acq |-> reg.acq]
  <2>1. CASE latch \in Channels
    <3>1. reg[latch] + i - 1 \in Nat
        BY <1>1, <1>2, <2>1
    <3>2. Port[i] = [ch |-> latch, at |-> reg[latch] + i - 1, acq |-> reg.acq]
        BY <2>1 DEF Port
    <3> QED
        BY <1>3, <2>1, <3>1, <3>2 DEF Samples
  <2>2. CASE latch \notin Channels
    <3>1. Port[i] = [ch |-> latch, at |-> 0, acq |-> 0]
        BY <2>2 DEF Port
    <3> QED
        BY <1>1, <2>2, <3>1 DEF Samples
  <2> QED
      BY <2>1, <2>2
<1>5. Port \in [1 .. Block -> Samples]
  <2>1. DOMAIN Port = 1 .. Block /\ Port = [i \in 1 .. Block |-> Port[i]]
      BY DEF Port
  <2> QED
      BY <1>4, <2>1
<1>6. Port \in Seq(Samples) /\ Len(Port) = Block
    BY <1>1, <1>5, LenProperties
<1> QED
    BY <1>1, <1>4, <1>6, SubSeqProperties

\* A block that follows the samples that are stored.
LEMMA Samples1Joined ==
    ASSUME NEW s \in Seq(Samples), NEW b \in Seq(Samples), NEW ch, NEW at \in Nat, NEW acq,
           Samples1(s, ch, at, acq),
           \A i \in 1 .. Len(b) : b[i] = [ch |-> ch, at |-> at + Len(s) + i - 1, acq |-> acq]
    PROVE  Samples1(s \o b, ch, at, acq)
<1>1. /\ Len(s) \in Nat /\ Len(b) \in Nat /\ Len(s \o b) = Len(s) + Len(b)
      /\ \A i \in 1 .. Len(s) + Len(b) :
            (s \o b)[i] = IF i <= Len(s) THEN s[i] ELSE b[i - Len(s)]
    OBVIOUS
<1> SUFFICES ASSUME NEW i \in 1 .. Len(s) + Len(b)
             PROVE  (s \o b)[i] = [ch |-> ch, at |-> at + i - 1, acq |-> acq]
    BY <1>1 DEF Samples1
<1>2. CASE i <= Len(s)
    BY <1>1, <1>2 DEF Samples1
<1>3. CASE ~(i <= Len(s))
  <2>1. i - Len(s) \in 1 .. Len(b) /\ at + Len(s) + (i - Len(s)) - 1 = at + i - 1
      BY <1>1, <1>3
  <2>2. b[i - Len(s)] = [ch |-> ch, at |-> at + Len(s) + (i - Len(s)) - 1, acq |-> acq]
      BY <2>1
  <2> QED
      BY <1>1, <1>3, <2>1, <2>2
<1> QED
    BY <1>2, <1>3

\* What a block does to what is stored and to what is left.
LEMMA BlockFacts ==
    ASSUME Typed, NEW left \in Nat
    PROVE  /\ Used(left) \in 0 .. Block /\ Used(left) <= left
           /\ (More(left) => Used(left) = Block)
           /\ (~More(left) => Used(left) = left)
BY AdAssumption DEF Used, Min2, More

\* The addresses behind a block.
LEMMA Moved ==
    ASSUME NEW stored \in Nat, NEW left \in Nat, NEW size, stored + left = size,
           NEW u \in Nat, u <= left
    PROVE  /\ (stored + u) + (left - u) = size /\ left - u <= size /\ stored + u <= size
           /\ u = left => stored + u = size
OBVIOUS

\* A block of the own port goes on where the last one ended, and the last part
\* of the wave fills the buffer.
LEMMA CopyKeeps ==
    ASSUME AdInv, NEW t \in Clients, Copy(t) PROVE JobsAre(reg', latch, wavesize)
<1> DEFINE j == job[t]
           n == Len(j.todo)
           u == Used(j.left)
           b == SubSeq(Port, 1, u)
<1>1. PICK ch \in Channels :
         /\ At(t, Copying[ch])
         /\ LET now == [j EXCEPT ![ch] = @ \o b, !.left = @ - Used(@)]
            IN  IF More(j.left) THEN Leads(t, now) ELSE Go(t, now)
    BY DEF Copy, Leads
<1>2. /\ j \in Jobs /\ j.todo # << >> /\ Lengths(j) /\ Head(j.todo) = Copying[ch] /\ n \in Nat \ {0}
      /\ j.cmd \in Cmds /\ j.cmd.c # "none" /\ Suffix(j.todo, j.cmd) /\ j.todo \in Seq(DeviceCalls)
      /\ Right(j, reg, latch, wavesize)
    BY <1>1, Calls DEF Right
<1>3. IsRead(j.cmd)
    BY <1>2, StartCalls, OtherCalls DEF Channels, Copying
<1>4. \/ n = 7 /\ ch = "cos"
      \/ n = 2 /\ ch = "sin"
    BY <1>2, <1>3, ReadCalls DEF Channels, Copying
<1>5. j.left \in Nat /\ j.size \in Nat /\ j.at \in Nat /\ j.cos \in Seq(Samples) /\ j.sin \in Seq(Samples)
    BY <1>2 DEF Jobs
<1>6. /\ u \in 0 .. Block /\ u <= j.left /\ (More(j.left) => u = Block /\ j.left > Block)
      /\ (~More(j.left) => u = j.left)
    BY <1>5, BlockFacts DEF AdInv, More
<1>7. /\ b \in Seq(Samples) /\ Len(b) = u
      /\ latch \in Channels =>
            \A i \in 1 .. u : b[i] = [ch |-> latch, at |-> reg[latch] + i - 1, acq |-> reg.acq]
    BY <1>6, PortFacts DEF AdInv
<1>8. /\ reg \in Regs /\ Block \in Nat \ {0}
      /\ reg' = IF latch \in Channels THEN [reg EXCEPT ![latch] = @ + Block] ELSE reg
    BY AdAssumption DEF Copy, AdInv, Typed
<1> DEFINE now == [j EXCEPT ![ch] = @ \o b, !.left = @ - u]
           k == IF More(j.left) THEN now ELSE [now EXCEPT !.todo = Tail(@)]
<1>9. /\ now \in Jobs /\ now.todo = j.todo /\ now.cmd = j.cmd /\ now.n = j.n /\ now.at = j.at
      /\ now.size = j.size /\ now.left = j.left - u /\ now.alone = j.alone
      /\ now.cos = IF ch = "cos" THEN j.cos \o b ELSE j.cos
      /\ now.sin = IF ch = "sin" THEN j.sin \o b ELSE j.sin
  <2>0. j.left - u \in Nat
      BY <1>5, <1>6
  <2> HIDE DEF j, b, u
  <2>1. CASE ch = "cos"
    <3>1. j.cos \o b \in Seq(Samples)
        BY <1>5, <1>7
    <3>2. now = [j EXCEPT !.cos = j.cos \o b, !.left = j.left - u]
        BY <1>2, <2>1 DEF Jobs
    <3> QED
        BY <1>2, <2>0, <2>1, <3>1, <3>2 DEF Jobs
  <2>2. CASE ch = "sin"
    <3>1. j.sin \o b \in Seq(Samples)
        BY <1>5, <1>7
    <3>2. now = [j EXCEPT !.sin = j.sin \o b, !.left = j.left - u]
        BY <1>2, <2>2 DEF Jobs
    <3> QED
        BY <1>2, <2>0, <2>2, <3>1, <3>2 DEF Jobs
  <2> QED
      BY <2>1, <2>2 DEF Channels
<1> HIDE DEF now
<1>10. /\ k \in Jobs /\ Suffix(k.todo, k.cmd) /\ Leads(t, k) /\ k.cmd = j.cmd
       /\ Len(k.todo) = (IF More(j.left) THEN n ELSE n - 1)
       /\ k.n = j.n /\ k.at = j.at /\ k.size = j.size /\ k.left = j.left - u
       /\ k.alone = j.alone /\ k.cos = now.cos /\ k.sin = now.sin
  <2>1. CASE More(j.left)
    <3>1. Leads(t, now)
        BY <1>1, <2>1 DEF now
    <3> QED
        BY <1>2, <1>9, <2>1, <3>1
  <2>2. CASE ~More(j.left)
    <3>1. Go(t, now)
        BY <1>1, <2>2 DEF now
    <3>2. k = [now EXCEPT !.todo = Tail(@)]
        BY <2>2
    <3> HIDE DEF k
    <3> QED
        BY <1>2, <1>9, <2>2, <3>1, <3>2, Going
  <2> QED
      BY <2>1, <2>2
<1>11. Len(j.cos) \in Nat /\ Len(j.sin) \in Nat /\ u \in Nat
    BY <1>5, <1>6, AdAssumption
<1>12. /\ Len(now.cos) = IF ch = "cos" THEN Len(j.cos) + u ELSE Len(j.cos)
       /\ Len(now.sin) = IF ch = "sin" THEN Len(j.sin) + u ELSE Len(j.sin)
    BY <1>5, <1>7, <1>9
<1> DEFINE m == Len(k.todo)
<1> HIDE DEF j, k, n, m, u, b
<1>13. Lengths(k)
  <2>1. CASE n = 7 /\ ch = "cos"
    <3>1. j.sin = << >> /\ Len(j.cos) + j.left = j.size
        BY <1>2, <1>3, <2>1 DEF Lengths, n
    <3>2. k.sin = << >> /\ Len(k.sin) = 0 /\ Len(k.cos) = Len(j.cos) + u
        BY <1>9, <1>10, <1>12, <2>1, <3>1
    <3>3. m = 7 \/ (m = 6 /\ u = j.left)
        BY <1>6, <1>10, <2>1 DEF m
    <3>4. Len(k.cos) + k.left = k.size /\ k.left <= k.size /\ Len(k.cos) <= k.size
          /\ (m = 6 => Len(k.cos) = k.size)
      <4>1. k.left = j.left - u /\ k.size = j.size /\ u <= j.left /\ (m = 6 => u = j.left)
          BY <1>6, <1>10, <3>3
      <4>2. /\ (Len(j.cos) + u) + (j.left - u) = j.size /\ j.left - u <= j.size
            /\ Len(j.cos) + u <= j.size /\ (u = j.left => Len(j.cos) + u = j.size)
        <5>1. j.left \in Nat /\ u \in Nat /\ u <= j.left
            BY <1>5, <1>11, <4>1
        <5>2. Len(j.cos) \in Nat /\ Len(j.cos) + j.left = j.size
            BY <1>11, <3>1
        <5>3. (Len(j.cos) + u) + (j.left - u) = j.size
            BY <5>1, <5>2, Moved
        <5>4. j.left - u <= j.size
            BY <5>1, <5>2, Moved
        <5> QED
            BY <5>1, <5>2, <5>3, <5>4, Moved
      <4> QED
          BY <3>2, <4>1, <4>2
    <3>5. j.cmd.c = "readmemoryb" => k.n = k.cmd.n
        BY <1>2, <1>3, <1>10 DEF Lengths
    <3> QED
        BY <1>3, <1>5, <1>10, <3>2, <3>3, <3>4, <3>5 DEF Lengths, m
  <2>2. CASE n = 2 /\ ch = "sin"
    <3>1. Len(j.cos) = j.size /\ Len(j.sin) + j.left = j.size
        BY <1>2, <1>3, <2>2 DEF Lengths, n
    <3>2. Len(k.cos) = k.size /\ Len(k.sin) = Len(j.sin) + u
        BY <1>9, <1>10, <1>12, <2>2, <3>1
    <3>3. m = 2 \/ (m = 1 /\ u = j.left)
        BY <1>6, <1>10, <2>2 DEF m
    <3>4. Len(k.sin) + k.left = k.size /\ k.left <= k.size /\ Len(k.sin) <= k.size
          /\ (m = 1 => Len(k.sin) = k.size)
      <4>1. k.left = j.left - u /\ k.size = j.size /\ u <= j.left /\ (m = 1 => u = j.left)
          BY <1>6, <1>10, <3>3
      <4>2. /\ (Len(j.sin) + u) + (j.left - u) = j.size /\ j.left - u <= j.size
            /\ Len(j.sin) + u <= j.size /\ (u = j.left => Len(j.sin) + u = j.size)
        <5>1. j.left \in Nat /\ u \in Nat /\ u <= j.left
            BY <1>5, <1>11, <4>1
        <5>2. Len(j.sin) \in Nat /\ Len(j.sin) + j.left = j.size
            BY <1>11, <3>1
        <5>3. (Len(j.sin) + u) + (j.left - u) = j.size
            BY <5>1, <5>2, Moved
        <5>4. j.left - u <= j.size
            BY <5>1, <5>2, Moved
        <5> QED
            BY <5>1, <5>2, <5>3, <5>4, Moved
      <4> QED
          BY <3>2, <4>1, <4>2
    <3>5. j.cmd.c = "readmemoryb" => k.n = k.cmd.n
        BY <1>2, <1>3, <1>10 DEF Lengths
    <3> QED
        BY <1>3, <1>5, <1>10, <3>2, <3>3, <3>4, <3>5 DEF Lengths, m
  <2> QED
      BY <1>4, <2>1, <2>2
<1>14. ASSUME j.alone PROVE ReadAlone(k, reg', latch, wavesize)
  <2>1. ReadAlone(j, reg, latch, wavesize)
      BY <1>2, <1>3, <1>14 DEF Right, Undisturbed
  <2>2. /\ j.n = j.size /\ ~reg.on /\ latch = ch /\ (n = 7 => reg.cos = j.at + Len(j.cos))
        /\ reg.sin = j.at + Len(j.sin)
        /\ Samples1(j.cos, "cos", j.at, reg.acq) /\ Samples1(j.sin, "sin", j.at, reg.acq)
    <3>1. n <= 13 /\ n <= 12 /\ n \in 2 .. 10 /\ (n = 7 => n \in 7 .. 11)
        BY <1>4
    <3> QED
        BY <1>4, <2>1, <3>1 DEF ReadAlone, n
  <2>3. /\ latch \in Channels /\ reg'.on = reg.on /\ reg'.acq = reg.acq
        /\ reg'.cos = (IF ch = "cos" THEN reg.cos + Block ELSE reg.cos)
        /\ reg'.sin = (IF ch = "sin" THEN reg.sin + Block ELSE reg.sin)
      BY <1>4, <1>8, <2>2 DEF Channels, Regs
  <2>4. \A i \in 1 .. Len(b) : b[i] = [ch |-> ch, at |-> reg[ch] + i - 1, acq |-> reg.acq]
      BY <1>7, <2>2, <2>3
  <2>5. CASE n = 7 /\ ch = "cos"
    <3>1. \A i \in 1 .. Len(b) : b[i] = [ch |-> "cos", at |-> j.at + Len(j.cos) + i - 1, acq |-> reg.acq]
        BY <2>2, <2>4, <2>5
    <3>2. Samples1(k.cos, "cos", k.at, reg'.acq)
      <4>1. Samples1(j.cos \o b, "cos", j.at, reg.acq)
          BY <1>5, <1>7, <2>2, <3>1, Samples1Joined
      <4> QED
          BY <1>9, <1>10, <2>3, <2>5, <4>1
    <3>3. Samples1(k.sin, "sin", k.at, reg'.acq) /\ reg'.sin = k.at + Len(k.sin)
        BY <1>9, <1>10, <2>2, <2>3, <2>5
    <3>4. \/ m = 7 /\ u = Block
          \/ m = 6
        BY <1>6, <1>10, <2>5 DEF m
    <3>5. m = 7 => reg'.cos = k.at + Len(k.cos)
        BY <1>5, <1>8, <1>9, <1>10, <1>11, <1>12, <2>2, <2>3, <2>5, <3>4
    <3>6. k.n = k.size /\ ~reg'.on /\ latch = "cos"
        BY <1>10, <2>2, <2>3, <2>5
    <3>7. m \notin 8 .. 15 /\ m # 2 /\ ~(m >= 14) /\ (m \in 7 .. 11 => m = 7)
        BY <3>4
    <3> QED
        BY <3>2, <3>3, <3>5, <3>6, <3>7 DEF ReadAlone, m
  <2>6. CASE n = 2 /\ ch = "sin"
    <3>1. \A i \in 1 .. Len(b) : b[i] = [ch |-> "sin", at |-> j.at + Len(j.sin) + i - 1, acq |-> reg.acq]
        BY <2>2, <2>4, <2>6
    <3>2. Samples1(k.sin, "sin", k.at, reg'.acq)
      <4>1. Samples1(j.sin \o b, "sin", j.at, reg.acq)
          BY <1>5, <1>7, <2>2, <3>1, Samples1Joined
      <4> QED
          BY <1>9, <1>10, <2>3, <2>6, <4>1
    <3>3. Samples1(k.cos, "cos", k.at, reg'.acq)
        BY <1>9, <1>10, <2>2, <2>3, <2>6
    <3>4. \/ m = 2 /\ u = Block
          \/ m = 1
        BY <1>6, <1>10, <2>6 DEF m
    <3>5. m = 2 => reg'.sin = k.at + Len(k.sin)
        BY <1>5, <1>8, <1>9, <1>10, <1>11, <1>12, <2>2, <2>3, <2>6, <3>4
    <3>6. k.n = k.size /\ ~reg'.on /\ latch = "sin"
        BY <1>10, <2>2, <2>3, <2>6
    <3>7. m # 7 /\ m \notin 7 .. 11 /\ ~(m >= 14) /\ (m \in 2 .. 10 => m = 2)
        BY <3>4
    <3> QED
        BY <3>2, <3>3, <3>5, <3>6, <3>7 DEF ReadAlone, m
  <2> QED
      BY <1>4, <2>5, <2>6
<1>15. Right(k, reg', latch, wavesize)
    BY <1>2, <1>3, <1>10, <1>13, <1>14 DEF Right, Undisturbed, IsRead
<1> QED
    BY <1>2, <1>10, <1>15, LeadsRight DEF JobsAre

\* The clock that a setsamplefreq stores fits in its registers.
LEMMA ClockFits ==
    ASSUME NEW f \in Nat PROVE Divider(f) \in 0 .. 255 /\ Prescaler(f) \in Prescalers
<1>0. BoardFreq \in Nat
    BY BoardAssumption
<1>1. Chosen(f).n \in Int /\ Chosen(f).p \in Prescalers
  <2>1. CASE f = 0
      BY <2>1 DEF Chosen, Prescalers, IntMin
  <2>2. CASE f > BoardFreq
      BY <1>0, <2>2 DEF Chosen, Prescalers
  <2>3. CASE f \in 1 .. BoardFreq /\ \E p \in Prescalers : Enough(f, p)
    <3> DEFINE p == CHOOSE q \in Prescalers : First(f, q)
    <3>1. p \in Prescalers
        BY <2>3, FirstExists
    <3>2. f # 0 /\ ~(f > BoardFreq) /\ f \in Nat \ {0}
        BY <1>0, <2>3
    <3>3. Chosen(f) = [n |-> Quotient(f, p), p |-> p]
        BY <2>3, <3>2 DEF Chosen
    <3> HIDE DEF p
    <3>4. Quotient(f, p) \in Nat
        BY <3>1, <3>2, QuotientMeans
    <3> QED
        BY <3>1, <3>3, <3>4
  <2>4. CASE f \in 1 .. BoardFreq /\ ~\E p \in Prescalers : Enough(f, p)
    <3>1. f # 0 /\ ~(f > BoardFreq)
        BY <1>0, <2>4
    <3>2. Chosen(f) = [n |-> 255, p |-> 7]
        BY <2>4, <3>1 DEF Chosen
    <3> QED
        BY <3>2 DEF Prescalers
  <2>5. f = 0 \/ f > BoardFreq \/ f \in 1 .. BoardFreq
      BY <1>0
  <2> QED
      BY <2>1, <2>2, <2>3, <2>4, <2>5
<1> QED
    BY <1>1 DEF Divider, Prescaler

\* The four steps of a setsamplefreq, by the calls that it has left.
LEMMA Frequencies ==
    ASSUME AdInv, NEW t \in Clients, Frequency(t)
    PROVE  LET n == Len(job[t].todo)
               f == job[t].cmd.f
           IN  /\ job[t].cmd.c = "setsamplefreq" /\ f \in Nat /\ job[t].todo # << >>
               /\ \/ n = 4 /\ divide_n' = Divider(f) /\ UNCHANGED <<prescaler, halted>> /\ Go(t, job[t])
                  \/ n = 3 /\ prescaler' = Prescaler(f) /\ UNCHANGED <<divide_n, halted>> /\ Go(t, job[t])
                  \/ /\ n = 2 /\ UNCHANGED <<divide_n, prescaler, halted>>
                     /\ Go(t, [job[t] EXCEPT !.res = divide_n])
                  \/ /\ n = 1 /\ UNCHANGED <<divide_n, prescaler>>
                     /\ \/ halted' = TRUE /\ UNCHANGED job
                        \/ /\ SampleFreq(job[t].res, prescaler) # Crash /\ UNCHANGED halted
                           /\ Done(t, SampleFreq(job[t].res, prescaler))
<1>1. PICK s \in {"divide", "prescale", "load", "answer"} : At(t, s)
    BY DEF Frequency
<1>2. /\ job[t] \in Jobs /\ job[t].todo \in Seq(DeviceCalls) /\ job[t].todo # << >>
      /\ Head(job[t].todo) = s /\ job[t].cmd \in Cmds /\ job[t].cmd.c # "none"
      /\ Suffix(job[t].todo, job[t].cmd)
    BY <1>1, Calls
<1> DEFINE n == Len(job[t].todo)
<1>3. /\ job[t].cmd.c = "setsamplefreq" /\ n \in 1 .. 4
      /\ n = 4 <=> s = "divide"
      /\ n = 3 <=> s = "prescale"
      /\ n = 2 <=> s = "load"
      /\ n = 1 <=> s = "answer"
  <2>1. ~IsRead(job[t].cmd) /\ job[t].cmd.c # "startad"
      BY <1>2, ReadCalls, StartCalls
  <2> QED
      BY <1>2, <2>1, OtherCalls
<1>4. job[t].cmd.f \in Nat
    BY <1>2, <1>3, CmdFacts
<1>5. \/ /\ s = "divide" /\ divide_n' = Divider(job[t].cmd.f) /\ UNCHANGED <<prescaler, halted>>
         /\ Go(t, job[t])
      \/ /\ s = "prescale" /\ prescaler' = Prescaler(job[t].cmd.f) /\ UNCHANGED <<divide_n, halted>>
         /\ Go(t, job[t])
      \/ /\ s = "load" /\ UNCHANGED <<divide_n, prescaler, halted>>
         /\ Go(t, [job[t] EXCEPT !.res = divide_n])
      \/ /\ s = "answer" /\ UNCHANGED <<divide_n, prescaler>>
         /\ \/ halted' = TRUE /\ UNCHANGED job
            \/ /\ SampleFreq(job[t].res, prescaler) # Crash /\ UNCHANGED halted
               /\ Done(t, SampleFreq(job[t].res, prescaler))
    BY <1>1 DEF Frequency, At, clock
<1> HIDE DEF n
<1>6. /\ s = "divide" => n = 4
      /\ s = "prescale" => n = 3
      /\ s = "load" => n = 2
      /\ s = "answer" => n = 1
    BY <1>3
<1> QED
    BY <1>2, <1>3, <1>4, <1>5, <1>6 DEF n

\* What the two members make of the clock.
LEMMA FreqTyped ==
    ASSUME NEW d \in Nat, NEW p \in Prescalers PROVE SampleFreq(d, p) \in Int
<1>1. CASE d = 0
    BY <1>1 DEF SampleFreq, Crash
<1>2. CASE d # 0
  <2>1. Shift[p + 1] \in Nat \ {0} /\ BoardFreq \in Nat /\ d \in Nat \ {0}
      BY <1>2, Shifts, BoardAssumption
  <2>2. d * Shift[p + 1] \in Nat \ {0}
      BY <2>1
  <2>3. BoardFreq \div (d * Shift[p + 1]) \in Nat
      BY <2>1, <2>2, QuotientBounds
  <2> QED
      BY <1>2, <2>3 DEF SampleFreq
<1> QED
    BY <1>1, <1>2

\* SetSampleFreq touches the clock alone.
LEMMA FreqKeeps ==
    ASSUME AdInv, NEW t \in Clients, Frequency(t)
    PROVE  /\ JobsAre(reg, latch, wavesize)
           /\ divide_n' \in 0 .. 255 /\ prescaler' \in Prescalers /\ halted' \in BOOLEAN
<1> DEFINE j == job[t]
           n == Len(j.todo)
           f == j.cmd.f
           g == SampleFreq(j.res, prescaler)
<1>1. /\ j.cmd.c = "setsamplefreq" /\ f \in Nat /\ j.todo # << >>
      /\ \/ n = 4 /\ divide_n' = Divider(f) /\ UNCHANGED <<prescaler, halted>> /\ Go(t, j)
         \/ n = 3 /\ prescaler' = Prescaler(f) /\ UNCHANGED <<divide_n, halted>> /\ Go(t, j)
         \/ /\ n = 2 /\ UNCHANGED <<divide_n, prescaler, halted>>
            /\ Go(t, [j EXCEPT !.res = divide_n])
         \/ /\ n = 1 /\ UNCHANGED <<divide_n, prescaler>>
            /\ \/ halted' = TRUE /\ UNCHANGED job
               \/ g # Crash /\ UNCHANGED halted /\ Done(t, g)
    BY Frequencies
<1>2. j \in Jobs /\ Lengths(j) /\ j.cmd.c = "setsamplefreq" /\ ~IsRead(j.cmd)
    BY <1>1 DEF AdInv, Typed, Right, IsRead
<1>3. divide_n \in 0 .. 255 /\ prescaler \in Prescalers /\ halted \in BOOLEAN
    BY DEF AdInv, Typed
<1>4. Divider(f) \in 0 .. 255 /\ Prescaler(f) \in Prescalers
    BY <1>1, ClockFits
\* A step that goes on.
<1>5. ASSUME NEW i \in Jobs, i.todo = j.todo, i.cmd = j.cmd, i.size = j.size, i.left = j.left,
             i.cos = j.cos, i.sin = j.sin, n # 2 \/ i.res \in Nat, Go(t, i), n # 1
      PROVE  JobsAre(reg, latch, wavesize)
  <2> DEFINE k == [i EXCEPT !.todo = Tail(@)]
  <2>1. /\ k \in Jobs /\ Suffix(k.todo, k.cmd) /\ Len(k.todo) = n - 1 /\ Leads(t, k)
        /\ k.cmd = j.cmd /\ k.size = j.size /\ k.left = j.left
        /\ k.cos = j.cos /\ k.sin = j.sin /\ k.res = i.res
      BY <1>1, <1>5, Going
  <2>2. n \in Nat /\ (n # 2 \/ i.res \in Nat)
      BY <1>1, <1>5
  <2> DEFINE m == Len(k.todo)
             r == k.res
  <2>a. m = n - 1 /\ r = i.res
      BY <2>1
  <2> HIDE DEF k, n, j, m, r
  <2>b. m = 1 => r \in Nat
    <3>1. m = 1 => n = 2
        BY <2>2, <2>a
    <3> QED
        BY <2>2, <2>a, <3>1
  <2>3. Len(k.todo) = 1 => k.res \in Nat
      BY <2>b DEF m, r
  <2>4. Right(k, reg, latch, wavesize)
      BY <1>2, <2>1, <2>3, PlainRight
  <2> QED
      BY <2>1, <2>4, LeadsRight DEF JobsAre
<1>6. CASE n \in {3, 4}
  <2>0. n # 2 /\ n # 1
      BY <1>6
  <2>1. Go(t, j) /\ n # 2 /\ n # 1
    <3> HIDE DEF n, j
    <3> QED
        BY <1>1, <1>6, <2>0
  <2>2. JobsAre(reg, latch, wavesize)
    <3> HIDE DEF n
    <3> QED
        BY <1>2, <1>5, <2>1
  <2> QED
      BY <1>1, <1>3, <1>4, <1>6, <2>2
<1>7. CASE n = 2
  <2> DEFINE i == [j EXCEPT !.res = divide_n]
  <2>1. Go(t, i) /\ UNCHANGED <<divide_n, prescaler, halted>>
      BY <1>1, <1>7
  <2>2. /\ i \in Jobs /\ i.todo = j.todo /\ i.cmd = j.cmd /\ i.size = j.size /\ i.left = j.left
        /\ i.cos = j.cos /\ i.sin = j.sin /\ i.res \in Nat
    <3>1. divide_n \in Nat /\ divide_n \in Int
        BY <1>3
    <3> HIDE DEF j
    <3>2. /\ i \in Jobs /\ i.todo = j.todo /\ i.cmd = j.cmd /\ i.size = j.size
          /\ i.left = j.left /\ i.cos = j.cos /\ i.sin = j.sin /\ i.res = divide_n
        BY <1>2, <3>1 DEF Jobs
    <3> QED
        BY <3>1, <3>2
  <2> HIDE DEF i, n, j
  <2>3. JobsAre(reg, latch, wavesize)
      BY <1>5, <1>7, <2>1, <2>2
  <2> QED
      BY <1>3, <2>1, <2>3
<1>8. CASE n = 1
  <2>1. UNCHANGED <<divide_n, prescaler>>
      BY <1>1, <1>8
  <2>2. j.res \in Nat
      BY <1>2, <1>8 DEF Lengths
  <2>3. g \in Int
      BY <1>3, <2>2, FreqTyped
  <2>4. CASE halted' = TRUE /\ UNCHANGED job
      BY <1>3, <2>1, <2>4 DEF JobsAre, AdInv, Typed
  <2>5. CASE UNCHANGED halted /\ Done(t, g)
    <3> HIDE DEF g
    <3> QED
        BY <1>3, <2>1, <2>3, <2>5, EndingKeeps
  <2>6. (halted' = TRUE /\ UNCHANGED job) \/ (UNCHANGED halted /\ Done(t, g))
    <3> HIDE DEF n, j, g, f
    <3> QED
        BY <1>1, <1>8
  <2> QED
      BY <2>4, <2>5, <2>6
<1> QED
    BY <1>1, <1>6, <1>7, <1>8

\* The calls of joined scripts.
LEMMA JoinedAt ==
    ASSUME NEW a \in Seq(DeviceCalls), NEW b \in Seq(DeviceCalls)
    PROVE  /\ a \o b \in Seq(DeviceCalls) /\ Len(a \o b) = Len(a) + Len(b)
           /\ Len(a) \in Nat /\ Len(b) \in Nat
           /\ \A i \in 1 .. Len(a) + Len(b) :
                 (a \o b)[i] = IF i <= Len(a) THEN a[i] ELSE b[i - Len(a)]
OBVIOUS

\* A script is the end of itself and the end of ReadSteps, when it reads.
LEMMA EndOfJoined ==
    ASSUME NEW a \in Seq(DeviceCalls), NEW b \in Seq(DeviceCalls), NEW s, NEW m \in Nat,
           Len(s) = m + Len(a) + Len(b),
           \A i \in 1 .. Len(a) : a[i] = s[m + i],
           \A i \in 1 .. Len(b) : b[i] = s[m + Len(a) + i]
    PROVE  EndOf(a \o b, s)
<1> DEFINE x == Len(a)
           y == Len(b)
           c == a \o b
           z == Len(s)
<1>1. /\ x \in Nat /\ y \in Nat /\ Len(c) = x + y
      /\ \A i \in 1 .. x + y : c[i] = IF i <= x THEN a[i] ELSE b[i - x]
    BY JoinedAt
<1>2. /\ z = m + x + y /\ \A i \in 1 .. x : a[i] = s[m + i]
      /\ \A i \in 1 .. y : b[i] = s[m + x + i]
    OBVIOUS
<1> HIDE DEF x, y, c, z
<1>3. ASSUME NEW i \in 1 .. x + y PROVE c[i] = s[m + i]
  <2>1. CASE i <= x
    <3>1. i \in 1 .. x
        BY <1>1, <2>1
    <3> QED
        BY <1>1, <1>2, <2>1, <3>1
  <2>2. CASE ~(i <= x)
    <3>1. i - x \in 1 .. y /\ m + x + (i - x) = m + i
        BY <1>1, <2>2
    <3>2. b[i - x] = s[m + i]
        BY <1>2, <3>1
    <3> QED
        BY <1>1, <2>2, <3>2
  <2> QED
      BY <2>1, <2>2
<1>4. z - (x + y) = m /\ x + y <= z
    BY <1>1, <1>2
<1>5. EndOf(c, s)
    BY <1>1, <1>3, <1>4 DEF EndOf, z
<1> QED
    BY <1>5 DEF c

\* readwave of the first column runs all of ReadSteps, the other reads all but
\* the test.
LEMMA ReadScripts ==
    /\ ReadMemory \in Seq(DeviceCalls) /\ Len(ReadMemory) = 13 /\ Len(ReadSteps) = 15
    /\ EndOf(<<"test", "enter">> \o ReadMemory, ReadSteps)
    /\ EndOf(<<"enter">> \o ReadMemory, ReadSteps)
<1>1. ReadMemory \in Seq(DeviceCalls) /\ Len(ReadMemory) = 13 /\ Len(ReadSteps) = 15
    BY DEF ReadMemory, ReadSteps, DeviceCalls
<1>2. ASSUME NEW i \in 1 .. 13 PROVE ReadMemory[i] = ReadSteps[2 + i]
  <2>1. \/ i = 1 \/ i = 2 \/ i = 3 \/ i = 4 \/ i = 5 \/ i = 6 \/ i = 7
        \/ i = 8 \/ i = 9 \/ i = 10 \/ i = 11 \/ i = 12 \/ i = 13
      OBVIOUS
  <2> QED
      BY <2>1 DEF ReadMemory, ReadSteps
<1>3. ReadSteps[1] = "test" /\ ReadSteps[2] = "enter"
    BY DEF ReadSteps
<1> HIDE DEF ReadMemory, ReadSteps
<1>4. EndOf(<<"test", "enter">> \o ReadMemory, ReadSteps)
  <2> DEFINE a == <<"test", "enter">>
  <2>1. a \in Seq(DeviceCalls) /\ Len(a) = 2 /\ \A i \in 1 .. 2 : a[i] = ReadSteps[0 + i]
      BY <1>3 DEF DeviceCalls
  <2> HIDE DEF a
  <2>2. \A i \in 1 .. 13 : ReadMemory[i] = ReadSteps[0 + Len(a) + i]
      BY <1>2, <2>1
  <2>3. Len(ReadSteps) = 0 + Len(a) + Len(ReadMemory) /\ 0 \in Nat
      BY <1>1, <2>1
  <2> DEFINE b == ReadMemory
             s == ReadSteps
             m == 0
  <2>4. /\ \A i \in 1 .. Len(a) : a[i] = s[m + i]
        /\ \A i \in 1 .. Len(b) : b[i] = s[m + Len(a) + i]
      BY <1>1, <2>1, <2>2
  <2>5. a \in Seq(DeviceCalls) /\ b \in Seq(DeviceCalls) /\ Len(s) = m + Len(a) + Len(b)
      BY <1>1, <2>1, <2>3
  <2>9. m \in Nat
      OBVIOUS
  <2> HIDE DEF b, s, m
  <2>6. EndOf(a \o b, s)
      BY <2>9, <2>4, <2>5, EndOfJoined
  <2> QED
      BY <2>6 DEF a, b, s
<1>5. EndOf(<<"enter">> \o ReadMemory, ReadSteps)
  <2> DEFINE a == <<"enter">>
  <2>1. a \in Seq(DeviceCalls) /\ Len(a) = 1 /\ \A i \in 1 .. 1 : a[i] = ReadSteps[1 + i]
      BY <1>3 DEF DeviceCalls
  <2> HIDE DEF a
  <2>2. \A i \in 1 .. 13 : ReadMemory[i] = ReadSteps[1 + Len(a) + i]
      BY <1>2, <2>1
  <2>3. Len(ReadSteps) = 1 + Len(a) + Len(ReadMemory) /\ 1 \in Nat
      BY <1>1, <2>1
  <2> DEFINE b == ReadMemory
             s == ReadSteps
             m == 1
  <2>4. /\ \A i \in 1 .. Len(a) : a[i] = s[m + i]
        /\ \A i \in 1 .. Len(b) : b[i] = s[m + Len(a) + i]
      BY <1>1, <2>1, <2>2
  <2>5. a \in Seq(DeviceCalls) /\ b \in Seq(DeviceCalls) /\ Len(s) = m + Len(a) + Len(b)
      BY <1>1, <2>1, <2>3
  <2>9. m \in Nat
      OBVIOUS
  <2> HIDE DEF b, s, m
  <2>6. EndOf(a \o b, s)
      BY <2>9, <2>4, <2>5, EndOfJoined
  <2> QED
      BY <2>6 DEF a, b, s
<1> QED
    BY <1>1, <1>4, <1>5

\* The script of every command.
LEMMA Scripts ==
    ASSUME NEW cmd \in Commands
    PROVE  /\ Script(cmd) \in Seq(DeviceCalls) /\ EndOf(Script(cmd), Steps(cmd))
           /\ IsRead(cmd) => Len(Script(cmd)) >= 14
           /\ cmd.c = "gettriggercount" => Len(Script(cmd)) = 3
           /\ cmd \in Cmds /\ cmd.c # "none"
<1>1. cmd \in Cmds /\ cmd.c # "none"
    BY DEF Cmds, Commands
<1>2. ASSUME NEW s \in Seq(DeviceCalls) PROVE EndOf(s, s)
  <2>1. Len(s) \in Nat
      OBVIOUS
  <2>2. \A i \in 1 .. Len(s) : Len(s) - Len(s) + i = i
      BY <2>1
  <2> QED
      BY <2>1, <2>2 DEF EndOf
<1>3. CASE ~IsRead(cmd)
  <2>1. cmd.c \in {"startad", "readstatus", "gettriggercount", "setsamplefreq"}
      BY <1>1, <1>3, CmdFacts DEF IsRead
  <2>2. Script(cmd) \in Seq(DeviceCalls) /\ (cmd.c = "gettriggercount" => Len(Script(cmd)) = 3)
    <3>1. CASE cmd.c = "startad"
      <4>1. Script(cmd) = StartAD(cmd.w)
          BY <3>1 DEF Script
      <4>2. StartAD(cmd.w) \in Seq(DeviceCalls)
        <5> DEFINE x == <<"assign">>
                   y == <<"assign", "off", "mode", "clock", "size", "shots", "setcos", "setsin", "on">>
        <5>1. x \in Seq(DeviceCalls)
            BY DEF DeviceCalls
        <5>2. y \in Seq(DeviceCalls)
            BY DEF DeviceCalls
        <5>3. StartAD(cmd.w) = x \/ StartAD(cmd.w) = y
            BY DEF StartAD
        <5> HIDE DEF x, y
        <5> QED
            BY <5>1, <5>2, <5>3
      <4> QED
          BY <3>1, <4>1, <4>2
    <3>2. CASE cmd.c = "readstatus"
        BY <3>2 DEF Script, DeviceCalls
    <3>3. CASE cmd.c = "gettriggercount"
        BY <3>3 DEF Script, GetTriggerCount, DeviceCalls
    <3>4. CASE cmd.c = "setsamplefreq"
        BY <3>4 DEF Script, SetSampleFreq, DeviceCalls
    <3> QED
        BY <2>1, <3>1, <3>2, <3>3, <3>4
  <2> QED
      BY <1>1, <1>2, <1>3, <2>2 DEF Steps
<1>4. CASE IsRead(cmd)
  <2>1. \/ Script(cmd) = <<"test", "enter">> \o ReadMemory
        \/ Script(cmd) = <<"enter">> \o ReadMemory
      BY <1>4 DEF IsRead, Script
  <2>2. Script(cmd) \in Seq(DeviceCalls) /\ Len(Script(cmd)) >= 14
    <3> DEFINE a == <<"test", "enter">>
               b == <<"enter">>
    <3>1. a \in Seq(DeviceCalls) /\ Len(a) = 2 /\ b \in Seq(DeviceCalls) /\ Len(b) = 1
        BY DEF DeviceCalls
    <3>2. Script(cmd) = a \o ReadMemory \/ Script(cmd) = b \o ReadMemory
        BY <2>1
    <3> HIDE DEF a, b
    <3>3. /\ a \o ReadMemory \in Seq(DeviceCalls) /\ Len(a \o ReadMemory) = 15
          /\ b \o ReadMemory \in Seq(DeviceCalls) /\ Len(b \o ReadMemory) = 14
      <4> DEFINE c == ReadMemory
      <4>1. c \in Seq(DeviceCalls) /\ Len(c) = 13
          BY ReadScripts
      <4> HIDE DEF c
      <4>2. a \o c \in Seq(DeviceCalls) /\ Len(a \o c) = Len(a) + Len(c)
          BY <3>1, <4>1, JoinedAt
      <4>3. b \o c \in Seq(DeviceCalls) /\ Len(b \o c) = Len(b) + Len(c)
          BY <3>1, <4>1, JoinedAt
      <4> QED
          BY <3>1, <4>1, <4>2, <4>3 DEF c
    <3>4. CASE Script(cmd) = a \o ReadMemory
        BY <3>3, <3>4
    <3>5. CASE Script(cmd) = b \o ReadMemory
        BY <3>3, <3>5
    <3> QED
        BY <3>2, <3>4, <3>5
  <2> QED
      BY <1>1, <1>4, <2>1, <2>2, ReadScripts DEF Steps, IsRead
<1> QED
    BY <1>3, <1>4

\* A command that begins is alone so far, with nothing stored.
LEMMA BeginKeeps ==
    ASSUME AdInv, NEW t \in Clients, Begin(t) PROVE JobsAre(reg, latch, wavesize)
<1>1. PICK cmd \in Menu[t] :
         job' = [job EXCEPT ![t] = [Idle EXCEPT
                    !.cmd = cmd, !.todo = Script(cmd),
                    !.n = IF cmd.c = "readmemoryb" THEN cmd.n ELSE wavesize]]
    BY DEF Begin
<1>2. cmd \in Commands /\ cmd \in Cmds
    BY AdAssumption, Scripts
<1> DEFINE s == Script(cmd)
           n == Len(s)
           m == IF cmd.c = "readmemoryb" THEN cmd.n ELSE wavesize
           k == [Idle EXCEPT !.cmd = cmd, !.todo = s, !.n = m]
<1>3. /\ s \in Seq(DeviceCalls) /\ EndOf(s, Steps(cmd)) /\ cmd.c # "none"
      /\ IsRead(cmd) => Len(s) >= 14
      /\ cmd.c = "gettriggercount" => Len(s) = 3
    BY <1>2, Scripts
<1>4. m \in Nat
    BY <1>2, CmdFacts DEF AdInv, Typed
<1>5. job' = [job EXCEPT ![t] = k]
    BY <1>1
<1>6. /\ (cmd.c = "readmemoryb" => m = cmd.n)
      /\ (cmd.c # "readmemoryb" => m = wavesize)
    OBVIOUS
<1> HIDE DEF s, m
<1>7. /\ k.cmd = cmd /\ k.todo = s /\ k.n = m /\ k.at = 0 /\ k.size = 0 /\ k.left = 0
      /\ k.cos = << >> /\ k.sin = << >> /\ k.res = 0 /\ k.alone
    BY DEF Idle
<1>8. k \in Jobs
  <2>1. << >> \in Seq(Samples) /\ 0 \in Nat /\ 0 \in Int
      OBVIOUS
  <2> QED
      BY <1>2, <1>3, <1>4, <2>1 DEF Idle, Jobs
<1> HIDE DEF k
<1>9. n \in Nat /\ n = Len(k.todo) /\ Len(k.cos) = 0 /\ Len(k.sin) = 0
    BY <1>3, <1>7
<1>a. /\ IsRead(cmd) => n >= 14
      /\ cmd.c = "gettriggercount" => n = 3
    BY <1>3
<1> HIDE DEF n
<1>10. Lengths(k)
  <2>1. CASE IsRead(cmd)
    <3>0. n \in Nat /\ n >= 14
        BY <1>9, <1>a, <2>1
    <3>1. n # 7 /\ n \notin 1 .. 6 /\ n # 2 /\ n # 1
        BY <3>0
    <3> QED
        BY <1>6, <1>7, <1>9, <2>1, <3>1 DEF Lengths
  <2>2. CASE ~IsRead(cmd)
      BY <1>7, <2>2 DEF Lengths
  <2> QED
      BY <2>1, <2>2
<1>11. Undisturbed(k, reg, latch, wavesize)
  <2>1. ASSUME IsRead(cmd) PROVE ReadAlone(k, reg, latch, wavesize)
    <3>1. /\ ~(n <= 13) /\ ~(n <= 12) /\ n \notin 7 .. 11 /\ n \notin 2 .. 10
          /\ n # 7 /\ n # 2
      <4>1. n \in Nat /\ n >= 14
          BY <1>9, <1>a, <2>1
      <4> QED
          BY <4>1
    <3>2. Samples1(k.cos, "cos", k.at, reg.acq) /\ Samples1(k.sin, "sin", k.at, reg.acq)
        BY <1>7, NoSamples
    <3> QED
        BY <1>6, <1>7, <1>9, <3>1, <3>2 DEF ReadAlone
  <2>2. ASSUME cmd.c = "gettriggercount" PROVE CountAlone(k, reg)
    <3>1. ~(n <= 2) /\ n # 1
        BY <1>a, <2>2
    <3> QED
        BY <1>9, <3>1, Zenon DEF CountAlone
  <2> QED
      BY <1>7, <2>1, <2>2 DEF Undisturbed
<1>12. Right(k, reg, latch, wavesize)
    BY <1>3, <1>7, <1>10, <1>11 DEF Right, Suffix
<1> QED
    BY <1>5, <1>8, <1>12 DEF JobsAre, AdInv, Typed

\* A trigger finds no job alone that relies on the board being off.
LEMMA TriggerKeeps ==
    ASSUME AdInv, Trigger PROVE JobsAre(reg', latch, wavesize)
<1>1. /\ reg.on /\ UNCHANGED job /\ reg \in Regs
    BY DEF Trigger, AdInv, Typed
<1>2. reg'.acq = reg.acq
    BY <1>1 DEF Trigger, Regs
<1>3. ASSUME NEW u \in Clients PROVE Right(job[u], reg', latch, wavesize)
  <2> DEFINE j == job[u]
             n == Len(j.todo)
  <2>1. Right(j, reg, latch, wavesize) /\ j \in Jobs
      BY DEF AdInv, Typed
  <2>2. n \in Nat
    <3>1. j.todo \in Seq(DeviceCalls)
        BY <2>1 DEF Jobs
    <3> HIDE DEF j
    <3> QED
        BY <3>1
  <2> HIDE DEF j, n
  <2>3. ASSUME j.todo # << >>, j.alone, IsRead(j.cmd) PROVE ReadAlone(j, reg', latch, wavesize)
    <3>1. ReadAlone(j, reg, latch, wavesize)
        BY <2>1, <2>3 DEF Right, Undisturbed
    <3>2. ~(n <= 12)
        BY <1>1, <3>1 DEF ReadAlone, n
    <3>3. ~(n \in 7 .. 11) /\ ~(n \in 2 .. 10) /\ n # 7 /\ n # 2
        BY <2>2, <3>2
    <3> QED
        BY <1>2, <3>1, <3>2, <3>3 DEF ReadAlone, n
  <2>4. ASSUME j.todo # << >>, j.alone, j.cmd.c = "gettriggercount" PROVE CountAlone(j, reg')
    <3>1. CountAlone(j, reg)
        BY <2>1, <2>4 DEF Right, Undisturbed
    <3>2. ~(n <= 2) /\ n # 1
      <4>1. n <= 2 => ~reg.on
          BY <3>1, Zenon DEF CountAlone, n
      <4> QED
          BY <1>1, <2>2, <4>1
    <3> QED
        BY <3>2, Zenon DEF CountAlone, n
  <2>5. Right(j, reg', latch, wavesize)
      BY <2>1, <2>3, <2>4 DEF Right, Undisturbed
  <2> QED
      BY <2>5 DEF j
<1> QED
    BY <1>1, <1>3 DEF JobsAre, AdInv, Typed

\* The registers and the members keep their types.
LEMMA WriteTyped ==
    ASSUME AdInv, NEW t \in Clients, Write(t) PROVE reg' \in Regs
<1>1. PICK s \in {"off", "mode", "clock", "size", "shots", "setcos", "setsin", "on"} : At(t, s)
    BY DEF Write
<1>2. job[t] \in Jobs /\ Right(job[t], reg, latch, wavesize) /\ job[t].todo # << >>
    BY <1>1, Calls
<1>3. s = "size" => job[t].cmd.w \in Nat
  <2>1. ASSUME s = "size" PROVE job[t].cmd.c = "startad"
    <3>1. At(t, "size")
        BY <1>1, <2>1
    <3> QED
        BY <3>1, Calls, ReadCalls, OtherCalls
  <2> QED
      BY <2>1, <1>2, CmdFacts DEF Jobs
<1>4. /\ prescaler \in Int /\ divide_n \in Int /\ ites \in Nat /\ job[t].at \in Nat /\ reg \in Regs
    BY <1>2 DEF AdInv, Typed, Jobs, Prescalers
<1>5. \/ s = "off" /\ reg' = [reg EXCEPT !.on = FALSE]
      \/ s = "mode" /\ reg' = [reg EXCEPT !.mode = prescaler]
      \/ s = "clock" /\ reg' = [reg EXCEPT !.clock = divide_n]
      \/ s = "size" /\ reg' = [reg EXCEPT !.size = job[t].cmd.w]
      \/ s = "shots" /\ reg' = [reg EXCEPT !.shots = ites]
      \/ s = "setcos" /\ reg' = [reg EXCEPT !.cos = job[t].at]
      \/ s = "setsin" /\ reg' = [reg EXCEPT !.sin = job[t].at]
      \/ s = "on" /\ reg' = [reg EXCEPT !.on = TRUE, !.ended = FALSE,
                                        !.acq = @ + 1, !.count = 0]
    BY <1>1 DEF Write, At
<1> DEFINE a == job[t].at
           w == job[t].cmd.w
<1> HIDE DEF a, w
<1>6. a \in Nat /\ (s = "size" => w \in Nat)
    BY <1>3, <1>4 DEF a, w
<1>7. \/ reg' = [reg EXCEPT !.on = FALSE]
      \/ reg' = [reg EXCEPT !.mode = prescaler]
      \/ reg' = [reg EXCEPT !.clock = divide_n]
      \/ w \in Nat /\ reg' = [reg EXCEPT !.size = w]
      \/ reg' = [reg EXCEPT !.shots = ites]
      \/ reg' = [reg EXCEPT !.cos = a]
      \/ reg' = [reg EXCEPT !.sin = a]
      \/ reg' = [reg EXCEPT !.on = TRUE, !.ended = FALSE,
                            !.acq = @ + 1, !.count = 0]
    BY <1>5, <1>6 DEF a, w
<1>8. ASSUME NEW v \in Nat
      PROVE  /\ [reg EXCEPT !.size = v] \in Regs /\ [reg EXCEPT !.shots = v] \in Regs
             /\ [reg EXCEPT !.cos = v] \in Regs /\ [reg EXCEPT !.sin = v] \in Regs
    BY <1>4 DEF Regs
<1>9. ASSUME NEW v \in Int PROVE [reg EXCEPT !.mode = v] \in Regs /\ [reg EXCEPT !.clock = v] \in Regs
    BY <1>4 DEF Regs
<1>10. /\ [reg EXCEPT !.on = FALSE] \in Regs
       /\ [reg EXCEPT !.on = TRUE, !.ended = FALSE, !.acq = @ + 1, !.count = 0] \in Regs
  <2>1. reg.acq + 1 \in Nat
      BY <1>4 DEF Regs
  <2>2. ASSUME NEW c \in Nat
        PROVE  [reg EXCEPT !.on = TRUE, !.ended = FALSE, !.acq = c, !.count = 0] \in Regs
      BY <1>4 DEF Regs
  <2>3. [reg EXCEPT !.on = FALSE] \in Regs
      BY <1>4 DEF Regs
  <2> QED
      BY <2>1, <2>2, <2>3
<1> QED
    BY <1>4, <1>6, <1>7, <1>8, <1>9, <1>10

\* The invariant holds at the start.
LEMMA AdInvInit == Init => AdInv
<1> SUFFICES ASSUME Init PROVE AdInv
    OBVIOUS
<1>1. job = [t \in Clients |-> Idle]
    BY DEF Init
<1>2. Idle \in Jobs
  <2>1. [c |-> "none"] \in Cmds /\ << >> \in Seq(DeviceCalls) /\ << >> \in Seq(Samples)
      BY DEF Cmds
  <2> QED
      BY <2>1 DEF Idle, Jobs
<1>3. ASSUME NEW r, NEW l, NEW w PROVE Right(Idle, r, l, w)
  <2>1. /\ Idle.todo = << >> /\ Idle.cos = << >> /\ Idle.sin = << >> /\ Idle.size = 0
        /\ Idle.left = 0 /\ ~IsRead(Idle.cmd)
      BY DEF Idle, IsRead
  <2> QED
      BY <2>1 DEF Right, Suffix, Lengths, Undisturbed
<1>4. reg \in Regs
    BY DEF Init, Regs
<1>5. divide_n \in 0 .. 255 /\ prescaler \in Prescalers
    BY ClockFits, BoardAssumption DEF Init
<1>6. Typed
  <2>1. job \in [Clients -> Jobs]
      BY <1>1, <1>2
  <2>2. /\ wavesize \in Nat \ {0} /\ ites \in Nat /\ burstBusy \in BOOLEAN /\ halted \in BOOLEAN
        /\ latch \in Channels \union {"status", "count"}
    <3>1. /\ wavesize = 2 /\ ites = 1 /\ burstBusy = FALSE /\ halted = FALSE
          /\ latch = "status"
        BY DEF Init
    <3>2. wavesize \in Nat \ {0} /\ ites \in Nat
        BY <3>1
    <3>3. burstBusy \in BOOLEAN /\ halted \in BOOLEAN
        BY <3>1, Zenon
    <3>4. latch \in Channels \union {"status", "count"}
        BY <3>1
    <3> QED
        BY <3>2, <3>3, <3>4
  <2> QED
      BY <1>4, <1>5, <2>1, <2>2 DEF Typed
<1> QED
    BY <1>1, <1>3, <1>6 DEF AdInv

\* Every step keeps the invariant.
LEMMA AdInvStep == AdInv /\ [Next]_vars => AdInv'
<1> SUFFICES ASSUME AdInv, [Next]_vars PROVE AdInv'
    OBVIOUS
<1>0. /\ wavesize \in Nat \ {0} /\ ites \in Nat /\ burstBusy \in BOOLEAN /\ halted \in BOOLEAN
      /\ divide_n \in 0 .. 255 /\ prescaler \in Prescalers
      /\ latch \in Channels \union {"status", "count"} /\ reg \in Regs
    BY DEF AdInv, Typed
<1>1. CASE Trigger
  <2>1. reg' \in Regs
    <3>1. reg' = [reg EXCEPT !.count = @ + 1, !.ended = reg.count + 1 >= reg.shots,
                             !.cos = reg.size, !.sin = reg.size]
        BY <1>1 DEF Trigger
    <3> DEFINE e == reg.count + 1 >= reg.shots
               c == reg.count + 1
               z == reg.size
    <3>2. reg' = [reg EXCEPT !.count = c, !.ended = e, !.cos = z, !.sin = z]
        BY <3>1
    <3>3. e \in BOOLEAN /\ c \in Nat /\ z \in Nat
        BY <1>0 DEF Regs
    <3> HIDE DEF e, c, z
    <3> QED
        BY <1>0, <3>2, <3>3 DEF Regs
  <2>2. UNCHANGED <<wavesize, ites, clock, burstBusy, latch>>
      BY <1>1 DEF Trigger
  <2> QED
      BY <1>0, <1>1, <2>1, <2>2, TriggerKeeps DEF AdInv, Typed, JobsAre, clock
<1>2. ASSUME NEW t \in Clients, Begin(t) PROVE AdInv'
  <2>1. UNCHANGED <<wavesize, ites, clock, burstBusy, reg, latch>>
      BY <1>2 DEF Begin
  <2> QED
      BY <1>0, <1>2, <2>1, BeginKeeps DEF AdInv, Typed, JobsAre, clock
<1>3. ASSUME NEW t \in Clients, Assign(t) PROVE AdInv'
  <2>1. job[t].cmd.c = "startad" /\ job[t].cmd \in Cmds
    <3>1. At(t, "assign")
        BY <1>3 DEF Assign
    <3> QED
        BY <3>1, Calls, ReadCalls, OtherCalls
  <2>2. job[t].cmd.w \in Nat /\ job[t].cmd.it \in Nat
      BY <2>1, CmdFacts
  <2>3. UNCHANGED <<clock, burstBusy, reg, latch>> /\ ites' \in Nat /\ wavesize' \in Nat \ {0}
      BY <1>0, <1>3, <2>2 DEF Assign
  <2>4. JobsAre(reg, latch, wavesize')
      BY <1>3, AssignKeeps
  <2> QED
      BY <1>0, <2>3, <2>4 DEF AdInv, Typed, JobsAre, clock
<1>4. ASSUME NEW t \in Clients, Frequency(t) PROVE AdInv'
  <2>1. UNCHANGED <<wavesize, ites, burstBusy, reg, latch>>
      BY <1>4 DEF Frequency
  <2> QED
      BY <1>0, <1>4, <2>1, FreqKeeps DEF AdInv, Typed, JobsAre
<1>5. ASSUME NEW t \in Clients, Write(t) PROVE AdInv'
  <2>1. UNCHANGED <<wavesize, ites, clock, burstBusy, latch>> /\ reg' \in Regs
      BY <1>5, WriteTyped DEF Write
  <2> QED
      BY <1>0, <1>5, <2>1, WriteKeeps DEF AdInv, Typed, JobsAre, clock
<1>6. ASSUME NEW t \in Clients, Read(t) PROVE AdInv'
  <2>1. UNCHANGED <<wavesize, ites, clock, burstBusy, reg>> /\ latch' \in {"status", "count"}
      BY <1>6 DEF Read
  <2> QED
      BY <1>0, <1>6, <2>1, ReadKeeps DEF AdInv, Typed, JobsAre, clock
<1>7. ASSUME NEW t \in Clients, Enter(t) PROVE AdInv'
  <2>1. UNCHANGED <<wavesize, ites, clock, burstBusy, reg, latch>>
      BY <1>7 DEF Enter
  <2> QED
      BY <1>0, <1>7, <2>1, EnterKeeps DEF AdInv, Typed, JobsAre, clock
<1>8. ASSUME NEW t \in Clients, Flag(t) PROVE AdInv'
  <2>1. UNCHANGED <<wavesize, ites, clock, reg, latch>> /\ burstBusy' \in BOOLEAN
      BY <1>0, <1>8 DEF Flag, Released
  <2> QED
      BY <1>0, <1>8, <2>1, FlagKeeps DEF AdInv, Typed, JobsAre, clock
<1>9. ASSUME NEW t \in Clients, Select(t) PROVE AdInv'
  <2>1. UNCHANGED <<wavesize, ites, clock, burstBusy, reg>> /\ latch' \in Channels
      BY <1>9 DEF Select
  <2> QED
      BY <1>0, <1>9, <2>1, SelectKeeps DEF AdInv, Typed, JobsAre, clock
<1>10. ASSUME NEW t \in Clients, Copy(t) PROVE AdInv'
  <2>1. UNCHANGED <<wavesize, ites, clock, burstBusy, latch>>
      BY <1>10 DEF Copy
  <2>2. reg' \in Regs
    <3>1. reg' = IF latch \in Channels THEN [reg EXCEPT ![latch] = @ + Block] ELSE reg
        BY <1>10 DEF Copy
    <3>2. reg.cos + Block \in Nat /\ reg.sin + Block \in Nat
        BY <1>0, AdAssumption DEF Regs
    <3>3. \/ reg' = [reg EXCEPT !.cos = @ + Block]
          \/ reg' = [reg EXCEPT !.sin = @ + Block]
          \/ reg' = reg
        BY <3>1 DEF Channels
    <3> QED
        BY <1>0, <3>2, <3>3 DEF Regs
  <2> QED
      BY <1>0, <1>10, <2>1, <2>2, CopyKeeps DEF AdInv, Typed, JobsAre, clock
<1>11. CASE UNCHANGED vars
    BY <1>0, <1>11 DEF vars, AdInv, Typed, clock
<1> QED
    BY <1>1, <1>2, <1>3, <1>4, <1>5, <1>6, <1>7, <1>8, <1>9, <1>10, <1>11 DEF Next, Step

\* The invariant holds always.
LEMMA AdInvariant == Spec => []AdInv
BY AdInvInit, AdInvStep, PTL DEF Spec

\* It bounds what a burst stores.
LEMMA TypesHold == AdInv => TypeOK
<1> SUFFICES ASSUME AdInv PROVE TypeOK
    OBVIOUS
<1>1. ASSUME NEW t \in Clients
      PROVE  /\ job[t].left \in 0 .. job[t].size
             /\ \A ch \in Channels : job[t][ch] \in Seq(Samples) /\ Len(job[t][ch]) <= job[t].size
  <2> DEFINE j == job[t]
  <2>1. j \in Jobs /\ Lengths(j)
      BY DEF AdInv, Typed, Right
  <2> HIDE DEF j
  <2>2. j.left \in Nat /\ j.size \in Nat /\ j.cos \in Seq(Samples) /\ j.sin \in Seq(Samples)
      BY <2>1 DEF Jobs
  <2>3. j.left <= j.size /\ Len(j.cos) <= j.size /\ Len(j.sin) <= j.size
    <3>1. CASE IsRead(j.cmd)
        BY <2>1, <3>1 DEF Lengths
    <3>2. CASE ~IsRead(j.cmd)
        BY <2>1, <3>2 DEF Lengths
    <3> QED
        BY <3>1, <3>2
  <2>4. \A ch \in Channels : j[ch] \in Seq(Samples) /\ Len(j[ch]) <= j.size
      BY <2>2, <2>3 DEF Channels
  <2> QED
      BY <2>2, <2>3, <2>4 DEF j
<1> QED
    BY <1>1 DEF AdInv, Typed, TypeOK

\* Whatever the threads do in between, no burst stores more samples than its
\* command asked for, and the members keep their types.
THEOREM TypeCorrect == Spec => []TypeOK
BY AdInvariant, TypesHold, PTL

\* What a step leads its own job to.
LEMMA GoesTo ==
    ASSUME AdInv, NEW t \in Clients, NEW j, DOMAIN j = DOMAIN job[t], j.todo = job[t].todo, Go(t, j)
    PROVE  /\ job'[t].todo = Tail(job[t].todo)
           /\ \A f \in DOMAIN j \ {"todo"} : job'[t][f] = j[f]
<1>1. "todo" \in DOMAIN job[t] /\ job \in [Clients -> Jobs]
    BY DEF AdInv, Typed, Jobs
<1>2. job'[t] = [j EXCEPT !.todo = Tail(@)]
    BY <1>1 DEF Go, Others
<1> QED
    BY <1>1, <1>2

\* What the last step of a command leaves.
LEMMA EndsAs ==
    ASSUME AdInv, NEW t \in Clients, NEW r, Done(t, r)
    PROVE  /\ job'[t].todo = << >> /\ job'[t].res = r
           /\ \A f \in DOMAIN job[t] \ {"todo", "res"} : job'[t][f] = job[t][f]
<1>1. {"todo", "res"} \subseteq DOMAIN job[t] /\ job \in [Clients -> Jobs]
    BY DEF AdInv, Typed, Jobs
<1>2. job'[t] = [job[t] EXCEPT !.todo = << >>, !.res = r]
    BY <1>1 DEF Done, Others
<1> QED
    BY <1>1, <1>2

\* The last call of a script.
LEMMA LastCall ==
    ASSUME AdInv, NEW t \in Clients, job[t].todo # << >>
    PROVE  /\ Len(job[t].todo) \in Nat \ {0}
           /\ Tail(job[t].todo) = << >> <=> Len(job[t].todo) = 1
<1> DEFINE q == job[t].todo
<1>1. q \in Seq(DeviceCalls) /\ q # << >>
    BY DEF AdInv, Typed, Jobs
<1> HIDE DEF q
<1>2. Len(q) \in Nat \ {0}
    BY <1>1
<1>3. Tail(q) = << >> <=> Len(q) = 1
  <2>1. Tail(q) \in Seq(DeviceCalls) /\ Len(Tail(q)) = Len(q) - 1
      BY <1>1
  <2> DEFINE k == Tail(q)
             n == Len(q)
  <2> HIDE DEF k, n
  <2>2. k \in Seq(DeviceCalls) /\ Len(k) = n - 1 /\ n \in Nat \ {0}
      BY <1>2, <2>1 DEF k, n
  <2>3. k = << >> <=> n = 1
      BY <2>2
  <2> QED
      BY <2>3 DEF k, n
<1> QED
    BY <1>2, <1>3 DEF q

\* Only a step of the thread itself ends its command.
LEMMA EndsItself ==
    ASSUME AdInv, [Next]_vars, NEW t \in Clients, Ends(t) PROVE Step(t)
<1>1. job \in [Clients -> Jobs] /\ job'[t].todo # job[t].todo /\ job[t].todo # << >>
    BY DEF AdInv, Typed, Ends
<1>2. ASSUME NEW u \in Clients, Begin(u) PROVE FALSE
    BY <1>1, <1>2 DEF Begin
<1>3. ASSUME NEW u \in Clients, Step(u), u # t PROVE FALSE
  <2>0. Others(job, u)[t].todo = job[t].todo
      BY <1>1 DEF Others, Jobs
  <2>1. ASSUME NEW j, Leads(u, j) PROVE FALSE
    <3>1. job'[t] = Others(job, u)[t]
        BY <1>3, <2>1 DEF Leads, Others
    <3> QED
        BY <1>1, <2>0, <3>1
  <2>2. ASSUME NEW j, Go(u, j) PROVE FALSE
      BY <2>1, <2>2 DEF Go, Leads
  <2>3. ASSUME NEW r, Done(u, r) PROVE FALSE
    <3>1. job'[t] = Others(job, u)[t]
        BY <1>3, <2>3 DEF Done, Others
    <3> QED
        BY <1>1, <2>0, <3>1
  <2>4. CASE Copy(u)
      BY <2>1, <2>2, <2>4 DEF Copy, Leads
  <2>5. CASE Read(u)
      BY <2>2, <2>3, <2>5 DEF Read
  <2>6. CASE Assign(u) \/ Write(u) \/ Enter(u) \/ Select(u)
      BY <2>2, <2>6 DEF Assign, Write, Enter, Select
  <2>7. CASE Flag(u) \/ Frequency(u)
      BY <1>1, <2>2, <2>3, <2>7 DEF Flag, Frequency
  <2> QED
      BY <1>3, <2>4, <2>5, <2>6, <2>7 DEF Step
<1> QED
    BY <1>1, <1>2, <1>3 DEF Next, Trigger, vars

\* A read that answers 1 ends with the release of its second burst.
LEMMA ReadEnds ==
    ASSUME AdInv, [Next]_vars, NEW t \in Clients, Ends(t), IsRead(job[t].cmd), job'[t].res = 1
    PROVE  Len(job[t].todo) = 1 /\ Done(t, 1)
<1> DEFINE j == job[t]
           n == Len(j.todo)
<1>1. Step(t)
    BY EndsItself
<1>2. /\ j \in Jobs /\ j.todo # << >> /\ j.cmd \in Cmds /\ Suffix(j.todo, j.cmd)
      /\ j.todo \in Seq(DeviceCalls) /\ IsRead(j.cmd) /\ job'[t].todo = << >>
    BY DEF Ends, AdInv, Typed, Right, Jobs
<1>3. ASSUME NEW i, DOMAIN i = DOMAIN j, i.todo = j.todo, Go(t, i), n # 1 PROVE FALSE
  <2>1. job'[t].todo = Tail(j.todo) /\ (Tail(j.todo) = << >> <=> n = 1)
      BY <1>2, <1>3, GoesTo, LastCall
  <2> QED
      BY <1>2, <1>3, <2>1
<1>4. ASSUME NEW r \in Int, Done(t, r), r # 1 PROVE FALSE
    BY <1>4, EndsAs
<1>5. ASSUME NEW s, At(t, s)
      PROVE  /\ n # 1 \/ s = "release"
             /\ s \notin {"assign", "divide", "prescale", "load", "answer", "mode", "clock", "size", "shots", "on", "status", "high", "low"}
  <2>1. Head(j.todo) = s
      BY <1>5 DEF At
  <2> QED
      BY <1>2, <2>1, ReadCalls
<1>6. CASE Assign(t) \/ Frequency(t)
    BY <1>5, <1>6 DEF Assign, Frequency
<1>7. CASE Write(t)
  <2>1. \E s \in {"off", "mode", "clock", "size", "shots", "setcos", "setsin", "on"} : At(t, s)
      BY <1>7 DEF Write
  <2> QED
      BY <1>2, <1>3, <1>5, <1>7, <2>1 DEF Write
<1>8. CASE Read(t)
  <2>1. At(t, "test")
      BY <1>5, <1>8 DEF Read
  <2>2. PICK busy \in BOOLEAN :
           IF ReadWaveTest(busy) = 1 THEN Go(t, j) ELSE Done(t, ReadWaveTest(busy))
      BY <1>8, <2>1 DEF Read, At
  <2> QED
      BY <1>2, <1>3, <1>4, <1>5, <2>1, <2>2 DEF ReadWaveTest
<1>9. CASE Enter(t)
  <2> DEFINE e == Extent(j.cmd)
             i == [job[t] EXCEPT !.at = e.at, !.size = e.size]
  <2>1. At(t, "enter") /\ Go(t, i)
      BY <1>9 DEF Enter
  <2>2. n # 1
      BY <1>5, <2>1
  <2>3. DOMAIN i = DOMAIN j /\ i.todo = j.todo
      BY <1>2 DEF Jobs
  <2> QED
      BY <1>3, <2>1, <2>2, <2>3
<1>10. CASE Flag(t)
  <2>1. IF Tail(j.todo) = << >> THEN Done(t, 1) ELSE Go(t, j)
      BY <1>10 DEF Flag
  <2> QED
      BY <1>2, <1>3, <2>1, LastCall
<1>11. CASE Select(t)
  <2> DEFINE i == [job[t] EXCEPT !.left = job[t].size]
  <2>1. DOMAIN i = DOMAIN j /\ i.todo = j.todo
      BY <1>2 DEF Jobs
  <2>2. Go(t, i) /\ \E ch \in Channels : At(t, ch)
      BY <1>11 DEF Select
  <2>3. n # 1
      BY <1>5, <2>2 DEF Channels
  <2> QED
      BY <1>3, <2>1, <2>2, <2>3
<1>12. CASE Copy(t)
  <2>1. PICK ch \in Channels :
           /\ At(t, Copying[ch])
           /\ LET now == [j EXCEPT ![ch] = @ \o SubSeq(Port, 1, Used(j.left)),
                                   !.left = @ - Used(@)]
              IN  IF More(j.left) THEN job' = [Others(job, t) EXCEPT ![t] = now] ELSE Go(t, now)
      BY <1>12 DEF Copy
  <2> DEFINE now == [j EXCEPT ![ch] = @ \o SubSeq(Port, 1, Used(j.left)), !.left = @ - Used(@)]
  <2>2. n # 1
    <3>1. Copying[ch] # "release"
        BY DEF Copying, Channels
    <3> QED
        BY <1>5, <2>1, <3>1
  <2>3. DOMAIN now = DOMAIN j /\ now.todo = j.todo
      BY <1>2 DEF Jobs, Channels
  <2> HIDE DEF now
  <2>4. CASE job' = [Others(job, t) EXCEPT ![t] = now]
    <3>1. job'[t] = now
        BY <2>4 DEF AdInv, Typed, Others
    <3> QED
        BY <1>2, <2>3, <3>1
  <2> QED
      BY <1>3, <2>1, <2>2, <2>3, <2>4 DEF now
<1> QED
    BY <1>1, <1>6, <1>7, <1>8, <1>9, <1>10, <1>11, <1>12 DEF Step

\* What an undisturbed read sends.
LEMMA WholeEnds ==
    ASSUME AdInv, [Next]_vars, NEW t \in Clients, Ends(t), IsRead(job[t].cmd),
           job'[t].res = 1, job'[t].alone
    PROVE  Whole(job'[t])
<1> DEFINE j == job[t]
           k == job'[t]
<1>1. Len(j.todo) = 1 /\ Done(t, 1)
    BY ReadEnds
<1>2. /\ k.n = j.n /\ k.at = j.at /\ k.size = j.size /\ k.cos = j.cos /\ k.sin = j.sin
      /\ k.alone = j.alone
  <2>1. {"n", "at", "size", "cos", "sin", "alone"} \subseteq DOMAIN job[t] \ {"todo", "res"}
      BY DEF AdInv, Typed, Jobs
  <2> QED
      BY <1>1, <2>1, EndsAs
<1>3. j \in Jobs /\ j.todo # << >> /\ j.alone /\ Lengths(j) /\ ReadAlone(j, reg, latch, wavesize)
    BY <1>2 DEF AdInv, Typed, Right, Undisturbed, Ends
<1> HIDE DEF j, k
<1>4. j.n = j.size /\ Len(j.cos) = j.size /\ Len(j.sin) = j.size /\ j.size \in Nat
  <2>1. IsRead(j.cmd)
      BY DEF j
  <2> QED
      BY <1>1, <1>3, <2>1 DEF Lengths, ReadAlone, Jobs
<1>5. Samples1(j.cos, "cos", j.at, reg.acq) /\ Samples1(j.sin, "sin", j.at, reg.acq)
    BY <1>3 DEF ReadAlone
<1>6. \A i \in 1 .. j.n :
         /\ j.cos[i] = [ch |-> "cos", at |-> j.at + i - 1, acq |-> reg.acq]
         /\ j.sin[i] = [ch |-> "sin", at |-> j.at + i - 1, acq |-> reg.acq]
    BY <1>4, <1>5 DEF Samples1
<1> DEFINE x == j.cos
           y == j.sin
           m == j.n
           z == j.at
           a == reg.acq
<1>a. \A i \in 1 .. m :
         /\ x[i] = [ch |-> "cos", at |-> z + i - 1, acq |-> a]
         /\ y[i] = [ch |-> "sin", at |-> z + i - 1, acq |-> a]
    BY <1>6
<1>c. k.cos = x /\ k.sin = y /\ k.n = m /\ k.at = z /\ Len(x) = m /\ Len(y) = m /\ m \in Nat
    BY <1>2, <1>4
<1> HIDE DEF x, y, m, z, a
<1>b. \A i \in 1 .. m :
         /\ x[i].ch = "cos" /\ x[i].at = z + i - 1 /\ x[i].acq = a
         /\ y[i].ch = "sin" /\ y[i].at = z + i - 1 /\ y[i].acq = a
  <2> TAKE i \in 1 .. m
  <2>1. /\ x[i] = [ch |-> "cos", at |-> z + i - 1, acq |-> a]
        /\ y[i] = [ch |-> "sin", at |-> z + i - 1, acq |-> a]
      BY <1>a
  <2>2. x[i].ch = "cos" /\ x[i].at = z + i - 1 /\ x[i].acq = a
      BY <2>1
  <2>3. y[i].ch = "sin" /\ y[i].at = z + i - 1 /\ y[i].acq = a
      BY <2>1
  <2> QED
      BY <2>2, <2>3
<1>7. ASSUME NEW i \in 1 .. m PROVE x[1].acq = a
  <2>1. 1 \in 1 .. m
      BY <1>c
  <2> QED
      BY <1>b, <2>1
<1>8. \A ch \in Channels :
         /\ Len(k[ch]) = k.n
         /\ \A i \in 1 .. k.n : /\ k[ch][i].ch = ch /\ k[ch][i].at = k.at + i - 1
                                /\ k[ch][i].acq = k.cos[1].acq
  <2>1. /\ Len(k.cos) = k.n /\ Len(k.sin) = k.n
        /\ \A i \in 1 .. k.n : /\ k.cos[i].ch = "cos" /\ k.cos[i].at = k.at + i - 1
                               /\ k.sin[i].ch = "sin" /\ k.sin[i].at = k.at + i - 1
                               /\ k.cos[i].acq = k.cos[1].acq /\ k.sin[i].acq = k.cos[1].acq
      BY <1>7, <1>b, <1>c
  <2> QED
      BY <2>1 DEF Channels
<1> QED
    BY <1>2, <1>4, <1>8 DEF Whole, k

\* A read that nobody disturbs sends what was asked for: its answer comes with
\* the release of the second burst, and what is stored by then has followed
\* the addresses from the call that set them.  (ReadMemory, uio_inburst.)
THEOREM AloneAlwaysWhole == Spec => AloneIsWhole
<1>1. ASSUME AdInv, [Next]_vars
      PROVE  [\A t \in Clients : Ends(t) /\ IsRead(job[t].cmd) /\ job'[t].res = 1 /\ job'[t].alone
                                   => Whole(job'[t])]_vars
    BY <1>1, WholeEnds
<1> QED
    BY <1>1, AdInvariant, PTL DEF Spec, AloneIsWhole

\* The words of a count.
LEMMA Words == ASSUME NEW c \in Nat, NEW w \in Nat \ {0} PROVE w * (c \div w) + (c % w) = c
OBVIOUS

\* What an undisturbed gettriggercount answers.
LEMMA CountEnds ==
    ASSUME AdInv, [Next]_vars, NEW t \in Clients, Ends(t), job[t].cmd.c = "gettriggercount",
           job'[t].alone
    PROVE  job'[t].res = reg.count + 1
<1> DEFINE j == job[t]
           n == Len(j.todo)
<1>1. Step(t)
    BY EndsItself
<1>2. /\ j \in Jobs /\ j.todo # << >> /\ j.cmd \in Cmds /\ Suffix(j.todo, j.cmd)
      /\ j.todo \in Seq(DeviceCalls) /\ ~IsRead(j.cmd) /\ job'[t].todo = << >>
    BY DEF Ends, AdInv, Typed, Right, Jobs, IsRead
<1>3. ASSUME NEW i, DOMAIN i = DOMAIN j, i.todo = j.todo, Go(t, i), n # 1 PROVE FALSE
  <2>1. job'[t].todo = Tail(j.todo) /\ (Tail(j.todo) = << >> <=> n = 1)
      BY <1>2, <1>3, GoesTo, LastCall
  <2> QED
      BY <1>2, <1>3, <2>1
<1>4. ASSUME NEW s, At(t, s)
      PROVE  /\ s \in {"off", "high", "low"}
             /\ n = 1 <=> s = "low"
  <2>1. Head(j.todo) = s
      BY <1>4 DEF At
  <2> QED
      BY <1>2, <2>1, OtherCalls
<1>5. CASE Assign(t) \/ Frequency(t) \/ Enter(t) \/ Flag(t)
    BY <1>4, <1>5 DEF Assign, Frequency, Enter, Flag
<1>6. CASE Write(t)
  <2>1. \E s \in {"off", "mode", "clock", "size", "shots", "setcos", "setsin", "on"} : At(t, s)
      BY <1>6 DEF Write
  <2> QED
      BY <1>2, <1>3, <1>4, <1>6, <2>1 DEF Write
<1>7. CASE Select(t) \/ Copy(t)
  <2>1. \E ch \in Channels : At(t, ch) \/ At(t, Copying[ch])
      BY <1>7 DEF Select, Copy
  <2> QED
      BY <1>4, <2>1 DEF Channels, Copying
<1>8. CASE Read(t)
  <2>1. At(t, "high") \/ At(t, "low")
      BY <1>4, <1>8 DEF Read
  <2>2. CASE At(t, "high")
    <3> DEFINE i == [job[t] EXCEPT !.res = Word * (reg.count \div Word)]
    <3>1. Go(t, i)
        BY <1>8, <2>2 DEF Read, At
    <3>2. DOMAIN i = DOMAIN j /\ i.todo = j.todo
        BY <1>2 DEF Jobs
    <3>3. n # 1
        BY <1>4, <2>2
    <3> HIDE DEF i
    <3> QED
        BY <1>3, <3>1, <3>2, <3>3
  <2>3. CASE At(t, "low")
    <3>1. Done(t, j.res + (reg.count % Word) + 1)
        BY <1>8, <2>3 DEF Read, At
    <3>2. /\ job'[t].res = j.res + (reg.count % Word) + 1
          /\ job'[t].alone = j.alone
      <4>1. "alone" \in DOMAIN job[t] \ {"todo", "res"}
          BY <1>2 DEF Jobs
      <4> QED
          BY <3>1, <4>1, EndsAs
    <3>3. CountAlone(j, reg) /\ n = 1
        BY <1>2, <1>4, <2>3, <3>2 DEF AdInv, Right, Undisturbed
    <3> DEFINE v == j.res
               c == reg.count
    <3>4. v = Word * (c \div Word)
        BY <3>3 DEF CountAlone
    <3>5. c \in Nat /\ Word \in Nat \ {0}
        BY AdAssumption DEF AdInv, Typed, Regs
    <3>6. job'[t].res = v + (c % Word) + 1
        BY <3>2
    <3> HIDE DEF v, c
    <3>7. v + (c % Word) = c
        BY <3>4, <3>5, Words
    <3>8. job'[t].res = c + 1
        BY <3>6, <3>7
    <3> QED
        BY <3>8 DEF c
  <2> QED
      BY <2>1, <2>2, <2>3
<1> QED
    BY <1>1, <1>5, <1>6, <1>7, <1>8 DEF Step

\* The two words of a counter that is stopped first are of one count.
\* (GetTriggerCount.)
THEOREM CountNeverTorn == Spec => CountNotTorn
<1>1. ASSUME AdInv, [Next]_vars
      PROVE  [\A t \in Clients : Ends(t) /\ job[t].cmd.c = "gettriggercount" /\ job'[t].alone
                                   => job'[t].res = reg.count + 1]_vars
    BY <1>1, CountEnds
<1> QED
    BY <1>1, AdInvariant, PTL DEF Spec, CountNotTorn

-----------------------------------------------------------------------------
\* What the others do to a command under way.

\* What a step leaves of every job.
Kept(t) ==
    \A u \in Clients \ {t} : /\ job'[u].cmd = job[u].cmd /\ job'[u].todo = job[u].todo
                             /\ job'[u].n = job[u].n /\ job'[u].size = job[u].size
                             /\ job'[u].res = job[u].res
Own(t) == job'[t].cmd = job[t].cmd /\ job'[t].n = job[t].n
Sized(t) == job'[t].size = job[t].size

\* Every step of a thread keeps that much.
LEMMA Moving ==
    ASSUME AdInv, NEW t \in Clients, Step(t)
    PROVE  Kept(t) /\ Own(t) /\ job[t].todo # << >> /\ (Enter(t) \/ Sized(t))
<1> DEFINE j == job[t]
<1>1. job \in [Clients -> Jobs] /\ j \in Jobs
    BY DEF AdInv, Typed
<1>2. job[t].todo # << >>
    BY DEF Step, Assign, Frequency, Write, Read, Enter, Flag, Select, Copy, At
<1>3. ASSUME NEW k, Leads(t, k) PROVE Kept(t) /\ job'[t] = k
  <2>1. job'[t] = k
      BY <1>1, <1>3 DEF Leads, Others
  <2>2. ASSUME NEW u \in Clients \ {t}
        PROVE  /\ job'[u].cmd = job[u].cmd /\ job'[u].todo = job[u].todo
               /\ job'[u].n = job[u].n /\ job'[u].size = job[u].size
               /\ job'[u].res = job[u].res
    <3>1. job'[u] = Others(job, t)[u]
        BY <1>3 DEF Leads, Others
    <3>2. job'[u] = job[u] \/ job'[u] = [job[u] EXCEPT !.alone = FALSE]
        BY <3>1 DEF Others
    <3> QED
        BY <1>1, <3>2 DEF Jobs
  <2> QED
      BY <2>1, <2>2 DEF Kept
<1>4. ASSUME NEW i, DOMAIN i = DOMAIN j, i.cmd = j.cmd, i.n = j.n, Go(t, i)
      PROVE  Kept(t) /\ Own(t) /\ job'[t].size = i.size
  <2> DEFINE k == [i EXCEPT !.todo = Tail(@)]
  <2>1. Leads(t, k)
      BY <1>4 DEF Go, Leads
  <2>2. {"cmd", "n", "size"} \subseteq DOMAIN i \ {"todo"}
      BY <1>1, <1>4 DEF Jobs
  <2>3. k.cmd = j.cmd /\ k.n = j.n /\ k.size = i.size
      BY <1>4, <2>2
  <2> HIDE DEF k
  <2> QED
      BY <1>3, <2>1, <2>3 DEF Own
<1>5. ASSUME NEW r, Done(t, r) PROVE Kept(t) /\ Own(t) /\ Sized(t)
  <2> DEFINE k == [job[t] EXCEPT !.todo = << >>, !.res = r]
  <2>1. [Others(job, t) EXCEPT ![t].todo = << >>, ![t].res = r] = [Others(job, t) EXCEPT ![t] = k]
      BY <1>1 DEF Others
  <2>2. Leads(t, k)
      BY <1>5, <2>1 DEF Done, Leads
  <2>3. k.cmd = j.cmd /\ k.n = j.n /\ k.size = j.size
      BY <1>1 DEF Jobs
  <2> HIDE DEF k
  <2> QED
      BY <1>3, <2>2, <2>3 DEF Own, Sized
<1>6. Go(t, j) => Kept(t) /\ Own(t) /\ Sized(t)
    BY <1>4 DEF Sized
<1>7. CASE Assign(t) \/ Write(t)
    BY <1>2, <1>6, <1>7 DEF Assign, Write
<1>8. CASE Flag(t)
    BY <1>2, <1>5, <1>6, <1>8 DEF Flag
<1>9. CASE Frequency(t)
  <2> DEFINE i == [job[t] EXCEPT !.res = divide_n]
  <2>1. DOMAIN i = DOMAIN j /\ i.cmd = j.cmd /\ i.n = j.n /\ i.size = j.size
      BY <1>1 DEF Jobs
  <2>2. (\E r : Done(t, r)) \/ Go(t, j) \/ Go(t, i) \/ UNCHANGED job
      BY <1>9, Frequencies
  <2>3. UNCHANGED job => Kept(t) /\ Own(t) /\ Sized(t)
      BY DEF Kept, Own, Sized
  <2> HIDE DEF i
  <2> QED
      BY <1>2, <1>4, <1>5, <1>6, <2>1, <2>2, <2>3 DEF Sized
<1>10. CASE Read(t)
  <2> DEFINE i == [job[t] EXCEPT !.res = Word * (reg.count \div Word)]
  <2>1. DOMAIN i = DOMAIN j /\ i.cmd = j.cmd /\ i.n = j.n /\ i.size = j.size
      BY <1>1 DEF Jobs
  <2>2. (\E r : Done(t, r)) \/ Go(t, j) \/ Go(t, i)
      BY <1>10 DEF Read
  <2> HIDE DEF i
  <2> QED
      BY <1>2, <1>4, <1>5, <1>6, <2>1, <2>2 DEF Sized
<1>11. CASE Enter(t)
  <2> DEFINE e == Extent(job[t].cmd)
             i == [job[t] EXCEPT !.at = e.at, !.size = e.size]
  <2>1. DOMAIN i = DOMAIN j /\ i.cmd = j.cmd /\ i.n = j.n
      BY <1>1 DEF Jobs
  <2>2. Go(t, i)
      BY <1>11 DEF Enter
  <2> HIDE DEF i
  <2> QED
      BY <1>2, <1>4, <1>11, <2>1, <2>2
<1>12. CASE Select(t)
  <2> DEFINE i == [job[t] EXCEPT !.left = job[t].size]
  <2>1. DOMAIN i = DOMAIN j /\ i.cmd = j.cmd /\ i.n = j.n /\ i.size = j.size
      BY <1>1 DEF Jobs
  <2>2. Go(t, i)
      BY <1>12 DEF Select
  <2> HIDE DEF i
  <2> QED
      BY <1>2, <1>4, <2>1, <2>2 DEF Sized
<1>13. CASE Copy(t)
  <2>1. PICK ch \in Channels :
           LET now == [j EXCEPT ![ch] = @ \o SubSeq(Port, 1, Used(j.left)), !.left = @ - Used(@)]
           IN  IF More(j.left) THEN Leads(t, now) ELSE Go(t, now)
      BY <1>13 DEF Copy, Leads
  <2> DEFINE now == [j EXCEPT ![ch] = @ \o SubSeq(Port, 1, Used(j.left)), !.left = @ - Used(@)]
  <2>2. DOMAIN now = DOMAIN j /\ now.cmd = j.cmd /\ now.n = j.n /\ now.size = j.size
      BY <1>1 DEF Jobs, Channels
  <2>3. Leads(t, now) \/ Go(t, now)
      BY <2>1
  <2> HIDE DEF now
  <2> QED
      BY <1>2, <1>3, <1>4, <2>2, <2>3 DEF Own, Sized
<1> QED
    BY <1>2, <1>7, <1>8, <1>9, <1>10, <1>11, <1>12, <1>13 DEF Step

\* The history is one of the clients.
MetAll == DOMAIN met = Clients

LEMMA MetInit == Init => MetAll
BY DEF Init, MetAll

LEMMA MetStep == ASSUME MetAll, [Next]_vars PROVE MetAll'
<1>1. ASSUME NEW t \in Clients, Begin(t) PROVE MetAll'
    BY <1>1 DEF Begin, MetAll
<1>2. ASSUME NEW t \in Clients, Step(t) PROVE MetAll'
    BY <1>2 DEF Step, Meets, MetAll
<1>3. CASE UNCHANGED met
    BY <1>3 DEF MetAll
<1> QED
    BY <1>1, <1>2, <1>3 DEF Next, Trigger, vars

\* A command that is not met after a step of another thread has not been met
\* before and is not the one of that thread.
LEMMA NotMet ==
    ASSUME MetAll, NEW c \in Clients, NEW t \in Clients \ {c}, Step(t), NEW k, k \notin met'[c]
    PROVE  /\ k \notin met[c]
           /\ job[c].todo # << >> => job[t].cmd.c # k
BY DEF Step, Meets, MetAll

\* A thread meets nothing by steps of its own, and none when others begin.
LEMMA SameMet ==
    ASSUME MetAll, NEW c \in Clients
    PROVE  /\ Step(c) => met'[c] = met[c]
           /\ \A t \in Clients \ {c} : Begin(t) => met'[c] = met[c]
BY DEF Step, Begin, Meets, MetAll

ByColumn == {"readwave", "readmemory"}

\* The buffer was allocated for as many samples as are stored, and for a read
\* by column wavesize has not changed since, if the read has met no start.
Buffered(c) ==
    "startad" \notin met[c] =>
        /\ job[c].size \in {0, job[c].n}
        /\ job[c].todo # << >> /\ job[c].cmd.c \in ByColumn => job[c].n = wavesize

BufferInv == AdInv /\ MetAll /\ \A c \in Clients : Buffered(c)

\* Only Assign sets wavesize.
LEMMA WaveSet ==
    ASSUME AdInv, NEW t \in Clients, Step(t), job[t].cmd.c # "startad" PROVE UNCHANGED wavesize
<1>1. ~Assign(t)
  <2>1. ASSUME At(t, "assign") PROVE FALSE
      BY <2>1, Calls, ReadCalls, OtherCalls
  <2> QED
      BY <2>1 DEF Assign
<1> QED
    BY <1>1 DEF Step, Frequency, Write, Read, Enter, Flag, Select, Copy

\* ReadMemory finds wavesize as the allocation did.
LEMMA EntersAs ==
    ASSUME BufferInv, NEW t \in Clients, Enter(t), "startad" \notin met[t] PROVE job'[t].size = job[t].n
<1> DEFINE j == job[t]
           e == Extent(job[t].cmd)
           i == [job[t] EXCEPT !.at = e.at, !.size = e.size]
<1>1. At(t, "enter") /\ Go(t, i) /\ AdInv /\ Buffered(t) /\ job \in [Clients -> Jobs]
    BY DEF Enter, BufferInv, AdInv, Typed
<1>2. DOMAIN i = DOMAIN j /\ i.todo = j.todo /\ i.size = e.size /\ "size" \in DOMAIN i \ {"todo"}
    BY <1>1 DEF Jobs
<1>3. IsRead(j.cmd) /\ j.todo # << >> /\ (j.cmd.c = "readmemoryb" => j.n = j.cmd.n)
  <2>1. /\ j.cmd \in Cmds /\ j.todo \in Seq(DeviceCalls) /\ j.todo # << >> /\ Lengths(j)
        /\ Head(j.todo) = "enter" /\ Suffix(j.todo, j.cmd) /\ j.cmd.c # "none"
      BY <1>1, Calls DEF Right
  <2>2. IsRead(j.cmd)
      BY <2>1, StartCalls, OtherCalls
  <2> QED
      BY <2>1, <2>2 DEF Lengths
<1>4. e.size = j.n
    BY <1>1, <1>3 DEF Extent, IsRead, Buffered, ByColumn
<1> HIDE DEF i, e
<1> QED
    BY <1>1, <1>2, <1>4, GoesTo

\* wavesize changes by a start, which a read that relies on it meets.
LEMMA BufferedStep ==
    ASSUME NEW c \in Clients, BufferInv, [Next]_vars PROVE Buffered(c)'
<1>1. job \in [Clients -> Jobs] /\ AdInv /\ MetAll /\ Buffered(c)
    BY DEF BufferInv, AdInv, Typed
<1> SUFFICES ASSUME "startad" \notin met'[c]
             PROVE  /\ job'[c].size \in {0, job'[c].n}
                    /\ job'[c].todo # << >> /\ job'[c].cmd.c \in ByColumn => job'[c].n = wavesize'
    BY DEF Buffered
<1>2. ASSUME NEW t \in Clients, Begin(t)
      PROVE  /\ job'[c].size \in {0, job'[c].n}
             /\ job'[c].todo # << >> /\ job'[c].cmd.c \in ByColumn => job'[c].n = wavesize'
  <2>1. PICK cmd \in Menu[t] :
           job' = [job EXCEPT ![t] = [Idle EXCEPT
                     !.cmd = cmd, !.todo = Script(cmd),
                     !.n = IF cmd.c = "readmemoryb" THEN cmd.n ELSE wavesize]]
      BY <1>2 DEF Begin
  <2>2. /\ job'[t].cmd = cmd /\ job'[t].size = 0 /\ (cmd.c # "readmemoryb" => job'[t].n = wavesize)
        /\ \A u \in Clients \ {t} : job'[u] = job[u]
      BY <1>1, <2>1 DEF Idle
  <2>3. wavesize' = wavesize
      BY <1>2 DEF Begin
  <2>4. CASE t = c
      BY <2>2, <2>3, <2>4 DEF ByColumn
  <2>5. CASE t # c
    <3>1. job'[c] = job[c] /\ met'[c] = met[c]
        BY <1>1, <1>2, <2>2, <2>5, SameMet
    <3> QED
        BY <1>1, <2>3, <3>1 DEF Buffered
  <2> QED
      BY <2>4, <2>5
<1>3. CASE Step(c)
  <2>1. /\ "startad" \notin met[c] /\ job'[c].cmd = job[c].cmd /\ job'[c].n = job[c].n
        /\ job[c].todo # << >> /\ (Enter(c) \/ job'[c].size = job[c].size)
      BY <1>1, <1>3, Moving, SameMet DEF Own, Sized
  <2>2. job'[c].size \in {0, job'[c].n}
      BY <1>1, <2>1, EntersAs DEF Buffered
  <2>3. job'[c].cmd.c \in ByColumn => job'[c].n = wavesize'
      BY <1>1, <1>3, <2>1, WaveSet DEF Buffered, ByColumn
  <2> QED
      BY <2>2, <2>3
<1>4. ASSUME NEW t \in Clients \ {c}, Step(t)
      PROVE  /\ job'[c].size \in {0, job'[c].n}
             /\ job'[c].todo # << >> /\ job'[c].cmd.c \in ByColumn => job'[c].n = wavesize'
  <2>1. /\ job'[c].cmd = job[c].cmd /\ job'[c].todo = job[c].todo
        /\ job'[c].n = job[c].n /\ job'[c].size = job[c].size
      BY <1>1, <1>4, Moving DEF Kept
  <2>2. "startad" \notin met[c] /\ (job[c].todo # << >> => job[t].cmd.c # "startad")
      BY <1>1, <1>4, NotMet
  <2>3. job[c].todo # << >> => UNCHANGED wavesize
      BY <1>1, <1>4, <2>2, WaveSet
  <2> QED
      BY <1>1, <2>1, <2>2, <2>3 DEF Buffered
<1>5. CASE UNCHANGED <<job, wavesize, met>>
    BY <1>1, <1>5 DEF Buffered
<1> QED
    BY <1>2, <1>3, <1>4, <1>5 DEF Next, Trigger, vars

\* That is what BufferHolds asks.
LEMMA BufferedHolds == BufferInv => BufferHolds
<1> SUFFICES ASSUME BufferInv, NEW t \in Clients, "startad" \notin met[t]
             PROVE  job[t].size <= IF job[t].cmd.c = "readwave" THEN 2 * job[t].n ELSE job[t].n
    BY DEF BufferHolds
<1> DEFINE s == job[t].size
           n == job[t].n
<1>1. s \in Nat /\ n \in Nat /\ s \in {0, n}
    BY DEF BufferInv, Buffered, AdInv, Typed, Jobs
<1> HIDE DEF s, n
<1>2. s <= n /\ s <= 2 * n
    BY <1>1
<1> QED
    BY <1>2 DEF s, n

\* The buffer that compuAD allocates by wavesize holds what ReadMemory reads by
\* it later, whoever starts and reads, as long as no start of another client
\* comes in between.
THEOREM BufferAlwaysHolds == Spec => []BufferHolds
<1>1. Init => BufferInv
  <2>1. Init => \A c \in Clients : Buffered(c)
      BY DEF Init, Idle, Buffered
  <2> QED
      BY <2>1, AdInvInit, MetInit DEF BufferInv
<1>2. BufferInv /\ [Next]_vars => BufferInv'
  <2> SUFFICES ASSUME BufferInv, [Next]_vars PROVE BufferInv'
      OBVIOUS
  <2>1. AdInv' /\ MetAll'
      BY AdInvStep, MetStep DEF BufferInv
  <2> QED
      BY <2>1, BufferedStep DEF BufferInv
<1> QED
    BY <1>1, <1>2, BufferedHolds, PTL DEF Spec

-----------------------------------------------------------------------------
\* A setsamplefreq.

\* How far the clock is set for frequency f, with n calls left and r loaded.
SetSoFar(n, f, r) ==
    /\ n <= 3 => divide_n = Divider(f)
    /\ n <= 2 => prescaler = Prescaler(f)
    /\ n <= 1 => r = divide_n

Setting(c) ==
    job[c].todo # << >> /\ job[c].cmd.c = "setsamplefreq" /\ "setsamplefreq" \notin met[c]
        => SetSoFar(Len(job[c].todo), job[c].cmd.f, job[c].res)

SettingInv == AdInv /\ MetAll /\ \A c \in Clients : Setting(c)

\* Only Frequency sets the clock, and it is all that a setsamplefreq does.
LEMMA ClockSet ==
    ASSUME AdInv, NEW t \in Clients, Step(t)
    PROVE  /\ job[t].cmd.c # "setsamplefreq" => UNCHANGED <<divide_n, prescaler>>
           /\ job[t].cmd.c = "setsamplefreq" => Frequency(t)
<1>1. ASSUME Frequency(t) PROVE job[t].cmd.c = "setsamplefreq"
    BY <1>1, Frequencies
<1>2. ASSUME ~Frequency(t) PROVE job[t].cmd.c # "setsamplefreq" /\ UNCHANGED clock
  <2>1. \E s : At(t, s) /\ s \notin {"divide", "prescale", "load", "answer"}
    <3>1. \A ch \in Channels : Copying[ch] \in {"coscopy", "sincopy"}
        BY DEF Copying, Channels
    <3>2. CASE Copy(t)
        BY <3>1, <3>2 DEF Copy
    <3>3. CASE Select(t)
        BY <3>3 DEF Select, Channels
    <3>4. CASE Assign(t) \/ Enter(t)
        BY <3>4 DEF Assign, Enter
    <3>5. CASE Write(t)
        BY <3>5 DEF Write
    <3>6. CASE Read(t)
        BY <3>6 DEF Read
    <3>7. CASE Flag(t)
        BY <3>7 DEF Flag
    <3> QED
        BY <1>2, <3>2, <3>3, <3>4, <3>5, <3>6, <3>7 DEF Step
  <2>2. job[t].cmd.c # "setsamplefreq"
      BY <2>1, Calls, OtherCalls DEF IsRead
  <2> QED
      BY <1>2, <2>2 DEF Step, Assign, Write, Read, Enter, Flag, Select, Copy
<1> QED
    BY <1>1, <1>2 DEF clock

\* Its own steps.
LEMMA SetsOn ==
    ASSUME NEW c \in Clients, AdInv, Step(c), Frequency(c), job'[c].todo # << >>,
           SetSoFar(Len(job[c].todo), job[c].cmd.f, job[c].res)
    PROVE  SetSoFar(Len(job[c].todo), job[c].cmd.f, job[c].res)'
<1> DEFINE n == Len(job[c].todo)
           f == job[c].cmd.f
           r == job[c].res
           m == Len(job'[c].todo)
           x == job'[c].res
<1>1. job[c].todo # << >> /\ job[c] \in Jobs /\ n \in 1 .. 4
  <2>1. job[c].todo # << >> /\ job[c] \in Jobs
      BY Frequencies DEF AdInv, Typed
  <2>2. n = 4 \/ n = 3 \/ n = 2 \/ n = 1
      BY Frequencies
  <2> QED
      BY <2>1, <2>2
<1>2. job'[c].cmd.f = f
    BY Moving DEF Own
<1>3. ASSUME NEW i, DOMAIN i = DOMAIN job[c], i.todo = job[c].todo, Go(c, i)
      PROVE  m = n - 1 /\ x = i.res
  <2>1. /\ job'[c].todo = Tail(job[c].todo) /\ "res" \in DOMAIN i \ {"todo"}
      BY <1>1, <1>3, GoesTo DEF Jobs
  <2>2. x = i.res
      BY <1>3, <2>1, GoesTo
  <2>3. Len(Tail(job[c].todo)) = n - 1
    <3> DEFINE q == job[c].todo
    <3>1. q \in Seq(DeviceCalls) /\ q # << >>
        BY <1>1 DEF Jobs
    <3> HIDE DEF q
    <3>2. Len(Tail(q)) = Len(q) - 1
        BY <3>1
    <3> QED
        BY <3>2 DEF q
  <2> QED
      BY <2>1, <2>2, <2>3
<1>4. \/ n = 4 /\ m = 3 /\ divide_n' = Divider(f)
      \/ n = 3 /\ m = 2 /\ prescaler' = Prescaler(f) /\ divide_n' = divide_n
      \/ n = 2 /\ m = 1 /\ UNCHANGED <<divide_n, prescaler>> /\ x = divide_n
      \/ n = 1 /\ m = 1 /\ UNCHANGED <<divide_n, prescaler>> /\ x = r
  <2>1. Go(c, job[c]) => m = n - 1
      BY <1>3
  <2>2. Go(c, [job[c] EXCEPT !.res = divide_n]) => m = n - 1 /\ x = divide_n
    <3> DEFINE i == [job[c] EXCEPT !.res = divide_n]
    <3>1. DOMAIN i = DOMAIN job[c] /\ i.todo = job[c].todo /\ i.res = divide_n
        BY <1>1 DEF Jobs
    <3> HIDE DEF i
    <3>2. Go(c, i) => m = n - 1 /\ x = divide_n
        BY <1>3, <3>1
    <3> QED
        BY <3>2 DEF i
  <2>3. ~Done(c, SampleFreq(job[c].res, prescaler))
      BY EndsAs
  <2>4. UNCHANGED job => m = n /\ x = r
      OBVIOUS
  <2>5. \/ n = 4 /\ divide_n' = Divider(f) /\ Go(c, job[c])
        \/ n = 3 /\ prescaler' = Prescaler(f) /\ UNCHANGED <<divide_n, halted>> /\ Go(c, job[c])
        \/ /\ n = 2 /\ UNCHANGED <<divide_n, prescaler, halted>>
           /\ Go(c, [job[c] EXCEPT !.res = divide_n])
        \/ n = 1 /\ UNCHANGED <<divide_n, prescaler>> /\ UNCHANGED job
      BY <2>3, Frequencies
  <2> HIDE DEF n, m, x, r, f
  <2> QED
      BY <2>1, <2>2, <2>4, <2>5
<1>5. SetSoFar(n, f, r)
    OBVIOUS
<1> HIDE DEF n, m, x, r, f
<1>6. /\ m <= 3 => divide_n' = Divider(f)
      /\ m <= 2 => prescaler' = Prescaler(f)
      /\ m <= 1 => x = divide_n'
    BY <1>4, <1>5 DEF SetSoFar
<1> QED
    BY <1>2, <1>6 DEF SetSoFar, m, x, f

\* Another setsamplefreq is met.
LEMMA SettingStep ==
    ASSUME NEW c \in Clients, SettingInv, [Next]_vars PROVE Setting(c)'
<1>1. job \in [Clients -> Jobs] /\ AdInv /\ MetAll /\ Setting(c)
    BY DEF SettingInv, AdInv, Typed
<1> SUFFICES ASSUME job'[c].todo # << >>, job'[c].cmd.c = "setsamplefreq",
                    "setsamplefreq" \notin met'[c]
             PROVE  SetSoFar(Len(job[c].todo), job[c].cmd.f, job[c].res)'
    BY DEF Setting
<1>0. ASSUME job'[c] = job[c], UNCHANGED <<divide_n, prescaler>>, met'[c] = met[c]
      PROVE  SetSoFar(Len(job[c].todo), job[c].cmd.f, job[c].res)'
    BY <1>0, <1>1 DEF Setting, SetSoFar
<1>2. ASSUME NEW t \in Clients, Begin(t)
      PROVE  SetSoFar(Len(job[c].todo), job[c].cmd.f, job[c].res)'
  <2>1. PICK cmd \in Menu[t] :
           job' = [job EXCEPT ![t] = [Idle EXCEPT
                     !.cmd = cmd, !.todo = Script(cmd),
                     !.n = IF cmd.c = "readmemoryb" THEN cmd.n ELSE wavesize]]
      BY <1>2 DEF Begin
  <2>2. UNCHANGED <<divide_n, prescaler>>
      BY <1>2 DEF Begin, clock
  <2>3. CASE t = c
    <3>1. job'[c].cmd = cmd /\ job'[c].todo = Script(cmd)
        BY <1>1, <2>1, <2>3 DEF Idle
    <3>2. Len(job'[c].todo) = 4
        BY <3>1 DEF Script, SetSampleFreq
    <3> QED
        BY <3>2 DEF SetSoFar
  <2>4. CASE t # c
    <3>1. job'[c] = job[c] /\ met'[c] = met[c]
        BY <1>1, <1>2, <2>1, <2>4, SameMet
    <3> QED
        BY <1>0, <2>2, <3>1
  <2> QED
      BY <2>3, <2>4
<1>3. CASE Step(c)
  <2>1. /\ "setsamplefreq" \notin met[c] /\ job[c].cmd.c = "setsamplefreq" /\ job[c].todo # << >>
      BY <1>1, <1>3, Moving, SameMet DEF Own
  <2>2. Frequency(c)
      BY <1>1, <1>3, <2>1, ClockSet
  <2> QED
      BY <1>1, <1>3, <2>1, <2>2, SetsOn DEF Setting
<1>4. ASSUME NEW t \in Clients \ {c}, Step(t)
      PROVE  SetSoFar(Len(job[c].todo), job[c].cmd.f, job[c].res)'
  <2>1. /\ job'[c].cmd = job[c].cmd /\ job'[c].todo = job[c].todo /\ job'[c].res = job[c].res
      BY <1>1, <1>4, Moving DEF Kept
  <2>2. "setsamplefreq" \notin met[c] /\ job[t].cmd.c # "setsamplefreq"
      BY <1>1, <1>4, <2>1, NotMet
  <2>3. UNCHANGED <<divide_n, prescaler>>
      BY <1>1, <1>4, <2>2, ClockSet
  <2> QED
      BY <1>1, <2>1, <2>2, <2>3 DEF Setting, SetSoFar
<1>5. CASE UNCHANGED <<job, met, clock>>
    BY <1>0, <1>5 DEF clock
<1> QED
    BY <1>2, <1>3, <1>4, <1>5 DEF Next, Trigger, vars

\* What is loaded for the answer is then the divider, which is not 0.
LEMMA FreqEnds ==
    ASSUME SettingInv, [Next]_vars, NEW t \in Clients,
           Ends(t), job[t].cmd.c = "setsamplefreq", job[t].cmd.f \in 1 .. BoardFreq,
           "setsamplefreq" \notin met[t]
    PROVE  Closest(job[t].cmd.f, divide_n', prescaler')
<1> DEFINE n == Len(job[t].todo)
           f == job[t].cmd.f
<1>1. AdInv /\ Setting(t) /\ job[t].todo # << >> /\ job'[t].todo = << >> /\ job[t] \in Jobs
    BY DEF SettingInv, Ends, AdInv, Typed
<1>2. Step(t) /\ Frequency(t)
    BY <1>1, EndsItself, ClockSet
<1>3. ASSUME NEW i, DOMAIN i = DOMAIN job[t], i.todo = job[t].todo, Go(t, i) PROVE n = 1
  <2>1. job'[t].todo = Tail(job[t].todo)
      BY <1>1, <1>3, GoesTo
  <2> QED
      BY <1>1, <2>1, LastCall
<1>4. /\ n = 1 /\ UNCHANGED <<divide_n, prescaler>> /\ SampleFreq(job[t].res, prescaler) # Crash
  <2>1. Go(t, job[t]) => n = 1
      BY <1>3
  <2>2. Go(t, [job[t] EXCEPT !.res = divide_n]) => n = 1
    <3> DEFINE i == [job[t] EXCEPT !.res = divide_n]
    <3>1. DOMAIN i = DOMAIN job[t] /\ i.todo = job[t].todo
        BY <1>1 DEF Jobs
    <3> HIDE DEF i
    <3>2. Go(t, i) => n = 1
        BY <1>3, <3>1
    <3> QED
        BY <3>2 DEF i
  <2>3. ~UNCHANGED job
      BY <1>1
  <2>4. \/ n = 4 /\ Go(t, job[t])
        \/ n = 3 /\ Go(t, job[t])
        \/ n = 2 /\ Go(t, [job[t] EXCEPT !.res = divide_n])
        \/ /\ n = 1 /\ UNCHANGED <<divide_n, prescaler>>
           /\ UNCHANGED job \/ SampleFreq(job[t].res, prescaler) # Crash
      BY <1>1, <1>2, Frequencies
  <2> HIDE DEF n
  <2> QED
      BY <2>1, <2>2, <2>3, <2>4
<1>5. divide_n = Divider(f) /\ prescaler = Prescaler(f) /\ job[t].res = divide_n
    BY <1>1, <1>4 DEF Setting, SetSoFar
<1>6. Divider(f) # 0
    BY <1>4, <1>5 DEF SampleFreq
<1> QED
    BY <1>4, <1>5, <1>6, ChosenIsClosest

\* For every clock of the board and every frequency up to it, and whatever the
\* other connections run: a setsamplefreq that answers, and into which that of
\* another client has not come, has set the best divider and prescaler there
\* are.  (SetSampleFreq, GetSampleFreq.)
THEOREM ClosestAlwaysSet == Spec => ClosestIsSet
<1>1. Init => SettingInv
  <2>1. Init => \A c \in Clients : Setting(c)
      BY DEF Init, Idle, Setting
  <2> QED
      BY <2>1, AdInvInit, MetInit DEF SettingInv
<1>2. SettingInv /\ [Next]_vars => SettingInv'
  <2> SUFFICES ASSUME SettingInv, [Next]_vars PROVE SettingInv'
      OBVIOUS
  <2>1. AdInv' /\ MetAll'
      BY AdInvStep, MetStep DEF SettingInv
  <2> QED
      BY <2>1, SettingStep DEF SettingInv
<1>3. ASSUME SettingInv, [Next]_vars
      PROVE  [\A t \in Clients :
                 Ends(t) /\ job[t].cmd.c = "setsamplefreq" /\ job[t].cmd.f \in 1 .. BoardFreq
                 /\ "setsamplefreq" \notin met[t]
                    => Closest(job[t].cmd.f, divide_n', prescaler')]_vars
    BY <1>3, FreqEnds
<1> QED
    BY <1>1, <1>2, <1>3, PTL DEF Spec, ClosestIsSet

-----------------------------------------------------------------------------
\* A start.

\* The registers that the sampling depends on.
Settings == <<reg.mode, reg.clock, reg.size, reg.shots>>

\* The other commands only stop the sampling and set the addresses.
LEMMA OtherWrites ==
    ASSUME AdInv, NEW t \in Clients, Write(t), job[t].cmd.c # "startad"
    PROVE  UNCHANGED Settings /\ (reg'.on => reg.on)
<1>1. PICK s \in {"off", "mode", "clock", "size", "shots", "setcos", "setsin", "on"} : At(t, s)
    BY DEF Write
<1>2. s \in {"off", "setcos", "setsin"}
  <2>1. CASE IsRead(job[t].cmd)
      BY <1>1, <2>1, Calls, ReadCalls
  <2>2. CASE ~IsRead(job[t].cmd)
      BY <1>1, <2>2, Calls, OtherCalls
  <2> QED
      BY <2>1, <2>2
<1>3. \/ reg' = [reg EXCEPT !.on = FALSE]
      \/ \E a : reg' = [reg EXCEPT !.cos = a] \/ reg' = [reg EXCEPT !.sin = a]
    BY <1>1, <1>2 DEF Write, At
<1>4. reg \in Regs
    BY DEF AdInv, Typed
<1> QED
    BY <1>3, <1>4 DEF Settings, Regs

\* Only a write sets them or starts the sampling.
LEMMA RegKept ==
    ASSUME AdInv, NEW t \in Clients, Step(t), Write(t) => job[t].cmd.c # "startad"
    PROVE  UNCHANGED Settings /\ (reg'.on => reg.on)
<1>1. reg \in Regs
    BY DEF AdInv, Typed
<1>2. CASE Write(t)
    BY <1>2, OtherWrites
<1>3. CASE Copy(t)
  <2>1. reg' = reg \/ \E v : reg' = [reg EXCEPT !.cos = v] \/ reg' = [reg EXCEPT !.sin = v]
      BY <1>3 DEF Copy, Channels
  <2> QED
      BY <1>1, <2>1 DEF Settings, Regs
<1>4. CASE ~Write(t) /\ ~Copy(t)
  <2>1. UNCHANGED reg
      BY <1>4 DEF Step, Assign, Frequency, Read, Enter, Flag, Select
  <2> QED
      BY <2>1 DEF Settings
<1> QED
    BY <1>2, <1>3, <1>4

\* The calls of the other steps.
LEMMA NoStart ==
    ASSUME NEW t \in Clients, Step(t), ~Write(t), ~Assign(t)
    PROVE  \E s : /\ At(t, s)
                  /\ s \notin {"assign", "off", "mode", "clock", "size", "shots", "setcos",
                               "setsin", "on"}
<1>1. \A ch \in Channels : Copying[ch] \in {"coscopy", "sincopy"}
    BY DEF Copying, Channels
<1>2. CASE Frequency(t)
    BY <1>2 DEF Frequency
<1>3. CASE Read(t)
    BY <1>3 DEF Read
<1>4. CASE Enter(t)
    BY <1>4 DEF Enter
<1>5. CASE Flag(t)
    BY <1>5 DEF Flag
<1>6. CASE Select(t)
    BY <1>6 DEF Select, Channels
<1>7. CASE Copy(t)
    BY <1>1, <1>7 DEF Copy
<1> QED
    BY <1>2, <1>3, <1>4, <1>5, <1>6, <1>7 DEF Step

\* The writes of a start, by the calls that it has left.
LEMMA StartWrites ==
    ASSUME AdInv, NEW t \in Clients, Write(t), job[t].cmd.c = "startad"
    PROVE  LET n == Len(job[t].todo)
           IN  /\ n \in 1 .. 8 /\ job[t].cmd.w # 0
               /\ job'[t].todo = Tail(job[t].todo)
               /\ Len(job'[t].todo) = n - 1
               /\ \/ n = 8 /\ reg' = [reg EXCEPT !.on = FALSE]
                  \/ n = 7 /\ reg' = [reg EXCEPT !.mode = prescaler]
                  \/ n = 6 /\ reg' = [reg EXCEPT !.clock = divide_n]
                  \/ n = 5 /\ reg' = [reg EXCEPT !.size = job[t].cmd.w]
                  \/ n = 4 /\ reg' = [reg EXCEPT !.shots = ites]
                  \/ n = 3 /\ reg' = [reg EXCEPT !.cos = job[t].at]
                  \/ n = 2 /\ reg' = [reg EXCEPT !.sin = job[t].at]
                  \/ n = 1 /\ reg' = [reg EXCEPT !.on = TRUE, !.ended = FALSE,
                                                 !.acq = @ + 1, !.count = 0]
<1>1. PICK s \in {"off", "mode", "clock", "size", "shots", "setcos", "setsin", "on"} : At(t, s)
    BY DEF Write
<1> DEFINE n == Len(job[t].todo)
<1>2. /\ job[t].cmd.w # 0 /\ n \in 1 .. 9
      /\ n = 9 <=> s = "assign"
      /\ n = 8 <=> s = "off"
      /\ n = 7 <=> s = "mode"
      /\ n = 6 <=> s = "clock"
      /\ n = 5 <=> s = "size"
      /\ n = 4 <=> s = "shots"
      /\ n = 3 <=> s = "setcos"
      /\ n = 2 <=> s = "setsin"
      /\ n = 1 <=> s = "on"
    BY <1>1, Calls, StartCalls
<1>3. /\ job'[t].todo = Tail(job[t].todo) /\ Len(Tail(job[t].todo)) = n - 1
  <2>1. Go(t, job[t])
      BY DEF Write
  <2>2. job[t] \in Jobs /\ job[t].todo # << >>
      BY <1>1, Calls
  <2>3. Len(Tail(job[t].todo)) = n - 1
    <3> DEFINE q == job[t].todo
    <3>1. q \in Seq(DeviceCalls) /\ q # << >>
        BY <2>2 DEF Jobs
    <3> HIDE DEF q
    <3>2. Len(Tail(q)) = Len(q) - 1
        BY <3>1
    <3> QED
        BY <3>2 DEF q
  <2> QED
      BY <2>1, <2>3, GoesTo
<1>4. \/ s = "off" /\ reg' = [reg EXCEPT !.on = FALSE]
      \/ s = "mode" /\ reg' = [reg EXCEPT !.mode = prescaler]
      \/ s = "clock" /\ reg' = [reg EXCEPT !.clock = divide_n]
      \/ s = "size" /\ reg' = [reg EXCEPT !.size = job[t].cmd.w]
      \/ s = "shots" /\ reg' = [reg EXCEPT !.shots = ites]
      \/ s = "setcos" /\ reg' = [reg EXCEPT !.cos = job[t].at]
      \/ s = "setsin" /\ reg' = [reg EXCEPT !.sin = job[t].at]
      \/ s = "on" /\ reg' = [reg EXCEPT !.on = TRUE, !.ended = FALSE,
                                        !.acq = @ + 1, !.count = 0]
    BY <1>1 DEF Write, At
<1>5. n \in 1 .. 8
    BY <1>2
<1> HIDE DEF n
<1>6. \/ n = 8 /\ reg' = [reg EXCEPT !.on = FALSE]
      \/ n = 7 /\ reg' = [reg EXCEPT !.mode = prescaler]
      \/ n = 6 /\ reg' = [reg EXCEPT !.clock = divide_n]
      \/ n = 5 /\ reg' = [reg EXCEPT !.size = job[t].cmd.w]
      \/ n = 4 /\ reg' = [reg EXCEPT !.shots = ites]
      \/ n = 3 /\ reg' = [reg EXCEPT !.cos = job[t].at]
      \/ n = 2 /\ reg' = [reg EXCEPT !.sin = job[t].at]
      \/ n = 1 /\ reg' = [reg EXCEPT !.on = TRUE, !.ended = FALSE,
                                     !.acq = @ + 1, !.count = 0]
    BY <1>2, <1>4
<1> QED
    BY <1>2, <1>3, <1>5, <1>6 DEF n

\* How far the registers are set for a start of w samples and it triggers that
\* has n calls left, and for the clock.
Prepared(n, w, it, r, i) ==
    /\ n <= 8 => i = it
    /\ n <= 7 => ~r.on
    /\ n <= 4 => r.size = w
    /\ n <= 3 => r.shots = it
Clocked(n, r) ==
    /\ n <= 6 => r.mode = prescaler
    /\ n <= 5 => r.clock = divide_n

Starting(c) ==
    job[c].todo # << >> /\ job[c].cmd.c = "startad" /\ job[c].cmd.w # 0 /\ "startad" \notin met[c]
        => /\ Prepared(Len(job[c].todo), job[c].cmd.w, job[c].cmd.it, reg, ites)
           /\ "setsamplefreq" \notin met[c] => Clocked(Len(job[c].todo), reg)

StartInv == AdInv /\ MetAll /\ \A c \in Clients : Starting(c)

\* A step that does not start the sampling, set its registers or change the
\* members that they are set from keeps what is prepared.
LEMMA Undone ==
    ASSUME NEW c \in Clients, Starting(c), UNCHANGED <<ites, Settings>>, reg'.on => reg.on,
           "setsamplefreq" \in met'[c] \/ UNCHANGED <<prescaler, divide_n>>,
           "startad" \in met[c] => "startad" \in met'[c],
           "setsamplefreq" \in met[c] => "setsamplefreq" \in met'[c],
           job'[c].todo = job[c].todo, job'[c].cmd = job[c].cmd
    PROVE  Starting(c)'
BY DEF Starting, Prepared, Clocked, Settings

\* Every step of a client keeps what it has prepared: the board is off from
\* the first call on.
LEMMA WritePrepares ==
    ASSUME NEW c \in Clients, StartInv, Step(c), Write(c), job[c].cmd.c = "startad"
    PROVE  Starting(c)'
<1> DEFINE n == Len(job[c].todo)
           w == job[c].cmd.w
           it == job[c].cmd.it
<1>1. /\ n \in 1 .. 8 /\ w # 0
      /\ \/ n = 8 /\ reg' = [reg EXCEPT !.on = FALSE]
         \/ n = 7 /\ reg' = [reg EXCEPT !.mode = prescaler]
         \/ n = 6 /\ reg' = [reg EXCEPT !.clock = divide_n]
         \/ n = 5 /\ reg' = [reg EXCEPT !.size = w]
         \/ n = 4 /\ reg' = [reg EXCEPT !.shots = ites]
         \/ n = 3 /\ reg' = [reg EXCEPT !.cos = job[c].at]
         \/ n = 2 /\ reg' = [reg EXCEPT !.sin = job[c].at]
         \/ n = 1
      /\ Len(job'[c].todo) = n - 1
    BY StartWrites DEF StartInv
<1>2. /\ job'[c].cmd = job[c].cmd /\ job[c].todo # << >> /\ reg \in Regs /\ met'[c] = met[c]
      /\ UNCHANGED <<ites, prescaler, divide_n>>
  <2>1. Own(c) /\ job[c].todo # << >> /\ met'[c] = met[c]
      BY Moving, SameMet DEF StartInv
  <2> QED
      BY <2>1 DEF Own, StartInv, AdInv, Typed, Write, clock
<1>3. "startad" \notin met[c] =>
         /\ Prepared(n, w, it, reg, ites)
         /\ "setsamplefreq" \notin met[c] => Clocked(n, reg)
    BY <1>1, <1>2 DEF Starting, StartInv
<1>4. job'[c].todo # << >> => n # 1
  <2>1. job'[c].todo = Tail(job[c].todo) /\ (Tail(job[c].todo) = << >> <=> n = 1)
      BY <1>2, StartWrites, LastCall DEF StartInv
  <2> QED
      BY <2>1
<1> DEFINE m == Len(job'[c].todo)
<1>5. m = n - 1
    BY <1>1
<1> HIDE DEF n, w, it, m
<1>6. ASSUME n # 1, Prepared(n, w, it, reg, ites) PROVE Prepared(m, w, it, reg', ites)
  <2>1. n \in 2 .. 8
      BY <1>1, <1>6
  <2>2. n = 8 => reg' = [reg EXCEPT !.on = FALSE]
      BY <1>1
  <2>3. CASE n = 8
    <3>1. m = 7 /\ ites = it /\ ~reg'.on
      <4>1. ites = it
          BY <1>6, <2>3 DEF Prepared
      <4>2. ~reg'.on
          BY <1>2, <2>2, <2>3 DEF Regs
      <4> QED
          BY <1>5, <2>3, <4>1, <4>2
    <3> QED
        BY <3>1 DEF Prepared
  <2>4. CASE n \in 2 .. 7
    <3>1. ites = it /\ ~reg.on /\ m = n - 1
        BY <1>5, <1>6, <2>4 DEF Prepared
    <3>2. CASE n = 7
        BY <1>1, <1>2, <3>1, <3>2 DEF Prepared, Regs
    <3>3. CASE n = 6
        BY <1>1, <1>2, <1>6, <3>1, <3>3 DEF Prepared, Regs
    <3>4. CASE n = 5
        BY <1>1, <1>2, <1>6, <3>1, <3>4 DEF Prepared, Regs
    <3>5. CASE n = 4
        BY <1>1, <1>2, <1>6, <3>1, <3>5 DEF Prepared, Regs
    <3>6. CASE n = 3
        BY <1>1, <1>2, <1>6, <3>1, <3>6 DEF Prepared, Regs
    <3>7. CASE n = 2
        BY <1>1, <1>2, <1>6, <3>1, <3>7 DEF Prepared, Regs
    <3> QED
        BY <2>4, <3>2, <3>3, <3>4, <3>5, <3>6, <3>7
  <2> QED
      BY <2>1, <2>3, <2>4
<1>7. ASSUME n # 1, Clocked(n, reg)
      PROVE  (m <= 6 => reg'.mode = prescaler) /\ (m <= 5 => reg'.clock = divide_n)
  <2>1. CASE n = 8
      BY <1>5, <2>1
  <2>2. CASE n = 7
      BY <1>1, <1>2, <1>5, <2>2 DEF Regs
  <2>3. CASE n = 6
      BY <1>1, <1>2, <1>5, <1>7, <2>3 DEF Clocked, Regs
  <2>4. CASE n \in 2 .. 5
    <3>1. reg.mode = prescaler /\ reg.clock = divide_n
        BY <1>7, <2>4 DEF Clocked
    <3>2. reg'.mode = reg.mode /\ reg'.clock = reg.clock
        BY <1>1, <1>2, <2>4 DEF Regs
    <3> QED
        BY <3>1, <3>2
  <2> QED
      BY <1>1, <1>7, <2>1, <2>2, <2>3, <2>4
<1>8. ASSUME job'[c].todo # << >>, "startad" \notin met[c]
      PROVE  /\ Prepared(m, w, it, reg', ites)
             /\ "setsamplefreq" \notin met[c] =>
                   (m <= 6 => reg'.mode = prescaler) /\ (m <= 5 => reg'.clock = divide_n)
    BY <1>3, <1>4, <1>6, <1>7, <1>8
<1> QED
    BY <1>2, <1>8 DEF Starting, Prepared, Clocked, w, it, m

\* The first call of a start only sets ites.
LEMMA AssignPrepares ==
    ASSUME NEW c \in Clients, StartInv, Step(c), Assign(c), job[c].cmd.c = "startad"
    PROVE  Starting(c)'
<1>1. AdInv /\ At(c, "assign") /\ ites' = job[c].cmd.it /\ Go(c, job[c])
    BY DEF Assign, StartInv
<1>2. job'[c].cmd = job[c].cmd
    BY <1>1, Moving DEF Own
<1>3. job[c].cmd.w # 0 => Len(job[c].todo) = 9
    BY <1>1, Calls, StartCalls
<1>4. ASSUME job[c].cmd.w # 0 PROVE Len(job'[c].todo) = 8
  <2> DEFINE q == job[c].todo
  <2>1. q \in Seq(DeviceCalls) /\ q # << >> /\ Len(q) = 9
      BY <1>1, <1>3, <1>4, Calls
  <2>2. job'[c].todo = Tail(q)
      BY <1>1, GoesTo
  <2> HIDE DEF q
  <2> QED
      BY <2>1, <2>2
<1>5. ites' = job'[c].cmd.it
    BY <1>1, <1>2
<1>6. ASSUME job'[c].cmd.w # 0
      PROVE  /\ Prepared(Len(job[c].todo), job[c].cmd.w, job[c].cmd.it, reg, ites)'
             /\ Clocked(Len(job[c].todo), reg)'
  <2>1. Len(job'[c].todo) = 8
      BY <1>2, <1>4, <1>6
  <2> QED
      BY <1>5, <2>1 DEF Prepared, Clocked
<1> QED
    BY <1>6 DEF Starting

\* What the board and the other commands do leaves a start prepared, unless it
\* meets another start; and unless it meets a setsamplefreq, its clock.
LEMMA StartingStep ==
    ASSUME NEW c \in Clients, StartInv, [Next]_vars PROVE Starting(c)'
<1>1. job \in [Clients -> Jobs] /\ reg \in Regs /\ AdInv /\ MetAll /\ Starting(c)
    BY DEF StartInv, AdInv, Typed
<1>2. ASSUME NEW t \in Clients, Begin(t) PROVE Starting(c)'
  <2>1. PICK cmd \in Menu[t] :
           job' = [job EXCEPT ![t] = [Idle EXCEPT
                     !.cmd = cmd, !.todo = Script(cmd),
                     !.n = IF cmd.c = "readmemoryb" THEN cmd.n ELSE wavesize]]
      BY <1>2 DEF Begin
  <2>2. UNCHANGED <<ites, prescaler, divide_n, reg>>
      BY <1>2 DEF Begin, clock
  <2>3. CASE t = c
    <3>1. job'[c].cmd = cmd /\ job'[c].todo = Script(cmd)
        BY <1>1, <2>1, <2>3 DEF Idle
    <3>2. ASSUME cmd.c = "startad", cmd.w # 0 PROVE Len(Script(cmd)) = 9
        BY <3>2 DEF Script, StartAD
    <3>3. ASSUME cmd.c = "startad", cmd.w # 0
          PROVE  /\ Prepared(Len(job[c].todo), job[c].cmd.w, job[c].cmd.it, reg, ites)'
                 /\ Clocked(Len(job[c].todo), reg)'
      <4>1. Len(job'[c].todo) = 9
          BY <3>1, <3>2, <3>3
      <4> QED
          BY <4>1 DEF Prepared, Clocked
    <3> QED
        BY <3>1, <3>3 DEF Starting
  <2>4. CASE t # c
    <3>1. job'[c] = job[c] /\ met'[c] = met[c]
        BY <1>1, <1>2, <2>1, <2>4, SameMet
    <3>2. UNCHANGED Settings /\ (reg'.on => reg.on)
        BY <2>2 DEF Settings
    <3> QED
        BY <1>1, <2>2, <3>1, <3>2, Undone
  <2> QED
      BY <2>3, <2>4
<1>3. CASE Trigger
  <2>1. UNCHANGED <<ites, prescaler, divide_n, job, met, Settings>> /\ (reg'.on => reg.on)
      BY <1>1, <1>3 DEF Trigger, Settings, Regs, clock
  <2> QED
      BY <1>1, <2>1, Undone
<1>4. ASSUME NEW t \in Clients \ {c}, Step(t) PROVE Starting(c)'
  <2> SUFFICES ASSUME job'[c].todo # << >>, "startad" \notin met'[c] PROVE Starting(c)'
      BY DEF Starting
  <2>1. Kept(t)
      BY <1>1, <1>4, Moving
  <2>2. job[c].todo # << >> /\ job'[c].todo = job[c].todo /\ job'[c].cmd = job[c].cmd
      BY <2>1 DEF Kept
  <2>3. "startad" \notin met[c] /\ job[t].cmd.c # "startad"
      BY <1>1, <1>4, <2>2, NotMet
  <2>4. UNCHANGED Settings /\ (reg'.on => reg.on)
      BY <1>1, <1>4, <2>3, RegKept
  <2>5. UNCHANGED ites
    <3>1. ~Assign(t)
      <4>1. ASSUME At(t, "assign") PROVE FALSE
          BY <1>1, <2>3, <4>1, Calls, ReadCalls, OtherCalls
      <4> QED
          BY <4>1 DEF Assign
    <3> QED
        BY <1>4, <3>1 DEF Step, Frequency, Write, Read, Enter, Flag, Select, Copy
  <2>6. "setsamplefreq" \in met'[c] \/ UNCHANGED <<prescaler, divide_n>>
      BY <1>1, <1>4, <2>2, NotMet, ClockSet
  <2>7. "setsamplefreq" \in met[c] => "setsamplefreq" \in met'[c]
      BY <1>1, <1>4, NotMet
  <2> QED
      BY <1>1, <2>2, <2>3, <2>4, <2>5, <2>6, <2>7, Undone
<1>5. CASE Step(c)
  <2>1. job'[c].cmd = job[c].cmd
      BY <1>1, <1>5, Moving DEF Own
  <2>2. CASE job[c].cmd.c # "startad"
      BY <2>1, <2>2 DEF Starting
  <2>3. CASE job[c].cmd.c = "startad"
    <3>1. CASE Write(c)
        BY <1>5, <2>3, <3>1, WritePrepares
    <3>2. CASE Assign(c)
        BY <1>5, <2>3, <3>2, AssignPrepares
    <3>3. CASE ~Write(c) /\ ~Assign(c)
      <4>1. PICK s : At(c, s) /\ s \notin {"assign", "off", "mode", "clock", "size", "shots", "setcos", "setsin", "on"}
          BY <1>5, <3>3, NoStart
      <4> QED
          BY <1>1, <2>3, <4>1, Calls, StartCalls
    <3> QED
        BY <3>1, <3>2, <3>3
  <2> QED
      BY <2>2, <2>3
<1>6. CASE UNCHANGED vars
    BY <1>1, <1>6, Undone DEF vars, Settings, clock
<1> QED
    BY <1>2, <1>3, <1>4, <1>5, <1>6 DEF Next

\* The settings stand still while the board samples, unless a start has met
\* another, and are those of the start when it begins.
LEMMA StartAsked ==
    ASSUME StartInv, [Next]_vars
    PROVE  /\ reg.on /\ reg'.on /\ Settings' # Settings
                => \E t \in Clients :
                      job[t].todo # << >> /\ job[t].cmd.c = "startad" /\ "startad" \in met[t]
           /\ \A t \in Clients :
                 At(t, "on") /\ reg' # reg /\ "startad" \notin met[t] /\ "setsamplefreq" \notin met[t] =>
                    /\ reg.size = job[t].cmd.w /\ reg.shots = job[t].cmd.it
                    /\ reg.mode = prescaler /\ reg.clock = divide_n
<1>1. reg \in Regs /\ AdInv
    BY DEF StartInv, AdInv, Typed
<1>2. ASSUME NEW t \in Clients, Step(t), reg.on, reg'.on, Settings' # Settings
      PROVE  job[t].todo # << >> /\ job[t].cmd.c = "startad" /\ "startad" \in met[t]
  <2>1. Write(t) /\ job[t].cmd.c = "startad"
      BY <1>1, <1>2, RegKept
  <2> DEFINE n == Len(job[t].todo)
  <2>2. n \in 1 .. 8 /\ job[t].cmd.w # 0 /\ job[t].todo # << >>
      BY <1>1, <1>2, <2>1, StartWrites, Moving
  <2>3. n # 8
    <3> SUFFICES ASSUME n = 8 PROVE FALSE
        OBVIOUS
    <3>1. reg' = [reg EXCEPT !.on = FALSE]
      <4>1. \/ n = 8 /\ reg' = [reg EXCEPT !.on = FALSE]
            \/ n = 7 \/ n = 6 \/ n = 5 \/ n = 4 \/ n = 3 \/ n = 2 \/ n = 1
          BY <1>1, <2>1, StartWrites
      <4> HIDE DEF n
      <4> QED
          BY <4>1
    <3> QED
        BY <1>1, <1>2, <3>1 DEF Regs
  <2>4. n <= 7
    <3> HIDE DEF n
    <3> QED
        BY <2>2, <2>3
  <2>5. "startad" \in met[t]
    <3> SUFFICES ASSUME "startad" \notin met[t] PROVE FALSE
        OBVIOUS
    <3>1. Prepared(n, job[t].cmd.w, job[t].cmd.it, reg, ites)
        BY <2>1, <2>2 DEF StartInv, Starting
    <3> QED
        BY <1>2, <2>4, <3>1 DEF Prepared
  <2> QED
      BY <2>1, <2>2, <2>5
<1>4. ASSUME NEW t \in Clients, Begin(t) PROVE UNCHANGED reg
    BY <1>4 DEF Begin
<1>5. reg.on /\ reg'.on /\ Settings' # Settings
         => \E t \in Clients :
               job[t].todo # << >> /\ job[t].cmd.c = "startad" /\ "startad" \in met[t]
  <2>1. Trigger => UNCHANGED Settings
      BY <1>1 DEF Trigger, Settings, Regs
  <2>2. UNCHANGED reg => UNCHANGED Settings
      BY DEF Settings
  <2> QED
      BY <1>2, <1>4, <2>1, <2>2 DEF Next, vars
<1>6. ASSUME NEW t \in Clients, At(t, "on"), "startad" \notin met[t], "setsamplefreq" \notin met[t]
      PROVE  /\ reg.size = job[t].cmd.w /\ reg.shots = job[t].cmd.it
             /\ reg.mode = prescaler /\ reg.clock = divide_n
  <2>1. job[t].cmd.c = "startad"
      BY <1>1, <1>6, Calls, ReadCalls, OtherCalls
  <2>2. job[t].cmd.w # 0 /\ Len(job[t].todo) = 1 /\ job[t].todo # << >>
      BY <1>1, <1>6, <2>1, Calls, StartCalls
  <2>3. Prepared(1, job[t].cmd.w, job[t].cmd.it, reg, ites) /\ Clocked(1, reg)
      BY <1>6, <2>1, <2>2 DEF StartInv, Starting
  <2> QED
      BY <2>3 DEF Prepared, Clocked
<1> QED
    BY <1>5, <1>6

\* Whoever starts and sets the clock: the settings stand still while the board
\* samples, except under a start into which that of another client has come;
\* and a start into which neither that nor another's setsamplefreq has come
\* begins with the settings that it was given and with the clock that is set.
\* (StartAD.)
THEOREM StartsAlwaysAsAsked == Spec => StartsAsAsked
<1>1. Init => StartInv
  <2>1. Init => \A c \in Clients : Starting(c)
      BY DEF Init, Idle, Starting
  <2> QED
      BY <2>1, AdInvInit, MetInit DEF StartInv
<1>2. StartInv /\ [Next]_vars => StartInv'
  <2> SUFFICES ASSUME StartInv, [Next]_vars PROVE StartInv'
      OBVIOUS
  <2>1. AdInv' /\ MetAll'
      BY AdInvStep, MetStep DEF StartInv
  <2> QED
      BY <2>1, StartingStep DEF StartInv
<1>3. ASSUME StartInv, [Next]_vars
      PROVE  [/\ reg.on /\ reg'.on /\ <<reg.mode, reg.clock, reg.size, reg.shots>>'
                                       # <<reg.mode, reg.clock, reg.size, reg.shots>>
                   => \E t \in Clients :
                         job[t].todo # << >> /\ job[t].cmd.c = "startad" /\ "startad" \in met[t]
              /\ \A t \in Clients :
                    At(t, "on") /\ reg' # reg /\ "startad" \notin met[t] /\ "setsamplefreq" \notin met[t] =>
                       /\ reg.size = job[t].cmd.w /\ reg.shots = job[t].cmd.it
                       /\ reg.mode = prescaler /\ reg.clock = divide_n]_vars
    BY <1>3, StartAsked DEF Settings
<1> QED
    BY <1>1, <1>2, <1>3, PTL DEF Spec, StartsAsAsked
=============================================================================
