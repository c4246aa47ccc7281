------------------------------ MODULE PulseMake ------------------------------
(***************************************************************************)
(* The pulse pattern that make() (pulgen.cpp) builds in the pulse memory   *)
(* from the parameters of the standard mode, as edits of PulseWave.  All   *)
(* times are ticks.                                                        *)
(***************************************************************************)
EXTENDS PulseWave, FiniteSets

CONSTANTS
    Settings,   \* parameters that clients set, records with the fields of PULGEN
    Initial,    \* those of initPulserBoard
    Trig,       \* 1e-6 s, the width of a trigger pulse
    Meter,      \* 1e-3 s
    Margin,     \* the 10 s that make() adds to the length
    Freq,       \* pulserFreq: ticks in a second
    Width,      \* 2^16: clr takes the number of cells as uint16_t
    UMax        \* u_max = MAX_PULMEM: cells of the array (3000)

VARIABLE p
vars == <<p, mem>>

\* tx is bit 0, q0 and q1 are 0x18, os is 0x40, and so on.
PulseBits == {"tx", "tx2", "aux1", "q0", "q1", "os", "meter", "ad", "comb", "first", "second"}
Loop == [c |-> "loop", d |-> {}]
Stop == [c |-> "stop", d |-> {}]
Wait == [c |-> "wait", d |-> {}]

\* What clients set: counts, lengths and distances, and adoff, which may also be
\* before the pulse.
Phases == SUBSET {"q0", "q1"}
Setting ==
    [usecomb : BOOLEAN, cpn : Nat, cpw : Nat, cpi : Nat, cpq : Phases, tj : Nat,
     fpw : Nat, fpq : Phases, double : BOOLEAN, t2 : Nat, spw : Nat, spq : Phases,
     adoff : Int, adtrg : Nat, trgout : Nat, exttrg : BOOLEAN,
     blank : Nat, loopmode : BOOLEAN, pre : Nat, post : Nat, qdelay : Nat]

ASSUME SettingsAssumption == Settings \subseteq Setting /\ Initial \in Setting
ASSUME TimesAssumption == Trig \in Nat \ {0} /\ Meter \in Nat /\ Margin \in Nat
ASSUME ClearAssumption ==
    /\ Freq \in Nat \ {0} /\ Freq <= CellTime
    /\ Width \in Nat \ {0} /\ UMax \in 1 .. Width
ASSUME BitsAssumption == PulseBits \subseteq Bits /\ {"loop", "stop", "wait"} \subseteq Codes

-----------------------------------------------------------------------------
\* The edits, each of a memory m.
Make1Bit(m, st, l, mask, pat) == Level(m, st, st + l, mask, pat)
On(m, bit, st, l) == Make1Bit(m, st, l, Bits \ {bit}, {bit})

\* Mutant: the gate of the amplifier opens with the pulse.
MakeTXGate_NoPredelay(m, q, st, l) ==
    IF l = 0 THEN m
    ELSE On(On(On(m, "tx2", st, l + q.post), "aux1", st, l), "tx", st, l)

\* AUX1_FLEN and AUX1_BLEN are always 0.
MakeTXGate(m, q, st, l) ==
    LET gated == IF q.pre <= st THEN On(m, "tx2", st - q.pre, l + q.pre + q.post) ELSE m
    IN  IF l = 0 THEN m ELSE On(On(gated, "aux1", st, l), "tx", st, l)

MakeQPSK(m, st, l, phase) == Make1Bit(m, st, l, Bits \ {"q0", "q1"}, phase)
MakePulse(m, bit, st, l) == IF l = 0 THEN m ELSE On(m, bit, st, l)  \* MakeComb, Make1st, Make2nd
MakeOSTrig(m, st) == On(m, "os", st, Trig)
MakeADTrig(m, st) == On(m, "ad", st, Trig)
MakeEXTTrig(m, st) == Command(m, IF st = 0 THEN 1 ELSE st, Wait)
MakeBlank(m, st, l) == Make1Bit(m, st, l, Bits \ {"tx"}, {})

-----------------------------------------------------------------------------
\* MakeOneT1T2(0.0), with t as it is at each part.
HasComb(q) == q.usecomb /\ q.cpn # 0
CombAt(q) == q.pre
FirstAt(q) == IF HasComb(q) THEN CombAt(q) + q.cpn * (q.cpw + q.cpi) - q.cpi + q.tj ELSE CombAt(q)
SecondAt(q) == FirstAt(q) + q.t2
LastEnd(q) == IF q.double THEN SecondAt(q) + q.spw ELSE FirstAt(q) + q.fpw

\* tt: the trigger of the AD board, at the echo or behind the pulse.
ADAt(q) == LastEnd(q) + q.adoff + IF q.double /\ q.adtrg = 0 THEN q.t2 ELSE 0

\* TRG.OUT, if OSCILLO selects position k.
TriggerOut(m, q, k, st) == IF q.trgout = k THEN MakeOSTrig(m, st) ELSE m

Before(m, q) ==
    TriggerOut(IF q.exttrg THEN MakeEXTTrig(m, q.pre) ELSE m, q, 0, CombAt(q))

CombPulse(m, q, t) == MakePulse(MakeTXGate(m, q, t, q.cpw), "comb", t, q.cpw)

CombPulses(m, q) ==
    LET made[i \in 0 .. q.cpn] ==
            IF i = 0 THEN m
            ELSE CombPulse(made[i - 1], q, CombAt(q) + (i - 1) * (q.cpw + q.cpi))
    IN  made[q.cpn]

\* t-tx2t-cpi+QPSKDELAY: t has lost one cpi before.
Comb(m, q) ==
    IF HasComb(q)
    THEN MakeQPSK(CombPulses(m, q), CombAt(q) - q.qdelay,
                  FirstAt(q) - CombAt(q) - q.cpi + q.qdelay, q.cpq)
    ELSE m

\* Mutant: the phase switches with the pulse, not before it.
FirstPulse_NoDelay(m, q) ==
    LET t == FirstAt(q)
        phased == MakeQPSK(m, t, q.fpw, q.fpq)
    IN  On(MakePulse(MakeTXGate(phased, q, t, q.fpw), "first", t, q.fpw), "meter", t + q.fpw, Meter)

FirstPulse(m, q) ==
    LET t == FirstAt(q)
        phased == MakeQPSK(m, t - q.qdelay, q.fpw + q.qdelay, q.fpq)
    IN  On(MakePulse(MakeTXGate(phased, q, t, q.fpw), "first", t, q.fpw), "meter", t + q.fpw, Meter)

SecondPulse(m, q) ==
    LET t == SecondAt(q)
        phased == MakeQPSK(m, t - q.qdelay, q.spw + q.qdelay, q.spq)
    IN  MakePulse(MakeTXGate(phased, q, t, q.spw), "second", t, q.spw)

\* Mutant: a pattern of two pulses has the trigger of a single one, too.
First_TwoADTriggers(m, q) ==
    LET t == FirstAt(q)
        pulsed == FirstPulse(TriggerOut(TriggerOut(m, q, 1, t - q.tj), q, 2, t), q)
        ended == MakeADTrig(pulsed, t + q.fpw + q.adoff)
    IN  TriggerOut(ended, q, 3, SecondAt(q))

\* opt.First_AD is always 0.
First(m, q) ==
    LET t == FirstAt(q)
        pulsed == FirstPulse(TriggerOut(TriggerOut(m, q, 1, t - q.tj), q, 2, t), q)
        ended == IF q.double THEN pulsed
                 ELSE TriggerOut(MakeADTrig(pulsed, ADAt(q)), q, 4, SecondAt(q))
    IN  TriggerOut(ended, q, 3, SecondAt(q))

\* Mutant: TRG.OUT of the AD trigger is left out for two pulses.
Second_NoTriggerOut(m, q) ==
    IF q.double THEN MakeADTrig(SecondPulse(m, q), ADAt(q)) ELSE m

Second(m, q) ==
    IF q.double THEN TriggerOut(MakeADTrig(SecondPulse(m, q), ADAt(q)), q, 4, ADAt(q)) ELSE m

MakeOneT1T2(m, q) ==
    MakeBlank(Second(First(Comb(Before(m, q), q), q), q), LastEnd(q), q.blank)

\* The time that MakeOneT1T2 returns.
LoopAt(q) == IF q.loopmode THEN q.blank ELSE LastEnd(q) + q.blank

\* Mutant: as before FIX 001023, and without the 10 s.
Length_Before001023(q) == q.fpw + q.spw + q.blank + (q.cpw + q.cpi) * q.cpn

Length(q) ==
    q.fpw + q.spw + q.blank + q.t2 + q.tj + q.blank + (q.cpw + q.cpi) * q.cpn + Margin

\* clear(t): the cells for the length, each taken to last a whole number of
\* seconds.  "memory over flow" is printed, and clr called all the same.
Cells(t) == t \div ((CellTime \div Freq) * Freq) + 1

\* clr(bk)
Clear(t) == LET n == Cells(t) % Width IN Cleared(IF UMax - 1 <= n THEN UMax ELSE n)

\* make: the pattern, the jump to its start, and a stop behind the jump.
Made(q) ==
    Command(Command(MakeOneT1T2(Clear(Length(q)), q), LoopAt(q), Loop), LoopAt(q) + Trig, Stop)

-----------------------------------------------------------------------------
Init == p = Initial /\ mem = Made(Initial)

\* pulseUpdate with other parameters.  Bound: one update, since make() clears
\* all that was there before.
Update(q) == p = Initial /\ p' = q /\ mem' = Made(q)

Next == \E q \in Settings : Update(q)
Spec == Init /\ [][Next]_vars

-----------------------------------------------------------------------------
\* Properties.

At(bit) == {x \in DOMAIN mem.wave : bit \in mem.wave[x]}
Edges(bit) == {x \in At(bit) : x - 1 \notin At(bit)}
Phase(x) == mem.wave[x] \cap {"q0", "q1"}
Span(st, ed) == {x \in DOMAIN mem.wave : st <= x /\ x < ed}

\* The pulses of one repetition fit in it; with waitmode only the triggers
\* that lie in the wait can miss it.
Fits(t) == t + Trig <= LoopAt(p)

\* Calls of lvl and com in make(): four for a comb pulse, and at most 19.
Calls(q) == (IF HasComb(q) THEN 4 * q.cpn ELSE 0) + 19

\* The array has room for the pattern: its cells, and the two that each call
\* can add (PulseMem).  make() does not look.
HasRoom(q) == Cells(Length(q)) + 2 * Calls(q) < UMax

\* The array has room, and the 10 s make up for the predelay that the length
\* forgets.
Covered(q) == HasRoom(q) /\ q.pre + Trig <= Margin

\* Times that do not overlap: each phase can switch after the pulse before.
Apart(q) == /\ q.double => q.t2 >= q.fpw + q.qdelay
            /\ HasComb(q) => q.tj >= q.qdelay

\* Where the pulses of the comb are.
CombSpan == Span(CombAt(p) - p.qdelay, FirstAt(p) - p.tj)

\* The memory holds a pattern of the output bits, and commands; of the length
\* that make() cleared, if that covers the pattern: no command took the place
\* of the terminator.
TypeOK ==
    /\ mem.total \in Nat /\ mem.wave \in [0 .. mem.total - 1 -> SUBSET Bits]
    /\ DOMAIN mem.cmds \subseteq 0 .. mem.total - 1
    /\ \A x \in DOMAIN mem.cmds : mem.cmds[x].c \in Codes
    /\ Covered(p) => mem.total = Cells(Length(p)) * CellTime

\* The whole pattern fits in the memory that make() clears for it, if the
\* array has room and the predelay is below the 10 s: the jump back is there,
\* and the only stop right behind it.  (make, FIX 001023: a length that
\* forgets a part loses the jump without a word.)
LoopIsThere ==
    Covered(p) =>
        /\ LoopAt(p) \in DOMAIN mem.cmds /\ mem.cmds[LoopAt(p)].c = "loop"
        /\ {x \in DOMAIN mem.cmds : mem.cmds[x].c = "stop"} = {LoopAt(p) + Trig}

\* tx2predelay and tx2postdelay: whenever RF is on, the amplifier gate has
\* been open for the predelay, however close the pulses are; and it stays
\* open for the postdelay (if the pattern is covered).
GateSurroundsRF ==
    Covered(p) =>
        \A x \in At("tx") : Span(x - p.pre, x + p.post + 1) \subseteq At("tx2")

\* Each pulse is sent with its own phase, and the modulator got it QPSKDELAY
\* before, if the pulses are far enough apart for it and the pattern is
\* covered; the pulses of a comb only if tj >= cpi, too: below it the last
\* of them loses its phase cpi - tj early, since make() takes cpi off twice.
\* (MakeQPSK of a later pulse overwrites the phase of an earlier one.)
PulsesHavePhase ==
    Covered(p) /\ Apart(p) =>
        /\ \A x \in Span(FirstAt(p) - p.qdelay, FirstAt(p) + p.fpw) : Phase(x) = p.fpq
        /\ p.double =>
             \A x \in Span(SecondAt(p) - p.qdelay, SecondAt(p) + p.spw) : Phase(x) = p.spq
        /\ HasComb(p) /\ p.tj >= p.cpi => \A x \in CombSpan : Phase(x) = p.cpq

\* One repetition triggers the AD board once: there is one rising edge before
\* the jump, if the repetition is long enough to reach it.
OneADTrigger ==
    Covered(p) /\ Fits(ADAt(p)) /\ ADAt(p) > 0
      => Cardinality({x \in Edges("ad") : x < LoopAt(p)}) = 1

\* TRG.OUT gives one pulse in a repetition for each of its positions; with
\* position 4 and two pulses it rises at the trigger of the AD board.  (With
\* one pulse, where the code says the same, position 4 is t2 after the pulse.)
OneTriggerOut ==
    LET Rises == {x \in Edges("os") : x < LoopAt(p)}
    IN  Covered(p) /\ p.trgout \in 0 .. 4 /\ (p.trgout = 1 => HasComb(p)) /\ Fits(LastEnd(p))
        /\ (p.trgout \in 3 .. 4 => Fits(SecondAt(p)))
        /\ (p.trgout = 4 => Fits(ADAt(p)) /\ ADAt(p) > 0)
          => /\ Cardinality(Rises) = 1
             /\ p.trgout = 4 /\ p.double => Rises = Edges("ad")
=============================================================================
