------------------------------- MODULE PulseMem -------------------------------
(***************************************************************************)
(* The pulse memory as dosmem.cpp keeps it (class PULDATC): an array of    *)
(* cells, each a level with a duration, a command or the terminator, that  *)
(* edits split and shift.  PulseWave is what it stands for.                *)
(***************************************************************************)
EXTENDS Integers

CONSTANTS
    Bits, Codes, CellTime, Lengths, Times,
    Width,      \* 2^16: clr takes the length as uint16_t
    UMax,       \* u_max: cells of the array (3000)
    MaxEdits,   \* bound: edits after a clear
    MaxClears   \* bound: clears after the first

ASSUME SizeAssumption ==
    /\ CellTime \in Nat \ {0} /\ Lengths \subseteq Nat /\ Times \subseteq Int
    /\ {Width, UMax} \subseteq Nat \ {0} /\ {MaxEdits, MaxClears} \subseteq Nat
    /\ Codes \intersect {"level", "end"} = {}

VARIABLES
    databuf,    \* the cells, and the memory behind the array that they run into
    leng,       \* history: the length that the last clr used
    edits,      \* history: calls of lvl and com since
    clears,     \* history: calls of clr
    late        \* history: whether one of these coms was past the cleared
                \* time ("past") or at its very end ("at")
vars == <<databuf, leng, edits, clears, late>>

Kinds   == {"level", "end"} \union Codes
Behind  == UMax + 2 * MaxEdits + 2
Indices == 0 .. Behind
Zero    == [c |-> "level", t |-> 0, d |-> {}]
Cells   == [c : Kinds, t : Nat, d : SUBSET Bits]

-----------------------------------------------------------------------------
\* The functions of the class, on an array m.

\* 0xff000000: no duration.
IsCommand(cell) == cell.c # "level"

Tick(x) == IF x <= 0 THEN 0 ELSE x      \* dbllong

\* The next terminator.  Without one the code runs on through the memory of
\* the process; here it stops at the last cell but one.
End(m, pt) ==
    LET Ends == {i \in 0 .. Behind - 1 : i >= pt /\ m[i].c = "end"}
    IN  IF Ends = {} THEN Behind - 1 ELSE CHOOSE i \in Ends : \A j \in Ends : i <= j

\* The time at which the levels of the cells before i are over.
Elapsed(m) == LET a[i \in 0 .. Behind + 1] == IF i = 0 THEN 0 ELSE a[i - 1] + m[i - 1].t
              IN  a

Ins(m, pt) ==
    LET e == End(m, pt)
    IN  [i \in Indices |-> IF pt < i /\ i <= e + 1 THEN m[i - 1] ELSE m[i]]

\* dt: the cell in which tim falls, or the terminator; and how far before its end.
Found(m, tim) ==
    LET a  == Elapsed(m)
        e  == End(m, 0)
        In == {i \in 0 .. e - 1 : ~IsCommand(m[i]) /\ tim <= a[i + 1]}
    IN  IF In = {} THEN [pt |-> e, diff |-> 0]
        ELSE LET i == CHOOSE j \in In : \A k \in In : j <= k
             IN  [pt |-> i, diff |-> a[i + 1] - tim]

\* ins and the assignments after it.
Split(m, pt, diff) ==
    LET n == Ins(m, pt)
    IN  [n EXCEPT ![pt].t = @ - diff,
                  ![pt + 1] = [n[pt] EXCEPT !.t = diff]]

\* Mutant: a boundary is not recognised where a cell ends.
Edge_NoBoundary(m, tim) ==
    LET at == Found(m, tim)
    IN  IF tim = 0 THEN [m |-> m, pt |-> 0]
        ELSE [m |-> Split(m, at.pt, at.diff), pt |-> at.pt + 1]

\* edg: a boundary of cells at tim and the cell after it.
Edge(m, tim) ==
    LET at == Found(m, tim)
    IN  CASE tim = 0 -> [m |-> m, pt |-> 0]
          [] tim # 0 /\ at.diff = 0 -> [m |-> m, pt |-> at.pt + 1]
          [] OTHER -> [m |-> Split(m, at.pt, at.diff), pt |-> at.pt + 1]

\* Mutant: the end is looked up before the start splits its cell.
LvlOf_StaleEnd(m, st, ed, mask, pat) ==
    LET e == Edge(m, ed)
        s == Edge(e.m, st)
    IN  [i \in Indices |-> IF s.pt <= i /\ i < e.pt
                           THEN [s.m[i] EXCEPT !.d = (@ \cap mask) \union pat] ELSE s.m[i]]

LvlOf(m, st, ed, mask, pat) ==
    LET s == Edge(m, st)
        e == Edge(s.m, ed)
    IN  [i \in Indices |-> IF s.pt <= i /\ i < e.pt
                           THEN [e.m[i] EXCEPT !.d = (@ \cap mask) \union pat] ELSE e.m[i]]

\* Mutant: a command always takes a cell of its own.
ComOf_AlwaysInserts(m, tim, cmd) ==
    LET e == Edge(m, tim)
    IN  [Ins(e.m, e.pt) EXCEPT ![e.pt] = [c |-> cmd.c, t |-> 0, d |-> cmd.d]]

\* com: a command that is already there is overwritten.
ComOf(m, tim, cmd) ==
    LET e == Edge(m, tim)
        n == IF IsCommand(e.m[e.pt]) THEN e.m ELSE Ins(e.m, e.pt)
    IN  [n EXCEPT ![e.pt] = [c |-> cmd.c, t |-> 0, d |-> cmd.d]]

\* The length that clr takes.
Clamp(n) == IF UMax - 1 <= n % Width THEN UMax ELSE n % Width

\* Mutant: the terminator comes one cell later.
ClrOf_OneCellMore(m, n) ==
    [i \in Indices |-> IF i <= n THEN [c |-> "level", t |-> CellTime, d |-> {}]
                       ELSE IF i = n + 1 THEN [c |-> "end", t |-> 0, d |-> {}] ELSE m[i]]

\* clr: the levels, the terminator (behind the array for the longest) and the
\* data of the terminator.
ClrOf(m, n) == [i \in Indices |-> IF i < n THEN [c |-> "level", t |-> CellTime, d |-> {}]
                                  ELSE IF i = n THEN [c |-> "end", t |-> 0, d |-> {}] ELSE m[i]]

\* clearpulm
Clearpulm(m) == [i \in Indices |-> IF i = UMax - 1 THEN [c |-> "end", t |-> 0, d |-> {}]
                                   ELSE IF i < UMax THEN Zero ELSE m[i]]

-----------------------------------------------------------------------------
\* The calls of pulgen.cpp.

\* initPulserBoard: clearpulm on the memory of calloc, then clr.
Init == \E n \in Lengths :
    /\ databuf = ClrOf(Clearpulm([i \in Indices |-> Zero]), Clamp(n))
    /\ leng = Clamp(n) /\ edits = 0 /\ clears = 0 /\ late = "no"

\* memclr, and make() after clearpulm.
Clr(n) == /\ clears < MaxClears
          /\ databuf' \in {ClrOf(databuf, Clamp(n)), ClrOf(Clearpulm(databuf), Clamp(n))}
          /\ leng' = Clamp(n) /\ edits' = 0 /\ clears' = clears + 1 /\ late' = "no"

Lvl(st, ed, mask, pat) ==
    /\ edits < MaxEdits
    /\ databuf' = LvlOf(databuf, Tick(st), Tick(ed), mask, pat)
    /\ edits' = edits + 1 /\ UNCHANGED <<leng, clears, late>>

\* At the very end of the cleared time the command takes the place of the
\* terminator; past it, it comes behind the terminator and shifts the next one.
Com(tim, cmd) ==
    /\ edits < MaxEdits
    /\ databuf' = ComOf(databuf, Tick(tim), cmd)
    /\ late' = CASE Tick(tim) = leng * CellTime -> "at"
                 [] Tick(tim) > leng * CellTime /\ late # "at" -> "past"
                 [] OTHER -> late
    /\ edits' = edits + 1 /\ UNCHANGED <<leng, clears>>

Next ==
    \/ \E n \in Lengths : Clr(n)
    \/ \E st, ed \in Times, mask, pat \in SUBSET Bits : Lvl(st, ed, mask, pat)
    \/ \E tim \in Times, c \in Codes, d \in SUBSET Bits : Com(tim, [c |-> c, d |-> d])
Spec == Init /\ [][Next]_vars

-----------------------------------------------------------------------------
\* Properties.

\* Cells keep their type, whatever the calls; and unless a command has taken
\* the place of the terminator, no level before the terminator has run down
\* to no ticks.  (edg, ins, com, clr.)
TypeOK ==
    /\ databuf \in [Indices -> Cells] /\ leng \in 0 .. UMax /\ edits \in 0 .. MaxEdits
    /\ clears \in 0 .. MaxClears /\ late \in {"no", "past", "at"}
    /\ \A i \in Indices : IsCommand(databuf[i]) => databuf[i].t = 0
    /\ late # "at" => \A i \in 0 .. End(databuf, 0) : databuf[i].t = 0 => IsCommand(databuf[i])

\* When every command is before the end of the cleared time, a clear of n
\* cells and k edits write inside the array as long as n + 2k < u_max.  (ins,
\* edg, clr: nothing in the code tests the size.)  Otherwise a clear to u_max
\* cells, a command past the end and an edit too many write the cell behind.
InsideArray ==
    [][leng' + 2 * edits' < UMax /\ late' = "no" =>
          \A i \in UMax .. Behind : databuf'[i] = databuf[i]]_vars

\* The cells stand for the waveform of PulseWave, and every call of lvl, com
\* and clr changes it as PulseWave says.  (dt, edg, ins, lvl, com, clr.)
Wave ==
    LET a == Elapsed(databuf)
        e == End(databuf, 0)
        LevelAt(x) == CHOOSE i \in 0 .. e - 1 : a[i] <= x /\ x < a[i + 1]
        ComAt == {i \in 0 .. e - 1 : IsCommand(databuf[i])}
        Of(x) == databuf[CHOOSE i \in ComAt : a[i] = x]
    IN  [total |-> a[e],
         wave  |-> [x \in 0 .. a[e] - 1 |-> databuf[LevelAt(x)].d],
         cmds  |-> [x \in {a[i] : i \in ComAt} |-> [c |-> Of(x).c, d |-> Of(x).d]]]
NoWave == [total |-> 0, wave |-> << >>, cmds |-> << >>]
PW == INSTANCE PulseWave WITH mem <- IF late = "at" THEN NoWave ELSE Wave,
                              Lengths <- {Clamp(n) : n \in Lengths}
ImplementsPulseWave == PW!WaveSpec

\* One command at a time, unless one has taken the place of the terminator:
\* the sequencer never meets two without a level between.  (com overwrites.)
OneCommandATime ==
    late # "at" =>
        \A i, j \in 0 .. End(databuf, 0) - 1 :
            IsCommand(databuf[i]) /\ IsCommand(databuf[j])
            /\ Elapsed(databuf)[i] = Elapsed(databuf)[j] => i = j
=============================================================================
