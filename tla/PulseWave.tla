------------------------------ MODULE PulseWave ------------------------------
(***************************************************************************)
(* What the pulse memory stands for (dosmem.cpp, pulmem.h): the output     *)
(* bits at every tick of the pulser clock and the commands that the        *)
(* sequencer meets on its way.  makepulse, erasepulse, makecommand and     *)
(* make() edit it by time, whatever cells it takes.                        *)
(***************************************************************************)
EXTENDS Integers

CONSTANTS
    Bits,       \* output bits
    Codes,      \* commands of the sequencer: loop, stop, wait for a trigger
    CellTime,   \* ticks of a cell that clr writes (0xfeffffff)
    Lengths,    \* numbers of cells that clr is called with
    Times       \* times of edits in ticks, negative ones included

ASSUME WaveAssumption == CellTime \in Nat \ {0} /\ Lengths \subseteq Nat /\ Times \subseteq Int

VARIABLE mem    \* total: ticks, wave: tick -> bits, cmds: tick -> command

Commands == [c : Codes, d : SUBSET Bits]

\* dbllong: a time before 0 is 0.
Tick(x) == IF x <= 0 THEN 0 ELSE x

\* clr(n)
Cleared(n) == [total |-> n * CellTime,
               wave  |-> [x \in 0 .. n * CellTime - 1 |-> {}],
               cmds  |-> << >>]

\* lvl: the bits of mask stay, those of pat are set, from st up to ed; the
\* data of commands in between changes alike.
Level(m, st, ed, mask, pat) ==
    LET Edited(x, d) == IF Tick(st) <= x /\ x < Tick(ed) THEN (d \cap mask) \union pat ELSE d
    IN  [total |-> m.total,
         wave  |-> [x \in DOMAIN m.wave |-> Edited(x, m.wave[x])],
         cmds  |-> [x \in DOMAIN m.cmds |-> [c |-> m.cmds[x].c, d |-> Edited(x, m.cmds[x].d)]]]

With(f, x, y) == [z \in DOMAIN f \union {x} |-> IF z = x THEN y ELSE f[z]]

\* The terminator is lost: what the memory holds is not defined up to clr.
Lost == Cleared(0)

\* com: one command at a time.  At the end it takes the place of the
\* terminator; past it, it is stored where the sequencer does not come.
Command(m, at, cmd) ==
    CASE Tick(at) < m.total -> [m EXCEPT !.cmds = With(@, Tick(at), cmd)]
      [] Tick(at) = m.total -> Lost
      [] Tick(at) > m.total -> m

-----------------------------------------------------------------------------
Clr(n) == mem' = Cleared(n)
Lvl(st, ed, mask, pat) == mem' = Level(mem, st, ed, mask, pat)
Com(at, cmd) == mem' = Command(mem, at, cmd)

WaveInit == \E n \in Lengths : mem = Cleared(n)
WaveNext ==
    \/ \E n \in Lengths : Clr(n)
    \/ \E st, ed \in Times, mask, pat \in SUBSET Bits : Lvl(st, ed, mask, pat)
    \/ \E at \in Times, cmd \in Commands : Com(at, cmd)
WaveSpec == WaveInit /\ [][WaveNext]_mem
=============================================================================
