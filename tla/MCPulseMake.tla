----------------------------- MODULE MCPulseMake -----------------------------
(* Settings around the cases of MakeOneT1T2: no, one and three comb pulses,   *)
(* gaps shorter and longer than the delays, triggers before and after pulses. *)
EXTENDS PulseMake

MCInitial == [usecomb |-> FALSE, cpn |-> 0, cpw |-> 0, cpi |-> 0, cpq |-> {}, tj |-> 0,
              fpw |-> 1, fpq |-> {}, double |-> FALSE, t2 |-> 6, spw |-> 2, spq |-> {},
              adoff |-> 0, adtrg |-> 0, trgout |-> 0, exttrg |-> FALSE,
              blank |-> 12, loopmode |-> FALSE, pre |-> 4, post |-> 0, qdelay |-> 1]

\* Combs and phases.
Combs == {[MCInitial EXCEPT !.usecomb = u, !.cpn = n, !.cpw = w, !.cpi = i, !.cpq = {"q0"},
                            !.tj = j, !.fpq = f, !.qdelay = d, !.pre = a, !.trgout = o] :
            u \in BOOLEAN, n \in {0, 1, 3}, w \in 0 .. 1, i \in 1 .. 2, j \in {1, 3},
            f \in {{}, {"q1"}}, d \in 0 .. 2, a \in {0, 2}, o \in {0, 1, 2}}
\* Where the pulses and triggers fall.
Places == {[MCInitial EXCEPT !.double = d, !.t2 = t, !.spq = {"q0", "q1"}, !.adoff = a,
                             !.adtrg = g, !.trgout = o, !.blank = b, !.loopmode = l,
                             !.post = e, !.exttrg = x] :
            d, l \in BOOLEAN, t \in {1, 3, 6}, a \in {-1, 0, 2}, g \in 0 .. 1, o \in 0 .. 4,
            b \in {3, 20}, e \in 0 .. 1, x \in BOOLEAN}
\* A predelay that the 10 s do not make up for, blanks that the array cannot
\* hold and that wrap to a few cells, and more comb pulses than it has cells for.
Long == {[MCInitial EXCEPT !.pre = a] : a \in {5, 30, 60}}
        \union {[MCInitial EXCEPT !.blank = b] : b \in {200, 300, 378, 400}}
        \union {[MCInitial EXCEPT !.usecomb = TRUE, !.cpn = n, !.cpw = 1, !.cpi = 1] : n \in {6, 20}}
MCSettings == Combs \union Places \union Long
=============================================================================
