------------------------------ MODULE MCUsbIo ------------------------------
(***************************************************************************)
(* Instances of UsbIo for TLC: what each thread may call.                  *)
(***************************************************************************)
EXTENDS UsbIo, TLC

CONSTANTS t1, t2, b1, b2, b3

In(b, a)     == [kind |-> "in", b |-> b, at |-> a, dat |-> << >>]
Out(b, a, v) == [kind |-> "out", b |-> b, at |-> a, dat |-> v]
BurstStart   == [kind |-> "start", b |-> b1, at |-> << >>, dat |-> << >>]
BurstFlush   == [kind |-> "flush", b |-> b1, at |-> << >>, dat |-> << >>]

\* t1 opens bursts and is the only writer; t2 reads another board and one that
\* is absent.
MenuOneWriter ==
    t1 :> {BurstStart, BurstFlush, Out(b1, <<0>>, <<1>>), Out(b1, <<0, 1>>, <<0, 1>>),
           In(b1, <<0>>)} @@
    t2 :> {In(b2, <<0, 1>>), In(b3, <<0, 1>>)}

\* Both threads burst and write on one board, and t2 reads its own.
MenuShared ==
    t1 :> {BurstStart, BurstFlush, Out(b1, <<0>>, <<1>>)} @@
    t2 :> {BurstStart, BurstFlush, Out(b1, <<0, 1>>, <<1, 1>>), In(b2, <<0>>)}

\* t1 bursts to its board while t2 writes to its own.
MenuBurstAndWriter ==
    t1 :> {BurstStart, BurstFlush, Out(b1, <<0>>, <<1>>)} @@
    t2 :> {Out(b2, <<0>>, <<1>>)}

ASSUME DisciplineHere == Menu = MenuOneWriter => Disciplined
=============================================================================
