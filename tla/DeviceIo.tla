------------------------------ MODULE DeviceIo ------------------------------
(***************************************************************************)
(* The device interface of the program (inoutdev.h): which operations the  *)
(* threads call on the register boards, and the values they carry.  Shared *)
(* by RegisterFile.tla, what the interface promises, and UsbIo.tla, how    *)
(* cusb.c provides it.                                                     *)
(***************************************************************************)
EXTENDS Integers, Sequences, FiniteSets

CONSTANTS
    Threads,      \* the threads that do register I/O
    Boards,       \* the values of address bits 8..11, one board each
    Present,      \* the boards that were found at start-up
    NAddr,        \* registers of a board (256)
    NByte,        \* values of a register (256)
    StatusAddrs,  \* registers that the board changes by itself
    Menu          \* Menu[t]: the operations that thread t may call

Addr == 0 .. NAddr - 1
Byte == 0 .. NByte - 1

Kinds == {"in", "out", "start", "flush"}
Op == [kind : Kinds, b : Boards, at : Seq(Addr), dat : Seq(Byte)]

ASSUME AddrAssumption == NAddr \in Nat \ {0} /\ NByte \in Nat \ {0}
ASSUME BoardAssumption == Present \subseteq Boards
ASSUME MenuAssumption ==
    \A t \in Threads : \A o \in Menu[t] :
        /\ o \in Op
        /\ o.kind = "in" => o.at # << >>
        /\ o.kind = "out" => Len(o.dat) = Len(o.at) /\ o.at # << >>

\* The cells <<address, byte>> that a write stores, in order.
Cells(o) == [i \in 1 .. Len(o.at) |-> <<o.at[i], o.dat[i]>>]

\* Register array f after the cells of cs are stored in order: of two cells
\* with one address the later wins.
IsLastOf(cs, a, i) ==
    cs[i][1] = a /\ \A j \in 1 .. Len(cs) : cs[j][1] = a => j <= i

Store(f, cs) ==
    [a \in DOMAIN f |->
        IF \E i \in 1 .. Len(cs) : IsLastOf(cs, a, i)
        THEN cs[CHOOSE i \in 1 .. Len(cs) : IsLastOf(cs, a, i)][2]
        ELSE f[a]]

\* What a read of an absent board returns: 0x100 for a byte, 0 for a word.
NoBoardResult(o) == IF Len(o.at) = 1 THEN <<256>> ELSE [i \in 1 .. Len(o.at) |-> 0]

None == [kind |-> "none"]
=============================================================================
