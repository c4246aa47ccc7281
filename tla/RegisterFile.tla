---------------------------- MODULE RegisterFile ----------------------------
(***************************************************************************)
(* What indevb, indevw, outdevb, outdevw and the pair OutBurstStart /      *)
(* OutBurstFlush (inoutdev.h) promise to the code that calls them: each    *)
(* board is an array of byte registers, a read returns the registers it    *)
(* names in address order, a write stores its bytes at once, and what is   *)
(* written inside a burst reaches the boards together, in the order in     *)
(* which it was written, when the burst is flushed.  UsbIo.tla says how    *)
(* cusb.c provides this over USB, and for which callers it really does.    *)
(***************************************************************************)
EXTENDS DeviceIo

VARIABLES
    reg,    \* reg[b][a]: the byte in register a of board b
    job,    \* job[t]: the operation that t has called, None between calls
    got,    \* got[t]: the bytes that t's current or last read has returned
    open,   \* open[t]: t is between the end of a start and the end of a flush
    buf     \* buf[t]: the cells <<board, address, byte>> of t's open burst

vars == <<reg, job, got, open, buf>>

Init ==
    /\ reg = [b \in Boards |-> [a \in Addr |-> 0]]
    /\ job = [t \in Threads |-> None]
    /\ got = [t \in Threads |-> << >>]
    /\ open = [t \in Threads |-> FALSE]
    /\ buf = [t \in Threads |-> << >>]

Call(t, o) ==
    /\ job[t] = None
    /\ o.kind = "start" => ~open[t]
    /\ o.kind = "flush" => open[t]
    /\ IF o.kind \in {"in", "out"} /\ o.b \notin Present
       THEN /\ got' = [got EXCEPT ![t] = IF o.kind = "in" THEN NoBoardResult(o) ELSE << >>]
            /\ UNCHANGED job
       ELSE /\ job' = [job EXCEPT ![t] = o]
            /\ got' = [got EXCEPT ![t] = << >>]
    /\ UNCHANGED <<reg, open, buf>>

\* One register of a read is sampled; the read returns after its last one.
Sample(t) ==
    /\ job[t].kind = "in"
    /\ Len(got[t]) < Len(job[t].at)
    /\ got' = [got EXCEPT ![t] =
                  Append(@, reg[job[t].b][job[t].at[Len(got[t]) + 1]])]
    /\ UNCHANGED <<reg, job, open, buf>>

ReadReturns(t) ==
    /\ job[t].kind = "in"
    /\ Len(got[t]) = Len(job[t].at)
    /\ job' = [job EXCEPT ![t] = None]
    /\ UNCHANGED <<reg, got, open, buf>>

\* A write outside a burst takes effect in one step, one inside is kept.
WriteNow(t) ==
    /\ job[t].kind = "out"
    /\ ~open[t]
    /\ reg' = [reg EXCEPT ![job[t].b] = Store(@, Cells(job[t]))]
    /\ job' = [job EXCEPT ![t] = None]
    /\ UNCHANGED <<got, open, buf>>

WriteLater(t) ==
    /\ job[t].kind = "out"
    /\ open[t]
    /\ buf' = [buf EXCEPT ![t] =
                  @ \o [i \in 1 .. Len(job[t].at) |->
                           <<job[t].b, job[t].at[i], job[t].dat[i]>>]]
    /\ job' = [job EXCEPT ![t] = None]
    /\ UNCHANGED <<reg, got, open>>

BurstOpens(t) ==
    /\ job[t].kind = "start"
    /\ open' = [open EXCEPT ![t] = TRUE]
    /\ job' = [job EXCEPT ![t] = None]
    /\ UNCHANGED <<reg, got, buf>>

\* The byte that the cells cs of a burst leave in register a of board b: of two
\* cells with one address the later wins.
IsLastAt(cs, b, a, i) ==
    /\ cs[i][1] = b /\ cs[i][2] = a
    /\ \A j \in 1 .. Len(cs) : cs[j][1] = b /\ cs[j][2] = a => j <= i

StoreBurst(cs) ==
    [b \in Boards |-> [a \in Addr |->
        IF \E i \in 1 .. Len(cs) : IsLastAt(cs, b, a, i)
        THEN cs[CHOOSE i \in 1 .. Len(cs) : IsLastAt(cs, b, a, i)][3]
        ELSE reg[b][a]]]

\* The whole burst is stored in one step, then the flush returns.
BurstStored(t) ==
    /\ job[t].kind = "flush"
    /\ buf[t] # << >>
    /\ reg' = StoreBurst(buf[t])
    /\ buf' = [buf EXCEPT ![t] = << >>]
    /\ UNCHANGED <<job, got, open>>

BurstCloses(t) ==
    /\ job[t].kind = "flush"
    /\ buf[t] = << >>
    /\ open' = [open EXCEPT ![t] = FALSE]
    /\ job' = [job EXCEPT ![t] = None]
    /\ UNCHANGED <<reg, got, buf>>

\* The board changes one of its own registers (run bit, counters).
BoardChanges(b) ==
    /\ \E a \in StatusAddrs, v \in Byte : reg' = [reg EXCEPT ![b][a] = v]
    /\ UNCHANGED <<job, got, open, buf>>

Next ==
    \/ \E t \in Threads :
        \/ \E o \in Menu[t] : Call(t, o)
        \/ Sample(t) \/ ReadReturns(t)
        \/ WriteNow(t) \/ WriteLater(t)
        \/ BurstOpens(t) \/ BurstStored(t) \/ BurstCloses(t)
    \/ \E b \in Present : BoardChanges(b)

Spec == Init /\ [][Next]_vars
=============================================================================
