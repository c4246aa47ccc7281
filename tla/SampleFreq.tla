------------------------------ MODULE SampleFreq ------------------------------
(***************************************************************************)
(* The sample clock of the AD board (moddv14.cpp): SetSampleFreq turns a   *)
(* wanted frequency into the 8-bit divider and the 3-bit prescaler of the  *)
(* board, GetSampleFreq computes the frequency these give.                 *)
(***************************************************************************)
EXTENDS Integers

CONSTANT BoardFreq  \* the clock of the board in Hz (25 000 000)

ASSUME BoardAssumption == BoardFreq \in Nat \ {0}

Crash == -1                                \* a division by zero
Shift == <<1, 2, 4, 8, 16, 32, 64, 128>>   \* Shift[p + 1] = 1 << p
Prescalers == 0 .. 7
IntMin == -2147483647 - 1

\* Mutant: the quotient is rounded up.
Quotient_RoundedUp(f, p) == (BoardFreq \div Shift[p + 1] + f - 1) \div f

\* n = iclk/freq, with iclk = boardclk/(1<<p), truncated at the end; truncating
\* iclk as well gives the same n.
Quotient(f, p) == (BoardFreq \div Shift[p + 1]) \div f

\* Mutant: the loop ends too early, at a divider of more than 8 bits.
Enough_NineBits(f, p) == Quotient(f, p) <= 512

\* while( 256 < n ) ends at the first prescaler for which this is true.
Enough(f, p) == Quotient(f, p) <= 256
First(f, p) == Enough(f, p) /\ \A q \in Prescalers : q < p => ~Enough(f, q)

\* n and pres at skip:.  A quotient by zero converts to INT_MIN.
Chosen(f) ==
    CASE f = 0 -> [n |-> IntMin, p |-> 0]
      [] f > BoardFreq -> [n |-> 1, p |-> 0]
      [] f \in 1 .. BoardFreq /\ (\E p \in Prescalers : Enough(f, p)) ->
            LET p == CHOOSE q \in Prescalers : First(f, q)
            IN  [n |-> Quotient(f, p), p |-> p]
      [] OTHER -> [n |-> 255, p |-> 7]

Divider(f) == Chosen(f).n % 256
Prescaler(f) == Chosen(f).p

\* GetSampleFreq
SampleFreq(d, p) == IF d = 0 THEN Crash ELSE BoardFreq \div (d * Shift[p + 1])

-----------------------------------------------------------------------------
\* The divisions of the clock that the board can do.
Division(d, p) == d * Shift[p + 1]

\* d and p are the best setting for f: of all that do not go below the
\* frequency that was asked for, it is the slowest, and it is not slower than
\* asked itself unless the board has none that is.
Closest(f, d, p) ==
    /\ \A e \in 1 .. 255, q \in Prescalers :
          Division(e, q) <= BoardFreq \div f => Division(e, q) <= Division(d, p)
    /\ f <= SampleFreq(d, p)
=============================================================================
