-------------------------- MODULE PulseMakeProofs --------------------------
(***************************************************************************)
(* Theorems about PulseMake for all parameters that clients set, every     *)
(* width of the triggers and every size of a cell.                         *)
(***************************************************************************)
EXTENDS PulseMake, FiniteSetTheorems, WellFoundedInduction, TLAPS

-----------------------------------------------------------------------------
\* Memories of n ticks, and how an edit relates two of them.

IsMem(m, n) ==
    /\ m = [total |-> n, wave |-> m.wave, cmds |-> m.cmds]
    /\ m.wave \in [0 .. n - 1 -> SUBSET Bits]
    /\ DOMAIN m.cmds \subseteq 0 .. n - 1
    /\ \A x \in DOMAIN m.cmds : m.cmds[x].c \in Codes

SameCodes(m, k) ==
    DOMAIN k.cmds = DOMAIN m.cmds /\ \A x \in DOMAIN m.cmds : k.cmds[x].c = m.cmds[x].c

\* Nothing but the bits of S differs.
Same(m, k, n, S) == \A x \in 0 .. n - 1 : \A c \in Bits \ S : c \in k.wave[x] <=> c \in m.wave[x]

Edited(m, k, n, S) == IsMem(k, n) /\ Same(m, k, n, S) /\ SameCodes(m, k)

\* Bit b has been set from st up to ed, and nothing else changed.
Put(m, k, n, b, st, ed) ==
    \A x \in 0 .. n - 1 : \A c \in Bits :
        c \in k.wave[x] <=> c \in m.wave[x] \/ (c = b /\ st <= x /\ x < ed)

\* From st up to ed the bits of mask have stayed and those of pat been set.
Levelled(m, k, n, st, ed, mask, pat) ==
    \A x \in 0 .. n - 1 :
        k.wave[x] = IF st <= x /\ x < ed THEN (m.wave[x] \cap mask) \union pat ELSE m.wave[x]

LEMMA LevelIs ==
    ASSUME NEW n \in Nat, NEW m, IsMem(m, n), NEW st \in Int, NEW ed \in Int,
           NEW mask, mask \subseteq Bits, NEW pat, pat \subseteq Bits
    PROVE  /\ IsMem(Level(m, st, ed, mask, pat), n) /\ SameCodes(m, Level(m, st, ed, mask, pat))
           /\ Levelled(m, Level(m, st, ed, mask, pat), n, st, ed, mask, pat)
<1> DEFINE Edit(x, d) == IF Tick(st) <= x /\ x < Tick(ed) THEN (d \cap mask) \union pat ELSE d
           w == [x \in DOMAIN m.wave |-> Edit(x, m.wave[x])]
           k == [x \in DOMAIN m.cmds |-> [c |-> m.cmds[x].c, d |-> Edit(x, m.cmds[x].d)]]
<1>1. Level(m, st, ed, mask, pat) = [total |-> n, wave |-> w, cmds |-> k]
  <2>1. m.total = n
      BY DEF IsMem
  <2> QED
      BY <2>1 DEF Level
<1>2. \A x \in 0 .. n - 1 : (Tick(st) <= x /\ x < Tick(ed)) <=> (st <= x /\ x < ed)
    BY DEF Tick
<1>3. DOMAIN m.wave = 0 .. n - 1 /\ w \in [0 .. n - 1 -> SUBSET Bits]
    BY DEF IsMem
<1>4. \A x \in 0 .. n - 1 :
          w[x] = IF st <= x /\ x < ed THEN (m.wave[x] \cap mask) \union pat ELSE m.wave[x]
    BY <1>2, <1>3
<1>5. DOMAIN k = DOMAIN m.cmds /\ \A x \in DOMAIN m.cmds : k[x].c = m.cmds[x].c
    OBVIOUS
<1>6. DOMAIN m.cmds \subseteq 0 .. n - 1 /\ \A x \in DOMAIN m.cmds : m.cmds[x].c \in Codes
    BY DEF IsMem
<1> HIDE DEF w, k
<1> DEFINE r == Level(m, st, ed, mask, pat)
<1>7. r.wave = w /\ r.cmds = k /\ r = [total |-> n, wave |-> w, cmds |-> k]
    BY <1>1
<1> HIDE DEF r
<1>8. IsMem(r, n) /\ SameCodes(m, r)
    BY <1>3, <1>5, <1>6, <1>7 DEF IsMem, SameCodes
<1> QED
    BY <1>4, <1>7, <1>8 DEF r, Levelled

LEMMA OnIs ==
    ASSUME NEW n \in Nat, NEW m, IsMem(m, n), NEW b \in Bits, NEW st \in Int, NEW l \in Int
    PROVE  Edited(m, On(m, b, st, l), n, {b}) /\ Put(m, On(m, b, st, l), n, b, st, st + l)
<1> DEFINE k == On(m, b, st, l)
<1>1. k = Level(m, st, st + l, Bits \ {b}, {b})
    BY DEF On, Make1Bit
<1> HIDE DEF k
<1>0. Bits \ {b} \subseteq Bits /\ {b} \subseteq Bits /\ st + l \in Int
    OBVIOUS
<1>2. IsMem(k, n) /\ SameCodes(m, k) /\ Levelled(m, k, n, st, st + l, Bits \ {b}, {b})
    BY <1>0, <1>1, LevelIs
<1>3. Put(m, k, n, b, st, st + l)
    BY <1>2 DEF Put, IsMem, Levelled
<1>4. Same(m, k, n, {b})
    BY <1>3 DEF Put, Same
<1> QED
    BY <1>2, <1>3, <1>4 DEF k, Edited

LEMMA Chained ==
    ASSUME NEW n, NEW m, NEW k, NEW j, NEW S, NEW T, Edited(m, k, n, S), Edited(k, j, n, T)
    PROVE  Edited(m, j, n, S \union T)
BY DEF Edited, Same, SameCodes

LEMMA Wider ==
    ASSUME NEW n, NEW m, NEW k, NEW S, NEW T, S \subseteq T, Edited(m, k, n, S)
    PROVE  Edited(m, k, n, T)
BY DEF Edited, Same

LEMMA Unedited == ASSUME NEW n, NEW m, IsMem(m, n), NEW S PROVE Edited(m, m, n, S)
BY DEF Edited, Same, SameCodes

LEMMA Pairwise ==
    ASSUME NEW n, NEW m, NEW k, NEW j, NEW S, Edited(m, k, n, S), Edited(k, j, n, S)
    PROVE  Edited(m, j, n, S)
BY DEF Edited, Same, SameCodes

-----------------------------------------------------------------------------
\* The edits of pulgen.cpp.

Gated == {"tx", "tx2", "aux1", "comb", "first", "second", "meter"}
Quadrature == {"q0", "q1"}

LEMMA TheBits == Gated \union Quadrature \union {"os", "ad"} \subseteq Bits
BY BitsAssumption DEF PulseBits, Gated, Quadrature

\* Whenever RF is on, the gate of the amplifier is open, before and after.
Gate(m, q, n) ==
    \A x, y \in 0 .. n - 1 :
        "tx" \in m.wave[x] /\ x - q.pre <= y /\ y <= x + q.post => "tx2" \in m.wave[y]

\* The phase from st up to ed is f, elsewhere it is what it was.
Phased(m, k, n, st, ed, f) ==
    \A x \in 0 .. n - 1 :
        k.wave[x] \cap Quadrature = IF st <= x /\ x < ed THEN f ELSE m.wave[x] \cap Quadrature

LEMMA QPSKIs ==
    ASSUME NEW n \in Nat, NEW m, IsMem(m, n), NEW st \in Int, NEW l \in Int, NEW f, f \subseteq Quadrature
    PROVE  /\ Edited(m, MakeQPSK(m, st, l, f), n, Quadrature)
           /\ Phased(m, MakeQPSK(m, st, l, f), n, st, st + l, f)
<1> DEFINE k == MakeQPSK(m, st, l, f)
<1>1. k = Level(m, st, st + l, Bits \ Quadrature, f)
    BY DEF MakeQPSK, Make1Bit, Quadrature
<1> HIDE DEF k
<1>2. Bits \ Quadrature \subseteq Bits /\ f \subseteq Bits /\ st + l \in Int
    BY TheBits
<1>3. IsMem(k, n) /\ SameCodes(m, k) /\ Levelled(m, k, n, st, st + l, Bits \ Quadrature, f)
    BY <1>1, <1>2, LevelIs
<1>4. \A x \in 0 .. n - 1 : m.wave[x] \subseteq Bits
    BY DEF IsMem
<1>5. Same(m, k, n, Quadrature)
    BY <1>3, <1>4 DEF Same, Levelled
<1>6. Phased(m, k, n, st, st + l, f)
    BY <1>3, <1>4 DEF Phased, Levelled
<1> QED
    BY <1>3, <1>5, <1>6 DEF k, Edited

LEMMA BlankIs ==
    ASSUME NEW n \in Nat, NEW m, IsMem(m, n), NEW st \in Int, NEW l \in Int, NEW q, Gate(m, q, n)
    PROVE  Edited(m, MakeBlank(m, st, l), n, Gated) /\ Gate(MakeBlank(m, st, l), q, n)
<1> DEFINE k == MakeBlank(m, st, l)
<1>1. k = Level(m, st, st + l, Bits \ {"tx"}, {})
    BY DEF MakeBlank, Make1Bit
<1> HIDE DEF k
<1>2. Bits \ {"tx"} \subseteq Bits /\ {} \subseteq Bits /\ st + l \in Int
    OBVIOUS
<1>3. IsMem(k, n) /\ SameCodes(m, k) /\ Levelled(m, k, n, st, st + l, Bits \ {"tx"}, {})
    BY <1>1, <1>2, LevelIs
<1>4. \A x \in 0 .. n - 1 : m.wave[x] \subseteq Bits
    BY DEF IsMem
<1>5. Same(m, k, n, Gated)
    BY <1>3, <1>4 DEF Same, Levelled, Gated
<1>6. /\ \A x \in 0 .. n - 1 : "tx" \in k.wave[x] => "tx" \in m.wave[x]
      /\ \A x \in 0 .. n - 1 : "tx2" \in m.wave[x] => "tx2" \in k.wave[x]
    BY <1>3, <1>4 DEF Levelled
<1>7. Gate(k, q, n)
    BY <1>6 DEF Gate
<1> QED
    BY <1>3, <1>5, <1>7 DEF k, Edited

\* Nothing but n empty ticks.
Emptied(m, n) == m = [total |-> n, wave |-> [x \in 0 .. n - 1 |-> {}], cmds |-> << >>]

LEMMA EmptiedIs ==
    ASSUME NEW n \in Nat, NEW m, Emptied(m, n)
    PROVE  IsMem(m, n) /\ DOMAIN m.cmds = {} /\ \A x \in 0 .. n - 1 : m.wave[x] = {}
<1>1. m.wave = [x \in 0 .. n - 1 |-> {}] /\ DOMAIN m.cmds = {} /\ m = [total |-> n, wave |-> m.wave, cmds |-> m.cmds]
    BY DEF Emptied
<1>2. m.wave \in [0 .. n - 1 -> SUBSET Bits]
    BY <1>1
<1> QED
    BY <1>1, <1>2 DEF IsMem

LEMMA LostIs == Emptied(Lost, 0)
<1>1. 0 * CellTime = 0
    BY WaveAssumption
<1> QED
    BY <1>1 DEF Lost, Cleared, Emptied

\* A command before the end.
LEMMA CommandIs ==
    ASSUME NEW n \in Nat, NEW m, IsMem(m, n), NEW at \in Int, NEW cmd \in Commands, Tick(at) < n
    PROVE  /\ IsMem(Command(m, at, cmd), n) /\ Command(m, at, cmd).wave = m.wave
           /\ Command(m, at, cmd).cmds = With(m.cmds, Tick(at), cmd)
<1> DEFINE k == Command(m, at, cmd)
           w == With(m.cmds, Tick(at), cmd)
           u == m.wave
<1>1. m.total = n
    BY DEF IsMem
<1>2. k = [m EXCEPT !.cmds = w]
  <2>1. ~(Tick(at) = n) /\ ~(Tick(at) > n)
      BY DEF Tick
  <2> QED
      BY <1>1, <2>1 DEF Command
<1> HIDE DEF k
<1>3. m = [total |-> n, wave |-> u, cmds |-> m.cmds]
    BY DEF IsMem
<1> HIDE DEF w, u
<1>4. k = [total |-> n, wave |-> u, cmds |-> w]
    BY <1>2, <1>3
<1>5. k.wave = u /\ k.cmds = w /\ k = [total |-> n, wave |-> k.wave, cmds |-> k.cmds]
    BY <1>4
<1>6. DOMAIN w = DOMAIN m.cmds \union {Tick(at)} /\ cmd.c \in Codes
      /\ \A z \in DOMAIN w : w[z] = IF z = Tick(at) THEN cmd ELSE m.cmds[z]
    BY DEF w, With, Commands
<1>7. Tick(at) \in 0 .. n - 1
    BY DEF Tick
<1>8. u \in [0 .. n - 1 -> SUBSET Bits] /\ DOMAIN m.cmds \subseteq 0 .. n - 1
      /\ \A x \in DOMAIN m.cmds : m.cmds[x].c \in Codes
    BY DEF IsMem, u
<1>9. IsMem(k, n)
    BY <1>5, <1>6, <1>7, <1>8 DEF IsMem
<1> QED
    BY <1>5, <1>9 DEF k, u, w

\* A command at the end takes the terminator's place, one past it is not met.
LEMMA LateIs ==
    ASSUME NEW n \in Nat, NEW m, IsMem(m, n), NEW at \in Int, NEW cmd, ~(Tick(at) < n)
    PROVE  Command(m, at, cmd) = m \/ Command(m, at, cmd) = Lost
<1>1. m.total = n
    BY DEF IsMem
<1>2. Tick(at) = n \/ (Tick(at) > n /\ ~(Tick(at) = n))
    BY DEF Tick
<1> QED
    BY <1>1, <1>2 DEF Command

\* Some memory, of whatever length.
AnyMem(m) == \E n \in Nat : IsMem(m, n)

LEMMA AnyCommand ==
    ASSUME NEW m, AnyMem(m), NEW at \in Int, NEW cmd \in Commands
    PROVE  AnyMem(Command(m, at, cmd))
<1>1. PICK n \in Nat : IsMem(m, n)
    BY DEF AnyMem
<1>2. CASE Tick(at) < n
    BY <1>1, <1>2, CommandIs DEF AnyMem
<1>3. CASE ~(Tick(at) < n)
  <2>1. IsMem(Lost, 0) /\ 0 \in Nat
      BY LostIs, EmptiedIs
  <2> QED
      BY <1>1, <1>3, <2>1, LateIs DEF AnyMem
<1> QED
    BY <1>2, <1>3

\* The gate stays right when other bits are edited, and when it is opened.
LEMMA GateKept ==
    ASSUME NEW n, NEW m, NEW k, NEW q, NEW S, Gate(m, q, n), Edited(m, k, n, S), "tx" \notin S, "tx2" \notin S
    PROVE  Gate(k, q, n)
BY TheBits DEF Gate, Edited, Same, Gated

LEMMA GateAdded ==
    ASSUME NEW n, NEW m, NEW k, NEW q, NEW b \in Bits \ {"tx"}, NEW st, NEW ed,
           Gate(m, q, n), Put(m, k, n, b, st, ed)
    PROVE  Gate(k, q, n)
BY TheBits DEF Gate, Put, Gated

LEMMA PulseIs ==
    ASSUME NEW n \in Nat, NEW m, IsMem(m, n), NEW q, Gate(m, q, n),
           NEW b \in Gated \ {"tx"}, NEW st \in Int, NEW l \in Int
    PROVE  /\ Edited(m, On(m, b, st, l), n, Gated) /\ Gate(On(m, b, st, l), q, n)
           /\ Edited(m, MakePulse(m, b, st, l), n, Gated) /\ Gate(MakePulse(m, b, st, l), q, n)
<1>1. b \in Bits \ {"tx"} /\ {b} \subseteq Gated
    BY TheBits
<1>2. Edited(m, On(m, b, st, l), n, {b}) /\ Put(m, On(m, b, st, l), n, b, st, st + l)
    BY <1>1, OnIs
<1>3. Edited(m, On(m, b, st, l), n, Gated) /\ Gate(On(m, b, st, l), q, n)
    BY <1>1, <1>2, GateAdded, Wider
<1>4. Edited(m, m, n, Gated)
    BY Unedited
<1> QED
    BY <1>3, <1>4 DEF MakePulse

LEMMA TXGateIs ==
    ASSUME NEW n \in Nat, NEW m, IsMem(m, n), NEW q, Gate(m, q, n), q.pre \in Nat, q.post \in Nat,
           NEW st \in Int, q.pre <= st, NEW l \in Nat
    PROVE  Edited(m, MakeTXGate(m, q, st, l), n, Gated) /\ Gate(MakeTXGate(m, q, st, l), q, n)
<1>1. CASE l = 0
  <2>1. MakeTXGate(m, q, st, l) = m
      BY <1>1 DEF MakeTXGate
  <2> QED
      BY <2>1, Unedited
<1>2. CASE l # 0
  <2> DEFINE m1 == On(m, "tx2", st - q.pre, l + q.pre + q.post)
             m2 == On(m1, "aux1", st, l)
             m3 == On(m2, "tx", st, l)
  <2>1. MakeTXGate(m, q, st, l) = m3
      BY <1>2 DEF MakeTXGate
  <2>2. st - q.pre \in Int /\ l + q.pre + q.post \in Int
        /\ (st - q.pre) + (l + q.pre + q.post) = st + l + q.post
      OBVIOUS
  <2>3. "tx" \in Bits /\ "tx2" \in Bits /\ "aux1" \in Bits
        /\ {"tx"} \subseteq Gated /\ {"tx2"} \subseteq Gated /\ {"aux1"} \subseteq Gated
      BY TheBits DEF Gated
  <2>4. Edited(m, m1, n, {"tx2"}) /\ Put(m, m1, n, "tx2", st - q.pre, st + l + q.post)
      BY <2>2, <2>3, OnIs
  <2> HIDE DEF m1
  <2>5. Edited(m1, m2, n, {"aux1"}) /\ Put(m1, m2, n, "aux1", st, st + l)
      BY <2>3, <2>4, OnIs DEF Edited
  <2> HIDE DEF m2
  <2>6. Edited(m2, m3, n, {"tx"}) /\ Put(m2, m3, n, "tx", st, st + l)
      BY <2>3, <2>5, OnIs DEF Edited
  <2> HIDE DEF m3
  <2>7. Edited(m, m3, n, Gated)
    <3>1. Edited(m, m1, n, Gated) /\ Edited(m1, m2, n, Gated) /\ Edited(m2, m3, n, Gated)
        BY <2>3, <2>4, <2>5, <2>6, Wider
    <3> QED
        BY <3>1, Pairwise
  <2>8. Gate(m3, q, n)
    <3> SUFFICES ASSUME NEW x \in 0 .. n - 1, NEW y \in 0 .. n - 1, "tx" \in m3.wave[x],
                        x - q.pre <= y, y <= x + q.post
                 PROVE  "tx2" \in m3.wave[y]
        BY DEF Gate
    <3>1. "tx2" \in m1.wave[y] => "tx2" \in m3.wave[y]
        BY <2>3, <2>5, <2>6 DEF Put
    <3>2. CASE st <= x /\ x < st + l
      <4>1. st - q.pre <= y /\ y < st + l + q.post
          BY <3>2
      <4> QED
          BY <2>3, <2>4, <3>1, <4>1 DEF Put
    <3>3. CASE ~(st <= x /\ x < st + l)
      <4>1. "tx" \in m.wave[x]
          BY <2>3, <2>4, <2>5, <2>6, <3>3 DEF Put
      <4>2. "tx2" \in m.wave[y]
          BY <4>1 DEF Gate
      <4> QED
          BY <2>3, <2>4, <3>1, <4>2 DEF Put
    <3> QED
        BY <3>2, <3>3
  <2> QED
      BY <2>1, <2>7, <2>8
<1> QED
    BY <1>1, <1>2
LEMMA FieldsIs ==
    ASSUME NEW q \in Setting
    PROVE  /\ q.cpn \in Nat /\ q.cpw \in Nat /\ q.cpi \in Nat /\ q.tj \in Nat /\ q.fpw \in Nat
           /\ q.t2 \in Nat /\ q.spw \in Nat /\ q.adoff \in Int /\ q.trgout \in Nat /\ q.blank \in Nat
           /\ q.pre \in Nat /\ q.post \in Nat /\ q.qdelay \in Nat
           /\ q.cpq \subseteq {"q0", "q1"} /\ q.fpq \subseteq {"q0", "q1"} /\ q.spq \subseteq {"q0", "q1"}
           /\ q.double \in BOOLEAN /\ q.usecomb \in BOOLEAN /\ q.loopmode \in BOOLEAN /\ q.exttrg \in BOOLEAN
BY DEF Setting, Phases

\* The parts of the pattern come one behind the other.
LEMMA PlacesIs ==
    ASSUME NEW q \in Setting
    PROVE  /\ CombAt(q) = q.pre /\ FirstAt(q) \in Nat /\ q.pre <= FirstAt(q)
           /\ HasComb(q) => q.pre <= FirstAt(q) - q.tj
           /\ SecondAt(q) \in Nat /\ SecondAt(q) = FirstAt(q) + q.t2
           /\ LastEnd(q) = IF q.double THEN SecondAt(q) + q.spw ELSE FirstAt(q) + q.fpw
           /\ ADAt(q) \in Int
           /\ FirstAt(q) <= q.pre + (q.cpw + q.cpi) * q.cpn + q.tj
<1> DEFINE c == q.cpn * (q.cpw + q.cpi)
           w == q.cpw + q.cpi
<1>1. q.cpn \in Nat /\ w \in Nat /\ q.cpi <= w /\ q.cpi \in Nat /\ q.tj \in Nat /\ q.pre \in Nat
      /\ q.t2 \in Nat /\ q.fpw \in Nat /\ q.spw \in Nat /\ q.adoff \in Int
    BY FieldsIs
<1>2. c = q.cpn * w /\ c = w * q.cpn
    BY FieldsIs
<1> HIDE DEF w
<1>3. c \in Nat
    BY <1>1, <1>2
<1>4. ASSUME q.cpn # 0 PROVE w <= c
  <2>1. q.cpn - 1 \in Nat
      BY <1>1, <1>4
  <2>2. (q.cpn - 1) * w \in Nat
      BY <1>1, <2>1
  <2>3. c = (q.cpn - 1) * w + w
      BY <1>1, <1>2
  <2> QED
      BY <1>1, <2>2, <2>3
<1>5. FirstAt(q) = IF HasComb(q) THEN q.pre + c - q.cpi + q.tj ELSE q.pre
    BY DEF FirstAt, CombAt
<1>6. HasComb(q) => q.cpn # 0
    BY DEF HasComb
<1>7. (q.cpw + q.cpi) * q.cpn = c
    BY <1>2 DEF w
<1> HIDE DEF c
<1>8. HasComb(q) => w <= c
    BY <1>4, <1>6
<1>9. FirstAt(q) \in Nat /\ q.pre <= FirstAt(q) /\ (HasComb(q) => q.pre <= FirstAt(q) - q.tj)
      /\ FirstAt(q) <= q.pre + c + q.tj
    BY <1>1, <1>3, <1>5, <1>8
<1>10. SecondAt(q) = FirstAt(q) + q.t2 /\ SecondAt(q) \in Nat
    BY <1>1, <1>9 DEF SecondAt
<1>11. LastEnd(q) = (IF q.double THEN SecondAt(q) + q.spw ELSE FirstAt(q) + q.fpw) /\ LastEnd(q) \in Nat
    BY <1>1, <1>9, <1>10 DEF LastEnd
<1>12. ADAt(q) \in Int
    BY <1>1, <1>11 DEF ADAt
<1> QED
    BY <1>7, <1>9, <1>10, <1>11, <1>12 DEF CombAt

\* The cells that make() clears are more than enough for the length.
LEMMA CellsIs ==
    ASSUME NEW t \in Nat
    PROVE  Cells(t) \in Nat \ {0} /\ Cells(t) * CellTime \in Nat /\ t < Cells(t) * CellTime
<1> DEFINE s == CellTime \div Freq
           d == s * Freq
           n == t \div d
<1>1. CellTime \in Nat \ {0} /\ Freq \in Nat \ {0} /\ Freq <= CellTime
    BY WaveAssumption, ClearAssumption
<1>2. \A a \in Nat : \A b \in Nat \ {0} :
          a \div b \in Nat /\ (a \div b) * b <= a /\ a < (a \div b) * b + b /\ (b <= a => a \div b # 0)
    OBVIOUS
<1>3. s \in Nat \ {0} /\ d <= CellTime
    BY <1>1, <1>2
<1> HIDE DEF s
<1>4. d \in Nat /\ d # 0
    BY <1>1, <1>3
<1> HIDE DEF d
<1>5. n \in Nat /\ t < n * d + d
    BY <1>2, <1>4
<1>6. Cells(t) = n + 1
    BY DEF Cells, n, d, s
<1> HIDE DEF n
<1>7. n * d <= n * CellTime /\ n * d \in Nat /\ n * CellTime \in Nat
    BY <1>1, <1>3, <1>4, <1>5
<1>8. (n + 1) * CellTime = n * CellTime + CellTime
    BY <1>1, <1>5
<1> DEFINE x == n * d
           y == n * CellTime
<1>9. x \in Nat /\ y \in Nat /\ x <= y /\ t < x + d /\ (n + 1) * CellTime = y + CellTime
    BY <1>5, <1>7, <1>8
<1> HIDE DEF x, y
<1>10. (n + 1) * CellTime \in Nat /\ t < (n + 1) * CellTime
    BY <1>1, <1>3, <1>4, <1>9
<1> QED
    BY <1>5, <1>6, <1>10

LEMMA LengthIs ==
    ASSUME NEW q \in Setting
    PROVE  /\ Length(q) \in Nat /\ LoopAt(q) \in Nat /\ LoopAt(q) + Margin <= Length(q) + q.pre
           /\ Margin <= Length(q)
<1> DEFINE c == (q.cpw + q.cpi) * q.cpn
<1>1. q.blank \in Nat /\ q.t2 \in Nat /\ q.fpw \in Nat /\ q.spw \in Nat /\ q.tj \in Nat /\ q.pre \in Nat
      /\ q.cpn \in Nat /\ q.cpw + q.cpi \in Nat
    BY FieldsIs
<1>2. c \in Nat
    BY <1>1
<1>3. Length(q) = q.fpw + q.spw + q.blank + q.t2 + q.tj + q.blank + c + Margin
    BY DEF Length
<1>4. FirstAt(q) \in Nat /\ FirstAt(q) <= q.pre + c + q.tj /\ SecondAt(q) = FirstAt(q) + q.t2
      /\ LastEnd(q) = IF q.double THEN SecondAt(q) + q.spw ELSE FirstAt(q) + q.fpw
    BY PlacesIs
<1>5. LoopAt(q) = IF q.loopmode THEN q.blank ELSE LastEnd(q) + q.blank
    BY DEF LoopAt
<1> HIDE DEF c
<1>6. Length(q) \in Nat /\ Margin \in Nat /\ Margin <= Length(q)
    BY <1>1, <1>2, <1>3, TimesAssumption
<1>7. LoopAt(q) \in Nat /\ LoopAt(q) + Margin <= Length(q) + q.pre
    BY <1>1, <1>2, <1>3, <1>4, <1>5, <1>6
<1> QED
    BY <1>6, <1>7

Ticks(q) == Cells(Length(q)) * CellTime

\* What make() clears: some cells, and as many as it wants if there is room.
LEMMA ClearIs ==
    ASSUME NEW q \in Setting
    PROVE  /\ \E n \in Nat : Emptied(Clear(Length(q)), n)
           /\ HasRoom(q) => Emptied(Clear(Length(q)), Ticks(q))
<1> DEFINE b == Cells(Length(q))
           n == b % Width
           k == IF UMax - 1 <= n THEN UMax ELSE n
<1>1. b \in Nat
    BY LengthIs, CellsIs
<1>2. Clear(Length(q)) = Cleared(k) /\ Ticks(q) = b * CellTime
    BY DEF Clear, Ticks
<1>3. HasRoom(q) <=> b + 2 * Calls(q) < UMax
    BY DEF HasRoom
<1> HIDE DEF b
<1>4. Width \in Nat \ {0} /\ UMax \in Nat /\ UMax <= Width
    BY ClearAssumption
<1>5. n \in Nat
    BY <1>1, <1>4
<1>6. Emptied(Cleared(k), k * CellTime) /\ k * CellTime \in Nat
  <2>1. k \in Nat
      BY <1>4, <1>5
  <2> HIDE DEF k
  <2>2. k * CellTime \in Nat
      BY <2>1, WaveAssumption
  <2> QED
      BY <2>2 DEF Cleared, Emptied
<1>7. ASSUME HasRoom(q) PROVE k = b
  <2>1. 2 * Calls(q) \in Nat /\ 2 <= 2 * Calls(q)
    <3>1. q.cpn \in Nat
        BY FieldsIs
    <3> QED
        BY <3>1 DEF Calls
  <2> DEFINE c == 2 * Calls(q)
  <2>2. c \in Nat /\ 2 <= c /\ b + c < UMax
      BY <1>3, <1>7, <2>1
  <2> HIDE DEF c
  <2>3. b < Width /\ ~(UMax - 1 <= b)
      BY <1>1, <1>4, <2>2
  <2>4. n = b
      BY <1>1, <1>4, <2>3
  <2> QED
      BY <2>3, <2>4
<1> QED
    BY <1>2, <1>6, <1>7
LEMMA LeastIn ==
    ASSUME NEW R, IsWellFoundedOn(R, Nat), \A x, y \in Nat : x < y => <<x, y>> \in R,
           NEW T, T \subseteq Nat, T # {}
    PROVE  \E x \in T : \A y \in T : x <= y
<1>1. PICK x \in T : \A y \in T : ~ (<<y, x>> \in R)
    BY WFMin
<1>2. ASSUME NEW y \in T PROVE x <= y
  <2>1. x \in Nat /\ y \in Nat /\ ~(<<y, x>> \in R)
      BY <1>1
  <2>2. ~(y < x)
      BY <2>1
  <2> QED
      BY <2>1, <2>2
<1> QED
    BY <1>2

LEMMA Least == ASSUME NEW T, T \subseteq Nat, T # {} PROVE \E x \in T : \A y \in T : x <= y
<1>1. \A x, y \in Nat : x < y => <<x, y>> \in OpToRel(<, Nat)
    BY DEF OpToRel
<1> QED
    BY <1>1, LeastIn, NatLessThanWellFounded

\* Where comb pulse i starts.
PulseAt(q, i) == CombAt(q) + (i - 1) * (q.cpw + q.cpi)

\* A solution of the recursion of CombPulses: the memory after each pulse.
Pulsed(m, q, n, f) ==
    f = [i \in 0 .. n |-> IF i = 0 THEN m ELSE CombPulse(f[i - 1], q, PulseAt(q, i))]

LEMMA PulsedIs == ASSUME NEW m, NEW q, q.cpn \in Nat PROVE \E f : Pulsed(m, q, q.cpn, f)
<1> DEFINE N == q.cpn
           Has(n) == \E f : Pulsed(m, q, n, f)
           T == {n \in 0 .. N : ~Has(n)}
<1>1. N \in Nat
    OBVIOUS
<1> HIDE DEF N
<1>2. Has(0)
  <2> DEFINE f == [i \in 0 .. 0 |-> m]
  <2>1. f = [i \in 0 .. 0 |-> IF i = 0 THEN m ELSE CombPulse(f[i - 1], q, PulseAt(q, i))]
      OBVIOUS
  <2> HIDE DEF f
  <2> QED
      BY <2>1 DEF Pulsed
<1>3. ASSUME NEW n \in 1 .. N, Has(n - 1) PROVE Has(n)
  <2>1. PICK f : Pulsed(m, q, n - 1, f)
      BY <1>3
  <2>2. f = [i \in 0 .. n - 1 |-> IF i = 0 THEN m ELSE CombPulse(f[i - 1], q, PulseAt(q, i))]
      BY <2>1 DEF Pulsed
  <2> DEFINE g == [i \in 0 .. n |-> IF i <= n - 1 THEN f[i] ELSE CombPulse(f[n - 1], q, PulseAt(q, n))]
  <2>3. n \in Nat /\ n # 0 /\ \A i \in 0 .. n : i \in 0 .. n - 1 \/ (i = n /\ ~(i <= n - 1))
      BY <1>1
  <2>4. \A i \in 0 .. n : i # 0 => i - 1 \in 0 .. n /\ i - 1 <= n - 1
      BY <2>3
  <2>5. \A i \in 0 .. n : i # 0 => g[i - 1] = f[i - 1]
      BY <2>4
  <2>6. \A i \in 0 .. n : g[i] = IF i = 0 THEN m ELSE CombPulse(g[i - 1], q, PulseAt(q, i))
    <3> TAKE i \in 0 .. n
    <3>1. CASE i \in 0 .. n - 1
      <4>1. g[i] = f[i]
          BY <2>3, <3>1
      <4>2. f[i] = IF i = 0 THEN m ELSE CombPulse(f[i - 1], q, PulseAt(q, i))
          BY <2>2, <3>1
      <4> QED
          BY <2>5, <4>1, <4>2
    <3>2. CASE i = n /\ ~(i <= n - 1)
      <4>1. g[i] = CombPulse(f[i - 1], q, PulseAt(q, i)) /\ i # 0
          BY <2>3, <3>2
      <4> QED
          BY <2>5, <4>1
    <3> QED
        BY <2>3, <3>1, <3>2
  <2>7. g = [i \in 0 .. n |-> g[i]]
      OBVIOUS
  <2> HIDE DEF g
  <2>8. Pulsed(m, q, n, g)
      BY <2>6, <2>7 DEF Pulsed
  <2> QED
      BY <2>8
<1>4. ASSUME T # {} PROVE FALSE
  <2>1. T \subseteq Nat
      OBVIOUS
  <2> HIDE DEF T
  <2>2. PICK n \in T : \A y \in T : n <= y
      BY <1>4, <2>1, Least
  <2>3. n \in 0 .. N /\ ~Has(n)
      BY DEF T
  <2>4. n \in 1 .. N
      BY <1>1, <1>2, <2>3
  <2>5. n - 1 \in 0 .. N /\ ~(n <= n - 1)
      BY <1>1, <2>4
  <2>6. Has(n - 1)
      BY <2>2, <2>5 DEF T
  <2> QED
      BY <1>3, <2>3, <2>4, <2>6
<1>5. Has(N)
    BY <1>1, <1>4
<1> QED
    BY <1>5 DEF N

\* All pulses of the comb.
LEMMA CombPulsesAre ==
    ASSUME NEW n \in Nat, NEW q \in Setting, NEW m, IsMem(m, n), Gate(m, q, n)
    PROVE  Edited(m, CombPulses(m, q), n, Gated) /\ Gate(CombPulses(m, q), q, n)
<1> DEFINE made[i \in 0 .. q.cpn] ==
               IF i = 0 THEN m ELSE CombPulse(made[i - 1], q, CombAt(q) + (i - 1) * (q.cpw + q.cpi))
           T == {i \in 0 .. q.cpn : ~(Edited(m, made[i], n, Gated) /\ Gate(made[i], q, n))}
<1>1. CombPulses(m, q) = made[q.cpn]
    BY DEF CombPulses
<1>2. q.cpn \in Nat /\ q.cpw \in Nat /\ q.cpi \in Nat /\ q.pre \in Nat /\ q.post \in Nat
    BY FieldsIs
<1>3. made = [i \in 0 .. q.cpn |-> IF i = 0 THEN m ELSE CombPulse(made[i - 1], q, PulseAt(q, i))]
  <2>1. PICK f : Pulsed(m, q, q.cpn, f)
      BY <1>2, PulsedIs
  <2>2. f = [i \in 0 .. q.cpn |->
                IF i = 0 THEN m ELSE CombPulse(f[i - 1], q, CombAt(q) + (i - 1) * (q.cpw + q.cpi))]
      BY <2>1 DEF Pulsed, PulseAt
  <2>3. made = [i \in 0 .. q.cpn |->
                   IF i = 0 THEN m ELSE CombPulse(made[i - 1], q, CombAt(q) + (i - 1) * (q.cpw + q.cpi))]
      BY <2>2
  <2> HIDE DEF made
  <2> QED
      BY <2>3 DEF PulseAt
<1> HIDE DEF made
<1>4. ASSUME T # {} PROVE FALSE
  <2>1. T \subseteq Nat
      BY <1>2
  <2> HIDE DEF T
  <2>2. PICK i \in T : \A y \in T : i <= y
      BY <1>4, <2>1, Least
  <2>3. i \in 0 .. q.cpn /\ ~(Edited(m, made[i], n, Gated) /\ Gate(made[i], q, n))
      BY DEF T
  <2>4. i # 0
    <3>1. made[0] = m
        BY <1>2, <1>3
    <3> QED
        BY <2>3, <3>1, Unedited
  <2>5. i - 1 \in Nat /\ i - 1 \in 0 .. q.cpn /\ ~(i <= i - 1)
      BY <1>2, <2>3, <2>4
  <2> DEFINE k == made[i - 1]
  <2>6. Edited(m, k, n, Gated) /\ Gate(k, q, n)
      BY <2>2, <2>5 DEF T
  <2>7. made[i] = CombPulse(k, q, PulseAt(q, i))
      BY <1>3, <2>3, <2>4
  <2> HIDE DEF k
  <2> DEFINE t == PulseAt(q, i)
             j == MakeTXGate(k, q, t, q.cpw)
  <2>8. t \in Int /\ q.pre <= t
    <3>1. q.cpw + q.cpi \in Nat
        BY <1>2
    <3>2. (i - 1) * (q.cpw + q.cpi) \in Nat
        BY <2>5, <3>1
    <3> QED
        BY <1>2, <3>2 DEF PulseAt, CombAt
  <2>9. made[i] = MakePulse(j, "comb", t, q.cpw)
      BY <2>7 DEF CombPulse
  <2> HIDE DEF t
  <2>10. IsMem(k, n)
      BY <2>6 DEF Edited
  <2>11. Edited(k, j, n, Gated) /\ Gate(j, q, n)
      BY <1>2, <2>6, <2>8, <2>10, TXGateIs
  <2> HIDE DEF j
  <2>12. IsMem(j, n) /\ "comb" \in Gated \ {"tx"}
      BY <2>11 DEF Edited, Gated
  <2>13. Edited(j, made[i], n, Gated) /\ Gate(made[i], q, n)
      BY <1>2, <2>8, <2>9, <2>11, <2>12, PulseIs
  <2>14. Edited(m, made[i], n, Gated)
    <3>1. Edited(m, j, n, Gated)
        BY <2>6, <2>11, Pairwise
    <3> QED
        BY <2>13, <3>1, Pairwise
  <2> QED
      BY <2>3, <2>13, <2>14
<1>5. q.cpn \in 0 .. q.cpn
    BY <1>2
<1> QED
    BY <1>1, <1>4, <1>5
-----------------------------------------------------------------------------
\* The parts of the pattern.

NoStop(m) == \A x \in DOMAIN m.cmds : m.cmds[x].c # "stop"

\* Bit b is one trigger at s, if on, and nothing else.
Triggered(m, n, b, on, s) ==
    \A x \in 0 .. n - 1 : b \in m.wave[x] <=> on /\ s <= x /\ x < s + Trig

\* The place of TRG.OUT.
OutAt(q) ==
    CASE q.trgout = 0 -> CombAt(q)
      [] q.trgout = 1 -> FirstAt(q) - q.tj
      [] q.trgout = 2 -> FirstAt(q)
      [] q.trgout = 3 -> SecondAt(q)
      [] OTHER -> IF q.double THEN ADAt(q) ELSE SecondAt(q)

\* A pattern in which the positions of TRG.OUT in K have had their turn, and
\* the AD trigger if on.
Drawn(m, q, n, K, on) ==
    /\ IsMem(m, n) /\ Gate(m, q, n) /\ NoStop(m)
    /\ Triggered(m, n, "os", q.trgout \in K, OutAt(q))
    /\ Triggered(m, n, "ad", on, ADAt(q))

LEMMA DrawnKept ==
    ASSUME NEW n, NEW m, NEW k, NEW q, NEW K, NEW on, NEW S, Drawn(m, q, n, K, on),
           Edited(m, k, n, S), Gate(k, q, n), "os" \notin S, "ad" \notin S
    PROVE  Drawn(k, q, n, K, on)
<1>1. "os" \in Bits \ S /\ "ad" \in Bits \ S
    BY TheBits
<1>2. IsMem(k, n) /\ Same(m, k, n, S) /\ SameCodes(m, k)
    BY DEF Edited
<1>3. NoStop(k)
    BY <1>2 DEF Drawn, NoStop, SameCodes
<1>4. Triggered(k, n, "os", q.trgout \in K, OutAt(q)) /\ Triggered(k, n, "ad", on, ADAt(q))
    BY <1>1, <1>2 DEF Drawn, Triggered, Same
<1> QED
    BY <1>2, <1>3, <1>4 DEF Drawn

LEMMA OutIs ==
    ASSUME NEW n \in Nat, NEW m, NEW q, NEW K, NEW on, Drawn(m, q, n, K, on),
           NEW i, NEW st \in Int, i = q.trgout => st = OutAt(q)
    PROVE  /\ Drawn(TriggerOut(m, q, i, st), q, n, K \union {i}, on)
           /\ Edited(m, TriggerOut(m, q, i, st), n, {"os"})
<1>0. IsMem(m, n)
    BY DEF Drawn
<1>1. CASE q.trgout # i
  <2>1. TriggerOut(m, q, i, st) = m /\ (q.trgout \in K \union {i} <=> q.trgout \in K)
      BY <1>1 DEF TriggerOut
  <2>2. Drawn(m, q, n, K \union {i}, on)
      BY <2>1 DEF Drawn, Triggered
  <2> QED
      BY <1>0, <2>1, <2>2, Unedited
<1>2. CASE q.trgout = i
  <2> DEFINE k == On(m, "os", st, Trig)
  <2>1. TriggerOut(m, q, i, st) = k
      BY <1>2 DEF TriggerOut, MakeOSTrig
  <2>2. "os" \in Bits /\ "ad" \in Bits \ {"os"} /\ "tx" \notin {"os"} /\ "tx2" \notin {"os"} /\ Trig \in Int
      BY TheBits, TimesAssumption
  <2>3. Edited(m, k, n, {"os"}) /\ Put(m, k, n, "os", st, st + Trig)
      BY <1>0, <2>2, OnIs
  <2> HIDE DEF k
  <2>4. Gate(k, q, n)
      BY <2>2, <2>3, GateKept DEF Drawn
  <2>5. NoStop(k)
      BY <2>3 DEF Drawn, NoStop, Edited, SameCodes
  <2>6. Triggered(k, n, "ad", on, ADAt(q))
      BY <2>2, <2>3 DEF Drawn, Triggered, Edited, Same
  <2>7. Triggered(k, n, "os", q.trgout \in K \union {i}, OutAt(q))
      BY <1>2, <2>2, <2>3 DEF Drawn, Triggered, Put
  <2> QED
      BY <2>1, <2>3, <2>4, <2>5, <2>6, <2>7 DEF Drawn, Edited
<1> QED
    BY <1>1, <1>2

LEMMA ADTrigIs ==
    ASSUME NEW n \in Nat, NEW m, NEW q, NEW K, Drawn(m, q, n, K, FALSE), ADAt(q) \in Int
    PROVE  /\ Drawn(MakeADTrig(m, ADAt(q)), q, n, K, TRUE)
           /\ Edited(m, MakeADTrig(m, ADAt(q)), n, {"ad"})
<1> DEFINE k == On(m, "ad", ADAt(q), Trig)
<1>0. IsMem(m, n)
    BY DEF Drawn
<1>1. MakeADTrig(m, ADAt(q)) = k
    BY DEF MakeADTrig
<1>2. "ad" \in Bits /\ "os" \in Bits \ {"ad"} /\ "tx" \notin {"ad"} /\ "tx2" \notin {"ad"} /\ Trig \in Int
    BY TheBits, TimesAssumption
<1>3. Edited(m, k, n, {"ad"}) /\ Put(m, k, n, "ad", ADAt(q), ADAt(q) + Trig)
    BY <1>0, <1>2, OnIs
<1> HIDE DEF k
<1>4. Gate(k, q, n)
    BY <1>2, <1>3, GateKept DEF Drawn
<1>5. NoStop(k)
    BY <1>3 DEF Drawn, NoStop, Edited, SameCodes
<1>6. Triggered(k, n, "os", q.trgout \in K, OutAt(q))
    BY <1>2, <1>3 DEF Drawn, Triggered, Edited, Same
<1>7. Triggered(k, n, "ad", TRUE, ADAt(q))
    BY <1>2, <1>3 DEF Drawn, Triggered, Put
<1> QED
    BY <1>1, <1>3, <1>4, <1>5, <1>6, <1>7 DEF Drawn, Edited

-----------------------------------------------------------------------------
\* Phases.

\* Every bit but those of the phase.
Plain == Gated \union {"os", "ad"}

PhaseIs(m, n, lo, hi, f) ==
    \A x \in 0 .. n - 1 : lo <= x /\ x < hi => m.wave[x] \cap Quadrature = f

\* Before hi the phases are what they were.
PhaseKept(m, k, n, hi) ==
    \A x \in 0 .. n - 1 : x < hi => k.wave[x] \cap Quadrature = m.wave[x] \cap Quadrature

LEMMA PlainIs ==
    /\ Gated \subseteq Plain /\ {"os"} \subseteq Plain /\ {"ad"} \subseteq Plain
    /\ Plain \cap Quadrature = {} /\ Quadrature \subseteq Bits
    /\ "os" \notin Gated /\ "ad" \notin Gated /\ "os" \notin Quadrature /\ "ad" \notin Quadrature
    /\ "tx" \notin Quadrature /\ "tx2" \notin Quadrature
BY TheBits DEF Plain, Gated, Quadrature

LEMMA PlainKeeps ==
    ASSUME NEW n, NEW m, NEW k, Edited(m, k, n, Plain), NEW hi
    PROVE  PhaseKept(m, k, n, hi)
<1>1. \A c \in Quadrature : c \in Bits \ Plain
    BY PlainIs
<1> QED
    BY <1>1 DEF Edited, Same, PhaseKept

\* A phase between edits of other bits.
LEMMA Keyed ==
    ASSUME NEW n \in Nat, NEW m, NEW j, NEW k, NEW st \in Int, NEW l \in Int,
           NEW f, f \subseteq Quadrature,
           Edited(m, j, n, Plain), Edited(MakeQPSK(j, st, l, f), k, n, Plain)
    PROVE  PhaseKept(m, k, n, st) /\ PhaseIs(k, n, st, st + l, f)
<1> DEFINE i == MakeQPSK(j, st, l, f)
<1>1. IsMem(j, n)
    BY DEF Edited
<1>2. Phased(j, i, n, st, st + l, f)
    BY <1>1, QPSKIs
<1>3. Edited(i, k, n, Plain)
    OBVIOUS
<1> HIDE DEF i
<1>4. PhaseKept(i, k, n, n) /\ PhaseKept(m, j, n, n)
    BY <1>3, PlainKeeps
<1>5. \A x \in 0 .. n - 1 : x < n /\ (x < st => ~(st <= x /\ x < st + l))
    OBVIOUS
<1> QED
    BY <1>2, <1>4, <1>5 DEF Phased, PhaseKept, PhaseIs

LEMMA PhaseStays ==
    ASSUME NEW n \in Nat, NEW m, NEW k, NEW lo \in Int, NEW hi \in Int, NEW f, NEW h \in Int, hi <= h,
           PhaseIs(m, n, lo, hi, f), PhaseKept(m, k, n, h)
    PROVE  PhaseIs(k, n, lo, hi, f)
<1>1. \A x \in 0 .. n - 1 : x < hi => x < h
    OBVIOUS
<1> QED
    BY <1>1 DEF PhaseIs, PhaseKept
-----------------------------------------------------------------------------
\* MakeOneT1T2, part by part.

\* Nothing drawn yet, but perhaps a wait.
Waiting(m, n) == IsMem(m, n) /\ NoStop(m) /\ \A x \in 0 .. n - 1 : m.wave[x] = {}

WaitAt(q) == IF q.pre = 0 THEN 1 ELSE q.pre

LEMMA EmptyWaits == ASSUME NEW n \in Nat, NEW m, Emptied(m, n) PROVE Waiting(m, n)
BY EmptiedIs DEF Waiting, NoStop

LEMMA ExtIs ==
    ASSUME NEW n \in Nat, NEW q \in Setting, NEW m, Emptied(m, n)
    PROVE  /\ WaitAt(q) < n => Waiting(MakeEXTTrig(m, q.pre), n)
           /\ \E i \in Nat : Waiting(MakeEXTTrig(m, q.pre), i)
<1> DEFINE st == WaitAt(q)
           j == Command(m, st, Wait)
<1>1. IsMem(m, n) /\ DOMAIN m.cmds = {} /\ (\A x \in 0 .. n - 1 : m.wave[x] = {}) /\ Waiting(m, n)
    BY EmptiedIs, EmptyWaits
<1>2. st \in Int /\ Tick(st) = st
    BY FieldsIs DEF WaitAt, Tick
<1>3. MakeEXTTrig(m, q.pre) = j
    BY DEF MakeEXTTrig, WaitAt
<1>4. Wait \in Commands /\ Wait.c = "wait"
    BY BitsAssumption DEF Wait, Commands
<1> HIDE DEF st
<1>5. ASSUME st < n PROVE Waiting(j, n)
  <2>1. IsMem(j, n) /\ j.wave = m.wave /\ j.cmds = With(m.cmds, Tick(st), Wait)
      BY <1>1, <1>2, <1>4, <1>5, CommandIs
  <2> HIDE DEF j
  <2>2. NoStop(j)
      BY <1>1, <1>4, <2>1 DEF NoStop, With
  <2> QED
      BY <1>1, <2>1, <2>2 DEF Waiting
<1>6. ASSUME ~(st < n) PROVE \E i \in Nat : Waiting(j, i)
  <2>1. j = m \/ j = Lost
      BY <1>1, <1>2, <1>6, LateIs
  <2>2. Waiting(Lost, 0) /\ 0 \in Nat
      BY LostIs, EmptyWaits
  <2> HIDE DEF j
  <2> QED
      BY <1>1, <2>1, <2>2
<1> HIDE DEF j
<1> QED
    BY <1>3, <1>5, <1>6 DEF st

LEMMA DrawnFirst ==
    ASSUME NEW n \in Nat, NEW q \in Setting, NEW k, Waiting(k, n)
    PROVE  Drawn(TriggerOut(k, q, 0, CombAt(q)), q, n, {0}, FALSE)
<1>1. Drawn(k, q, n, {}, FALSE)
    BY DEF Drawn, Gate, Triggered, Waiting
<1>2. CombAt(q) \in Int /\ (0 = q.trgout => CombAt(q) = OutAt(q)) /\ {} \union {0} = {0}
    BY FieldsIs DEF CombAt, OutAt
<1>3. Drawn(TriggerOut(k, q, 0, CombAt(q)), q, n, {} \union {0}, FALSE)
    BY <1>1, <1>2, OutIs
<1> QED
    BY <1>2, <1>3

LEMMA BeforeIs ==
    ASSUME NEW n \in Nat, NEW q \in Setting, NEW m, Emptied(m, n)
    PROVE  /\ WaitAt(q) < n => Drawn(Before(m, q), q, n, {0}, FALSE)
           /\ \E i \in Nat : Drawn(Before(m, q), q, i, {0}, FALSE)
<1> DEFINE k == IF q.exttrg THEN MakeEXTTrig(m, q.pre) ELSE m
<1>1. (WaitAt(q) < n => Waiting(k, n)) /\ \E i \in Nat : Waiting(k, i)
    BY ExtIs, EmptyWaits
<1>2. Before(m, q) = TriggerOut(k, q, 0, CombAt(q))
    BY DEF Before
<1> HIDE DEF k
<1> QED
    BY <1>1, <1>2, DrawnFirst

LEMMA CombIs ==
    ASSUME NEW n \in Nat, NEW q \in Setting, NEW m, NEW K, NEW on, Drawn(m, q, n, K, on)
    PROVE  /\ Drawn(Comb(m, q), q, n, K, on)
           /\ HasComb(q) => PhaseIs(Comb(m, q), n, CombAt(q) - q.qdelay, FirstAt(q) - q.cpi, q.cpq)
<1>1. CASE ~HasComb(q)
    BY <1>1 DEF Comb
<1>2. CASE HasComb(q)
  <2> DEFINE j == CombPulses(m, q)
             st == CombAt(q) - q.qdelay
             l == FirstAt(q) - CombAt(q) - q.cpi + q.qdelay
             k == MakeQPSK(j, st, l, q.cpq)
  <2>1. Comb(m, q) = k
      BY <1>2 DEF Comb
  <2>2. st \in Int /\ l \in Int /\ st + l = FirstAt(q) - q.cpi /\ q.cpq \subseteq Quadrature
    <3>1. FirstAt(q) \in Nat /\ q.cpi \in Nat /\ q.qdelay \in Nat /\ q.pre \in Nat /\ CombAt(q) = q.pre
        BY FieldsIs, PlacesIs
    <3> QED
        BY <3>1, FieldsIs DEF Quadrature
  <2>3. Edited(m, j, n, Gated) /\ Gate(j, q, n)
      BY CombPulsesAre DEF Drawn
  <2> HIDE DEF j, st, l
  <2>4. Drawn(j, q, n, K, on)
      BY <2>3, PlainIs, DrawnKept
  <2>5. IsMem(j, n)
      BY <2>4 DEF Drawn
  <2>6. Edited(j, k, n, Quadrature) /\ Phased(j, k, n, st, st + l, q.cpq)
      BY <2>2, <2>5, QPSKIs
  <2> HIDE DEF k
  <2>7. Gate(k, q, n)
      BY <2>3, <2>6, PlainIs, GateKept
  <2>8. Drawn(k, q, n, K, on)
      BY <2>4, <2>6, <2>7, PlainIs, DrawnKept
  <2>9. PhaseIs(k, n, st, st + l, q.cpq)
      BY <2>6 DEF Phased, PhaseIs
  <2> QED
      BY <2>1, <2>2, <2>8, <2>9 DEF st
<1> QED
    BY <1>1, <1>2

\* A pulse with its gate and phase.
PulseOf(j, q, b, t, l, f) ==
    MakePulse(MakeTXGate(MakeQPSK(j, t - q.qdelay, l + q.qdelay, f), q, t, l), b, t, l)

LEMMA PulseOfIs ==
    ASSUME NEW n \in Nat, NEW q \in Setting, NEW j, NEW K, NEW on, Drawn(j, q, n, K, on),
           NEW b \in {"first", "second"}, NEW t \in Int, q.pre <= t, NEW l \in Nat,
           NEW f, f \subseteq Quadrature
    PROVE  /\ Drawn(PulseOf(j, q, b, t, l, f), q, n, K, on)
           /\ Edited(MakeQPSK(j, t - q.qdelay, l + q.qdelay, f), PulseOf(j, q, b, t, l, f), n, Gated)
<1> DEFINE st == t - q.qdelay
           len == l + q.qdelay
           i == MakeQPSK(j, st, len, f)
           h == MakeTXGate(i, q, t, l)
           k == MakePulse(h, b, t, l)
<1>1. q.qdelay \in Nat /\ q.pre \in Nat /\ q.post \in Nat
    BY FieldsIs
<1>2. st \in Int /\ len \in Int
    BY <1>1
<1>3. PulseOf(j, q, b, t, l, f) = k /\ i = MakeQPSK(j, t - q.qdelay, l + q.qdelay, f)
    BY DEF PulseOf
<1> HIDE DEF st, len
<1>4. IsMem(j, n) /\ Gate(j, q, n)
    BY DEF Drawn
<1>5. Edited(j, i, n, Quadrature)
    BY <1>2, <1>4, QPSKIs
<1> HIDE DEF i
<1>6. IsMem(i, n) /\ Gate(i, q, n)
    BY <1>4, <1>5, PlainIs, GateKept DEF Edited
<1>7. Drawn(i, q, n, K, on)
    BY <1>5, <1>6, PlainIs, DrawnKept
<1>8. Edited(i, h, n, Gated) /\ Gate(h, q, n)
    BY <1>1, <1>6, TXGateIs
<1> HIDE DEF h
<1>9. IsMem(h, n) /\ b \in Gated \ {"tx"} /\ l \in Int
    BY <1>8 DEF Edited, Gated
<1>10. Edited(h, k, n, Gated) /\ Gate(k, q, n)
    BY <1>8, <1>9, PulseIs
<1> HIDE DEF k
<1>11. Edited(i, k, n, Gated)
    BY <1>8, <1>10, Pairwise
<1>12. Drawn(k, q, n, K, on)
    BY <1>7, <1>10, <1>11, PlainIs, DrawnKept
<1> QED
    BY <1>3, <1>11, <1>12
LEMMA FirstIs ==
    ASSUME NEW n \in Nat, NEW q \in Setting, NEW m, Drawn(m, q, n, {0}, FALSE)
    PROVE  /\ q.double => Drawn(First(m, q), q, n, 0 .. 3, FALSE)
           /\ ~q.double => Drawn(First(m, q), q, n, 0 .. 4, TRUE)
           /\ PhaseKept(m, First(m, q), n, FirstAt(q) - q.qdelay)
           /\ PhaseIs(First(m, q), n, FirstAt(q) - q.qdelay, FirstAt(q) + q.fpw, q.fpq)
<1> DEFINE t == FirstAt(q)
           a == TriggerOut(m, q, 1, t - q.tj)
           b == TriggerOut(a, q, 2, t)
           h == MakeQPSK(b, t - q.qdelay, q.fpw + q.qdelay, q.fpq)
           c == PulseOf(b, q, "first", t, q.fpw, q.fpq)
           d == On(c, "meter", t + q.fpw, Meter)
           ad == MakeADTrig(d, ADAt(q))
           fid == TriggerOut(ad, q, 4, SecondAt(q))
           e == IF q.double THEN d ELSE fid
           k == TriggerOut(e, q, 3, SecondAt(q))
<1>1. First(m, q) = k
    BY DEF First, FirstPulse, PulseOf
<1>2. t \in Int /\ q.pre <= t /\ SecondAt(q) \in Int /\ ADAt(q) \in Int
    BY PlacesIs
<1>3. q.fpw \in Nat /\ q.tj \in Nat /\ q.qdelay \in Nat /\ q.fpq \subseteq Quadrature
    BY FieldsIs DEF Quadrature
<1>4. /\ 1 = q.trgout => t - q.tj = OutAt(q)
      /\ 2 = q.trgout => t = OutAt(q)
      /\ 3 = q.trgout => SecondAt(q) = OutAt(q)
      /\ ~q.double => (4 = q.trgout => SecondAt(q) = OutAt(q))
    BY DEF OutAt
<1> HIDE DEF t
<1>5. Drawn(a, q, n, {0} \union {1}, FALSE) /\ Edited(m, a, n, {"os"})
  <2>1. t - q.tj \in Int
      BY <1>2, <1>3
  <2> QED
      BY <1>4, <2>1, OutIs
<1> HIDE DEF a
<1>6. Drawn(b, q, n, {0} \union {1} \union {2}, FALSE) /\ Edited(a, b, n, {"os"})
    BY <1>2, <1>4, <1>5, OutIs
<1> HIDE DEF b
<1>7. Edited(m, b, n, Plain)
  <2>1. Edited(m, a, n, Plain) /\ Edited(a, b, n, Plain)
      BY <1>5, <1>6, PlainIs, Wider
  <2> QED
      BY <2>1, Pairwise
<1>8. Drawn(c, q, n, {0} \union {1} \union {2}, FALSE) /\ Edited(h, c, n, Gated)
    BY <1>2, <1>3, <1>6, PulseOfIs
<1> HIDE DEF c
<1>9. Edited(c, d, n, Gated) /\ Gate(d, q, n)
  <2>1. IsMem(c, n) /\ Gate(c, q, n) /\ "meter" \in Gated \ {"tx"} /\ t + q.fpw \in Int /\ Meter \in Int
      BY <1>2, <1>3, <1>8, TimesAssumption DEF Drawn, Gated
  <2> QED
      BY <2>1, PulseIs
<1> HIDE DEF d
<1>10. Drawn(d, q, n, {0} \union {1} \union {2}, FALSE)
    BY <1>8, <1>9, PlainIs, DrawnKept
<1>11. Edited(h, d, n, Plain)
  <2>1. Edited(h, c, n, Plain) /\ Edited(c, d, n, Plain)
      BY <1>8, <1>9, PlainIs, Wider
  <2> QED
      BY <2>1, Pairwise
<1>12. Drawn(ad, q, n, {0} \union {1} \union {2}, TRUE) /\ Edited(d, ad, n, {"ad"})
    BY <1>2, <1>10, ADTrigIs
<1> HIDE DEF ad
<1>13. ASSUME ~q.double
       PROVE  Drawn(fid, q, n, {0} \union {1} \union {2} \union {4}, TRUE) /\ Edited(ad, fid, n, {"os"})
    BY <1>2, <1>4, <1>12, <1>13, OutIs
<1> HIDE DEF fid
<1>14. Edited(d, e, n, Plain)
  <2>1. CASE q.double
    <3>1. e = d /\ IsMem(d, n)
        BY <1>10, <2>1 DEF Drawn
    <3> QED
        BY <3>1, Unedited
  <2>2. CASE ~q.double
    <3>1. Edited(d, ad, n, Plain) /\ Edited(ad, fid, n, Plain)
        BY <1>12, <1>13, <2>2, PlainIs, Wider
    <3> QED
        BY <2>2, <3>1, Pairwise
  <2> QED
      BY <2>1, <2>2
<1>15. /\ q.double => Drawn(e, q, n, {0} \union {1} \union {2}, FALSE)
       /\ ~q.double => Drawn(e, q, n, {0} \union {1} \union {2} \union {4}, TRUE)
    BY <1>10, <1>13
<1> HIDE DEF e
<1>16. ASSUME q.double
       PROVE  Drawn(k, q, n, {0} \union {1} \union {2} \union {3}, FALSE) /\ Edited(e, k, n, {"os"})
    BY <1>2, <1>4, <1>15, <1>16, OutIs
<1>17. ASSUME ~q.double
       PROVE  /\ Drawn(k, q, n, {0} \union {1} \union {2} \union {4} \union {3}, TRUE)
              /\ Edited(e, k, n, {"os"})
    BY <1>2, <1>4, <1>15, <1>17, OutIs
<1> HIDE DEF k
<1>18. Edited(h, k, n, Plain)
  <2>1. Edited(e, k, n, Plain)
      BY <1>16, <1>17, PlainIs, Wider
  <2>2. Edited(h, e, n, Plain)
      BY <1>11, <1>14, Pairwise
  <2> QED
      BY <2>1, <2>2, Pairwise
<1>19. PhaseKept(m, k, n, t - q.qdelay) /\ PhaseIs(k, n, t - q.qdelay, t + q.fpw, q.fpq)
  <2>1. t - q.qdelay \in Int /\ q.fpw + q.qdelay \in Int
        /\ (t - q.qdelay) + (q.fpw + q.qdelay) = t + q.fpw
      BY <1>2, <1>3
  <2>2. PhaseKept(m, k, n, t - q.qdelay)
        /\ PhaseIs(k, n, t - q.qdelay, (t - q.qdelay) + (q.fpw + q.qdelay), q.fpq)
      BY <1>3, <1>7, <1>18, <2>1, Keyed
  <2> QED
      BY <2>1, <2>2
<1>20. {0} \union {1} \union {2} \union {3} = 0 .. 3 /\ {0} \union {1} \union {2} \union {4} \union {3} = 0 .. 4
    OBVIOUS
<1> QED
    BY <1>1, <1>16, <1>17, <1>19, <1>20 DEF t

LEMMA SecondIs ==
    ASSUME NEW n \in Nat, NEW q \in Setting, NEW m,
           q.double => Drawn(m, q, n, 0 .. 3, FALSE),
           ~q.double => Drawn(m, q, n, 0 .. 4, TRUE)
    PROVE  /\ Drawn(Second(m, q), q, n, 0 .. 4, TRUE)
           /\ PhaseKept(m, Second(m, q), n, SecondAt(q) - q.qdelay)
           /\ ~q.double => Second(m, q) = m
           /\ q.double =>
                PhaseIs(Second(m, q), n, SecondAt(q) - q.qdelay, SecondAt(q) + q.spw, q.spq)
<1>1. CASE ~q.double
  <2>1. Second(m, q) = m /\ IsMem(m, n)
      BY <1>1 DEF Second, Drawn
  <2> QED
      BY <1>1, <2>1 DEF PhaseKept
<1>2. CASE q.double
  <2> DEFINE t == SecondAt(q)
             h == MakeQPSK(m, t - q.qdelay, q.spw + q.qdelay, q.spq)
             c == PulseOf(m, q, "second", t, q.spw, q.spq)
             ad == MakeADTrig(c, ADAt(q))
             k == TriggerOut(ad, q, 4, ADAt(q))
  <2>1. Second(m, q) = k
      BY <1>2 DEF Second, SecondPulse, PulseOf
  <2>2. t \in Int /\ q.pre <= t /\ ADAt(q) \in Int
    <3>1. FirstAt(q) \in Nat /\ q.pre <= FirstAt(q) /\ t = FirstAt(q) + q.t2 /\ ADAt(q) \in Int
          /\ q.t2 \in Nat /\ q.pre \in Nat
        BY PlacesIs, FieldsIs
    <3> QED
        BY <3>1
  <2>3. q.spw \in Nat /\ q.qdelay \in Nat /\ q.spq \subseteq Quadrature
      BY FieldsIs DEF Quadrature
  <2>4. 4 = q.trgout => ADAt(q) = OutAt(q)
      BY <1>2 DEF OutAt
  <2>5. Drawn(m, q, n, 0 .. 3, FALSE) /\ IsMem(m, n)
      BY <1>2 DEF Drawn
  <2> HIDE DEF t
  <2>6. Drawn(c, q, n, 0 .. 3, FALSE) /\ Edited(h, c, n, Gated)
      BY <2>2, <2>3, <2>5, PulseOfIs
  <2> HIDE DEF c
  <2>7. Drawn(ad, q, n, 0 .. 3, TRUE) /\ Edited(c, ad, n, {"ad"})
      BY <2>2, <2>6, ADTrigIs
  <2> HIDE DEF ad
  <2>8. Drawn(k, q, n, 0 .. 3 \union {4}, TRUE) /\ Edited(ad, k, n, {"os"})
      BY <2>2, <2>4, <2>7, OutIs
  <2> HIDE DEF k
  <2>9. Edited(h, k, n, Plain) /\ Edited(m, m, n, Plain)
    <3>1. Edited(h, c, n, Plain) /\ Edited(c, ad, n, Plain) /\ Edited(ad, k, n, Plain)
        BY <2>6, <2>7, <2>8, PlainIs, Wider
    <3>2. Edited(h, ad, n, Plain)
        BY <3>1, Pairwise
    <3> QED
        BY <2>5, <3>1, <3>2, Pairwise, Unedited
  <2>10. t - q.qdelay \in Int /\ q.spw + q.qdelay \in Int
        /\ (t - q.qdelay) + (q.spw + q.qdelay) = t + q.spw
      BY <2>2, <2>3
  <2>11. PhaseKept(m, k, n, t - q.qdelay)
        /\ PhaseIs(k, n, t - q.qdelay, (t - q.qdelay) + (q.spw + q.qdelay), q.spq)
      BY <2>3, <2>9, <2>10, Keyed
  <2>12. 0 .. 3 \union {4} = 0 .. 4
      OBVIOUS
  <2> QED
      BY <1>2, <2>1, <2>8, <2>10, <2>11, <2>12 DEF t
<1> QED
    BY <1>1, <1>2
-----------------------------------------------------------------------------
\* The whole pattern, and the two commands behind it.

Keys(m, q, n) ==
    Apart(q) =>
        /\ PhaseIs(m, n, FirstAt(q) - q.qdelay, FirstAt(q) + q.fpw, q.fpq)
        /\ q.double => PhaseIs(m, n, SecondAt(q) - q.qdelay, SecondAt(q) + q.spw, q.spq)
        /\ HasComb(q) /\ q.tj >= q.cpi =>
             PhaseIs(m, n, CombAt(q) - q.qdelay, FirstAt(q) - q.tj, q.cpq)

LEMMA OneIs ==
    ASSUME NEW n \in Nat, NEW q \in Setting, NEW m, Drawn(Before(m, q), q, n, {0}, FALSE)
    PROVE  Drawn(MakeOneT1T2(m, q), q, n, 0 .. 4, TRUE) /\ Keys(MakeOneT1T2(m, q), q, n)
<1> DEFINE a == Before(m, q)
           b == Comb(a, q)
           c == First(b, q)
           d == Second(c, q)
           k == MakeBlank(d, LastEnd(q), q.blank)
<1>1. MakeOneT1T2(m, q) = k
    BY DEF MakeOneT1T2
<1>2. Drawn(a, q, n, {0}, FALSE)
    OBVIOUS
<1> HIDE DEF a
<1>3. Drawn(b, q, n, {0}, FALSE)
      /\ (HasComb(q) => PhaseIs(b, n, CombAt(q) - q.qdelay, FirstAt(q) - q.cpi, q.cpq))
    BY <1>2, CombIs
<1> HIDE DEF b
<1>4. /\ q.double => Drawn(c, q, n, 0 .. 3, FALSE)
      /\ ~q.double => Drawn(c, q, n, 0 .. 4, TRUE)
      /\ PhaseKept(b, c, n, FirstAt(q) - q.qdelay)
      /\ PhaseIs(c, n, FirstAt(q) - q.qdelay, FirstAt(q) + q.fpw, q.fpq)
    BY <1>3, FirstIs
<1> HIDE DEF c
<1>5. /\ Drawn(d, q, n, 0 .. 4, TRUE)
      /\ PhaseKept(c, d, n, SecondAt(q) - q.qdelay)
      /\ ~q.double => d = c
      /\ q.double => PhaseIs(d, n, SecondAt(q) - q.qdelay, SecondAt(q) + q.spw, q.spq)
    BY <1>4, SecondIs
<1> HIDE DEF d
<1>6. FirstAt(q) \in Int /\ SecondAt(q) = FirstAt(q) + q.t2 /\ CombAt(q) = q.pre
      /\ LastEnd(q) = IF q.double THEN SecondAt(q) + q.spw ELSE FirstAt(q) + q.fpw
    BY PlacesIs
<1>7. q.t2 \in Nat /\ q.fpw \in Nat /\ q.qdelay \in Nat /\ q.cpi \in Nat /\ q.tj \in Nat /\ q.spw \in Nat
      /\ q.pre \in Nat /\ q.blank \in Int
    BY FieldsIs
<1>8. LastEnd(q) \in Int
    BY <1>6, <1>7
<1>9. Edited(d, k, n, Gated) /\ Gate(k, q, n)
    BY <1>5, <1>7, <1>8, BlankIs DEF Drawn
<1> HIDE DEF k
<1>10. Drawn(k, q, n, 0 .. 4, TRUE)
    BY <1>5, <1>9, PlainIs, DrawnKept
<1>11. PhaseKept(d, k, n, LastEnd(q)) /\ PhaseKept(d, k, n, SecondAt(q)) /\ PhaseKept(d, k, n, FirstAt(q) + q.fpw)
  <2>1. Edited(d, k, n, Plain)
      BY <1>9, PlainIs, Wider
  <2> QED
      BY <2>1, PlainKeeps
<1>12. ASSUME Apart(q) PROVE PhaseIs(k, n, FirstAt(q) - q.qdelay, FirstAt(q) + q.fpw, q.fpq)
  <2> DEFINE lo == FirstAt(q) - q.qdelay
             hi == FirstAt(q) + q.fpw
  <2>1. lo \in Int /\ hi \in Int /\ hi <= hi
      BY <1>6, <1>7
  <2>2. q.double => hi <= SecondAt(q) - q.qdelay /\ SecondAt(q) - q.qdelay \in Int
      BY <1>6, <1>7, <1>12 DEF Apart
  <2> HIDE DEF lo
  <2>3. PhaseIs(d, n, lo, hi, q.fpq)
    <3>1. CASE ~q.double
        BY <1>4, <1>5, <3>1 DEF lo
    <3>2. CASE q.double
      <4>1. PhaseIs(c, n, lo, hi, q.fpq)
          BY <1>4 DEF lo
      <4> HIDE DEF hi
      <4> QED
          BY <1>5, <2>1, <2>2, <3>2, <4>1, PhaseStays
    <3> QED
        BY <3>1, <3>2
  <2>4. PhaseKept(d, k, n, hi)
      BY <1>11
  <2> HIDE DEF hi
  <2>5. PhaseIs(k, n, lo, hi, q.fpq)
      BY <2>1, <2>3, <2>4, PhaseStays
  <2> QED
      BY <2>5 DEF lo, hi
<1>13. ASSUME q.double PROVE PhaseIs(k, n, SecondAt(q) - q.qdelay, SecondAt(q) + q.spw, q.spq)
  <2> DEFINE lo == SecondAt(q) - q.qdelay
             hi == SecondAt(q) + q.spw
  <2>1. lo \in Int /\ hi \in Int /\ hi <= hi
      BY <1>6, <1>7
  <2>2. PhaseIs(d, n, lo, hi, q.spq)
      BY <1>5, <1>13
  <2>3. PhaseKept(d, k, n, hi)
      BY <1>6, <1>11, <1>13
  <2> HIDE DEF lo, hi
  <2>4. PhaseIs(k, n, lo, hi, q.spq)
      BY <2>1, <2>2, <2>3, PhaseStays
  <2> QED
      BY <2>4 DEF lo, hi
<1>14. ASSUME Apart(q), HasComb(q), q.tj >= q.cpi
       PROVE  PhaseIs(k, n, CombAt(q) - q.qdelay, FirstAt(q) - q.tj, q.cpq)
  <2> DEFINE lo == CombAt(q) - q.qdelay
             hi == FirstAt(q) - q.tj
             first == FirstAt(q) - q.qdelay
             second == SecondAt(q) - q.qdelay
  <2>1. /\ lo \in Int /\ hi \in Int /\ first \in Int /\ second \in Int /\ hi <= first
        /\ hi <= FirstAt(q) - q.cpi /\ FirstAt(q) - q.cpi \in Int
        /\ q.double => hi <= second
        /\ hi <= FirstAt(q) + q.fpw /\ FirstAt(q) + q.fpw \in Int
    <3>1. q.tj >= q.qdelay /\ q.tj >= q.cpi /\ (q.double => q.t2 >= q.fpw + q.qdelay)
        BY <1>14 DEF Apart
    <3>2. lo \in Int /\ hi \in Int /\ first \in Int /\ second \in Int
        BY <1>6, <1>7
    <3>3. hi <= first /\ hi <= FirstAt(q) - q.cpi /\ hi <= FirstAt(q) + q.fpw
        BY <1>6, <1>7, <3>1
    <3>4. FirstAt(q) - q.cpi \in Int /\ FirstAt(q) + q.fpw \in Int
        BY <1>6, <1>7
    <3>5. ASSUME q.double PROVE hi <= second
      <4>1. q.t2 >= q.fpw + q.qdelay
          BY <3>1, <3>5
      <4> QED
          BY <1>6, <1>7, <4>1
    <3> QED
        BY <3>2, <3>3, <3>4, <3>5
  <2>2. PhaseIs(b, n, lo, FirstAt(q) - q.cpi, q.cpq) /\ PhaseKept(b, c, n, first)
        /\ PhaseKept(c, d, n, second)
      BY <1>3, <1>4, <1>5, <1>14
  <2> HIDE DEF lo, hi, first, second
  <2>3. PhaseIs(b, n, lo, hi, q.cpq)
    <3>1. \A x \in 0 .. n - 1 : x < hi => x < FirstAt(q) - q.cpi
        BY <2>1
    <3> QED
        BY <2>2, <3>1 DEF PhaseIs
  <2>4. PhaseIs(c, n, lo, hi, q.cpq)
      BY <2>1, <2>2, <2>3, PhaseStays
  <2>5. PhaseIs(d, n, lo, hi, q.cpq)
      BY <1>5, <2>1, <2>2, <2>4, PhaseStays
  <2>6. PhaseIs(k, n, lo, hi, q.cpq)
      BY <1>11, <2>1, <2>5, PhaseStays
  <2> QED
      BY <2>6 DEF lo, hi
<1>15. Keys(k, q, n)
    BY <1>12, <1>13, <1>14 DEF Keys
<1> QED
    BY <1>1, <1>10, <1>15

\* The jump is there, and the only stop right behind it.
Jumps(m, at) ==
    /\ at \in DOMAIN m.cmds /\ m.cmds[at].c = "loop"
    /\ {x \in DOMAIN m.cmds : m.cmds[x].c = "stop"} = {at + Trig}

\* What make() leaves in a memory of n ticks.
Pattern(m, q, n) ==
    /\ IsMem(m, n) /\ Gate(m, q, n) /\ Keys(m, q, n)
    /\ Triggered(m, n, "os", q.trgout \in 0 .. 4, OutAt(q))
    /\ Triggered(m, n, "ad", TRUE, ADAt(q))
    /\ LoopAt(q) < n /\ Jumps(m, LoopAt(q))

\* All commands of a pattern that is covered lie before the end.
LEMMA CoveredIs ==
    ASSUME NEW q \in Setting, Covered(q)
    PROVE  LoopAt(q) \in Nat /\ Ticks(q) \in Nat /\ LoopAt(q) + Trig < Ticks(q) /\ WaitAt(q) < Ticks(q)
<1>1. LoopAt(q) \in Nat /\ Length(q) \in Nat /\ LoopAt(q) + Margin <= Length(q) + q.pre /\ Margin <= Length(q)
    BY LengthIs
<1>2. Ticks(q) \in Nat /\ Length(q) < Ticks(q)
    BY <1>1, CellsIs DEF Ticks
<1>3. q.pre \in Nat /\ Trig \in Nat /\ Trig > 0 /\ Margin \in Nat /\ q.pre + Trig <= Margin
    BY FieldsIs, TimesAssumption DEF Covered
<1> QED
    BY <1>1, <1>2, <1>3 DEF WaitAt

LEMMA EndIs ==
    ASSUME NEW n \in Nat, NEW m, IsMem(m, n), NoStop(m), NEW at \in Nat, at + Trig < n
    PROVE  LET k == Command(Command(m, at, Loop), at + Trig, Stop)
           IN  IsMem(k, n) /\ k.wave = m.wave /\ Jumps(k, at)
<1> DEFINE j == Command(m, at, Loop)
           k == Command(j, at + Trig, Stop)
<1>1. Trig \in Nat /\ Trig > 0 /\ at + Trig \in Int /\ Tick(at) = at /\ Tick(at + Trig) = at + Trig
    BY TimesAssumption DEF Tick
<1>2. Tick(at) < n /\ Tick(at + Trig) < n /\ at # at + Trig /\ at \in Int
    BY <1>1
<1>3. Loop \in Commands /\ Stop \in Commands /\ Loop.c = "loop" /\ Stop.c = "stop"
    BY BitsAssumption DEF Loop, Stop, Commands
<1>4. IsMem(j, n) /\ j.wave = m.wave /\ j.cmds = With(m.cmds, at, Loop)
    BY <1>1, <1>2, <1>3, CommandIs
<1> HIDE DEF j
<1>5. IsMem(k, n) /\ k.wave = j.wave /\ k.cmds = With(j.cmds, at + Trig, Stop)
    BY <1>1, <1>2, <1>3, <1>4, CommandIs
<1> HIDE DEF k
<1>6. DOMAIN j.cmds = DOMAIN m.cmds \union {at}
      /\ \A x \in DOMAIN j.cmds : j.cmds[x] = IF x = at THEN Loop ELSE m.cmds[x]
    BY <1>4 DEF With
<1>7. at \in DOMAIN j.cmds /\ j.cmds[at].c = "loop" /\ \A x \in DOMAIN j.cmds : j.cmds[x].c # "stop"
    BY <1>3, <1>6 DEF NoStop
<1>8. DOMAIN k.cmds = DOMAIN j.cmds \union {at + Trig}
      /\ \A x \in DOMAIN k.cmds : k.cmds[x] = IF x = at + Trig THEN Stop ELSE j.cmds[x]
    BY <1>5 DEF With
<1>9. at \in DOMAIN k.cmds /\ k.cmds[at].c = "loop"
    BY <1>2, <1>7, <1>8
<1>10. {x \in DOMAIN k.cmds : k.cmds[x].c = "stop"} = {at + Trig}
    BY <1>3, <1>7, <1>8
<1> QED
    BY <1>4, <1>5, <1>9, <1>10 DEF Jumps, k, j

LEMMA MadeIs ==
    ASSUME NEW q \in Setting
    PROVE  AnyMem(Made(q)) /\ (Covered(q) => Pattern(Made(q), q, Ticks(q)))
<1> DEFINE at == LoopAt(q)
           e == Clear(Length(q))
           m == MakeOneT1T2(e, q)
           j == Command(m, at, Loop)
           k == Command(j, at + Trig, Stop)
<1>1. Made(q) = k
    BY DEF Made
<1>2. (\E i \in Nat : Emptied(e, i)) /\ (HasRoom(q) => Emptied(e, Ticks(q)))
    BY ClearIs
<1> HIDE DEF e
<1>3. at \in Nat /\ at \in Int /\ at + Trig \in Int
    BY LengthIs, TimesAssumption
<1>4. AnyMem(k)
  <2>1. PICK i \in Nat : Drawn(Before(e, q), q, i, {0}, FALSE)
      BY <1>2, BeforeIs
  <2>2. IsMem(m, i)
      BY <2>1, OneIs DEF Drawn
  <2> HIDE DEF m
  <2>3. Loop \in Commands /\ Stop \in Commands
      BY BitsAssumption DEF Loop, Stop, Commands
  <2>4. AnyMem(j)
      BY <1>3, <2>2, <2>3, AnyCommand DEF AnyMem
  <2> HIDE DEF j
  <2> QED
      BY <1>3, <2>3, <2>4, AnyCommand
<1>5. ASSUME Covered(q) PROVE Pattern(k, q, Ticks(q))
  <2> DEFINE n == Ticks(q)
  <2>1. n \in Nat /\ at + Trig < n /\ WaitAt(q) < n
      BY <1>5, CoveredIs
  <2>2. Emptied(e, n)
      BY <1>2, <1>5 DEF Covered
  <2> HIDE DEF n
  <2>3. Drawn(m, q, n, 0 .. 4, TRUE) /\ Keys(m, q, n)
    <3>1. Drawn(Before(e, q), q, n, {0}, FALSE)
        BY <2>1, <2>2, BeforeIs
    <3> QED
        BY <2>1, <3>1, OneIs
  <2> HIDE DEF m
  <2>4. IsMem(k, n) /\ k.wave = m.wave /\ Jumps(k, at)
    <3>1. IsMem(m, n) /\ NoStop(m)
        BY <2>3 DEF Drawn
    <3> HIDE DEF at
    <3> QED
        BY <1>3, <2>1, <3>1, EndIs
  <2> HIDE DEF k
  <2>5. Keys(k, q, n)
      BY <2>3, <2>4 DEF Keys, PhaseIs
  <2>6. Gate(k, q, n) /\ Triggered(k, n, "os", q.trgout \in 0 .. 4, OutAt(q)) /\ Triggered(k, n, "ad", TRUE, ADAt(q))
      BY <2>3, <2>4 DEF Drawn, Gate, Triggered
  <2>7. at < n
      BY <1>3, <2>1, TimesAssumption
  <2> QED
      BY <2>4, <2>5, <2>6, <2>7 DEF Pattern, n
<1> QED
    BY <1>1, <1>4, <1>5
-----------------------------------------------------------------------------
\* The invariant: the memory is what make() builds from settings of a client.

MadeFrom == p \in Setting /\ mem = Made(p)

LEMMA AlwaysMade == Spec => []MadeFrom
<1>1. Init => MadeFrom
    BY SettingsAssumption DEF Init, MadeFrom
<1>2. MadeFrom /\ [Next]_vars => MadeFrom'
  <2> SUFFICES ASSUME MadeFrom, [Next]_vars PROVE MadeFrom'
      OBVIOUS
  <2>1. CASE UNCHANGED vars
      BY <2>1 DEF MadeFrom, vars
  <2>2. ASSUME NEW q \in Settings, Update(q) PROVE MadeFrom'
      BY <2>2, SettingsAssumption DEF Update, MadeFrom
  <2> QED
      BY <2>1, <2>2 DEF Next
<1> QED
    BY <1>1, <1>2, PTL DEF Spec

LEMMA MadePattern ==
    ASSUME MadeFrom, Covered(p)
    PROVE  LoopAt(p) \in Nat /\ \E n \in Nat : Pattern(mem, p, n)
<1>1. Ticks(p) \in Nat /\ LoopAt(p) \in Nat /\ Pattern(mem, p, Ticks(p))
    BY MadeIs, CoveredIs DEF MadeFrom
<1> QED
    BY <1>1

LEMMA MemIs ==
    ASSUME NEW n, IsMem(mem, n)
    PROVE  /\ mem.total = n /\ mem.wave \in [0 .. n - 1 -> SUBSET Bits] /\ DOMAIN mem.wave = 0 .. n - 1
           /\ DOMAIN mem.cmds \subseteq 0 .. n - 1 /\ \A x \in DOMAIN mem.cmds : mem.cmds[x].c \in Codes
BY DEF IsMem

\* make() leaves output bits at all ticks of the memory and known commands,
\* whatever the settings; and all the ticks that it cleared, if the array has
\* room and the predelay is below the 10 s.
THEOREM Typed == Spec => []TypeOK
<1>1. MadeFrom => TypeOK
  <2> SUFFICES ASSUME MadeFrom PROVE TypeOK
      OBVIOUS
  <2>1. PICK n \in Nat : IsMem(mem, n)
      BY MadeIs DEF MadeFrom, AnyMem
  <2>2. ASSUME Covered(p) PROVE mem.total = Cells(Length(p)) * CellTime
    <3>1. IsMem(mem, Ticks(p))
        BY <2>2, MadeIs DEF MadeFrom, Pattern
    <3> QED
        BY <3>1 DEF IsMem, Ticks
  <2> QED
      BY <2>1, <2>2, MemIs DEF TypeOK
<1> QED
    BY <1>1, AlwaysMade, PTL

\* With room in the array and a predelay below the 10 s, the length that make()
\* computes is enough for the jump, and the only stop is right behind it.
THEOREM LoopAlwaysThere == Spec => []LoopIsThere
<1>1. MadeFrom => LoopIsThere
  <2> SUFFICES ASSUME MadeFrom, Covered(p)
               PROVE  /\ LoopAt(p) \in DOMAIN mem.cmds /\ mem.cmds[LoopAt(p)].c = "loop"
                      /\ {x \in DOMAIN mem.cmds : mem.cmds[x].c = "stop"} = {LoopAt(p) + Trig}
      BY DEF LoopIsThere
  <2>1. PICK n \in Nat : Pattern(mem, p, n)
      BY MadePattern
  <2> QED
      BY <2>1 DEF Pattern, Jumps
<1> QED
    BY <1>1, AlwaysMade, PTL

\* MakeTXGate: RF is never on without the amplifier's gate, from the predelay
\* before it to the postdelay behind it, whatever else is drawn over it, if
\* the pattern is covered: room in the array, and the predelay below the 10 s.
THEOREM GateAlwaysSurroundsRF == Spec => []GateSurroundsRF
<1>1. MadeFrom => GateSurroundsRF
  <2> SUFFICES ASSUME MadeFrom, Covered(p), NEW x \in At("tx"), NEW y \in Span(x - p.pre, x + p.post + 1)
               PROVE  y \in At("tx2")
      BY DEF GateSurroundsRF
  <2>1. PICK n \in Nat : Pattern(mem, p, n)
      BY MadePattern
  <2>2. DOMAIN mem.wave = 0 .. n - 1 /\ Gate(mem, p, n)
      BY <2>1, MemIs DEF Pattern
  <2>3. x \in 0 .. n - 1 /\ "tx" \in mem.wave[x] /\ y \in 0 .. n - 1
        /\ x - p.pre <= y /\ y < x + p.post + 1
      BY <2>2 DEF At, Span
  <2>4. p.post \in Nat
      BY FieldsIs DEF MadeFrom
  <2>5. y <= x + p.post
      BY <2>3, <2>4
  <2> QED
      BY <2>2, <2>3, <2>5 DEF Gate, At
<1> QED
    BY <1>1, AlwaysMade, PTL

\* MakeQPSK before each pulse: each has its own phase from QPSKDELAY before it
\* to its end, if it is as far from the others as Apart says and the pattern is
\* covered; the pulses of the comb if tj >= cpi, too.
THEOREM PulsesAlwaysHavePhase == Spec => []PulsesHavePhase
<1>1. MadeFrom => PulsesHavePhase
  <2> SUFFICES ASSUME MadeFrom, Covered(p), Apart(p)
               PROVE  /\ \A x \in Span(FirstAt(p) - p.qdelay, FirstAt(p) + p.fpw) : Phase(x) = p.fpq
                      /\ p.double =>
                           \A x \in Span(SecondAt(p) - p.qdelay, SecondAt(p) + p.spw) : Phase(x) = p.spq
                      /\ HasComb(p) /\ p.tj >= p.cpi =>
                           \A x \in CombSpan : Phase(x) = p.cpq
      BY DEF PulsesHavePhase
  <2>1. PICK n \in Nat : Pattern(mem, p, n)
      BY MadePattern
  <2>2. DOMAIN mem.wave = 0 .. n - 1 /\ Keys(mem, p, n)
      BY <2>1, MemIs DEF Pattern
  <2>3. ASSUME NEW lo, NEW hi, NEW f, PhaseIs(mem, n, lo, hi, f)
        PROVE  \A x \in Span(lo, hi) : Phase(x) = f
      BY <2>2, <2>3 DEF PhaseIs, Span, Phase, Quadrature
  <2>4. \A x \in Span(FirstAt(p) - p.qdelay, FirstAt(p) + p.fpw) : Phase(x) = p.fpq
      BY <2>2, <2>3 DEF Keys
  <2>5. p.double => \A x \in Span(SecondAt(p) - p.qdelay, SecondAt(p) + p.spw) : Phase(x) = p.spq
      BY <2>2, <2>3 DEF Keys
  <2>6. HasComb(p) /\ p.tj >= p.cpi =>
            \A x \in CombSpan : Phase(x) = p.cpq
      BY <2>2, <2>3 DEF Keys, CombSpan
  <2> QED
      BY <2>4, <2>5, <2>6
<1> QED
    BY <1>1, AlwaysMade, PTL

\* A trigger in the memory rises once.
LEMMA RisesOnce ==
    ASSUME NEW n \in Nat, IsMem(mem, n), NEW b, NEW s \in Nat, s < n, Triggered(mem, n, b, TRUE, s)
    PROVE  Edges(b) = {s}
<1>1. At(b) = {x \in 0 .. n - 1 : s <= x /\ x < s + Trig}
    BY MemIs DEF At, Triggered
<1>2. Trig \in Nat /\ Trig > 0
    BY TimesAssumption
<1>3. \A x \in At(b) : x - 1 \notin At(b) <=> x = s
  <2> TAKE x \in At(b)
  <2>1. x \in 0 .. n - 1 /\ s <= x /\ x < s + Trig
      BY <1>1
  <2>2. x = s => ~(s <= x - 1)
      BY <2>1
  <2>3. x # s => x - 1 \in 0 .. n - 1 /\ s <= x - 1 /\ x - 1 < s + Trig
      BY <1>2, <2>1
  <2> QED
      BY <1>1, <2>2, <2>3
<1>4. s \in At(b)
    BY <1>1, <1>2
<1> QED
    BY <1>3, <1>4 DEF Edges

LEMMA OneRise ==
    ASSUME NEW n \in Nat, IsMem(mem, n), NEW b, NEW s \in Nat, NEW at \in Nat, s < at, at < n,
           Triggered(mem, n, b, TRUE, s)
    PROVE  /\ {x \in Edges(b) : x < at} = {s} /\ Edges(b) = {s}
           /\ Cardinality({x \in Edges(b) : x < at}) = 1
<1>1. s < n
    OBVIOUS
<1>2. Edges(b) = {s}
    BY <1>1, RisesOnce
<1>3. {x \in Edges(b) : x < at} = {s}
    BY <1>2
<1> QED
    BY <1>2, <1>3, FS_Singleton

\* One repetition of a covered pattern triggers the AD board once, for one pulse
\* and for two, if it is long enough to reach the trigger.
THEOREM AlwaysOneADTrigger == Spec => []OneADTrigger
<1>1. MadeFrom => OneADTrigger
  <2> SUFFICES ASSUME MadeFrom, Covered(p), Fits(ADAt(p)), ADAt(p) > 0
               PROVE  Cardinality({x \in Edges("ad") : x < LoopAt(p)}) = 1
      BY DEF OneADTrigger
  <2>1. PICK n \in Nat : Pattern(mem, p, n)
      BY MadePattern
  <2>2. IsMem(mem, n) /\ Triggered(mem, n, "ad", TRUE, ADAt(p)) /\ LoopAt(p) < n /\ LoopAt(p) \in Nat
      BY <2>1, MadePattern DEF Pattern
  <2>3. ADAt(p) \in Int
      BY PlacesIs DEF MadeFrom
  <2>4. ADAt(p) \in Nat /\ ADAt(p) < LoopAt(p)
      BY <2>2, <2>3, TimesAssumption DEF Fits
  <2> QED
      BY <2>2, <2>4, OneRise
<1> QED
    BY <1>1, AlwaysMade, PTL

\* TRG.OUT rises once in a repetition of a covered pattern at each of its
\* positions, and at position 4 of two pulses with the trigger of the AD board.
THEOREM AlwaysOneTriggerOut == Spec => []OneTriggerOut
<1>1. MadeFrom => OneTriggerOut
  <2> SUFFICES ASSUME MadeFrom, Covered(p), p.trgout \in 0 .. 4, p.trgout = 1 => HasComb(p),
                      Fits(LastEnd(p)), p.trgout \in 3 .. 4 => Fits(SecondAt(p)),
                      p.trgout = 4 => Fits(ADAt(p)) /\ ADAt(p) > 0
               PROVE  /\ Cardinality({x \in Edges("os") : x < LoopAt(p)}) = 1
                      /\ p.trgout = 4 /\ p.double => {x \in Edges("os") : x < LoopAt(p)} = Edges("ad")
      BY DEF OneTriggerOut
  <2>1. PICK n \in Nat : Pattern(mem, p, n)
      BY MadePattern
  <2>2. /\ IsMem(mem, n) /\ LoopAt(p) < n /\ LoopAt(p) \in Nat
        /\ Triggered(mem, n, "os", TRUE, OutAt(p)) /\ Triggered(mem, n, "ad", TRUE, ADAt(p))
    <3>1. (p.trgout \in 0 .. 4) = TRUE
        OBVIOUS
    <3> QED
        BY <2>1, <3>1, MadePattern DEF Pattern
  <2>3. /\ CombAt(p) = p.pre /\ FirstAt(p) \in Nat /\ p.pre <= FirstAt(p)
        /\ HasComb(p) => p.pre <= FirstAt(p) - p.tj
        /\ SecondAt(p) \in Nat /\ SecondAt(p) = FirstAt(p) + p.t2
        /\ LastEnd(p) = IF p.double THEN SecondAt(p) + p.spw ELSE FirstAt(p) + p.fpw
        /\ ADAt(p) \in Int
      BY PlacesIs DEF MadeFrom
  <2>4. p.pre \in Nat /\ p.tj \in Nat /\ p.t2 \in Nat /\ p.spw \in Nat /\ p.fpw \in Nat /\ p.trgout \in Nat
      BY FieldsIs DEF MadeFrom
  <2>5. LastEnd(p) + Trig <= LoopAt(p) /\ Trig \in Nat /\ Trig > 0
        /\ FirstAt(p) <= LastEnd(p) /\ LastEnd(p) \in Nat
    <3>1. FirstAt(p) <= LastEnd(p) /\ LastEnd(p) \in Nat
        BY <2>3, <2>4
    <3> QED
        BY <3>1, TimesAssumption DEF Fits
  <2>6. OutAt(p) \in Nat /\ OutAt(p) < LoopAt(p)
    <3>1. CASE p.trgout = 0
      <4>1. OutAt(p) = p.pre
          BY <2>3, <3>1 DEF OutAt
      <4> QED
          BY <2>2, <2>3, <2>4, <2>5, <4>1
    <3>2. CASE p.trgout = 1
      <4>1. OutAt(p) = FirstAt(p) - p.tj /\ HasComb(p)
          BY <3>2 DEF OutAt
      <4> QED
          BY <2>2, <2>3, <2>4, <2>5, <4>1
    <3>3. CASE p.trgout = 2
      <4>1. OutAt(p) = FirstAt(p)
          BY <3>3 DEF OutAt
      <4> QED
          BY <2>2, <2>3, <2>4, <2>5, <4>1
    <3>4. CASE p.trgout = 3 \/ (p.trgout = 4 /\ ~p.double)
      <4>1. OutAt(p) = SecondAt(p) /\ SecondAt(p) + Trig <= LoopAt(p)
          BY <3>4 DEF OutAt, Fits
      <4> QED
          BY <2>2, <2>3, <2>5, <4>1
    <3>5. CASE p.trgout = 4 /\ p.double
      <4>1. OutAt(p) = ADAt(p) /\ ADAt(p) + Trig <= LoopAt(p) /\ ADAt(p) > 0
          BY <3>5 DEF OutAt, Fits
      <4> QED
          BY <2>2, <2>3, <2>5, <4>1
    <3>6. p.trgout = 0 \/ p.trgout = 1 \/ p.trgout = 2 \/ p.trgout = 3 \/ p.trgout = 4
        BY <2>4
    <3> QED
        BY <3>1, <3>2, <3>3, <3>4, <3>5, <3>6
  <2>7. {x \in Edges("os") : x < LoopAt(p)} = {OutAt(p)}
        /\ Cardinality({x \in Edges("os") : x < LoopAt(p)}) = 1
    <3> DEFINE s == OutAt(p)
               at == LoopAt(p)
    <3>1. s \in Nat /\ at \in Nat /\ s < at /\ at < n /\ IsMem(mem, n) /\ Triggered(mem, n, "os", TRUE, s)
        BY <2>2, <2>6
    <3> HIDE DEF s, at
    <3>2. {x \in Edges("os") : x < at} = {s}
        BY <3>1, OneRise
    <3>3. Cardinality({x \in Edges("os") : x < at}) = 1
        BY <3>2, FS_Singleton
    <3> QED
        BY <3>2, <3>3 DEF s, at
  <2>8. ASSUME p.trgout = 4, p.double PROVE Edges("ad") = {OutAt(p)}
    <3>1. OutAt(p) = ADAt(p)
        BY <2>8 DEF OutAt
    <3>2. ADAt(p) \in Nat /\ ADAt(p) < n
        BY <2>2, <2>6, <3>1
    <3>3. Edges("ad") = {ADAt(p)}
        BY <2>2, <3>2, RisesOnce
    <3> QED
        BY <3>1, <3>3
  <2> QED
      BY <2>7, <2>8
<1> QED
    BY <1>1, AlwaysMade, PTL
=============================================================================
