--------------------------- MODULE PulseMemProofs ---------------------------
(***************************************************************************)
(* Theorems about PulseMem for every length of the array and of a clear,   *)
(* every time and every number of edits.                                   *)
(***************************************************************************)
EXTENDS PulseMem, WellFoundedInduction, TLAPS

-----------------------------------------------------------------------------
\* Induction: a set of numbers has a least one.

LEMMA LeastIn ==
    ASSUME NEW R, IsWellFoundedOn(R, Nat), \A x, y \in Nat : x < y => <<x, y>> \in R,
           NEW T, T \subseteq Nat, T # {}
    PROVE  \E x \in T : \A y \in T : x <= y
<1>1. PICK x \in T : \A y \in T : ~ (<<y, x>> \in R)
    BY WFMin
<1>2. ASSUME NEW y \in T PROVE x <= y
  <2>1. x \in Nat /\ y \in Nat /\ ~(<<y, x>> \in R)
      BY <1>1
  <2>2. ~(y < x)
      BY <2>1
  <2> QED
      BY <2>1, <2>2
<1> QED
    BY <1>2

LEMMA Least == ASSUME NEW T, T \subseteq Nat, T # {} PROVE \E x \in T : \A y \in T : x <= y
<1>1. \A x, y \in Nat : x < y => <<x, y>> \in OpToRel(<, Nat)
    BY DEF OpToRel
<1> QED
    BY <1>1, LeastIn, NatLessThanWellFounded

LEMMA BehindIs == Behind \in Nat /\ Indices = 0 .. Behind
BY SizeAssumption DEF Behind, Indices

-----------------------------------------------------------------------------
\* The times of the cells.

\* The recursion of Elapsed has a solution.
LEMMA ElapsedIs ==
    ASSUME NEW m \in [Indices -> Cells]
    PROVE  /\ Elapsed(m) \in [0 .. Behind + 1 -> Nat] /\ Elapsed(m)[0] = 0
           /\ \A i \in 0 .. Behind : Elapsed(m)[i + 1] = Elapsed(m)[i] + m[i].t
<1> DEFINE N == Behind + 1
           Good(n, f) == f[0] = 0 /\ \A i \in 1 .. n : f[i] = f[i - 1] + m[i - 1].t
           Has(n) == \E f \in [0 .. n -> Nat] : Good(n, f)
           T == {n \in 0 .. N : ~Has(n)}
<1>1. N \in Nat /\ Behind \in Nat /\ \A i \in 1 .. N : i - 1 \in Indices
    BY BehindIs
<1>2. \A i \in Indices : m[i].t \in Nat
    BY DEF Cells
<1> HIDE DEF N
<1>3. Has(0)
  <2> DEFINE f == [i \in 0 .. 0 |-> 0]
  <2>1. f \in [0 .. 0 -> Nat] /\ Good(0, f)
      OBVIOUS
  <2> QED
      BY <2>1
<1>4. ASSUME NEW n \in 1 .. N, Has(n - 1) PROVE Has(n)
  <2>1. PICK f \in [0 .. n - 1 -> Nat] : Good(n - 1, f)
      BY <1>4
  <2> DEFINE g == [i \in 0 .. n |-> IF i <= n - 1 THEN f[i] ELSE f[n - 1] + m[n - 1].t]
  <2>2. n - 1 \in 0 .. n - 1 /\ m[n - 1].t \in Nat
      BY <1>1, <1>2
  <2>3. \A i \in 0 .. n : i \in 0 .. n - 1 \/ (i = n /\ ~(i <= n - 1))
      BY <1>1
  <2>4. g \in [0 .. n -> Nat]
      BY <2>1, <2>2, <2>3
  <2>5. \A i \in 0 .. n - 1 : g[i] = f[i]
      BY <1>1
  <2>6. g[n] = f[n - 1] + m[n - 1].t
      BY <1>1
  <2> HIDE DEF g
  <2>7. \A i \in 1 .. n : g[i] = g[i - 1] + m[i - 1].t
    <3> TAKE i \in 1 .. n
    <3>1. i - 1 \in 0 .. n - 1 /\ (i \in 1 .. n - 1 \/ i = n)
        BY <1>1
    <3>2. CASE i \in 1 .. n - 1
      <4>1. i \in 0 .. n - 1
          BY <3>2
      <4> QED
          BY <2>1, <2>5, <3>1, <3>2, <4>1
    <3>3. CASE i = n
        BY <2>5, <2>6, <3>1, <3>3
    <3> QED
        BY <3>1, <3>2, <3>3
  <2>8. g[0] = 0
      BY <1>1, <2>1, <2>5
  <2> QED
      BY <2>4, <2>7, <2>8
<1> HIDE DEF Has
<1>5. T = {}
  <2>1. ASSUME T # {} PROVE FALSE
    <3>1. T \subseteq Nat
        BY <1>1
    <3> HIDE DEF T
    <3>2. PICK n \in T : \A y \in T : n <= y
        BY <2>1, <3>1, Least
    <3>3. n \in 0 .. N /\ ~Has(n)
        BY <3>2 DEF T
    <3>4. n \in 1 .. N
        BY <1>1, <1>3, <3>3
    <3>5. n - 1 \in 0 .. N /\ ~(n <= n - 1)
        BY <1>1, <3>4
    <3>6. Has(n - 1)
        BY <3>2, <3>5 DEF T
    <3> QED
        BY <1>4, <3>3, <3>4, <3>6
  <2> QED
      BY <2>1
<1>6. Has(N)
    BY <1>1, <1>5
<1>7. PICK f \in [0 .. N -> Nat] : Good(N, f)
    BY <1>6 DEF Has
<1>8. f = [i \in 0 .. N |-> IF i = 0 THEN 0 ELSE f[i - 1] + m[i - 1].t]
  <2>1. \A i \in 0 .. N : i = 0 \/ i \in 1 .. N
      BY <1>1
  <2> QED
      BY <1>7, <2>1
<1> DEFINE a == Elapsed(m)
<1>9. a = [i \in 0 .. N |-> IF i = 0 THEN 0 ELSE a[i - 1] + m[i - 1].t]
    BY <1>8 DEF Elapsed, N
<1> HIDE DEF a
<1>10. 0 \in 0 .. N /\ a[0] = 0 /\ \A i \in 1 .. N : a[i] = a[i - 1] + m[i - 1].t
  <2>1. 0 \in 0 .. N /\ \A i \in 1 .. N : i \in 0 .. N /\ i # 0
      BY <1>1
  <2> QED
      BY <1>9, <2>1
<1>11. \A i \in 0 .. N : a[i] \in Nat
  <2> DEFINE S == {i \in 0 .. N : a[i] \notin Nat}
  <2>1. ASSUME S # {} PROVE FALSE
    <3>1. S \subseteq Nat
        BY <1>1
    <3> HIDE DEF S
    <3>2. PICK n \in S : \A y \in S : n <= y
        BY <2>1, <3>1, Least
    <3>3. n \in 0 .. N /\ a[n] \notin Nat /\ n # 0
        BY <1>10, <3>2 DEF S
    <3>4. n \in 1 .. N /\ n - 1 \in 0 .. N /\ ~(n <= n - 1)
        BY <1>1, <3>3
    <3>5. a[n - 1] \in Nat
        BY <3>2, <3>4 DEF S
    <3>6. m[n - 1].t \in Nat
        BY <1>1, <1>2, <3>4
    <3> QED
        BY <1>10, <3>3, <3>4, <3>5, <3>6
  <2> QED
      BY <2>1
<1>12. a \in [0 .. N -> Nat]
    BY <1>9, <1>11
<1>13. \A i \in 0 .. Behind : i + 1 \in 1 .. N /\ (i + 1) - 1 = i
    BY <1>1 DEF N
<1>14. \A i \in 0 .. Behind : a[i + 1] = a[i] + m[i].t
    BY <1>10, <1>13
<1> QED
    BY <1>10, <1>12, <1>14 DEF a, N

\* Cells with the same times take the same time.
Alike(k, p, m, q, n) ==
    /\ p + n <= Behind + 1 /\ q + n <= Behind + 1
    /\ Elapsed(k)[p] = Elapsed(m)[q]
    /\ \A j \in 0 .. n - 1 : k[p + j].t = m[q + j].t

LEMMA SameTimes ==
    ASSUME NEW m \in [Indices -> Cells], NEW k \in [Indices -> Cells],
           NEW p \in Nat, NEW q \in Nat, NEW n \in Nat, Alike(k, p, m, q, n)
    PROVE  \A j \in 0 .. n : Elapsed(k)[p + j] = Elapsed(m)[q + j]
<1> DEFINE a == Elapsed(m)
           b == Elapsed(k)
           T == {j \in 0 .. n : b[p + j] # a[q + j]}
<1>1. Behind \in Nat
    BY BehindIs
<1>2. /\ \A i \in 0 .. Behind : a[i + 1] = a[i] + m[i].t
      /\ \A i \in 0 .. Behind : b[i + 1] = b[i] + k[i].t
    BY ElapsedIs
<1>3. /\ p + n <= Behind + 1 /\ q + n <= Behind + 1
      /\ b[p] = a[q] /\ \A j \in 0 .. n - 1 : k[p + j].t = m[q + j].t
    BY DEF Alike
<1> HIDE DEF a, b
<1>4. ASSUME T # {} PROVE FALSE
  <2>1. T \subseteq Nat
      OBVIOUS
  <2> HIDE DEF T
  <2>2. PICK j \in T : \A y \in T : j <= y
      BY <1>4, <2>1, Least
  <2>3. j \in 0 .. n /\ b[p + j] # a[q + j]
      BY <2>2 DEF T
  <2>4. j # 0
      BY <1>3, <2>3
  <2>5. j - 1 \in 0 .. n - 1 /\ j - 1 \in 0 .. n /\ ~(j <= j - 1)
      BY <2>3, <2>4
  <2>6. b[p + (j - 1)] = a[q + (j - 1)]
      BY <2>2, <2>5 DEF T
  <2>7. /\ p + (j - 1) \in 0 .. Behind /\ (p + (j - 1)) + 1 = p + j
        /\ q + (j - 1) \in 0 .. Behind /\ (q + (j - 1)) + 1 = q + j
      BY <1>1, <1>3, <2>3, <2>4
  <2>8. b[p + j] = b[p + (j - 1)] + k[p + (j - 1)].t
      BY <1>2, <2>7
  <2>9. a[q + j] = a[q + (j - 1)] + m[q + (j - 1)].t
      BY <1>2, <2>7
  <2> QED
      BY <1>3, <2>3, <2>5, <2>6, <2>8, <2>9
<1> QED
    BY <1>4 DEF a, b

\* Later cells are later.
LEMMA Growing ==
    ASSUME NEW m \in [Indices -> Cells]
    PROVE  \A i, j \in 0 .. Behind + 1 : i <= j => Elapsed(m)[i] <= Elapsed(m)[j]
<1> DEFINE a == Elapsed(m)
<1>1. Behind \in Nat /\ \A i \in 0 .. Behind : m[i].t \in Nat
    BY BehindIs DEF Cells
<1>2. a \in [0 .. Behind + 1 -> Nat] /\ \A i \in 0 .. Behind : a[i + 1] = a[i] + m[i].t
    BY ElapsedIs
<1> HIDE DEF a
<1>3. ASSUME NEW i \in 0 .. Behind + 1 PROVE \A j \in 0 .. Behind + 1 : i <= j => a[i] <= a[j]
  <2> DEFINE T == {j \in 0 .. Behind + 1 : i <= j /\ ~(a[i] <= a[j])}
  <2>1. ASSUME T # {} PROVE FALSE
    <3>1. T \subseteq Nat
        BY <1>1
    <3> HIDE DEF T
    <3>2. PICK j \in T : \A y \in T : j <= y
        BY <2>1, <3>1, Least
    <3>3. j \in 0 .. Behind + 1 /\ i <= j /\ ~(a[i] <= a[j])
        BY <3>2 DEF T
    <3>4. a[i] \in Nat /\ a[j] \in Nat
        BY <1>2, <3>3
    <3>5. i # j
        BY <3>3, <3>4
    <3>6. j - 1 \in 0 .. Behind /\ j - 1 \in 0 .. Behind + 1 /\ i <= j - 1 /\ ~(j <= j - 1)
          /\ (j - 1) + 1 = j
        BY <1>1, <3>3, <3>5
    <3>7. a[i] <= a[j - 1]
        BY <3>2, <3>6 DEF T
    <3>8. a[j] = a[j - 1] + m[j - 1].t /\ a[j - 1] \in Nat /\ m[j - 1].t \in Nat
        BY <1>1, <1>2, <3>6
    <3> QED
        BY <3>3, <3>4, <3>7, <3>8
  <2> QED
      BY <2>1
<1> QED
    BY <1>3 DEF a

-----------------------------------------------------------------------------
\* Arrays with their terminator in cell e: levels last, commands do not, and a
\* command is followed by a level.

Formed(m, e) ==
    /\ m \in [Indices -> Cells] /\ e \in 0 .. Behind - 1
    /\ m[e].c = "end" /\ \A i \in 0 .. e - 1 : m[i].c # "end"
    /\ \A i \in 0 .. e : (m[i].t = 0) = IsCommand(m[i])
    /\ \A i \in 0 .. e - 1 : IsCommand(m[i]) => ~IsCommand(m[i + 1])

LEMMA EndIs ==
    ASSUME NEW m, NEW e, Formed(m, e), NEW p \in 0 .. e
    PROVE  End(m, p) = e
<1> DEFINE Ends == {i \in 0 .. Behind - 1 : i >= p /\ m[i].c = "end"}
           First(i) == \A j \in Ends : i <= j
<1>1. Behind \in Nat /\ e \in 0 .. Behind - 1 /\ e \in Ends
    BY BehindIs DEF Formed
<1>2. ASSUME NEW i \in Ends PROVE e <= i
  <2>1. i \in 0 .. Behind - 1 /\ m[i].c = "end"
      OBVIOUS
  <2>2. ~(i \in 0 .. e - 1)
      BY <2>1 DEF Formed
  <2> QED
      BY <1>1, <2>1, <2>2
<1>3. ASSUME NEW i \in Ends, First(i) PROVE i = e
  <2>1. i <= e /\ e <= i /\ i \in 0 .. Behind - 1
      BY <1>1, <1>2, <1>3
  <2> QED
      BY <1>1, <2>1
<1>4. End(m, p) = IF Ends = {} THEN Behind - 1 ELSE CHOOSE i \in Ends : First(i)
    BY DEF End
<1>5. First(e) /\ Ends # {}
    BY <1>1, <1>2
<1> HIDE DEF Ends, First
<1> QED
    BY <1>1, <1>3, <1>4, <1>5

\* A level takes time.
LEMMA LevelLasts ==
    ASSUME NEW m, NEW e, Formed(m, e)
    PROVE  /\ \A i \in 0 .. e : m[i] \in Cells /\ m[i].t \in Nat
           /\ \A i \in 0 .. e : ~IsCommand(m[i]) => Elapsed(m)[i] < Elapsed(m)[i + 1]
           /\ \A i \in 0 .. e : IsCommand(m[i]) => Elapsed(m)[i + 1] = Elapsed(m)[i]
           /\ \A i \in 0 .. e + 1 : Elapsed(m)[i] \in Nat
           /\ Elapsed(m)[0] = 0 /\ e \in Nat
           /\ \A i, j \in 0 .. e + 1 : i <= j => Elapsed(m)[i] <= Elapsed(m)[j]
           /\ \A i \in 0 .. e : Elapsed(m)[i + 1] = Elapsed(m)[i] + m[i].t
<1> DEFINE a == Elapsed(m)
<1>1. Behind \in Nat /\ Indices = 0 .. Behind /\ e \in 0 .. Behind /\ m \in [Indices -> Cells]
    BY BehindIs DEF Formed
<1>2. /\ a \in [0 .. Behind + 1 -> Nat] /\ a[0] = 0
      /\ \A i \in 0 .. Behind : a[i + 1] = a[i] + m[i].t
      /\ \A i, j \in 0 .. Behind + 1 : i <= j => a[i] <= a[j]
    BY <1>1, ElapsedIs, Growing
<1> HIDE DEF a
<1>3. \A i \in 0 .. e : i \in 0 .. Behind /\ i \in 0 .. Behind + 1
    BY <1>1
<1>4. \A i \in 0 .. e + 1 : i \in 0 .. Behind + 1
    BY <1>1
<1>5. \A i \in 0 .. e : m[i] \in Cells /\ m[i].t \in Nat /\ a[i] \in Nat
    BY <1>1, <1>2, <1>3 DEF Cells
<1>6. \A i \in 0 .. e : a[i + 1] = a[i] + m[i].t
    BY <1>2, <1>3
<1>7. \A i \in 0 .. e : (IsCommand(m[i]) => m[i].t = 0) /\ (~IsCommand(m[i]) => m[i].t # 0)
    BY DEF Formed, IsCommand
<1>8. \A i \in 0 .. e : ~IsCommand(m[i]) => a[i] < a[i + 1]
    BY <1>5, <1>6, <1>7
<1>9. \A i \in 0 .. e : IsCommand(m[i]) => a[i + 1] = a[i]
    BY <1>5, <1>6, <1>7
<1> QED
    BY <1>1, <1>2, <1>4, <1>5, <1>6, <1>8, <1>9 DEF a

\* The cell in which a time falls.
LEMMA FoundIs ==
    ASSUME NEW m, NEW e, Formed(m, e), NEW tim \in Nat \ {0}
    PROVE  LET a == Elapsed(m)
               f == Found(m, tim)
           IN  \/ /\ tim <= a[e] /\ f.pt \in 0 .. e - 1 /\ ~IsCommand(m[f.pt])
                  /\ a[f.pt] < tim /\ tim <= a[f.pt + 1] /\ f.diff = a[f.pt + 1] - tim
               \/ a[e] < tim /\ f = [pt |-> e, diff |-> 0]
<1> DEFINE a == Elapsed(m)
           f == Found(m, tim)
           In == {i \in 0 .. e - 1 : ~IsCommand(m[i]) /\ tim <= a[i + 1]}
<1>1. /\ \A i \in 0 .. e : IsCommand(m[i]) => a[i + 1] = a[i]
      /\ \A i \in 0 .. e + 1 : a[i] \in Nat
      /\ a[0] = 0 /\ e \in Nat
      /\ \A i, j \in 0 .. e + 1 : i <= j => a[i] <= a[j]
    BY LevelLasts
<1>2. End(m, 0) = e
  <2>1. 0 \in 0 .. e
      BY <1>1
  <2> QED
      BY <2>1, EndIs
<1>3. f = IF In = {} THEN [pt |-> e, diff |-> 0]
          ELSE LET i == CHOOSE j \in In : \A k \in In : j <= k
               IN  [pt |-> i, diff |-> a[i + 1] - tim]
    BY <1>2 DEF Found
<1> HIDE DEF a, f
<1>4. CASE a[e] < tim
  <2>1. \A i \in 0 .. e - 1 : i + 1 \in 0 .. e + 1 /\ i + 1 <= e /\ e \in 0 .. e + 1
      BY <1>1
  <2>2. \A i \in 0 .. e - 1 : a[i + 1] <= a[e] /\ a[i + 1] \in Nat /\ a[e] \in Nat
      BY <1>1, <2>1
  <2>3. In = {}
      BY <1>4, <2>2
  <2> QED
      BY <1>3, <1>4, <2>3 DEF a, f
<1>5. CASE tim <= a[e]
  <2> DEFINE T == {i \in 0 .. e : tim <= a[i]}
  <2>1. T \subseteq Nat /\ e \in T
      BY <1>1, <1>5
  <2> HIDE DEF T
  <2>2. PICK j \in T : \A y \in T : j <= y
      BY <2>1, Least
  <2>3. j \in 0 .. e /\ tim <= a[j]
      BY <2>2 DEF T
  <2>4. j # 0
      BY <1>1, <2>3
  <2> DEFINE i == j - 1
  <2>5. i \in 0 .. e - 1 /\ i \in 0 .. e /\ i \in 0 .. e + 1 /\ i + 1 = j /\ ~(j <= i)
      BY <1>1, <2>3, <2>4
  <2> HIDE DEF i
  <2>6. a[i] < tim
    <3>1. a[i] \in Nat /\ ~(tim <= a[i])
        BY <1>1, <2>2, <2>5 DEF T
    <3> QED
        BY <3>1
  <2>7. a[j] \in Nat /\ a[i] \in Nat
      BY <1>1, <2>3, <2>5
  <2>8. a[j] # a[i]
      BY <2>3, <2>6, <2>7
  <2>9. i \in In
      BY <1>1, <2>3, <2>5, <2>8
  <2>10. \A k \in In : i <= k
    <3> TAKE k \in In
    <3>1. k \in 0 .. e - 1 /\ tim <= a[k + 1]
        OBVIOUS
    <3>2. k + 1 \in T
        BY <1>1, <3>1 DEF T
    <3> QED
        BY <2>2, <2>5, <3>1, <3>2
  <2> HIDE DEF In
  <2>11. (CHOOSE x \in In : \A k \in In : x <= k) = i
    <3>1. \A x \in In : (\A k \in In : x <= k) => x = i
      <4>1. \A x \in In : x \in 0 .. e - 1
          BY DEF In
      <4> QED
          BY <1>1, <2>5, <2>9, <2>10, <4>1
    <3> QED
        BY <2>9, <2>10, <3>1
  <2>12. f = [pt |-> i, diff |-> a[i + 1] - tim]
      BY <1>3, <2>9, <2>11
  <2>13. ~IsCommand(m[i]) /\ tim <= a[i + 1]
      BY <2>9 DEF In
  <2> QED
      BY <1>5, <2>5, <2>6, <2>12, <2>13 DEF a, f
<1> QED
  <2>1. a[e] \in Nat
      BY <1>1
  <2> QED
      BY <1>4, <1>5, <2>1

-----------------------------------------------------------------------------
\* What the cells say of the waveform.

Met(m, e) == {Elapsed(m)[i] : i \in {j \in 0 .. e - 1 : IsCommand(m[j])}}
Reads(m, e, w) ==
    LET a == Elapsed(m)
    IN  /\ w = [total |-> a[e], wave |-> [x \in 0 .. a[e] - 1 |-> w.wave[x]],
                cmds |-> [x \in Met(m, e) |-> w.cmds[x]]]
        /\ \A i \in 0 .. e - 1 : ~IsCommand(m[i]) => \A x \in a[i] .. a[i + 1] - 1 : w.wave[x] = m[i].d
        /\ \A i \in 0 .. e - 1 : IsCommand(m[i]) => w.cmds[a[i]] = [c |-> m[i].c, d |-> m[i].d]

\* Cell p is the first one from tim on, or the one behind the terminator.
At(m, e, p, tim) ==
    IF tim <= Elapsed(m)[e] THEN /\ p \in 0 .. e /\ Elapsed(m)[p] = tim
                                 /\ p # 0 => ~IsCommand(m[p - 1])
    ELSE p = e + 1

LEMMA InsIs ==
    ASSUME NEW m, NEW e, Formed(m, e), e + 2 <= Behind, NEW p \in 0 .. e
    PROVE  /\ Ins(m, p) \in [Indices -> Cells]
           /\ \A i \in 0 .. p : Ins(m, p)[i] = m[i]
           /\ \A i \in p .. e : Ins(m, p)[i + 1] = m[i]
           /\ \A i \in Indices : i > e + 1 => Ins(m, p)[i] = m[i]
<1>1. Behind \in Nat /\ Indices = 0 .. Behind /\ e \in 0 .. Behind /\ m \in [Indices -> Cells]
    BY BehindIs DEF Formed
<1>2. End(m, p) = e
    BY EndIs
<1>3. Ins(m, p) = [i \in Indices |-> IF p < i /\ i <= e + 1 THEN m[i - 1] ELSE m[i]]
    BY <1>2 DEF Ins
<1>4. \A i \in Indices : p < i /\ i <= e + 1 => i - 1 \in Indices
    BY <1>1
<1>5. Ins(m, p) \in [Indices -> Cells]
    BY <1>1, <1>3, <1>4
<1>6. \A i \in 0 .. p : i \in Indices /\ ~(p < i)
    BY <1>1
<1>7. \A i \in p .. e : i + 1 \in Indices /\ p < i + 1 /\ i + 1 <= e + 1 /\ (i + 1) - 1 = i
    BY <1>1
<1>8. \A i \in p .. e : Ins(m, p)[i + 1] = m[i]
    BY <1>3, <1>7
<1>9. \A i \in Indices : i > e + 1 => ~(i <= e + 1)
    BY <1>1
<1> QED
    BY <1>3, <1>5, <1>6, <1>8, <1>9

LEMMA SplitIs ==
    ASSUME NEW m, NEW e, Formed(m, e), e + 2 <= Behind, NEW p \in 0 .. e - 1, ~IsCommand(m[p]),
           NEW diff \in Nat, 0 < diff, diff < m[p].t
    PROVE  LET k == Split(m, p, diff)
               a == Elapsed(m)
               b == Elapsed(k)
           IN  /\ Formed(k, e + 1)
               /\ \A i \in 0 .. p - 1 : k[i] = m[i]
               /\ k[p].d = m[p].d /\ k[p + 1].d = m[p].d /\ ~IsCommand(k[p]) /\ ~IsCommand(k[p + 1])
               /\ \A i \in p + 1 .. e : k[i + 1] = m[i]
               /\ \A i \in Indices : i > e + 1 => k[i] = m[i]
               /\ \A i \in 0 .. p : b[i] = a[i]
               /\ b[p + 1] = a[p + 1] - diff
               /\ \A i \in p + 1 .. e + 1 : b[i + 1] = a[i]
<1> DEFINE k == Split(m, p, diff)
           n == Ins(m, p)
           a == Elapsed(m)
           b == Elapsed(k)
<1>1. /\ Behind \in Nat /\ Indices = 0 .. Behind /\ e \in 0 .. Behind /\ m \in [Indices -> Cells]
      /\ m[e].c = "end" /\ (\A i \in 0 .. e - 1 : m[i].c # "end")
      /\ (\A i \in 0 .. e : (IsCommand(m[i]) => m[i].t = 0) /\ (~IsCommand(m[i]) => m[i].t # 0))
      /\ \A i \in 0 .. e - 1 : IsCommand(m[i]) => ~IsCommand(m[i + 1])
    BY BehindIs DEF Formed, IsCommand
<1>2. /\ n \in [Indices -> Cells]
      /\ \A i \in 0 .. p : n[i] = m[i]
      /\ \A i \in p .. e : n[i + 1] = m[i]
      /\ \A i \in Indices : i > e + 1 => n[i] = m[i]
  <2>1. p \in 0 .. e
      BY <1>1
  <2> QED
      BY <2>1, InsIs
<1>3. k = [n EXCEPT ![p].t = @ - diff, ![p + 1] = [n[p] EXCEPT !.t = diff]]
    BY DEF Split
<1> HIDE DEF n, k, a, b
<1>4. p \in Indices /\ p + 1 \in Indices /\ p \in 0 .. p /\ n[p] = m[p] /\ m[p] \in Cells /\ p \in 0 .. e
  <2>1. p \in 0 .. Behind /\ p + 1 \in 0 .. Behind /\ p \in 0 .. p /\ p \in 0 .. e
      BY <1>1
  <2> QED
      BY <1>1, <1>2, <2>1
<1>5. /\ k[p] = [m[p] EXCEPT !.t = @ - diff] /\ k[p + 1] = [m[p] EXCEPT !.t = diff]
      /\ \A i \in Indices : i # p /\ i # p + 1 => k[i] = n[i]
  <2>1. p # p + 1
      BY <1>1
  <2> QED
      BY <1>2, <1>3, <1>4, <2>1
<1>6. /\ k[p] \in Cells /\ k[p].c = m[p].c /\ k[p].d = m[p].d /\ k[p].t = m[p].t - diff
      /\ k[p + 1] \in Cells /\ k[p + 1].c = m[p].c /\ k[p + 1].d = m[p].d /\ k[p + 1].t = diff
  <2>1. m[p].t - diff \in Nat /\ m[p].t \in Nat
      BY <1>4 DEF Cells
  <2> QED
      BY <1>4, <1>5, <2>1 DEF Cells
<1>7. k \in [Indices -> Cells]
    BY <1>2, <1>3, <1>5, <1>6
<1>7m. m \in [Indices -> Cells] /\ k \in [Indices -> Cells]
    BY <1>1, <1>7
<1>8. \A i \in 0 .. p - 1 : k[i] = m[i]
  <2>1. \A i \in 0 .. p - 1 : i \in Indices /\ i # p /\ i # p + 1 /\ i \in 0 .. p
      BY <1>1
  <2> QED
      BY <1>2, <1>5, <2>1
<1>9. \A i \in p + 1 .. e : k[i + 1] = m[i]
  <2>1. \A i \in p + 1 .. e : i + 1 \in Indices /\ i + 1 # p /\ i + 1 # p + 1 /\ i \in p .. e
      BY <1>1
  <2> QED
      BY <1>2, <1>5, <2>1
<1>10. \A i \in Indices : i > e + 1 => k[i] = m[i]
  <2>1. \A i \in Indices : i > e + 1 => i # p /\ i # p + 1
      BY <1>1
  <2> QED
      BY <1>2, <1>5, <2>1
<1>11. ~IsCommand(k[p]) /\ ~IsCommand(k[p + 1])
    BY <1>6 DEF IsCommand
<1>12. \A i \in 0 .. e + 1 : \/ i \in 0 .. p - 1 \/ i = p \/ i = p + 1
                             \/ i - 1 \in p + 1 .. e /\ i = (i - 1) + 1
    BY <1>1
<1>13. Formed(k, e + 1)
  <2>1. e + 1 \in 0 .. Behind - 1
      BY <1>1
  <2>2. k[e + 1].c = "end"
    <3>1. e \in p + 1 .. e
        BY <1>1
    <3> QED
        BY <1>1, <1>9, <3>1
  <2>3. ASSUME NEW i \in 0 .. (e + 1) - 1 PROVE k[i].c # "end"
    <3>1. i \in 0 .. e + 1
        BY <1>1
    <3>2. CASE i \in 0 .. p - 1
      <4>1. i \in 0 .. e - 1
          BY <1>1, <3>2
      <4> QED
          BY <1>1, <1>8, <3>2, <4>1
    <3>3. CASE i = p \/ i = p + 1
        BY <1>1, <1>6, <3>3
    <3>4. CASE i - 1 \in p + 1 .. e /\ i = (i - 1) + 1
      <4>1. i - 1 \in 0 .. e - 1
          BY <1>1, <3>4
      <4>2. k[i] = m[i - 1]
          BY <1>9, <3>4
      <4> QED
          BY <1>1, <4>1, <4>2
    <3> QED
        BY <1>12, <3>1, <3>2, <3>3, <3>4
  <2>4. ASSUME NEW i \in 0 .. e + 1 PROVE (k[i].t = 0) = IsCommand(k[i])
    <3>1. CASE i \in 0 .. p - 1
      <4>1. i \in 0 .. e
          BY <1>1, <3>1
      <4> QED
          BY <1>1, <1>8, <3>1, <4>1 DEF IsCommand
    <3>2. CASE i = p \/ i = p + 1
      <4>1. m[p].t \in Nat
          BY <1>4 DEF Cells
      <4> QED
          BY <1>6, <1>11, <3>2, <4>1 DEF IsCommand
    <3>3. CASE i - 1 \in p + 1 .. e /\ i = (i - 1) + 1
      <4>1. k[i] = m[i - 1] /\ i - 1 \in 0 .. e
          BY <1>9, <3>3
      <4> QED
          BY <1>1, <4>1 DEF IsCommand
    <3> QED
        BY <1>12, <3>1, <3>2, <3>3
  <2>5. ASSUME NEW i \in 0 .. (e + 1) - 1, IsCommand(k[i]) PROVE ~IsCommand(k[i + 1])
    <3>1. CASE i \in 0 .. p - 2
      <4>1. i \in 0 .. p - 1 /\ i + 1 \in 0 .. p - 1 /\ i \in 0 .. e - 1
          BY <1>1, <3>1
      <4> QED
          BY <1>1, <1>8, <2>5, <4>1
    <3>2. CASE i = p - 1
        BY <1>11, <3>2
    <3>3. CASE i = p \/ i = p + 1
        BY <1>11, <2>5, <3>3
    <3>4. CASE i - 1 \in p + 1 .. e /\ i = (i - 1) + 1
      <4>1. k[i] = m[i - 1] /\ i - 1 \in 0 .. e - 1
          BY <1>1, <1>9, <3>4
      <4>2. i \in p + 1 .. e
          BY <1>1, <3>4
      <4>3. k[i + 1] = m[i]
          BY <1>9, <4>2
      <4> QED
          BY <1>1, <2>5, <3>4, <4>1, <4>3
    <3>5. i \in 0 .. p - 2 \/ i = p - 1 \/ i = p \/ i = p + 1 \/ (i - 1 \in p + 1 .. e /\ i = (i - 1) + 1)
        BY <1>1
    <3> QED
        BY <3>1, <3>2, <3>3, <3>4, <3>5
  <2> QED
      BY <1>7, <2>1, <2>2, <2>3, <2>4, <2>5 DEF Formed
<1>14. /\ a[0] = 0 /\ b[0] = 0
       /\ (\A i \in 0 .. Behind : a[i + 1] = a[i] + m[i].t) /\ \A i \in 0 .. Behind : b[i + 1] = b[i] + k[i].t
       /\ a \in [0 .. Behind + 1 -> Nat] /\ b \in [0 .. Behind + 1 -> Nat]
    BY <1>1, <1>7, ElapsedIs DEF a, b
<1>15. \A i \in 0 .. p : b[i] = a[i]
  <2> DEFINE z == 0
  <2>1. z \in Nat /\ p \in Nat /\ \A j \in 0 .. p : z + j = j
      BY <1>1
  <2>2. Alike(k, z, m, z, p)
    <3>1. z + p <= Behind + 1 /\ Elapsed(k)[z] = Elapsed(m)[z]
        BY <1>1, <1>14 DEF a, b
    <3>2. \A j \in 0 .. p - 1 : k[z + j].t = m[z + j].t
        BY <1>1, <1>8
    <3> QED
        BY <3>1, <3>2 DEF Alike
  <2> HIDE DEF z
  <2>3. \A j \in 0 .. p : Elapsed(k)[z + j] = Elapsed(m)[z + j]
      BY <1>7m, <2>1, <2>2, SameTimes
  <2> QED
      BY <2>1, <2>3 DEF a, b
<1>16. b[p + 1] = a[p + 1] - diff /\ b[(p + 1) + 1] = a[p + 1]
  <2>1. a[p + 1] = a[p] + m[p].t /\ b[p + 1] = b[p] + k[p].t /\ b[(p + 1) + 1] = b[p + 1] + k[p + 1].t
      BY <1>1, <1>4, <1>14
  <2>2. b[p] = a[p] /\ a[p] \in Nat /\ m[p].t \in Nat
      BY <1>1, <1>4, <1>14, <1>15 DEF Cells
  <2> QED
      BY <1>6, <2>1, <2>2
<1>17. \A i \in p + 1 .. e + 1 : b[i + 1] = a[i]
  <2> DEFINE r == e - p
             y == p + 1
             z == p + 2
  <2>1. /\ r \in Nat /\ y \in Nat /\ z \in Nat /\ z + r <= Behind + 1 /\ y + r <= Behind + 1
        /\ z = (p + 1) + 1
      BY <1>1
  <2>2. Alike(k, z, m, y, r)
    <3>1. \A j \in 0 .. r - 1 : y + j \in p + 1 .. e /\ (y + j) + 1 = z + j
        BY <1>1
    <3>2. \A j \in 0 .. r - 1 : k[z + j].t = m[y + j].t
        BY <1>9, <3>1
    <3>3. Elapsed(k)[z] = Elapsed(m)[y]
        BY <1>16, <2>1 DEF a, b
    <3> HIDE DEF r, y, z
    <3> QED
        BY <2>1, <3>2, <3>3 DEF Alike
  <2>3. \A i \in p + 1 .. e + 1 : i - y \in 0 .. r /\ z + (i - y) = i + 1 /\ y + (i - y) = i
      BY <1>1
  <2> HIDE DEF r, y, z
  <2>4. \A j \in 0 .. r : Elapsed(k)[z + j] = Elapsed(m)[y + j]
      BY <1>7m, <2>1, <2>2, SameTimes
  <2> QED
      BY <2>3, <2>4 DEF a, b
<1> QED
    BY <1>6, <1>8, <1>9, <1>10, <1>11, <1>13, <1>15, <1>16, <1>17 DEF k, a, b

-----------------------------------------------------------------------------
\* The waveform that the cells stand for.

\* The sequencer meets one command at a time.
LEMMA OneCommand ==
    ASSUME NEW m, NEW e, Formed(m, e), NEW i \in 0 .. e - 1, NEW j \in 0 .. e - 1,
           IsCommand(m[i]), IsCommand(m[j]), Elapsed(m)[i] = Elapsed(m)[j]
    PROVE  i = j
<1> DEFINE a == Elapsed(m)
<1>1. /\ \A x \in 0 .. e : ~IsCommand(m[x]) => a[x] < a[x + 1]
      /\ \A x \in 0 .. e + 1 : a[x] \in Nat
      /\ e \in Nat
      /\ \A x, y \in 0 .. e + 1 : x <= y => a[x] <= a[y]
    BY LevelLasts
<1>2. \A x \in 0 .. e - 1 : IsCommand(m[x]) => ~IsCommand(m[x + 1])
    BY DEF Formed
<1> HIDE DEF a
<1>3. ASSUME NEW x \in 0 .. e - 1, NEW y \in 0 .. e - 1, IsCommand(m[x]), IsCommand(m[y]), x < y
      PROVE  a[x] < a[y]
  <2>1. x + 1 \in 0 .. e /\ x \in 0 .. e + 1 /\ x + 1 \in 0 .. e + 1 /\ (x + 1) + 1 \in 0 .. e + 1
        /\ y \in 0 .. e + 1 /\ x <= x + 1
      BY <1>1
  <2>2. ~IsCommand(m[x + 1])
      BY <1>2, <1>3
  <2>3. x + 1 # y
      BY <1>3, <2>2
  <2>4. (x + 1) + 1 <= y
      BY <1>1, <1>3, <2>3
  <2>5. a[x] <= a[x + 1] /\ a[x + 1] < a[(x + 1) + 1] /\ a[(x + 1) + 1] <= a[y]
      BY <1>1, <2>1, <2>2, <2>4
  <2>6. a[x] \in Nat /\ a[x + 1] \in Nat /\ a[(x + 1) + 1] \in Nat /\ a[y] \in Nat
      BY <1>1, <2>1
  <2> QED
      BY <2>5, <2>6
<1>4. a[i] \in Nat /\ a[j] \in Nat /\ a[i] = a[j]
  <2>1. i \in 0 .. e + 1 /\ j \in 0 .. e + 1
      BY <1>1
  <2> QED
      BY <1>1, <2>1 DEF a
<1>5. ~(i < j) /\ ~(j < i)
    BY <1>3, <1>4
<1> QED
    BY <1>1, <1>5

\* Every tick before the terminator is in one level.
LEMMA TickIn ==
    ASSUME NEW m, NEW e, Formed(m, e), NEW x \in Nat, x < Elapsed(m)[e]
    PROVE  \E i \in 0 .. e - 1 : /\ ~IsCommand(m[i])
                                 /\ Elapsed(m)[i] <= x /\ x < Elapsed(m)[i + 1]
<1> DEFINE a == Elapsed(m)
           T == {i \in 0 .. e : x < a[i]}
<1>1. /\ \A i \in 0 .. e : IsCommand(m[i]) => a[i + 1] = a[i]
      /\ \A i \in 0 .. e + 1 : a[i] \in Nat
      /\ a[0] = 0 /\ e \in Nat
    BY LevelLasts
<1>2. x < a[e]
    OBVIOUS
<1> HIDE DEF a
<1>3. T \subseteq Nat /\ e \in T
    BY <1>1, <1>2
<1> HIDE DEF T
<1>4. PICK j \in T : \A y \in T : j <= y
    BY <1>3, Least
<1>5. j \in 0 .. e /\ x < a[j]
    BY <1>4 DEF T
<1>6. j # 0
    BY <1>1, <1>5
<1> DEFINE i == j - 1
<1>7. i \in 0 .. e - 1 /\ i \in 0 .. e /\ i \in 0 .. e + 1 /\ i + 1 = j /\ ~(j <= i) /\ j \in 0 .. e + 1
    BY <1>1, <1>5, <1>6
<1> HIDE DEF i
<1>8. a[i] \in Nat /\ ~(x < a[i]) /\ a[j] \in Nat
    BY <1>1, <1>4, <1>7 DEF T
<1>9. a[i] <= x /\ x < a[i + 1]
    BY <1>5, <1>7, <1>8
<1>10. ~IsCommand(m[i])
    BY <1>1, <1>5, <1>7, <1>8
<1> QED
    BY <1>7, <1>9, <1>10 DEF a

LEMMA OneLevel ==
    ASSUME NEW m, NEW e, Formed(m, e), NEW x \in Nat, NEW i \in 0 .. e - 1, NEW j \in 0 .. e - 1,
           Elapsed(m)[i] <= x, x < Elapsed(m)[i + 1], Elapsed(m)[j] <= x, x < Elapsed(m)[j + 1]
    PROVE  i = j
<1> DEFINE a == Elapsed(m)
<1>1. /\ \A y \in 0 .. e + 1 : a[y] \in Nat
      /\ e \in Nat
      /\ \A y, z \in 0 .. e + 1 : y <= z => a[y] <= a[z]
    BY LevelLasts
<1>2. a[i] <= x /\ x < a[i + 1] /\ a[j] <= x /\ x < a[j + 1]
    OBVIOUS
<1> HIDE DEF a
<1>3. ASSUME NEW y \in 0 .. e - 1, NEW z \in 0 .. e - 1, y < z, x < a[y + 1], a[z] <= x PROVE FALSE
  <2>1. y + 1 \in 0 .. e + 1 /\ z \in 0 .. e + 1 /\ y + 1 <= z
      BY <1>1, <1>3
  <2>2. a[y + 1] <= a[z] /\ a[y + 1] \in Nat /\ a[z] \in Nat
      BY <1>1, <2>1
  <2> QED
      BY <1>3, <2>2
<1>4. ~(i < j) /\ ~(j < i)
    BY <1>2, <1>3
<1> QED
    BY <1>1, <1>4

\* Two waveforms that the same cells describe are the same.
LEMMA ReadsOnly ==
    ASSUME NEW m, NEW e, Formed(m, e), NEW v, NEW w, Reads(m, e, v), Reads(m, e, w)
    PROVE  v = w
<1> DEFINE a == Elapsed(m)
           M == Met(m, e)
<1>1. a[e] \in Nat /\ \A i \in 0 .. e : a[i] \in Nat
  <2>1. e \in Nat /\ \A i \in 0 .. e + 1 : a[i] \in Nat
      BY LevelLasts
  <2>2. e \in 0 .. e + 1 /\ \A i \in 0 .. e : i \in 0 .. e + 1
      BY <2>1
  <2> QED
      BY <2>1, <2>2
<1>2. ASSUME NEW u, Reads(m, e, u)
      PROVE  /\ u = [total |-> a[e], wave |-> [x \in 0 .. a[e] - 1 |-> u.wave[x]],
                     cmds |-> [x \in M |-> u.cmds[x]]]
             /\ \A i \in 0 .. e - 1 :
                   ~IsCommand(m[i]) => \A x \in a[i] .. a[i + 1] - 1 : u.wave[x] = m[i].d
             /\ \A i \in 0 .. e - 1 : IsCommand(m[i]) => u.cmds[a[i]] = [c |-> m[i].c, d |-> m[i].d]
    BY <1>2 DEF Reads
<1>3. ASSUME NEW x \in 0 .. a[e] - 1 PROVE v.wave[x] = w.wave[x]
  <2>1. x \in Nat /\ x < a[e]
      BY <1>1
  <2>2. PICK i \in 0 .. e - 1 : ~IsCommand(m[i]) /\ a[i] <= x /\ x < a[i + 1]
      BY <2>1, TickIn
  <2>3. a[i] \in Nat /\ a[i + 1] \in Nat
    <3>1. e \in Nat
        BY LevelLasts
    <3>2. i \in 0 .. e /\ i + 1 \in 0 .. e
        BY <3>1
    <3> QED
        BY <1>1, <3>2
  <2>4. x \in a[i] .. a[i + 1] - 1
      BY <2>1, <2>2, <2>3
  <2> QED
      BY <1>2, <2>2, <2>4
<1>4. ASSUME NEW x \in M PROVE v.cmds[x] = w.cmds[x]
  <2>1. PICK i \in 0 .. e - 1 : IsCommand(m[i]) /\ x = a[i]
      BY DEF Met
  <2>2. v.cmds[a[i]] = [c |-> m[i].c, d |-> m[i].d] /\ w.cmds[a[i]] = [c |-> m[i].c, d |-> m[i].d]
      BY <1>2, <2>1
  <2> QED
      BY <2>1, <2>2
<1> HIDE DEF a, M
<1>5. [x \in 0 .. a[e] - 1 |-> v.wave[x]] = [x \in 0 .. a[e] - 1 |-> w.wave[x]]
    BY <1>3
<1>6. [x \in M |-> v.cmds[x]] = [x \in M |-> w.cmds[x]]
    BY <1>4
<1>7. /\ v = [total |-> a[e], wave |-> [x \in 0 .. a[e] - 1 |-> v.wave[x]], cmds |-> [x \in M |-> v.cmds[x]]]
      /\ w = [total |-> a[e], wave |-> [x \in 0 .. a[e] - 1 |-> w.wave[x]], cmds |-> [x \in M |-> w.cmds[x]]]
    BY <1>2
<1> QED
    BY <1>5, <1>6, <1>7, Zenon

WaveAt(m, e) ==
    LET a == Elapsed(m)
        LevelAt(x) == CHOOSE i \in 0 .. e - 1 : a[i] <= x /\ x < a[i + 1]
        ComAt == {i \in 0 .. e - 1 : IsCommand(m[i])}
        Of(x) == m[CHOOSE i \in ComAt : a[i] = x]
    IN  [total |-> a[e],
         wave  |-> [x \in 0 .. a[e] - 1 |-> m[LevelAt(x)].d],
         cmds  |-> [x \in {a[i] : i \in ComAt} |-> [c |-> Of(x).c, d |-> Of(x).d]]]
WaveOf(m) == WaveAt(m, End(m, 0))

LEMMA ReadsOf == ASSUME NEW m, NEW e, Formed(m, e) PROVE Reads(m, e, WaveOf(m))
<1> DEFINE a == Elapsed(m)
           LevelAt(x) == CHOOSE i \in 0 .. e - 1 : a[i] <= x /\ x < a[i + 1]
           ComAt == {i \in 0 .. e - 1 : IsCommand(m[i])}
           Of(x) == m[CHOOSE i \in ComAt : a[i] = x]
           w == WaveOf(m)
           M == {a[i] : i \in ComAt}
<1>1. e \in Nat /\ \A i \in 0 .. e + 1 : a[i] \in Nat
    BY LevelLasts
<1>2. End(m, 0) = e
  <2>1. 0 \in 0 .. e
      BY <1>1
  <2> QED
      BY <2>1, EndIs
<1>3. Met(m, e) = M
    BY DEF Met
<1>4. w = [total |-> a[e],
           wave  |-> [x \in 0 .. a[e] - 1 |-> m[LevelAt(x)].d],
           cmds  |-> [x \in M |-> [c |-> Of(x).c, d |-> Of(x).d]]]
  <2>1. w = WaveAt(m, e)
      BY <1>2 DEF WaveOf
  <2> HIDE DEF w
  <2> QED
      BY <2>1 DEF WaveAt
<1>5. ASSUME NEW i \in 0 .. e - 1, ~IsCommand(m[i]), NEW x \in a[i] .. a[i + 1] - 1
      PROVE  x \in 0 .. a[e] - 1 /\ LevelAt(x) = i
  <2>1. i \in 0 .. e + 1 /\ i + 1 \in 0 .. e + 1 /\ e \in 0 .. e + 1 /\ i + 1 <= e
      BY <1>1
  <2>2. a[i + 1] <= a[e]
      BY <2>1, LevelLasts
  <2>3. a[i] \in Nat /\ a[i + 1] \in Nat /\ a[e] \in Nat
      BY <1>1, <2>1
  <2> HIDE DEF a
  <2>4. x \in Nat /\ a[i] <= x /\ x < a[i + 1] /\ x \in 0 .. a[e] - 1
      BY <2>2, <2>3
  <2>5. \A j \in 0 .. e - 1 : a[j] <= x /\ x < a[j + 1] => j = i
      BY <2>4, OneLevel DEF a
  <2> QED
      BY <2>4, <2>5
<1>6. ASSUME NEW i \in 0 .. e - 1, IsCommand(m[i]) PROVE a[i] \in M /\ Of(a[i]) = m[i]
  <2>1. i \in ComAt
      BY <1>6
  <2>2. \A j \in ComAt : a[j] = a[i] => j = i
      BY <1>6, OneCommand
  <2> QED
      BY <1>3, <2>1, <2>2
<1> HIDE DEF LevelAt, ComAt, Of, M, w, a
<1>7. /\ \A x \in 0 .. a[e] - 1 : w.wave[x] = m[LevelAt(x)].d
      /\ \A x \in M : w.cmds[x] = [c |-> Of(x).c, d |-> Of(x).d]
    BY <1>4
<1>8. w = [total |-> a[e], wave |-> [x \in 0 .. a[e] - 1 |-> w.wave[x]], cmds |-> [x \in M |-> w.cmds[x]]]
  <2>1. /\ w.total = a[e]
        /\ w.wave = [x \in 0 .. a[e] - 1 |-> m[LevelAt(x)].d]
        /\ w.cmds = [x \in M |-> [c |-> Of(x).c, d |-> Of(x).d]]
      BY <1>4
  <2>2. w.wave = [x \in 0 .. a[e] - 1 |-> w.wave[x]]
      BY <2>1
  <2>3. w.cmds = [x \in M |-> w.cmds[x]]
      BY <2>1
  <2>4. w = [total |-> w.total, wave |-> w.wave, cmds |-> w.cmds]
      BY <1>4
  <2> QED
      BY <2>1, <2>2, <2>3, <2>4, Zenon
<1>9. \A i \in 0 .. e - 1 : ~IsCommand(m[i]) => \A x \in a[i] .. a[i + 1] - 1 : w.wave[x] = m[i].d
    BY <1>5, <1>7
<1>10. \A i \in 0 .. e - 1 : IsCommand(m[i]) => w.cmds[a[i]] = [c |-> m[i].c, d |-> m[i].d]
    BY <1>6, <1>7
<1>11. Reads(m, e, w)
    BY <1>3, <1>8, <1>9, <1>10 DEF Reads, a
<1> QED
    BY <1>11 DEF w

-----------------------------------------------------------------------------
\* edg leaves the waveform as it is.

LEMMA SplitReads ==
    ASSUME NEW m, NEW e, Formed(m, e), e + 2 <= Behind, NEW p \in 0 .. e - 1, ~IsCommand(m[p]),
           NEW diff \in Nat, 0 < diff, diff < m[p].t, NEW w, Reads(m, e, w)
    PROVE  Reads(Split(m, p, diff), e + 1, w)
<1> DEFINE k == Split(m, p, diff)
           a == Elapsed(m)
           b == Elapsed(k)
<1>1. /\ Formed(k, e + 1)
      /\ \A i \in 0 .. p - 1 : k[i] = m[i]
      /\ k[p].d = m[p].d /\ k[p + 1].d = m[p].d /\ ~IsCommand(k[p]) /\ ~IsCommand(k[p + 1])
      /\ \A i \in p + 1 .. e : k[i + 1] = m[i]
      /\ \A i \in 0 .. p : b[i] = a[i]
      /\ b[p + 1] = a[p + 1] - diff
      /\ \A i \in p + 1 .. e + 1 : b[i + 1] = a[i]
    BY SplitIs
<1>2. e \in Nat /\ (\A i \in 0 .. e + 1 : a[i] \in Nat) /\ m[p].t \in Nat /\ a[p + 1] = a[p] + m[p].t
  <2>1. e \in Nat /\ p \in 0 .. e
      BY LevelLasts
  <2> QED
      BY <2>1, LevelLasts
<1>3. /\ w = [total |-> a[e], wave |-> [x \in 0 .. a[e] - 1 |-> w.wave[x]],
              cmds |-> [x \in Met(m, e) |-> w.cmds[x]]]
      /\ \A i \in 0 .. e - 1 : ~IsCommand(m[i]) => \A x \in a[i] .. a[i + 1] - 1 : w.wave[x] = m[i].d
      /\ \A i \in 0 .. e - 1 : IsCommand(m[i]) => w.cmds[a[i]] = [c |-> m[i].c, d |-> m[i].d]
    BY DEF Reads
<1>4. Met(k, e + 1) = {b[i] : i \in {j \in 0 .. (e + 1) - 1 : IsCommand(k[j])}}
    BY DEF Met
<1>5. Met(m, e) = {a[i] : i \in {j \in 0 .. e - 1 : IsCommand(m[j])}}
    BY DEF Met
<1> HIDE DEF k, a, b
<1>6. \A i \in 0 .. (e + 1) - 1 : \/ i \in 0 .. p - 1 \/ i = p \/ i = p + 1
                                  \/ i - 1 \in p + 1 .. e - 1 /\ i = (i - 1) + 1
    BY <1>2
<1>7. ASSUME NEW i \in 0 .. p - 1
      PROVE  i \in 0 .. e - 1 /\ i \in 0 .. (e + 1) - 1 /\ k[i] = m[i] /\ b[i] = a[i] /\ b[i + 1] = a[i + 1]
  <2>1. i \in 0 .. e - 1 /\ i \in 0 .. (e + 1) - 1 /\ i \in 0 .. p /\ i + 1 \in 0 .. p
      BY <1>2
  <2> QED
      BY <1>1, <2>1
<1>8. ASSUME NEW i \in p + 1 .. e - 1
      PROVE  /\ i \in 0 .. e - 1 /\ i + 1 \in 0 .. (e + 1) - 1
             /\ k[i + 1] = m[i] /\ b[i + 1] = a[i] /\ b[(i + 1) + 1] = a[i + 1]
  <2>1. i \in 0 .. e - 1 /\ i + 1 \in 0 .. (e + 1) - 1 /\ i \in p + 1 .. e
        /\ i \in p + 1 .. e + 1 /\ i + 1 \in p + 1 .. e + 1
      BY <1>2
  <2> QED
      BY <1>1, <2>1
<1>9. Met(k, e + 1) = Met(m, e)
  <2>1. ASSUME NEW i \in 0 .. (e + 1) - 1, IsCommand(k[i]) PROVE b[i] \in Met(m, e)
    <3>1. CASE i \in 0 .. p - 1
        BY <1>5, <1>7, <2>1, <3>1
    <3>2. CASE i - 1 \in p + 1 .. e - 1 /\ i = (i - 1) + 1
      <4>1. i - 1 \in 0 .. e - 1 /\ k[i] = m[i - 1] /\ b[i] = a[i - 1]
          BY <1>8, <3>2
      <4> QED
          BY <1>5, <2>1, <4>1
    <3> QED
        BY <1>1, <1>6, <2>1, <3>1, <3>2
  <2>2. ASSUME NEW i \in 0 .. e - 1, IsCommand(m[i]) PROVE a[i] \in Met(k, e + 1)
    <3>1. CASE i \in 0 .. p - 1
        BY <1>4, <1>7, <2>2, <3>1
    <3>2. CASE i \in p + 1 .. e - 1
        BY <1>4, <1>8, <2>2, <3>2
    <3>3. i # p
        BY <2>2
    <3>4. i \in 0 .. p - 1 \/ i \in p + 1 .. e - 1
        BY <1>2, <3>3
    <3> QED
        BY <3>1, <3>2, <3>4
  <2> QED
      BY <1>4, <1>5, <2>1, <2>2
<1>10. b[e + 1] = a[e]
  <2>1. e \in p + 1 .. e + 1
      BY <1>2
  <2> QED
      BY <1>1, <2>1
<1>11. ASSUME NEW i \in 0 .. (e + 1) - 1, ~IsCommand(k[i]), NEW x \in b[i] .. b[i + 1] - 1
       PROVE  w.wave[x] = k[i].d
  <2>1. CASE i \in 0 .. p - 1
      BY <1>3, <1>7, <1>11, <2>1
  <2>2. CASE i - 1 \in p + 1 .. e - 1 /\ i = (i - 1) + 1
    <3> DEFINE j == i - 1
    <3>1. j \in p + 1 .. e - 1 /\ i = j + 1
        BY <2>2
    <3> HIDE DEF j
    <3>2. j \in 0 .. e - 1 /\ k[i] = m[j] /\ b[i] = a[j] /\ b[i + 1] = a[j + 1]
        BY <1>8, <3>1
    <3> QED
        BY <1>3, <1>11, <3>2
  <2>3. CASE i = p \/ i = p + 1
    <3>1. p \in 0 .. e + 1 /\ p + 1 \in 0 .. e + 1 /\ p + 1 \in p + 1 .. e + 1 /\ p \in 0 .. p
        BY <1>2
    <3>2. a[p] \in Nat /\ a[p + 1] \in Nat /\ b[p] = a[p] /\ b[(p + 1) + 1] = a[p + 1]
        BY <1>1, <1>2, <3>1
    <3>3. a[p] <= a[p + 1] - diff
        BY <1>2, <3>2
    <3>4. x \in a[p] .. a[p + 1] - 1
      <4>1. CASE i = p
        <5>1. x \in a[p] .. (a[p + 1] - diff) - 1
            BY <1>1, <1>11, <3>2, <4>1
        <5> QED
            BY <3>2, <5>1
      <4>2. CASE i = p + 1
        <5>1. x \in a[p + 1] - diff .. a[p + 1] - 1
            BY <1>1, <1>11, <3>2, <4>2
        <5> QED
            BY <3>2, <3>3, <5>1
      <4> QED
          BY <2>3, <4>1, <4>2
    <3>5. w.wave[x] = m[p].d
        BY <1>3, <3>4
    <3> QED
        BY <1>1, <2>3, <3>5
  <2> QED
      BY <1>6, <2>1, <2>2, <2>3
<1>12. ASSUME NEW i \in 0 .. (e + 1) - 1, IsCommand(k[i])
       PROVE  w.cmds[b[i]] = [c |-> k[i].c, d |-> k[i].d]
  <2>1. CASE i \in 0 .. p - 1
      BY <1>3, <1>7, <1>12, <2>1
  <2>2. CASE i - 1 \in p + 1 .. e - 1 /\ i = (i - 1) + 1
    <3> DEFINE j == i - 1
    <3>1. j \in p + 1 .. e - 1 /\ i = j + 1
        BY <2>2
    <3> HIDE DEF j
    <3>2. j \in 0 .. e - 1 /\ k[i] = m[j] /\ b[i] = a[j]
        BY <1>8, <3>1
    <3> QED
        BY <1>3, <1>12, <3>2
  <2> QED
      BY <1>1, <1>6, <1>12, <2>1, <2>2
<1>13. w = [total |-> b[e + 1], wave |-> [x \in 0 .. b[e + 1] - 1 |-> w.wave[x]],
            cmds |-> [x \in Met(k, e + 1) |-> w.cmds[x]]]
    BY <1>3, <1>9, <1>10
<1>14. Reads(k, e + 1, w)
    BY <1>11, <1>12, <1>13 DEF Reads, b
<1> QED
    BY <1>14 DEF k

\* The array, its end and the cell after a call of edg.
EdgeOK(m, e, tim, r, f) ==
    /\ f \in {e, e + 1} /\ Formed(r.m, f)
    /\ \A i \in Indices : i > f => r.m[i] = m[i]
    /\ At(r.m, f, r.pt, tim)
    /\ Elapsed(r.m)[f] = Elapsed(m)[e]
    /\ \A w : Reads(m, e, w) => Reads(r.m, f, w)
    /\ \A p, t \in Nat : At(m, e, p, t) => IF t < tim THEN At(r.m, f, p, t) ELSE r.pt <= p

\* A boundary that is there, or the place behind the terminator.
LEMMA Boundary ==
    ASSUME NEW m, NEW e, Formed(m, e), NEW tim \in Nat, NEW q \in Nat, At(m, e, q, tim),
           NEW r, r = [m |-> m, pt |-> q]
    PROVE  EdgeOK(m, e, tim, r, e)
<1> DEFINE a == Elapsed(m)
<1>1. /\ e \in Nat /\ \A i \in 0 .. e + 1 : a[i] \in Nat
      /\ \A i, j \in 0 .. e + 1 : i <= j => a[i] <= a[j]
      /\ \A i \in 0 .. e : ~IsCommand(m[i]) => a[i] < a[i + 1]
    BY LevelLasts
<1>2. IF tim <= a[e] THEN q \in 0 .. e /\ a[q] = tim /\ (q # 0 => ~IsCommand(m[q - 1])) ELSE q = e + 1
    BY DEF At
<1>3. ASSUME NEW p \in Nat, NEW t \in Nat, At(m, e, p, t), ~(t < tim) PROVE q <= p
  <2>1. IF t <= a[e] THEN p \in 0 .. e /\ a[p] = t ELSE p = e + 1
      BY <1>3 DEF At
  <2>2. a[e] \in Nat
    <3>1. e \in 0 .. e + 1
        BY <1>1
    <3> QED
        BY <1>1, <3>1
  <2> HIDE DEF a
  <2>3. CASE ~(t <= a[e])
      BY <1>1, <1>2, <2>1, <2>2, <2>3
  <2>4. CASE t <= a[e] /\ q # 0
    <3>1. tim <= a[e]
        BY <1>3, <2>2, <2>4
    <3> DEFINE i == q - 1
    <3>2. i \in 0 .. e /\ i + 1 = q /\ i \in 0 .. e + 1 /\ i + 1 \in 0 .. e + 1 /\ ~IsCommand(m[i])
        BY <1>1, <1>2, <2>4, <3>1
    <3> HIDE DEF i
    <3>3. a[i] < tim /\ a[i] \in Nat
        BY <1>1, <1>2, <3>1, <3>2
    <3>4. p \in 0 .. e + 1 /\ a[p] = t
        BY <1>1, <2>1, <2>4
    <3>5. ~(p <= i)
        BY <1>1, <1>3, <3>2, <3>3, <3>4
    <3> QED
        BY <1>1, <3>2, <3>4, <3>5
  <2>5. CASE q = 0
      BY <2>5
  <2> QED
      BY <2>3, <2>4, <2>5
<1>4. r.m = m /\ r.pt = q
    OBVIOUS
<1> QED
    BY <1>3, <1>4 DEF EdgeOK

\* A boundary that is made inside cell q.
LEMMA BoundaryMade ==
    ASSUME NEW m, NEW e, Formed(m, e), e + 2 <= Behind, NEW tim \in Nat, NEW q \in 0 .. e - 1,
           ~IsCommand(m[q]), Elapsed(m)[q] < tim, tim < Elapsed(m)[q + 1],
           NEW diff, diff = Elapsed(m)[q + 1] - tim,
           NEW r, r = [m |-> Split(m, q, diff), pt |-> q + 1]
    PROVE  EdgeOK(m, e, tim, r, e + 1)
<1> DEFINE k == Split(m, q, diff)
           a == Elapsed(m)
           b == Elapsed(k)
<1>1. /\ e \in Nat /\ q \in Nat /\ (\A i \in 0 .. e + 1 : a[i] \in Nat) /\ m[q].t \in Nat
      /\ a[q + 1] = a[q] + m[q].t
      /\ \A i, j \in 0 .. e + 1 : i <= j => a[i] <= a[j]
  <2>1. e \in Nat /\ q \in 0 .. e /\ q \in Nat
      BY LevelLasts
  <2> QED
      BY <2>1, LevelLasts
<1>2. a[q] < tim /\ tim < a[q + 1] /\ diff = a[q + 1] - tim
    OBVIOUS
<1>3. diff \in Nat /\ 0 < diff /\ diff < m[q].t /\ a[q] \in Nat /\ a[q + 1] \in Nat
      /\ q \in 0 .. e /\ q + 1 \in 0 .. e /\ e \in 0 .. e + 1 /\ q + 1 \in 0 .. e + 1
  <2>1. q \in 0 .. e /\ q + 1 \in 0 .. e /\ q \in 0 .. e + 1 /\ q + 1 \in 0 .. e + 1 /\ e \in 0 .. e + 1
      BY <1>1
  <2>2. a[q] \in Nat /\ a[q + 1] \in Nat
      BY <1>1, <2>1
  <2> HIDE DEF a
  <2>3. diff \in Nat /\ 0 < diff /\ diff < m[q].t
      BY <1>1, <1>2, <2>2
  <2> QED
      BY <2>1, <2>2, <2>3
<1>4. /\ Formed(k, e + 1)
      /\ \A i \in 0 .. q - 1 : k[i] = m[i]
      /\ ~IsCommand(k[q])
      /\ \A i \in Indices : i > e + 1 => k[i] = m[i]
      /\ \A i \in 0 .. q : b[i] = a[i]
      /\ b[q + 1] = a[q + 1] - diff
      /\ \A i \in q + 1 .. e + 1 : b[i + 1] = a[i]
    BY <1>3, SplitIs
<1>5. \A w : Reads(m, e, w) => Reads(k, e + 1, w)
    BY <1>3, SplitReads
<1> HIDE DEF k, a, b
<1>6. b[e + 1] = a[e]
  <2>1. e \in q + 1 .. e + 1
      BY <1>1
  <2> QED
      BY <1>4, <2>1
<1>7. a[e] \in Nat /\ tim <= a[e] /\ b[q + 1] = tim
    BY <1>1, <1>2, <1>3, <1>4
<1>8. At(k, e + 1, q + 1, tim)
  <2>1. q + 1 \in 0 .. e + 1 /\ (q + 1) - 1 = q
      BY <1>3
  <2>2. tim <= b[e + 1] /\ b[q + 1] = tim
      BY <1>6, <1>7
  <2> QED
      BY <1>4, <2>1, <2>2 DEF At, b
<1>9. ASSUME NEW p \in Nat, NEW t \in Nat, At(m, e, p, t), t < tim PROVE At(k, e + 1, p, t)
  <2>1. t <= a[e]
      BY <1>7, <1>9
  <2>2. p \in 0 .. e /\ a[p] = t /\ (p # 0 => ~IsCommand(m[p - 1]))
      BY <1>9, <2>1 DEF At, a
  <2>3. p \in 0 .. e + 1 /\ a[p] \in Nat
      BY <1>1, <2>2
  <2>4. p <= q
    <3>1. ASSUME ~(p <= q) PROVE FALSE
      <4>1. q + 1 <= p
          BY <1>1, <3>1
      <4>2. a[q + 1] <= a[p]
          BY <1>1, <1>3, <2>3, <4>1
      <4> QED
          BY <1>2, <1>3, <1>9, <2>2, <2>3, <4>2
    <3> QED
        BY <3>1
  <2>5. p \in 0 .. q /\ (p # 0 => p - 1 \in 0 .. q - 1)
      BY <1>1, <2>2, <2>4
  <2>6. b[p] = t /\ (p # 0 => ~IsCommand(k[p - 1])) /\ t <= b[e + 1]
      BY <1>4, <1>6, <2>1, <2>2, <2>5
  <2> QED
      BY <2>3, <2>6 DEF At, b
<1>10. ASSUME NEW p \in Nat, NEW t \in Nat, At(m, e, p, t), ~(t < tim) PROVE q + 1 <= p
  <2>1. CASE ~(t <= a[e])
    <3>1. p = e + 1
        BY <1>10, <2>1 DEF At, a
    <3> QED
        BY <1>1, <3>1
  <2>2. CASE t <= a[e]
    <3>1. p \in 0 .. e /\ a[p] = t
        BY <1>10, <2>2 DEF At, a
    <3>2. p \in 0 .. e + 1 /\ q \in 0 .. e + 1 /\ a[p] \in Nat
        BY <1>1, <3>1
    <3>3. ~(p <= q)
      <4>1. ASSUME p <= q PROVE FALSE
        <5>1. a[p] <= a[q]
            BY <1>1, <3>2, <4>1
        <5> QED
            BY <1>2, <1>3, <1>10, <3>1, <5>1
      <4> QED
          BY <4>1
    <3> QED
        BY <1>1, <3>2, <3>3
  <2> QED
      BY <2>1, <2>2
<1>11. r.m = k /\ r.pt = q + 1
    BY DEF k
<1>12. Elapsed(k)[e + 1] = Elapsed(m)[e]
    BY <1>6 DEF a, b
<1> QED
    BY <1>4, <1>5, <1>8, <1>9, <1>10, <1>11, <1>12 DEF EdgeOK

LEMMA EdgeIs ==
    ASSUME NEW m, NEW e, Formed(m, e), e + 2 <= Behind, NEW tim \in Nat
    PROVE  \E f : EdgeOK(m, e, tim, Edge(m, tim), f)
<1> DEFINE a == Elapsed(m)
           r == Edge(m, tim)
           at == Found(m, tim)
<1>1. e \in Nat /\ a[0] = 0 /\ \A i \in 0 .. e + 1 : a[i] \in Nat
    BY LevelLasts
<1>2. a[e] \in Nat
  <2>1. e \in 0 .. e + 1
      BY <1>1
  <2> QED
      BY <1>1, <2>1
<1>3. CASE tim = 0
  <2>1. r = [m |-> m, pt |-> 0]
      BY <1>3 DEF Edge
  <2>2. At(m, e, 0, tim)
      BY <1>1, <1>2, <1>3 DEF At
  <2> QED
      BY <2>1, <2>2, Boundary
<1>4. CASE tim # 0
  <2>0. tim \in Nat \ {0}
      BY <1>4
  <2>1. \/ /\ tim <= a[e] /\ at.pt \in 0 .. e - 1 /\ ~IsCommand(m[at.pt])
           /\ a[at.pt] < tim /\ tim <= a[at.pt + 1] /\ at.diff = a[at.pt + 1] - tim
        \/ a[e] < tim /\ at = [pt |-> e, diff |-> 0]
      BY <2>0, FoundIs
  <2>2. r = IF at.diff = 0 THEN [m |-> m, pt |-> at.pt + 1]
            ELSE [m |-> Split(m, at.pt, at.diff), pt |-> at.pt + 1]
      BY <1>4 DEF Edge
  <2> DEFINE q == at.pt
             d == at.diff
  <2>3. CASE a[e] < tim /\ at = [pt |-> e, diff |-> 0]
    <3>1. q = e /\ d = 0
        BY <2>3
    <3>2. r = [m |-> m, pt |-> e + 1] /\ e + 1 \in Nat
        BY <1>1, <2>2, <3>1
    <3>3. At(m, e, e + 1, tim)
        BY <1>2, <2>3 DEF At
    <3> QED
        BY <3>2, <3>3, Boundary
  <2>4. CASE /\ tim <= a[e] /\ q \in 0 .. e - 1 /\ ~IsCommand(m[q])
             /\ a[q] < tim /\ tim <= a[q + 1] /\ d = a[q + 1] - tim
    <3> HIDE DEF q, d
    <3>1. q + 1 \in 0 .. e /\ q + 1 \in 0 .. e + 1 /\ q + 1 \in Nat /\ (q + 1) - 1 = q /\ a[q + 1] \in Nat
        BY <1>1, <2>4
    <3>2. CASE d = 0
      <4>1. a[q + 1] = tim
        <5> HIDE DEF a
        <5> QED
            BY <2>4, <3>1, <3>2
      <4>2. At(m, e, q + 1, tim)
          BY <2>4, <3>1, <4>1 DEF At
      <4>3. r = [m |-> m, pt |-> q + 1]
          BY <2>2, <3>2 DEF q, d
      <4> QED
          BY <3>1, <4>2, <4>3, Boundary
    <3>3. CASE d # 0
      <4>1. tim < a[q + 1]
        <5> HIDE DEF a
        <5> QED
            BY <2>4, <3>1, <3>3
      <4>2. r = [m |-> Split(m, q, d), pt |-> q + 1]
          BY <2>2, <3>3 DEF q, d
      <4> QED
          BY <2>4, <4>1, <4>2, BoundaryMade
    <3> QED
        BY <3>2, <3>3
  <2> QED
      BY <2>1, <2>3, <2>4
<1> QED
    BY <1>3, <1>4

-----------------------------------------------------------------------------
\* lvl.

\* What lies before a boundary is over before its time, the rest is not.
LEMMA AtSide ==
    ASSUME NEW m, NEW e, Formed(m, e), NEW p \in Nat, NEW tim \in Nat, At(m, e, p, tim)
    PROVE  \A i \in 0 .. e - 1 :
              /\ i < p => Elapsed(m)[i + 1] <= tim /\ (IsCommand(m[i]) => Elapsed(m)[i] < tim)
              /\ p <= i => tim <= Elapsed(m)[i]
<1> DEFINE a == Elapsed(m)
<1>1. /\ e \in Nat /\ \A i \in 0 .. e + 1 : a[i] \in Nat
      /\ \A i, j \in 0 .. e + 1 : i <= j => a[i] <= a[j]
      /\ \A i \in 0 .. e : ~IsCommand(m[i]) => a[i] < a[i + 1]
    BY LevelLasts
<1>2. IF tim <= a[e] THEN p \in 0 .. e /\ a[p] = tim /\ (p # 0 => ~IsCommand(m[p - 1])) ELSE p = e + 1
    BY DEF At
<1> HIDE DEF a
<1> SUFFICES ASSUME NEW i \in 0 .. e - 1
             PROVE  /\ i < p => a[i + 1] <= tim /\ (IsCommand(m[i]) => a[i] < tim)
                    /\ p <= i => tim <= a[i]
    BY DEF a
<1>3. i \in 0 .. e + 1 /\ i + 1 \in 0 .. e + 1 /\ e \in 0 .. e + 1 /\ i <= e /\ i + 1 <= e /\ i \in Nat
    BY <1>1
<1>4. a[i] \in Nat /\ a[i + 1] \in Nat /\ a[e] \in Nat /\ a[i] <= a[e] /\ a[i + 1] <= a[e]
    BY <1>1, <1>3
<1>5. CASE ~(tim <= a[e])
    BY <1>2, <1>3, <1>4, <1>5
<1>6. CASE tim <= a[e]
  <2>1. p \in 0 .. e /\ p \in 0 .. e + 1 /\ a[p] = tim
      BY <1>1, <1>2, <1>6
  <2>2. p <= i => tim <= a[i]
      BY <1>1, <1>3, <2>1
  <2>3. i < p => a[i + 1] <= tim
      BY <1>1, <1>3, <2>1
  <2>4. ASSUME i < p, IsCommand(m[i]) PROVE a[i] < tim
    <3> DEFINE j == p - 1
    <3>1. j \in 0 .. e /\ j \in 0 .. e + 1 /\ j + 1 = p /\ i <= j
        BY <1>1, <1>3, <2>1, <2>4
    <3>2. ~IsCommand(m[j])
        BY <1>2, <1>3, <1>6, <2>4
    <3> HIDE DEF j
    <3>3. a[i] <= a[j] /\ a[j] < a[p] /\ a[j] \in Nat
        BY <1>1, <1>3, <3>1, <3>2
    <3> QED
        BY <1>4, <2>1, <3>3
  <2> QED
      BY <2>2, <2>3, <2>4
<1> QED
    BY <1>5, <1>6

\* The data of the cells p to q - 1 changed.
Painted(m, p, q, mask, pat) ==
    [i \in Indices |-> IF p <= i /\ i < q THEN [m[i] EXCEPT !.d = (@ \cap mask) \union pat] ELSE m[i]]

LEMMA PaintedIs ==
    ASSUME NEW m, NEW e, Formed(m, e), NEW p \in Nat, NEW q \in Nat,
           NEW mask, NEW pat, pat \subseteq Bits
    PROVE  LET n == Painted(m, p, q, mask, pat)
           IN  /\ Formed(n, e)
               /\ \A i \in 0 .. e + 1 : Elapsed(n)[i] = Elapsed(m)[i]
               /\ \A i \in 0 .. e : /\ n[i].c = m[i].c
                                    /\ p <= i /\ i < q => n[i].d = (m[i].d \cap mask) \union pat
                                    /\ ~(p <= i /\ i < q) => n[i].d = m[i].d
<1> DEFINE n == Painted(m, p, q, mask, pat)
<1>1. Behind \in Nat /\ Indices = 0 .. Behind /\ e \in 0 .. Behind /\ m \in [Indices -> Cells]
    BY BehindIs DEF Formed
<1>2. n = [i \in Indices |-> IF p <= i /\ i < q THEN [m[i] EXCEPT !.d = (@ \cap mask) \union pat] ELSE m[i]]
    BY DEF Painted
<1> HIDE DEF n
<1>3. ASSUME NEW i \in Indices
      PROVE  /\ n[i] \in Cells /\ n[i].c = m[i].c /\ n[i].t = m[i].t
             /\ p <= i /\ i < q => n[i].d = (m[i].d \cap mask) \union pat
             /\ ~(p <= i /\ i < q) => n[i].d = m[i].d
  <2>1. m[i] \in [c : Kinds, t : Nat, d : SUBSET Bits]
      BY <1>1 DEF Cells
  <2>2. n[i] = IF p <= i /\ i < q THEN [m[i] EXCEPT !.d = (@ \cap mask) \union pat] ELSE m[i]
      BY <1>2
  <2> QED
      BY <2>1, <2>2 DEF Cells
<1>4. n \in [Indices -> Cells]
    BY <1>2, <1>3
<1>5. \A i \in 0 .. e : i \in Indices
    BY <1>1
<1>6. \A i \in Indices : IsCommand(n[i]) = IsCommand(m[i])
    BY <1>3 DEF IsCommand
<1>7. Formed(n, e)
  <2>1. n[e].c = "end"
    <3>1. e \in Indices
        BY <1>1
    <3> QED
        BY <1>3, <3>1 DEF Formed
  <2>2. \A i \in 0 .. e - 1 : i \in Indices /\ i + 1 \in Indices
      BY <1>1
  <2>3. \A i \in 0 .. e - 1 : n[i].c # "end"
      BY <1>3, <2>2 DEF Formed
  <2>4. \A i \in 0 .. e : (n[i].t = 0) = IsCommand(n[i])
      BY <1>3, <1>5, <1>6 DEF Formed
  <2>5. \A i \in 0 .. e - 1 : IsCommand(n[i]) => ~IsCommand(n[i + 1])
      BY <1>6, <2>2 DEF Formed
  <2> QED
      BY <1>1, <1>4, <2>1, <2>3, <2>4, <2>5 DEF Formed
<1>8. \A i \in 0 .. e + 1 : Elapsed(n)[i] = Elapsed(m)[i]
  <2> DEFINE z == 0
             r == e + 1
  <2>1. z \in Nat /\ r \in Nat /\ \A j \in 0 .. r : z + j = j
      BY <1>1
  <2>2. Alike(n, z, m, z, r)
    <3>1. z + r <= Behind + 1 /\ Elapsed(n)[z] = Elapsed(m)[z]
        BY <1>1, <1>4, ElapsedIs
    <3>2. \A j \in 0 .. r - 1 : z + j \in Indices
        BY <1>1
    <3>3. \A j \in 0 .. r - 1 : n[z + j].t = m[z + j].t
        BY <1>3, <3>2
    <3> QED
        BY <3>1, <3>3 DEF Alike
  <2> HIDE DEF z
  <2>3. \A j \in 0 .. r : Elapsed(n)[z + j] = Elapsed(m)[z + j]
    <3> HIDE DEF r
    <3> QED
        BY <1>1, <1>4, <2>1, <2>2, SameTimes
  <2> QED
      BY <2>1, <2>3
<1> QED
    BY <1>3, <1>5, <1>7, <1>8 DEF n

LEMMA PaintedReads ==
    ASSUME NEW m, NEW e, Formed(m, e), NEW st \in Int, NEW ed \in Int,
           NEW p \in Nat, NEW q \in Nat, At(m, e, p, Tick(st)), At(m, e, q, Tick(ed)),
           NEW mask, NEW pat, pat \subseteq Bits, NEW w, Reads(m, e, w)
    PROVE  Reads(Painted(m, p, q, mask, pat), e, PW!Level(w, st, ed, mask, pat))
<1> DEFINE n == Painted(m, p, q, mask, pat)
           a == Elapsed(m)
           b == Elapsed(n)
           M == Met(m, e)
           v == PW!Level(w, st, ed, mask, pat)
           Changed(d) == (d \cap mask) \union pat
           Edited(x, d) == IF Tick(st) <= x /\ x < Tick(ed) THEN Changed(d) ELSE d
<1>1. /\ e \in Nat /\ (\A i \in 0 .. e + 1 : a[i] \in Nat)
      /\ Tick(st) \in Nat /\ Tick(ed) \in Nat
      /\ \A i \in 0 .. e : ~IsCommand(m[i]) => a[i] < a[i + 1]
    BY LevelLasts DEF Tick
<1>2. /\ Formed(n, e)
      /\ \A i \in 0 .. e + 1 : b[i] = a[i]
      /\ \A i \in 0 .. e : n[i].c = m[i].c
                           /\ (p <= i /\ i < q => n[i].d = Changed(m[i].d))
                           /\ (~(p <= i /\ i < q) => n[i].d = m[i].d)
    BY PaintedIs
<1>3. \A i \in 0 .. e - 1 : /\ (i < p => a[i + 1] <= Tick(st) /\ (IsCommand(m[i]) => a[i] < Tick(st)))
                            /\ (p <= i => Tick(st) <= a[i])
    BY <1>1, AtSide
<1>4. \A i \in 0 .. e - 1 : /\ (i < q => a[i + 1] <= Tick(ed) /\ (IsCommand(m[i]) => a[i] < Tick(ed)))
                            /\ (q <= i => Tick(ed) <= a[i])
    BY <1>1, AtSide
<1>5. /\ w = [total |-> a[e], wave |-> [x \in 0 .. a[e] - 1 |-> w.wave[x]],
              cmds |-> [x \in M |-> w.cmds[x]]]
      /\ \A i \in 0 .. e - 1 : ~IsCommand(m[i]) => \A x \in a[i] .. a[i + 1] - 1 : w.wave[x] = m[i].d
      /\ \A i \in 0 .. e - 1 : IsCommand(m[i]) => w.cmds[a[i]] = [c |-> m[i].c, d |-> m[i].d]
    BY DEF Reads
<1>6. M = {a[i] : i \in {j \in 0 .. e - 1 : IsCommand(m[j])}}
    BY DEF Met
<1>7. Met(n, e) = {b[i] : i \in {j \in 0 .. e - 1 : IsCommand(n[j])}}
    BY DEF Met
<1>8. /\ DOMAIN w.wave = 0 .. a[e] - 1 /\ DOMAIN w.cmds = M /\ w.total = a[e]
    <2> DEFINE fw == [x \in 0 .. a[e] - 1 |-> w.wave[x]]
               fc == [x \in M |-> w.cmds[x]]
    <2>1. DOMAIN fw = 0 .. a[e] - 1 /\ DOMAIN fc = M /\ w = [total |-> a[e], wave |-> fw, cmds |-> fc]
        BY <1>5
    <2> HIDE DEF fw, fc, a, M
    <2> QED
        BY <2>1
<1>9. v = [total |-> a[e], wave |-> [x \in 0 .. a[e] - 1 |-> Edited(x, w.wave[x])],
           cmds |-> [x \in M |-> [c |-> w.cmds[x].c, d |-> Edited(x, w.cmds[x].d)]]]
  <2>1. PW!Level(w, st, ed, mask, pat) =
          [total |-> w.total,
           wave |-> [x \in DOMAIN w.wave |-> Edited(x, w.wave[x])],
           cmds |-> [x \in DOMAIN w.cmds |-> [c |-> w.cmds[x].c, d |-> Edited(x, w.cmds[x].d)]]]
      BY DEF PW!Level, PW!Tick, Tick
  <2> HIDE DEF a, M, Edited
  <2>2. w = [total |-> a[e], wave |-> w.wave, cmds |-> w.cmds]
      BY <1>5, <1>8
  <2> QED
      BY <1>8, <2>1, <2>2
<1> HIDE DEF n, a, b, M, v, Changed
<1>10. \A i \in 0 .. e - 1 : /\ i \in 0 .. e /\ i \in 0 .. e + 1 /\ i + 1 \in 0 .. e + 1
                             /\ b[i] = a[i] /\ b[i + 1] = a[i + 1] /\ IsCommand(n[i]) = IsCommand(m[i])
                             /\ a[i] \in Nat /\ a[i + 1] \in Nat
  <2>1. \A i \in 0 .. e - 1 : i \in 0 .. e /\ i \in 0 .. e + 1 /\ i + 1 \in 0 .. e + 1
      BY <1>1
  <2> QED
      BY <1>1, <1>2, <2>1 DEF IsCommand
<1>11. Met(n, e) = M
    BY <1>6, <1>7, <1>10
<1>12. ASSUME NEW i \in 0 .. e - 1, NEW x \in Nat, NEW d, p <= i, i < q => x < Tick(ed),
              ~(i < q) => Tick(ed) <= x, Tick(st) <= x
       PROVE  Edited(x, d) = IF p <= i /\ i < q THEN Changed(d) ELSE d
    BY <1>1, <1>12
<1>13. ASSUME NEW i \in 0 .. e - 1, ~IsCommand(m[i]), NEW x \in a[i] .. a[i + 1] - 1
       PROVE  v.wave[x] = n[i].d
  <2>1. a[i] \in Nat /\ a[i + 1] \in Nat /\ a[e] \in Nat /\ a[i + 1] <= a[e] /\ i \in 0 .. e
    <3>1. i \in 0 .. e /\ i + 1 \in 0 .. e + 1 /\ e \in 0 .. e + 1 /\ i + 1 <= e
        BY <1>1
    <3>2. a[i + 1] <= a[e]
        BY <3>1, LevelLasts DEF a
    <3> QED
        BY <1>1, <1>10, <3>1, <3>2
  <2>2. x \in Nat /\ a[i] <= x /\ x < a[i + 1] /\ x \in 0 .. a[e] - 1
      BY <2>1
  <2>3. v.wave[x] = Edited(x, m[i].d)
      BY <1>5, <1>9, <1>13, <2>2
  <2>4. CASE p <= i /\ i < q
    <3>1. Tick(st) <= x /\ x < Tick(ed)
        BY <1>1, <1>3, <1>4, <2>1, <2>2, <2>4
    <3> QED
        BY <1>2, <2>1, <2>3, <2>4, <3>1
  <2>5. CASE i < p
    <3>1. ~(Tick(st) <= x) /\ ~(p <= i)
        BY <1>1, <1>3, <2>1, <2>2, <2>5
    <3> QED
        BY <1>2, <2>1, <2>3, <3>1
  <2>6. CASE q <= i
    <3>1. ~(x < Tick(ed)) /\ ~(i < q)
        BY <1>1, <1>4, <2>1, <2>2, <2>6
    <3> QED
        BY <1>2, <2>1, <2>3, <3>1
  <2> QED
      BY <2>1, <2>4, <2>5, <2>6
<1>14. ASSUME NEW i \in 0 .. e - 1, IsCommand(m[i])
       PROVE  v.cmds[a[i]] = [c |-> n[i].c, d |-> n[i].d]
  <2>1. a[i] \in Nat /\ i \in 0 .. e /\ a[i] \in M
      BY <1>6, <1>10, <1>14
  <2>2. w.cmds[a[i]].c = m[i].c /\ w.cmds[a[i]].d = m[i].d
    <3>1. w.cmds[a[i]] = [c |-> m[i].c, d |-> m[i].d]
        BY <1>5, <1>14
    <3> QED
        BY <3>1
  <2>3. v.cmds[a[i]] = [c |-> m[i].c, d |-> Edited(a[i], m[i].d)]
      BY <1>9, <2>1, <2>2
  <2>4. CASE p <= i /\ i < q
    <3>1. Tick(st) <= a[i] /\ a[i] < Tick(ed)
        BY <1>3, <1>4, <1>14, <2>4
    <3> QED
        BY <1>2, <2>1, <2>3, <2>4, <3>1
  <2>5. CASE i < p
    <3>1. ~(Tick(st) <= a[i]) /\ ~(p <= i)
        BY <1>1, <1>3, <1>14, <2>1, <2>5
    <3> QED
        BY <1>2, <2>1, <2>3, <3>1
  <2>6. CASE q <= i
    <3>1. ~(a[i] < Tick(ed)) /\ ~(i < q)
        BY <1>1, <1>4, <2>1, <2>6
    <3> QED
        BY <1>2, <2>1, <2>3, <3>1
  <2> QED
      BY <2>1, <2>4, <2>5, <2>6
<1>15. v = [total |-> b[e], wave |-> [x \in 0 .. b[e] - 1 |-> v.wave[x]],
            cmds |-> [x \in Met(n, e) |-> v.cmds[x]]]
  <2>1. b[e] = a[e]
    <3>1. e \in 0 .. e + 1
        BY <1>1
    <3> QED
        BY <1>2, <3>1
  <2> DEFINE vw == [x \in 0 .. a[e] - 1 |-> Edited(x, w.wave[x])]
             vc == [x \in M |-> [c |-> w.cmds[x].c, d |-> Edited(x, w.cmds[x].d)]]
  <2>2. v.wave = vw /\ v.cmds = vc /\ v = [total |-> a[e], wave |-> vw, cmds |-> vc]
      BY <1>9
  <2>3. vw = [x \in 0 .. a[e] - 1 |-> vw[x]] /\ vc = [x \in M |-> vc[x]]
      OBVIOUS
  <2> HIDE DEF vw, vc
  <2> QED
      BY <1>11, <2>1, <2>2, <2>3
<1>16. \A i \in 0 .. e - 1 : ~IsCommand(n[i]) => \A x \in b[i] .. b[i + 1] - 1 : v.wave[x] = n[i].d
    BY <1>10, <1>13
<1>17. \A i \in 0 .. e - 1 : IsCommand(n[i]) => v.cmds[b[i]] = [c |-> n[i].c, d |-> n[i].d]
    BY <1>10, <1>14
<1>18. Reads(n, e, v)
    BY <1>15, <1>16, <1>17 DEF Reads, b
<1> QED
    BY <1>18 DEF n, v

\* An edit of the array with its terminator in cell e, and in cell f after it:
\* two cells more at most, and the same time.
Edit(m, e, n, f) ==
    /\ f \in e .. e + 2 /\ Formed(n, f)
    /\ \A i \in Indices : i > f => n[i] = m[i]
    /\ Elapsed(n)[f] = Elapsed(m)[e]

\* A level that ends before it starts.
LEMMA EmptyLevel ==
    ASSUME NEW m, NEW e, Formed(m, e), NEW st \in Int, NEW ed \in Int, ~(Tick(st) < Tick(ed)),
           NEW mask, NEW pat, NEW w, Reads(m, e, w)
    PROVE  PW!Level(w, st, ed, mask, pat) = w
<1> DEFINE a == Elapsed(m)
           M == Met(m, e)
           Edited(x, d) == IF Tick(st) <= x /\ x < Tick(ed) THEN (d \cap mask) \union pat ELSE d
           v == PW!Level(w, st, ed, mask, pat)
<1>1. /\ w = [total |-> a[e], wave |-> [x \in 0 .. a[e] - 1 |-> w.wave[x]],
              cmds |-> [x \in M |-> w.cmds[x]]]
      /\ \A i \in 0 .. e - 1 : IsCommand(m[i]) => w.cmds[a[i]] = [c |-> m[i].c, d |-> m[i].d]
    BY DEF Reads
<1>2. M = {a[i] : i \in {j \in 0 .. e - 1 : IsCommand(m[j])}}
    BY DEF Met
<1>3. v = [total |-> w.total,
           wave |-> [x \in DOMAIN w.wave |-> Edited(x, w.wave[x])],
           cmds |-> [x \in DOMAIN w.cmds |-> [c |-> w.cmds[x].c, d |-> Edited(x, w.cmds[x].d)]]]
    BY DEF PW!Level, PW!Tick, Tick
<1>4. a[e] \in Nat /\ Tick(st) \in Nat /\ Tick(ed) \in Nat /\ \A i \in 0 .. e - 1 : a[i] \in Nat
  <2>1. e \in 0 .. e + 1 /\ \A i \in 0 .. e - 1 : i \in 0 .. e + 1
      BY LevelLasts
  <2> QED
      BY <2>1, LevelLasts DEF Tick
<1> HIDE DEF a, v
<1>5. \A x \in M : x \in Nat /\ w.cmds[x] = [c |-> w.cmds[x].c, d |-> w.cmds[x].d]
  <2> TAKE x \in M
  <2>1. PICK i \in 0 .. e - 1 : IsCommand(m[i]) /\ x = a[i]
      BY <1>2
  <2>2. w.cmds[x] = [c |-> m[i].c, d |-> m[i].d]
      BY <1>1, <2>1
  <2> QED
      BY <1>4, <2>1, <2>2
<1> HIDE DEF M
<1>6. /\ DOMAIN w.wave = 0 .. a[e] - 1 /\ w.wave = [x \in 0 .. a[e] - 1 |-> w.wave[x]]
      /\ DOMAIN w.cmds = M /\ w.cmds = [x \in M |-> w.cmds[x]]
      /\ w = [total |-> a[e], wave |-> w.wave, cmds |-> w.cmds]
  <2> DEFINE fw == [x \in 0 .. a[e] - 1 |-> w.wave[x]]
             fc == [x \in M |-> w.cmds[x]]
  <2>1. DOMAIN fw = 0 .. a[e] - 1 /\ DOMAIN fc = M /\ w = [total |-> a[e], wave |-> fw, cmds |-> fc]
      BY <1>1
  <2>2. w.wave = fw /\ w.cmds = fc
    <3> HIDE DEF fw, fc
    <3> QED
        BY <2>1
  <2> QED
      BY <2>1, <2>2
<1>7. \A x \in Nat : \A d : Edited(x, d) = d
    BY <1>4
<1> HIDE DEF Edited
<1>8. [x \in DOMAIN w.wave |-> Edited(x, w.wave[x])] = w.wave
  <2>1. \A x \in 0 .. a[e] - 1 : x \in Nat
      BY <1>4
  <2> QED
      BY <1>6, <1>7, <2>1
<1>9. [x \in DOMAIN w.cmds |-> [c |-> w.cmds[x].c, d |-> Edited(x, w.cmds[x].d)]] = w.cmds
  <2>1. ASSUME NEW x \in M
        PROVE  [c |-> w.cmds[x].c, d |-> Edited(x, w.cmds[x].d)] = w.cmds[x]
    <3>1. Edited(x, w.cmds[x].d) = w.cmds[x].d
        BY <1>5, <1>7
    <3>2. w.cmds[x] = [c |-> w.cmds[x].c, d |-> w.cmds[x].d]
        BY <1>5
    <3> QED
        BY <3>1, <3>2, Zenon
  <2>2. [x \in M |-> [c |-> w.cmds[x].c, d |-> Edited(x, w.cmds[x].d)]] = [x \in M |-> w.cmds[x]]
      BY <2>1, Zenon
  <2> QED
      BY <1>6, <2>2, Zenon
<1>10. v = w
  <2>1. v = [total |-> w.total, wave |-> w.wave, cmds |-> w.cmds]
      BY <1>3, <1>8, <1>9, Zenon
  <2>2. w.total = a[e]
      BY <1>6
  <2> QED
      BY <1>6, <2>1, <2>2, Zenon
<1> QED
    BY <1>10 DEF v

LEMMA LvlIs ==
    ASSUME NEW m, NEW e, Formed(m, e), e + 3 <= Behind, NEW st \in Int, NEW ed \in Int,
           NEW mask, NEW pat, pat \subseteq Bits
    PROVE  \E f : /\ Edit(m, e, LvlOf(m, Tick(st), Tick(ed), mask, pat), f)
                  /\ \A w : Reads(m, e, w) => Reads(LvlOf(m, Tick(st), Tick(ed), mask, pat), f,
                                                    PW!Level(w, st, ed, mask, pat))
<1> DEFINE s == Edge(m, Tick(st))
           r == Edge(s.m, Tick(ed))
           n == LvlOf(m, Tick(st), Tick(ed), mask, pat)
<1>1. e \in Nat /\ Behind \in Nat /\ Indices = 0 .. Behind /\ Tick(st) \in Nat /\ Tick(ed) \in Nat
      /\ e + 2 <= Behind
    BY BehindIs DEF Formed, Tick
<1>2. PICK f : EdgeOK(m, e, Tick(st), s, f)
    BY <1>1, EdgeIs
<1>3. f \in {e, e + 1} /\ Formed(s.m, f) /\ At(s.m, f, s.pt, Tick(st)) /\ f + 2 <= Behind
      /\ f \in Nat
    BY <1>1, <1>2 DEF EdgeOK
<1>4. PICK g : EdgeOK(s.m, f, Tick(ed), r, g)
    BY <1>1, <1>3, EdgeIs
<1>5. g \in {f, f + 1} /\ Formed(r.m, g) /\ At(r.m, g, r.pt, Tick(ed)) /\ g \in Nat /\ g \in e .. e + 2
  <2>1. g \in {f, f + 1} /\ Formed(r.m, g) /\ At(r.m, g, r.pt, Tick(ed))
      BY <1>4 DEF EdgeOK
  <2> QED
      BY <1>1, <1>3, <2>1
<1>6. s.pt \in Nat /\ s.pt <= f + 1 /\ r.pt \in Nat /\ r.pt <= g + 1
  <2>1. s.pt \in 0 .. f \/ s.pt = f + 1
      BY <1>3 DEF At
  <2>2. r.pt \in 0 .. g \/ r.pt = g + 1
      BY <1>5 DEF At
  <2> QED
      BY <1>3, <1>5, <2>1, <2>2
<1>7. n = Painted(r.m, s.pt, r.pt, mask, pat)
    BY DEF LvlOf, Painted
<1> HIDE DEF s, r, n
<1>8. /\ Formed(n, g)
      /\ \A i \in 0 .. g + 1 : Elapsed(n)[i] = Elapsed(r.m)[i]
    BY <1>5, <1>6, <1>7, PaintedIs
<1>9. \A i \in Indices : i > g => n[i] = m[i]
  <2> SUFFICES ASSUME NEW i \in Indices, i > g PROVE n[i] = m[i]
      OBVIOUS
  <2>1. i > f /\ ~(i < r.pt)
      BY <1>1, <1>3, <1>5, <1>6
  <2>2. n[i] = r.m[i]
      BY <1>7, <2>1 DEF Painted
  <2>3. r.m[i] = s.m[i]
      BY <1>4 DEF EdgeOK
  <2>4. s.m[i] = m[i]
      BY <1>2, <2>1 DEF EdgeOK
  <2> QED
      BY <2>2, <2>3, <2>4
<1>10. Elapsed(n)[g] = Elapsed(m)[e]
  <2>1. g \in 0 .. g + 1
      BY <1>5
  <2>2. Elapsed(r.m)[g] = Elapsed(s.m)[f] /\ Elapsed(s.m)[f] = Elapsed(m)[e]
      BY <1>2, <1>4 DEF EdgeOK
  <2> QED
      BY <1>8, <2>1, <2>2
<1>11. Edit(m, e, n, g)
    BY <1>5, <1>8, <1>9, <1>10 DEF Edit
<1>12. ASSUME NEW w, Reads(m, e, w) PROVE Reads(n, g, PW!Level(w, st, ed, mask, pat))
  <2>1. Reads(r.m, g, w)
      BY <1>2, <1>4, <1>12 DEF EdgeOK
  <2>2. CASE Tick(st) < Tick(ed)
    <3>1. At(r.m, g, s.pt, Tick(st))
        BY <1>1, <1>3, <1>4, <1>6, <2>2 DEF EdgeOK
    <3> QED
        BY <1>5, <1>6, <1>7, <2>1, <3>1, PaintedReads
  <2>3. CASE ~(Tick(st) < Tick(ed))
    <3>1. r.pt <= s.pt
        BY <1>1, <1>3, <1>4, <1>6, <2>3 DEF EdgeOK
    <3>2. n = r.m
      <4>1. \A i \in Indices : ~(s.pt <= i /\ i < r.pt)
          BY <1>1, <1>6, <3>1
      <4>2. r.m \in [Indices -> Cells]
          BY <1>5 DEF Formed
      <4>3. n = [i \in Indices |-> r.m[i]]
          BY <1>7, <4>1 DEF Painted
      <4> QED
          BY <4>2, <4>3
    <3>3. PW!Level(w, st, ed, mask, pat) = w
        BY <1>5, <2>1, <2>3, EmptyLevel
    <3> QED
        BY <2>1, <3>2, <3>3
  <2> QED
      BY <2>2, <2>3
<1> QED
    BY <1>11, <1>12 DEF n

-----------------------------------------------------------------------------
\* com.

\* The cell of a command.
IsCom(cell) == cell \in Cells /\ cell.c \in Codes /\ cell.t = 0
Put(m, p, cell) == [m EXCEPT ![p] = cell]

\* The command of the cell is another one.
LEMMA OverwriteIs ==
    ASSUME NEW m, NEW e, Formed(m, e), NEW p \in 0 .. e - 1, IsCommand(m[p]),
           NEW cell, IsCom(cell)
    PROVE  LET n == Put(m, p, cell)
           IN  /\ Formed(n, e)
               /\ n[p] = cell /\ IsCommand(cell) /\ \A i \in Indices : i # p => n[i] = m[i]
               /\ \A i \in 0 .. e + 1 : Elapsed(n)[i] = Elapsed(m)[i]
<1> DEFINE n == Put(m, p, cell)
<1>1. /\ Behind \in Nat /\ Indices = 0 .. Behind /\ e \in 0 .. Behind /\ m \in [Indices -> Cells]
      /\ m[e].c = "end" /\ (\A i \in 0 .. e - 1 : m[i].c # "end")
      /\ (\A i \in 0 .. e : (m[i].t = 0) = IsCommand(m[i]))
      /\ \A i \in 0 .. e - 1 : IsCommand(m[i]) => ~IsCommand(m[i + 1])
    BY BehindIs DEF Formed
<1>2. p \in Indices /\ p # e /\ e \in Indices /\ p \in 0 .. e
    BY <1>1
<1>3. n \in [Indices -> Cells] /\ n[p] = cell /\ \A i \in Indices : i # p => n[i] = m[i]
    BY <1>1, <1>2 DEF IsCom, Put
<1> HIDE DEF n
<1>3m. m \in [Indices -> Cells] /\ n \in [Indices -> Cells]
    BY <1>1, <1>3
<1>4. cell.c # "end" /\ IsCommand(cell)
    BY SizeAssumption DEF IsCom, IsCommand
<1>5. \A i \in 0 .. e : i \in Indices
    BY <1>1
<1>6. m[p].t = 0
    BY <1>1, <1>2
<1>7. Formed(n, e)
  <2>1. n[e].c = "end"
      BY <1>1, <1>2, <1>3
  <2>2. ASSUME NEW i \in 0 .. e - 1 PROVE n[i].c # "end"
    <3>1. i \in Indices
        BY <1>1
    <3> QED
        BY <1>1, <1>3, <1>4, <3>1
  <2>3. ASSUME NEW i \in 0 .. e PROVE (n[i].t = 0) = IsCommand(n[i])
    <3>1. CASE i = p
        BY <1>3, <1>4, <3>1 DEF IsCom
    <3>2. CASE i # p
        BY <1>1, <1>3, <1>5, <3>2
    <3> QED
        BY <3>1, <3>2
  <2>4. ASSUME NEW i \in 0 .. e - 1, IsCommand(n[i]) PROVE ~IsCommand(n[i + 1])
    <3>1. i \in Indices /\ i + 1 \in Indices /\ i \in 0 .. e /\ i + 1 \in 0 .. e
        BY <1>1
    <3>2. IsCommand(m[i])
        BY <1>3, <2>4, <3>1
    <3>3. ~IsCommand(m[i + 1])
        BY <1>1, <3>2
    <3>4. i + 1 # p
        BY <3>3
    <3> QED
        BY <1>3, <3>1, <3>3, <3>4
  <2> QED
      BY <1>1, <1>3, <2>1, <2>2, <2>3, <2>4 DEF Formed
<1>8. \A i \in 0 .. e + 1 : Elapsed(n)[i] = Elapsed(m)[i]
  <2>0. Elapsed(n)[0] = 0 /\ Elapsed(m)[0] = 0
      BY <1>3m, ElapsedIs
  <2> DEFINE z == 0
             r == e + 1
  <2>1. z \in Nat /\ r \in Nat /\ \A j \in 0 .. r : z + j = j
      BY <1>1
  <2>2. Alike(n, z, m, z, r)
    <3>1. z + r <= Behind + 1 /\ Elapsed(n)[z] = Elapsed(m)[z]
        BY <1>1, <2>0
    <3>2. \A j \in 0 .. r - 1 : z + j \in Indices
        BY <1>1
    <3>3. \A j \in 0 .. r - 1 : n[z + j].t = m[z + j].t
        BY <1>3, <1>6, <3>2 DEF IsCom
    <3> QED
        BY <3>1, <3>3 DEF Alike
  <2> HIDE DEF z
  <2>3. \A j \in 0 .. r : Elapsed(n)[z + j] = Elapsed(m)[z + j]
    <3>1. z \in Nat /\ r \in Nat
        BY <2>1
    <3> HIDE DEF r
    <3> QED
        BY <1>3m, <2>2, <3>1, SameTimes
  <2> QED
      BY <2>1, <2>3
<1> QED
    BY <1>3, <1>4, <1>7, <1>8 DEF n

\* The command takes a cell of its own before a level.
LEMMA InsertIs ==
    ASSUME NEW m, NEW e, Formed(m, e), e + 2 <= Behind, NEW p \in 0 .. e - 1, ~IsCommand(m[p]),
           p # 0 => ~IsCommand(m[p - 1]),
           NEW cell, IsCom(cell)
    PROVE  LET n == Put(Ins(m, p), p, cell)
           IN  /\ Formed(n, e + 1)
               /\ n[p] = cell /\ IsCommand(cell)
               /\ \A i \in 0 .. p - 1 : n[i] = m[i]
               /\ \A i \in p .. e : n[i + 1] = m[i]
               /\ \A i \in Indices : i > e + 1 => n[i] = m[i]
               /\ \A i \in 0 .. p : Elapsed(n)[i] = Elapsed(m)[i]
               /\ \A i \in p .. e + 1 : Elapsed(n)[i + 1] = Elapsed(m)[i]
<1> DEFINE k == Ins(m, p)
           n == Put(k, p, cell)
           a == Elapsed(m)
           b == Elapsed(n)
<1>1. /\ Behind \in Nat /\ Indices = 0 .. Behind /\ e \in 0 .. Behind /\ m \in [Indices -> Cells]
      /\ m[e].c = "end" /\ (\A i \in 0 .. e - 1 : m[i].c # "end")
      /\ (\A i \in 0 .. e : (m[i].t = 0) = IsCommand(m[i]))
      /\ \A i \in 0 .. e - 1 : IsCommand(m[i]) => ~IsCommand(m[i + 1])
    BY BehindIs DEF Formed
<1>2. /\ k \in [Indices -> Cells]
      /\ \A i \in 0 .. p : k[i] = m[i]
      /\ \A i \in p .. e : k[i + 1] = m[i]
      /\ \A i \in Indices : i > e + 1 => k[i] = m[i]
  <2>1. p \in 0 .. e
      BY <1>1
  <2> QED
      BY <2>1, InsIs
<1>3. n = [k EXCEPT ![p] = cell]
    BY DEF Put
<1> HIDE DEF k, n, a, b
<1>4. p \in Indices /\ p \in Nat
    BY <1>1
<1>5. n \in [Indices -> Cells] /\ n[p] = cell /\ \A i \in Indices : i # p => n[i] = k[i]
    BY <1>2, <1>3, <1>4 DEF IsCom
<1>6. \A i \in 0 .. p - 1 : n[i] = m[i]
  <2>1. \A i \in 0 .. p - 1 : i \in Indices /\ i # p /\ i \in 0 .. p
      BY <1>1
  <2> QED
      BY <1>2, <1>5, <2>1
<1>7. \A i \in p .. e : n[i + 1] = m[i]
  <2>1. \A i \in p .. e : i + 1 \in Indices /\ i + 1 # p
      BY <1>1
  <2> QED
      BY <1>2, <1>5, <2>1
<1>8. \A i \in Indices : i > e + 1 => n[i] = m[i]
  <2>1. \A i \in Indices : i > e + 1 => i # p
      BY <1>1
  <2> QED
      BY <1>2, <1>5, <2>1
<1>9. cell.c # "end" /\ IsCommand(cell)
    BY SizeAssumption DEF IsCom, IsCommand
<1>10. \A i \in 0 .. e + 1 : i \in 0 .. p - 1 \/ i = p \/ (i - 1 \in p .. e /\ i = (i - 1) + 1)
    BY <1>1
<1>11. Formed(n, e + 1)
  <2>1. e + 1 \in 0 .. Behind - 1
      BY <1>1
  <2>2. n[e + 1].c = "end"
    <3>1. e \in p .. e
        BY <1>1
    <3> QED
        BY <1>1, <1>7, <3>1
  <2>3. ASSUME NEW i \in 0 .. (e + 1) - 1 PROVE n[i].c # "end"
    <3>1. i \in 0 .. e + 1
        BY <1>1
    <3>2. CASE i \in 0 .. p - 1
      <4>1. i \in 0 .. e - 1
          BY <1>1, <3>2
      <4> QED
          BY <1>1, <1>6, <3>2, <4>1
    <3>3. CASE i = p
        BY <1>5, <1>9, <3>3
    <3>4. CASE i - 1 \in p .. e /\ i = (i - 1) + 1
      <4>1. i - 1 \in 0 .. e - 1 /\ n[i] = m[i - 1]
          BY <1>1, <1>7, <3>4
      <4> QED
          BY <1>1, <4>1
    <3> QED
        BY <1>10, <3>1, <3>2, <3>3, <3>4
  <2>4. ASSUME NEW i \in 0 .. e + 1 PROVE (n[i].t = 0) = IsCommand(n[i])
    <3>1. CASE i \in 0 .. p - 1
      <4>1. i \in 0 .. e
          BY <1>1, <3>1
      <4> QED
          BY <1>1, <1>6, <3>1, <4>1
    <3>2. CASE i = p
        BY <1>5, <1>9, <3>2 DEF IsCom
    <3>3. CASE i - 1 \in p .. e /\ i = (i - 1) + 1
      <4>1. n[i] = m[i - 1] /\ i - 1 \in 0 .. e
          BY <1>1, <1>7, <3>3
      <4> QED
          BY <1>1, <4>1
    <3> QED
        BY <1>10, <3>1, <3>2, <3>3
  <2>5. ASSUME NEW i \in 0 .. (e + 1) - 1, IsCommand(n[i]) PROVE ~IsCommand(n[i + 1])
    <3>1. CASE i \in 0 .. p - 2
      <4>1. i \in 0 .. p - 1 /\ i + 1 \in 0 .. p - 1 /\ i \in 0 .. e - 1
          BY <1>1, <3>1
      <4> QED
          BY <1>1, <1>6, <2>5, <4>1
    <3>2. CASE i = p - 1
      <4>1. i \in 0 .. p - 1 /\ p # 0
          BY <1>4, <3>2
      <4> QED
          BY <1>6, <2>5, <3>2, <4>1
    <3>3. CASE i = p
      <4>1. p \in p .. e
          BY <1>1
      <4> QED
          BY <1>7, <3>3, <4>1
    <3>4. CASE i - 1 \in p .. e /\ i = (i - 1) + 1
      <4>1. n[i] = m[i - 1] /\ i - 1 \in 0 .. e - 1
          BY <1>1, <1>7, <3>4
      <4>2. i \in p .. e
          BY <1>1, <3>4
      <4>3. n[i + 1] = m[i]
          BY <1>7, <4>2
      <4> QED
          BY <1>1, <2>5, <3>4, <4>1, <4>3
    <3>5. i \in 0 .. p - 2 \/ i = p - 1 \/ i = p \/ (i - 1 \in p .. e /\ i = (i - 1) + 1)
        BY <1>1
    <3> QED
        BY <3>1, <3>2, <3>3, <3>4, <3>5
  <2> QED
      BY <1>5, <2>1, <2>2, <2>3, <2>4, <2>5 DEF Formed
<1>12. m \in [Indices -> Cells] /\ n \in [Indices -> Cells]
    BY <1>1, <1>5
<1>13. /\ a[0] = 0 /\ b[0] = 0 /\ b \in [0 .. Behind + 1 -> Nat]
       /\ \A i \in 0 .. Behind : b[i + 1] = b[i] + n[i].t
    BY <1>12, ElapsedIs DEF a, b
<1>14. \A i \in 0 .. p : b[i] = a[i]
  <2> DEFINE z == 0
  <2>1. z \in Nat /\ p \in Nat /\ \A j \in 0 .. p : z + j = j
      BY <1>4
  <2>2. Alike(n, z, m, z, p)
    <3>1. z + p <= Behind + 1 /\ Elapsed(n)[z] = Elapsed(m)[z]
        BY <1>1, <1>13 DEF a, b
    <3>2. \A j \in 0 .. p - 1 : n[z + j].t = m[z + j].t
        BY <1>4, <1>6
    <3> QED
        BY <3>1, <3>2 DEF Alike
  <2> HIDE DEF z
  <2>3. \A j \in 0 .. p : Elapsed(n)[z + j] = Elapsed(m)[z + j]
      BY <1>12, <2>1, <2>2, SameTimes
  <2> QED
      BY <2>1, <2>3 DEF a, b
<1>15. b[p + 1] = a[p]
  <2>1. p \in 0 .. Behind /\ p \in 0 .. p /\ p \in 0 .. Behind + 1
      BY <1>1
  <2>2. b[p + 1] = b[p] + 0 /\ b[p] \in Nat /\ b[p] = a[p]
      BY <1>5, <1>13, <1>14, <2>1 DEF IsCom
  <2> QED
      BY <2>2
<1>16. \A i \in p .. e + 1 : b[i + 1] = a[i]
  <2> DEFINE r == e + 1 - p
             y == p
             z == p + 1
  <2>1. r \in Nat /\ y \in Nat /\ z \in Nat /\ z + r <= Behind + 1 /\ y + r <= Behind + 1
      BY <1>1
  <2>2. Alike(n, z, m, y, r)
    <3>1. \A j \in 0 .. r - 1 : y + j \in p .. e /\ (y + j) + 1 = z + j
        BY <1>1
    <3>2. \A j \in 0 .. r - 1 : n[z + j].t = m[y + j].t
        BY <1>7, <3>1
    <3>3. Elapsed(n)[z] = Elapsed(m)[y]
        BY <1>15 DEF a, b
    <3> HIDE DEF r, y, z
    <3> QED
        BY <2>1, <3>2, <3>3 DEF Alike
  <2>3. \A i \in p .. e + 1 : i - y \in 0 .. r /\ z + (i - y) = i + 1 /\ y + (i - y) = i
      BY <1>1
  <2> HIDE DEF r, y, z
  <2>4. \A j \in 0 .. r : Elapsed(n)[z + j] = Elapsed(m)[y + j]
      BY <1>12, <2>1, <2>2, SameTimes
  <2> QED
      BY <2>3, <2>4 DEF a, b
<1> QED
    BY <1>5, <1>6, <1>7, <1>8, <1>9, <1>11, <1>14, <1>16 DEF k, n, a, b

\* The waveform with the command of a cell at x.
Commanded(w, x, cell) ==
    [total |-> w.total, wave |-> w.wave, cmds |-> PW!With(w.cmds, x, [c |-> cell.c, d |-> cell.d])]

\* A waveform of t ticks with commands at the times of S.
Shaped(v, t, S) == v = [total |-> t, wave |-> [y \in 0 .. t - 1 |-> v.wave[y]],
                        cmds |-> [y \in S |-> v.cmds[y]]]

\* The waveform of m, e with one more command.
More(m, e, x, cell, v) ==
    /\ Shaped(v, Elapsed(m)[e], Met(m, e) \union {x})
    /\ v.cmds[x] = [c |-> cell.c, d |-> cell.d]
    /\ \A i \in 0 .. e - 1 : IsCommand(m[i]) /\ Elapsed(m)[i] # x =>
          v.cmds[Elapsed(m)[i]] = [c |-> m[i].c, d |-> m[i].d]
    /\ \A i \in 0 .. e - 1 : ~IsCommand(m[i]) =>
          \A y \in Elapsed(m)[i] .. Elapsed(m)[i + 1] - 1 : v.wave[y] = m[i].d

LEMMA CommandedIs ==
    ASSUME NEW m, NEW e, NEW w, Reads(m, e, w), NEW x, NEW cell
    PROVE  More(m, e, x, cell, Commanded(w, x, cell))
<1> DEFINE a == Elapsed(m)
           M == Met(m, e)
           v == Commanded(w, x, cell)
           rec == [c |-> cell.c, d |-> cell.d]
           fw == [y \in 0 .. a[e] - 1 |-> w.wave[y]]
           fc == [y \in M |-> w.cmds[y]]
           gc == [y \in M \union {x} |-> IF y = x THEN rec ELSE w.cmds[y]]
<1>1. /\ w = [total |-> a[e], wave |-> fw, cmds |-> fc]
      /\ \A i \in 0 .. e - 1 : ~IsCommand(m[i]) => \A y \in a[i] .. a[i + 1] - 1 : w.wave[y] = m[i].d
      /\ \A i \in 0 .. e - 1 : IsCommand(m[i]) => w.cmds[a[i]] = [c |-> m[i].c, d |-> m[i].d]
    BY DEF Reads
<1>2. \A i \in 0 .. e - 1 : IsCommand(m[i]) => a[i] \in M
    BY DEF Met
<1>3. DOMAIN fc = M /\ fw = [y \in 0 .. a[e] - 1 |-> fw[y]]
      /\ DOMAIN gc = M \union {x} /\ gc = [y \in M \union {x} |-> gc[y]]
      /\ x \in M \union {x} /\ gc[x] = rec /\ \A y \in M : y # x => gc[y] = w.cmds[y]
    OBVIOUS
<1>4. v = [total |-> w.total, wave |-> w.wave,
           cmds |-> [y \in DOMAIN w.cmds \union {x} |-> IF y = x THEN rec ELSE w.cmds[y]]]
    BY DEF Commanded, PW!With
<1> HIDE DEF a, M, v, rec, fw, fc
<1>5. w.total = a[e] /\ w.wave = fw /\ w.cmds = fc /\ DOMAIN w.cmds = M
    BY <1>1, <1>3
<1>6. v = [total |-> a[e], wave |-> fw, cmds |-> gc]
    BY <1>4, <1>5
<1> HIDE DEF gc
<1>7. v.wave = fw /\ v.cmds = gc
    BY <1>6
<1>8. Shaped(v, a[e], M \union {x})
    BY <1>3, <1>6, <1>7 DEF Shaped
<1>9. v.cmds[x] = rec
    BY <1>3, <1>7
<1>10. \A i \in 0 .. e - 1 : IsCommand(m[i]) /\ a[i] # x => v.cmds[a[i]] = [c |-> m[i].c, d |-> m[i].d]
  <2> TAKE i \in 0 .. e - 1
  <2> HAVE IsCommand(m[i]) /\ a[i] # x
  <2>1. a[i] \in M /\ w.cmds[a[i]] = [c |-> m[i].c, d |-> m[i].d]
      BY <1>1, <1>2
  <2>2. v.cmds[a[i]] = w.cmds[a[i]]
      BY <1>3, <1>7, <2>1
  <2> QED
      BY <2>1, <2>2
<1>11. \A i \in 0 .. e - 1 : ~IsCommand(m[i]) => \A y \in a[i] .. a[i + 1] - 1 : v.wave[y] = m[i].d
    BY <1>1, <1>5, <1>7
<1> QED
    BY <1>8, <1>9, <1>10, <1>11 DEF More, a, M, v, rec

LEMMA OverwriteReads ==
    ASSUME NEW m, NEW e, Formed(m, e), NEW p \in 0 .. e - 1, IsCommand(m[p]),
           NEW cell, IsCom(cell), NEW w, Reads(m, e, w)
    PROVE  Reads(Put(m, p, cell), e, Commanded(w, Elapsed(m)[p], cell))
<1> DEFINE n == Put(m, p, cell)
           a == Elapsed(m)
           b == Elapsed(n)
           M == Met(m, e)
           v == Commanded(w, a[p], cell)
<1>1. /\ Formed(n, e)
      /\ n[p] = cell /\ IsCommand(cell) /\ \A i \in Indices : i # p => n[i] = m[i]
      /\ \A i \in 0 .. e + 1 : b[i] = a[i]
    BY OverwriteIs
<1>2. Behind \in Nat /\ Indices = 0 .. Behind /\ e \in 0 .. Behind
    BY BehindIs DEF Formed
<1>3. /\ Shaped(v, a[e], M \union {a[p]})
      /\ v.cmds[a[p]] = [c |-> cell.c, d |-> cell.d]
      /\ \A i \in 0 .. e - 1 : IsCommand(m[i]) /\ a[i] # a[p] =>
            v.cmds[a[i]] = [c |-> m[i].c, d |-> m[i].d]
      /\ \A i \in 0 .. e - 1 : ~IsCommand(m[i]) => \A y \in a[i] .. a[i + 1] - 1 : v.wave[y] = m[i].d
  <2>1. More(m, e, Elapsed(m)[p], cell, Commanded(w, Elapsed(m)[p], cell))
      BY CommandedIs
  <2>2. More(m, e, a[p], cell, v)
      BY <2>1
  <2> HIDE DEF a, M, v
  <2> QED
      BY <2>2 DEF More, a, M
<1>4. M = {a[i] : i \in {j \in 0 .. e - 1 : IsCommand(m[j])}}
    BY DEF Met
<1>5. Met(n, e) = {b[i] : i \in {j \in 0 .. e - 1 : IsCommand(n[j])}}
    BY DEF Met
<1>6. \A i \in 0 .. e - 1 : IsCommand(m[i]) /\ a[i] = a[p] => i = p
    BY OneCommand
<1> HIDE DEF n, a, b, M, v
<1>7. \A i \in 0 .. e - 1 : /\ IsCommand(n[i]) = IsCommand(m[i]) /\ (i # p => n[i] = m[i])
                            /\ b[i] = a[i] /\ b[i + 1] = a[i + 1]
  <2> TAKE i \in 0 .. e - 1
  <2>1. i \in Indices /\ i \in 0 .. e + 1 /\ i + 1 \in 0 .. e + 1
      BY <1>2
  <2>2. CASE i = p
      BY <1>1, <2>1, <2>2
  <2>3. CASE i # p
      BY <1>1, <2>1, <2>3
  <2> QED
      BY <2>2, <2>3
<1>8. Met(n, e) = M /\ M = M \union {a[p]}
    BY <1>4, <1>5, <1>7
<1>9. Shaped(v, b[e], Met(n, e))
  <2>1. e \in 0 .. e + 1
      BY <1>2
  <2>2. b[e] = a[e]
      BY <1>1, <2>1
  <2> QED
      BY <1>3, <1>8, <2>2
<1>10. \A i \in 0 .. e - 1 : ~IsCommand(n[i]) => \A y \in b[i] .. b[i + 1] - 1 : v.wave[y] = n[i].d
  <2>1. \A i \in 0 .. e - 1 : ~IsCommand(n[i]) => i # p
      BY <1>1
  <2> QED
      BY <1>3, <1>7, <2>1
<1>11. \A i \in 0 .. e - 1 : IsCommand(n[i]) => v.cmds[b[i]] = [c |-> n[i].c, d |-> n[i].d]
  <2> SUFFICES ASSUME NEW i \in 0 .. e - 1, IsCommand(n[i])
               PROVE  v.cmds[b[i]] = [c |-> n[i].c, d |-> n[i].d]
      OBVIOUS
  <2>1. CASE i = p
      BY <1>1, <1>3, <1>7, <2>1
  <2>2. CASE i # p
    <3>1. IsCommand(m[i]) /\ n[i] = m[i] /\ b[i] = a[i]
        BY <1>7, <2>2
    <3>2. a[i] # a[p]
        BY <1>6, <2>2, <3>1
    <3> QED
        BY <1>3, <3>1, <3>2
  <2> QED
      BY <2>1, <2>2
<1>12. Reads(n, e, v)
    BY <1>9, <1>10, <1>11 DEF Reads, Shaped, b
<1> QED
    BY <1>12 DEF n, v, a

LEMMA InsertReads ==
    ASSUME NEW m, NEW e, Formed(m, e), e + 2 <= Behind, NEW p \in 0 .. e - 1, ~IsCommand(m[p]),
           p # 0 => ~IsCommand(m[p - 1]),
           NEW cell, IsCom(cell), NEW w, Reads(m, e, w)
    PROVE  Reads(Put(Ins(m, p), p, cell), e + 1, Commanded(w, Elapsed(m)[p], cell))
<1> DEFINE n == Put(Ins(m, p), p, cell)
           a == Elapsed(m)
           b == Elapsed(n)
           M == Met(m, e)
           v == Commanded(w, a[p], cell)
<1>1. /\ Formed(n, e + 1)
      /\ n[p] = cell /\ IsCommand(cell)
      /\ \A i \in 0 .. p - 1 : n[i] = m[i]
      /\ \A i \in p .. e : n[i + 1] = m[i]
      /\ \A i \in 0 .. p : b[i] = a[i]
      /\ \A i \in p .. e + 1 : b[i + 1] = a[i]
    BY InsertIs
<1>2. e \in Nat /\ (\A i \in 0 .. e + 1 : a[i] \in Nat)
      /\ (\A i, j \in 0 .. e + 1 : i <= j => a[i] <= a[j])
      /\ \A i \in 0 .. e : ~IsCommand(m[i]) => a[i] < a[i + 1]
    BY LevelLasts
<1>3. /\ Shaped(v, a[e], M \union {a[p]})
      /\ v.cmds[a[p]] = [c |-> cell.c, d |-> cell.d]
      /\ \A i \in 0 .. e - 1 : IsCommand(m[i]) /\ a[i] # a[p] =>
            v.cmds[a[i]] = [c |-> m[i].c, d |-> m[i].d]
      /\ \A i \in 0 .. e - 1 : ~IsCommand(m[i]) => \A y \in a[i] .. a[i + 1] - 1 : v.wave[y] = m[i].d
  <2>1. More(m, e, Elapsed(m)[p], cell, Commanded(w, Elapsed(m)[p], cell))
      BY CommandedIs
  <2>2. More(m, e, a[p], cell, v)
      BY <2>1
  <2> HIDE DEF a, M, v
  <2> QED
      BY <2>2 DEF More, a, M
<1>4. M = {a[i] : i \in {j \in 0 .. e - 1 : IsCommand(m[j])}}
    BY DEF Met
<1>5. Met(n, e + 1) = {b[i] : i \in {j \in 0 .. (e + 1) - 1 : IsCommand(n[j])}}
    BY DEF Met
<1>6. ~IsCommand(m[p]) /\ (p # 0 => ~IsCommand(m[p - 1])) /\ p \in 0 .. e - 1
    OBVIOUS
<1> HIDE DEF n, a, b, M, v
<1>7. ASSUME NEW i \in 0 .. p - 1
      PROVE  /\ i \in 0 .. e - 1 /\ i \in 0 .. (e + 1) - 1
             /\ n[i] = m[i] /\ b[i] = a[i] /\ b[i + 1] = a[i + 1]
  <2>1. i \in 0 .. e - 1 /\ i \in 0 .. (e + 1) - 1 /\ i \in 0 .. p /\ i + 1 \in 0 .. p
      BY <1>2
  <2> QED
      BY <1>1, <2>1
<1>8. ASSUME NEW i \in p .. e - 1
      PROVE  /\ i \in 0 .. e - 1 /\ i + 1 \in 0 .. (e + 1) - 1
             /\ n[i + 1] = m[i] /\ b[i + 1] = a[i] /\ b[(i + 1) + 1] = a[i + 1]
  <2>1. i \in 0 .. e - 1 /\ i + 1 \in 0 .. (e + 1) - 1 /\ i \in p .. e
        /\ i \in p .. e + 1 /\ i + 1 \in p .. e + 1
      BY <1>2
  <2> QED
      BY <1>1, <2>1
<1>9. \A i \in 0 .. (e + 1) - 1 : i \in 0 .. p - 1 \/ i = p \/ (i - 1 \in p .. e - 1 /\ i = (i - 1) + 1)
    BY <1>2
<1>10. p \in 0 .. (e + 1) - 1 /\ b[p] = a[p]
  <2>1. p \in 0 .. (e + 1) - 1 /\ p \in 0 .. p
      BY <1>2
  <2> QED
      BY <1>1, <2>1
<1>11. Met(n, e + 1) = M \union {a[p]}
  <2>1. ASSUME NEW i \in 0 .. (e + 1) - 1, IsCommand(n[i]) PROVE b[i] \in M \union {a[p]}
    <3>1. CASE i \in 0 .. p - 1
        BY <1>4, <1>7, <2>1, <3>1
    <3>2. CASE i = p
        BY <1>10, <3>2
    <3>3. CASE i - 1 \in p .. e - 1 /\ i = (i - 1) + 1
      <4>1. i - 1 \in 0 .. e - 1 /\ n[i] = m[i - 1] /\ b[i] = a[i - 1]
          BY <1>8, <3>3
      <4> QED
          BY <1>4, <2>1, <4>1
    <3> QED
        BY <1>9, <3>1, <3>2, <3>3
  <2>2. ASSUME NEW i \in 0 .. e - 1, IsCommand(m[i]) PROVE a[i] \in Met(n, e + 1)
    <3>1. CASE i \in 0 .. p - 1
        BY <1>5, <1>7, <2>2, <3>1
    <3>2. CASE i \in p .. e - 1
        BY <1>5, <1>8, <2>2, <3>2
    <3>3. i \in 0 .. p - 1 \/ i \in p .. e - 1
        BY <1>2
    <3> QED
        BY <3>1, <3>2, <3>3
  <2>3. a[p] \in Met(n, e + 1)
      BY <1>1, <1>5, <1>10
  <2> QED
      BY <1>4, <1>5, <2>1, <2>2, <2>3
<1>12. ASSUME NEW i \in 0 .. e - 1, IsCommand(m[i]) PROVE a[i] # a[p]
  <2>1. i \in 0 .. e + 1 /\ p \in 0 .. e + 1 /\ p + 1 \in 0 .. e + 1 /\ p \in 0 .. e /\ i # p
      BY <1>2, <1>6, <1>12
  <2>2. a[i] \in Nat /\ a[p] \in Nat /\ a[p + 1] \in Nat /\ a[p] < a[p + 1]
      BY <1>2, <1>6, <2>1
  <2>3. CASE p + 1 <= i
    <3>1. a[p + 1] <= a[i]
        BY <1>2, <2>1, <2>3
    <3> QED
        BY <2>2, <3>1
  <2>4. CASE i < p
    <3> DEFINE j == p - 1
    <3>1. j \in 0 .. e /\ j \in 0 .. e + 1 /\ j + 1 = p /\ i <= j /\ p # 0
        BY <1>2, <2>1, <2>4
    <3>2. ~IsCommand(m[j])
        BY <1>6, <3>1
    <3> HIDE DEF j
    <3>3. a[i] <= a[j] /\ a[j] < a[p] /\ a[j] \in Nat
        BY <1>2, <2>1, <3>1, <3>2
    <3> QED
        BY <2>2, <3>3
  <2> QED
      BY <1>2, <2>1, <2>3, <2>4
<1>13. Shaped(v, b[e + 1], Met(n, e + 1))
  <2>1. e \in p .. e + 1
      BY <1>2
  <2>2. b[e + 1] = a[e]
      BY <1>1, <2>1
  <2> QED
      BY <1>3, <1>11, <2>2
<1>14. ASSUME NEW i \in 0 .. (e + 1) - 1, ~IsCommand(n[i]), NEW y \in b[i] .. b[i + 1] - 1
       PROVE  v.wave[y] = n[i].d
  <2>1. CASE i \in 0 .. p - 1
      BY <1>3, <1>7, <1>14, <2>1
  <2>2. CASE i - 1 \in p .. e - 1 /\ i = (i - 1) + 1
    <3> DEFINE j == i - 1
    <3>1. j \in p .. e - 1 /\ i = j + 1
        BY <2>2
    <3> HIDE DEF j
    <3>2. j \in 0 .. e - 1 /\ n[i] = m[j] /\ b[i] = a[j] /\ b[i + 1] = a[j + 1]
        BY <1>8, <3>1
    <3> QED
        BY <1>3, <1>14, <3>2
  <2> QED
      BY <1>1, <1>9, <1>14, <2>1, <2>2
<1>15. ASSUME NEW i \in 0 .. (e + 1) - 1, IsCommand(n[i])
       PROVE  v.cmds[b[i]] = [c |-> n[i].c, d |-> n[i].d]
  <2>1. CASE i \in 0 .. p - 1
      BY <1>3, <1>7, <1>12, <1>15, <2>1
  <2>2. CASE i - 1 \in p .. e - 1 /\ i = (i - 1) + 1
    <3> DEFINE j == i - 1
    <3>1. j \in p .. e - 1 /\ i = j + 1
        BY <2>2
    <3> HIDE DEF j
    <3>2. j \in 0 .. e - 1 /\ n[i] = m[j] /\ b[i] = a[j]
        BY <1>8, <3>1
    <3>3. IsCommand(m[j])
        BY <1>15, <3>2
    <3>4. a[j] # a[p]
        BY <1>12, <3>2, <3>3
    <3> QED
        BY <1>3, <3>2, <3>3, <3>4
  <2>3. CASE i = p
      BY <1>1, <1>3, <1>10, <2>3
  <2> QED
      BY <1>9, <2>1, <2>2, <2>3
<1>16. Reads(n, e + 1, v)
    BY <1>13, <1>14, <1>15 DEF Reads, Shaped, b
<1> QED
    BY <1>16 DEF n, v, a

LEMMA ComIs ==
    ASSUME NEW m, NEW e, Formed(m, e), e + 3 <= Behind, NEW tim \in Int, Tick(tim) < Elapsed(m)[e],
           NEW cmd, cmd = [c |-> cmd.c, d |-> cmd.d], cmd.c \in Codes, cmd.d \subseteq Bits
    PROVE  \E f : /\ Edit(m, e, ComOf(m, Tick(tim), cmd), f)
                  /\ \A w : Reads(m, e, w) => Reads(ComOf(m, Tick(tim), cmd), f, PW!Command(w, tim, cmd))
<1> DEFINE r == Edge(m, Tick(tim))
           p == r.pt
           b == Elapsed(r.m)
           cell == [c |-> cmd.c, t |-> 0, d |-> cmd.d]
           n == ComOf(m, Tick(tim), cmd)
<1>1. e \in Nat /\ Behind \in Nat /\ Indices = 0 .. Behind /\ Tick(tim) \in Nat /\ e + 2 <= Behind
    BY BehindIs DEF Formed, Tick
<1>2. PICK f : EdgeOK(m, e, Tick(tim), r, f)
    BY <1>1, EdgeIs
<1>3. f \in {e, e + 1} /\ Formed(r.m, f) /\ At(r.m, f, p, Tick(tim)) /\ f + 2 <= Behind /\ f \in Nat
      /\ b[f] = Elapsed(m)[e]
    BY <1>1, <1>2 DEF EdgeOK
<1>4. p \in 0 .. f /\ b[p] = Tick(tim) /\ (p # 0 => ~IsCommand(r.m[p - 1]))
  <2>1. b[f] \in Nat
    <3>1. f \in 0 .. f + 1
        BY <1>3
    <3> QED
        BY <1>3, <3>1, LevelLasts
  <2>2. Tick(tim) <= b[f]
    <3>1. Tick(tim) < b[f]
        BY <1>3
    <3> HIDE DEF b
    <3> QED
        BY <1>1, <2>1, <3>1
  <2> QED
      BY <1>3, <2>2 DEF At
<1>5. p \in 0 .. f - 1
  <2>1. p # f
    <3>1. b[p] < b[f]
        BY <1>3, <1>4
    <3>2. b[f] \in Nat
      <4>1. f \in 0 .. f + 1
          BY <1>3
      <4> QED
          BY <1>3, <4>1, LevelLasts
    <3> HIDE DEF b, p
    <3> QED
        BY <3>1, <3>2
  <2> QED
      BY <1>3, <1>4, <2>1
<1>6. IsCom(cell)
  <2>1. cell \in [c : Kinds, t : Nat, d : SUBSET Bits]
      BY DEF Kinds
  <2> QED
      BY <2>1 DEF IsCom, Cells
<1>7. n = IF IsCommand(r.m[p]) THEN Put(r.m, p, cell) ELSE Put(Ins(r.m, p), p, cell)
    BY DEF ComOf, Put
<1>8. ASSUME NEW w, Reads(m, e, w)
      PROVE  PW!Command(w, tim, cmd) = Commanded(w, b[p], cell) /\ Reads(r.m, f, w)
  <2>1. w.total = Elapsed(m)[e] /\ w = [total |-> w.total, wave |-> w.wave, cmds |-> w.cmds]
    <3> DEFINE fw == [x \in 0 .. Elapsed(m)[e] - 1 |-> w.wave[x]]
               fc == [x \in Met(m, e) |-> w.cmds[x]]
    <3>1. w = [total |-> Elapsed(m)[e], wave |-> fw, cmds |-> fc]
        BY <1>8 DEF Reads
    <3> HIDE DEF fw, fc
    <3>2. w.total = Elapsed(m)[e] /\ w.wave = fw /\ w.cmds = fc
        BY <3>1
    <3> QED
        BY <3>1, <3>2
  <2>2. PW!Tick(tim) = Tick(tim) /\ Tick(tim) < w.total
      BY <2>1 DEF PW!Tick, Tick
  <2>3. PW!Command(w, tim, cmd) = [w EXCEPT !.cmds = PW!With(w.cmds, Tick(tim), cmd)]
    <3>1. Tick(tim) \in Nat /\ w.total \in Nat
      <4>1. e \in 0 .. e + 1
          BY <1>1
      <4>2. Elapsed(m)[e] \in Nat
          BY <4>1, LevelLasts
      <4> QED
          BY <1>1, <2>1, <4>2
    <3>2. ~(Tick(tim) = w.total) /\ ~(Tick(tim) > w.total)
        BY <2>2, <3>1
    <3> QED
        BY <2>2, <3>2 DEF PW!Command
  <2> DEFINE wc == PW!With(w.cmds, Tick(tim), cmd)
             fw == w.wave
             t == w.total
  <2>4. Commanded(w, b[p], cell) = [total |-> t, wave |-> fw, cmds |-> wc]
    <3>1. cmd = [c |-> cell.c, d |-> cell.d]
        OBVIOUS
    <3> HIDE DEF cell, b, p
    <3> QED
        BY <1>4, <3>1 DEF Commanded
  <2>5. [w EXCEPT !.cmds = wc] = [total |-> t, wave |-> fw, cmds |-> wc]
    <3> HIDE DEF wc
    <3> QED
        BY <2>1
  <2>6. Reads(r.m, f, w)
      BY <1>2, <1>8 DEF EdgeOK
  <2> QED
      BY <2>3, <2>4, <2>5, <2>6
<1>9. CASE IsCommand(r.m[p])
  <2> DEFINE k == r.m
  <2>1. n = Put(k, p, cell) /\ IsCommand(k[p])
      BY <1>7, <1>9
  <2>2. /\ Formed(n, f)
        /\ \A i \in Indices : i # p => n[i] = k[i]
        /\ \A i \in 0 .. f + 1 : Elapsed(n)[i] = b[i]
    <3> HIDE DEF n, r, p, cell
    <3> QED
        BY <1>3, <1>5, <1>6, <2>1, OverwriteIs
  <2>3. \A i \in Indices : i > f => n[i] = m[i]
    <3>1. \A i \in Indices : i > f => i # p /\ k[i] = m[i]
        BY <1>1, <1>2, <1>5 DEF EdgeOK
    <3> QED
        BY <2>2, <3>1
  <2>4. Elapsed(n)[f] = Elapsed(m)[e]
    <3>1. f \in 0 .. f + 1
        BY <1>3
    <3> QED
        BY <1>3, <2>2, <3>1
  <2>5. f \in e .. e + 2
      BY <1>1, <1>3
  <2>6. Edit(m, e, n, f)
      BY <2>2, <2>3, <2>4, <2>5 DEF Edit
  <2>7. ASSUME NEW w, Reads(m, e, w) PROVE Reads(n, f, PW!Command(w, tim, cmd))
    <3>1. PW!Command(w, tim, cmd) = Commanded(w, b[p], cell) /\ Reads(k, f, w)
        BY <1>8, <2>7
    <3> HIDE DEF n, r, p, cell
    <3>2. Reads(Put(k, p, cell), f, Commanded(w, Elapsed(k)[p], cell))
        BY <1>3, <1>5, <1>6, <2>1, <3>1, OverwriteReads
    <3> QED
        BY <2>1, <3>1, <3>2
  <2> QED
      BY <2>6, <2>7
<1>10. CASE ~IsCommand(r.m[p])
  <2> DEFINE k == r.m
  <2>1. n = Put(Ins(k, p), p, cell) /\ ~IsCommand(k[p])
      BY <1>7, <1>10
  <2>2. /\ Formed(n, f + 1)
        /\ \A i \in Indices : i > f + 1 => n[i] = k[i]
        /\ \A i \in p .. f + 1 : Elapsed(n)[i + 1] = b[i]
    <3> HIDE DEF n, r, p, cell
    <3> QED
        BY <1>3, <1>4, <1>5, <1>6, <2>1, InsertIs
  <2>3. \A i \in Indices : i > f + 1 => n[i] = m[i]
    <3>1. \A i \in Indices : i > f + 1 => i > f
        BY <1>1, <1>3
    <3>2. \A i \in Indices : i > f => k[i] = m[i]
        BY <1>2 DEF EdgeOK
    <3> QED
        BY <2>2, <3>1, <3>2
  <2>4. Elapsed(n)[f + 1] = Elapsed(m)[e]
    <3>1. f \in p .. f + 1
        BY <1>3, <1>5
    <3> QED
        BY <1>3, <2>2, <3>1
  <2>5. f + 1 \in e .. e + 2
      BY <1>1, <1>3
  <2>6. Edit(m, e, n, f + 1)
      BY <2>2, <2>3, <2>4, <2>5 DEF Edit
  <2>7. ASSUME NEW w, Reads(m, e, w) PROVE Reads(n, f + 1, PW!Command(w, tim, cmd))
    <3>1. PW!Command(w, tim, cmd) = Commanded(w, b[p], cell) /\ Reads(k, f, w)
        BY <1>8, <2>7
    <3> HIDE DEF n, r, p, cell
    <3>2. Reads(Put(Ins(k, p), p, cell), f + 1, Commanded(w, Elapsed(k)[p], cell))
        BY <1>3, <1>4, <1>5, <1>6, <2>1, <3>1, InsertReads
    <3> QED
        BY <2>1, <3>1, <3>2
  <2> QED
      BY <2>6, <2>7
<1> QED
    BY <1>9, <1>10

-----------------------------------------------------------------------------
\* clr.

LEMMA ClearpulmIs ==
    ASSUME NEW m \in [Indices -> Cells]
    PROVE  /\ Clearpulm(m) \in [Indices -> Cells]
           /\ \A i \in UMax .. Behind : Clearpulm(m)[i] = m[i]
<1>1. Zero \in Cells /\ [c |-> "end", t |-> 0, d |-> {}] \in Cells
    BY DEF Zero, Cells, Kinds
<1>2. UMax \in Nat /\ Behind \in Nat /\ \A i \in UMax .. Behind : i \in Indices /\ i # UMax - 1 /\ ~(i < UMax)
    BY SizeAssumption, BehindIs
<1> QED
    BY <1>1, <1>2 DEF Clearpulm

LEMMA ClrIs ==
    ASSUME NEW m \in [Indices -> Cells], NEW n \in 0 .. UMax
    PROVE  /\ Formed(ClrOf(m, n), n) /\ Elapsed(ClrOf(m, n))[n] = n * CellTime
           /\ Reads(ClrOf(m, n), n, PW!Cleared(n))
           /\ \A i \in Indices : i > n => ClrOf(m, n)[i] = m[i]
<1> DEFINE k == ClrOf(m, n)
           a == Elapsed(k)
           level == [c |-> "level", t |-> CellTime, d |-> {}]
           end == [c |-> "end", t |-> 0, d |-> {}]
<1>1. /\ CellTime \in Nat /\ CellTime # 0 /\ UMax \in Nat /\ Behind \in Nat /\ UMax <= Behind
      /\ Indices = 0 .. Behind
    BY SizeAssumption, BehindIs DEF Behind
<1>2. n \in Nat /\ n \in Indices /\ n \in 0 .. Behind /\ \A i \in 0 .. n : i \in Indices
    BY <1>1
<1>3. /\ level \in Cells /\ end \in Cells
      /\ level.c = "level" /\ level.t = CellTime /\ level.d = {} /\ end.c = "end" /\ end.t = 0
    BY <1>1 DEF Cells, Kinds
<1>4. k = [i \in Indices |-> IF i < n THEN level ELSE IF i = n THEN end ELSE m[i]]
    BY DEF ClrOf
<1> HIDE DEF k, a, level, end
<1>5. k \in [Indices -> Cells] /\ k[n] = end /\ (\A i \in 0 .. n - 1 : k[i] = level)
      /\ \A i \in Indices : i > n => k[i] = m[i]
    BY <1>1, <1>2, <1>3, <1>4
<1>6. Formed(k, n)
  <2>1. \A i \in 0 .. n : i \in 0 .. n - 1 \/ i = n
      BY <1>2
  <2>2. \A i \in 0 .. n - 1 : k[i].c # "end" /\ ~IsCommand(k[i]) /\ k[i].t # 0
      BY <1>1, <1>3, <1>5 DEF IsCommand
  <2>3. k[n].c = "end" /\ IsCommand(k[n]) /\ k[n].t = 0
      BY <1>3, <1>5 DEF IsCommand
  <2>4. \A i \in 0 .. n : (k[i].t = 0) = IsCommand(k[i])
      BY <2>1, <2>2, <2>3 DEF IsCommand
  <2>5. n \in 0 .. Behind - 1
      BY <1>1, SizeAssumption DEF Behind
  <2> QED
      BY <1>5, <2>2, <2>3, <2>4, <2>5 DEF Formed
<1>7. \A i \in 0 .. n : a[i] = i * CellTime
  <2> DEFINE T == {i \in 0 .. n : a[i] # i * CellTime}
  <2>1. a[0] = 0 /\ (\A i \in 0 .. n : a[i] \in Nat) /\ \A i \in 0 .. n : a[i + 1] = a[i] + k[i].t
    <3>1. a \in [0 .. Behind + 1 -> Nat] /\ a[0] = 0 /\ \A i \in 0 .. Behind : a[i + 1] = a[i] + k[i].t
        BY <1>5, ElapsedIs DEF a
    <3>2. \A i \in 0 .. n : i \in 0 .. Behind /\ i \in 0 .. Behind + 1
        BY <1>1, <1>2
    <3> QED
        BY <3>1, <3>2
  <2>2. ASSUME T # {} PROVE FALSE
    <3>1. T \subseteq Nat
        BY <1>2
    <3> HIDE DEF T
    <3>2. PICK i \in T : \A y \in T : i <= y
        BY <2>2, <3>1, Least
    <3>3. i \in 0 .. n /\ a[i] # i * CellTime
        BY <3>2 DEF T
    <3>4. i # 0
        BY <1>1, <2>1, <3>3
    <3> DEFINE j == i - 1
    <3>5. j \in 0 .. n - 1 /\ j \in 0 .. n /\ ~(i <= j) /\ j + 1 = i /\ j \in Nat
        BY <1>2, <3>3, <3>4
    <3> HIDE DEF j
    <3>6. a[j] = j * CellTime
        BY <3>2, <3>5 DEF T
    <3>7. a[j + 1] = j * CellTime + CellTime
        BY <1>3, <1>5, <2>1, <3>5, <3>6
    <3>8. j * CellTime + CellTime = (j + 1) * CellTime
        BY <1>1, <3>5
    <3> QED
        BY <3>3, <3>5, <3>7, <3>8
  <2> QED
      BY <2>2
<1>8. a[n] = n * CellTime /\ a[n] \in Nat
  <2>1. n \in 0 .. n /\ n \in 0 .. n + 1
      BY <1>2
  <2>2. a[n] \in Nat
      BY <1>6, <2>1, LevelLasts DEF a
  <2> QED
      BY <1>7, <2>1, <2>2
<1>9. \A i \in 0 .. n - 1 : ~IsCommand(k[i])
    BY <1>3, <1>5 DEF IsCommand
<1>10. Met(k, n) = {}
    BY <1>9 DEF Met
<1> DEFINE w == PW!Cleared(n)
<1>11. Reads(k, n, w)
  <2>1. w = [total |-> n * CellTime, wave |-> [x \in 0 .. n * CellTime - 1 |-> {}], cmds |-> << >>]
      BY DEF PW!Cleared
  <2> HIDE DEF w
  <2>2. /\ w.total = n * CellTime /\ w.wave = [x \in 0 .. n * CellTime - 1 |-> {}] /\ w.cmds = << >>
        /\ w = [total |-> w.total, wave |-> w.wave, cmds |-> w.cmds]
      BY <2>1
  <2>3. [x \in Met(k, n) |-> w.cmds[x]] = << >>
      BY <1>10
  <2>4. w.wave = [x \in 0 .. a[n] - 1 |-> w.wave[x]]
      BY <1>8, <2>2
  <2>5. w = [total |-> a[n], wave |-> [x \in 0 .. a[n] - 1 |-> w.wave[x]], cmds |-> [x \in Met(k, n) |-> w.cmds[x]]]
      BY <1>8, <2>2, <2>3, <2>4, Zenon
  <2>6. ASSUME NEW i \in 0 .. n - 1, NEW x \in a[i] .. a[i + 1] - 1 PROVE w.wave[x] = k[i].d
    <3>1. i \in 0 .. n + 1 /\ i + 1 \in 0 .. n + 1 /\ n \in 0 .. n + 1 /\ i + 1 <= n
        BY <1>2
    <3>2. a[i] \in Nat /\ a[i + 1] \in Nat /\ a[i + 1] <= a[n]
        BY <1>6, <3>1, LevelLasts DEF a
    <3>3. x \in 0 .. a[n] - 1
        BY <1>8, <3>2
    <3>4. w.wave[x] = {} /\ k[i].d = {}
        BY <1>3, <1>5, <1>8, <2>2, <3>3
    <3> QED
        BY <3>4
  <2> QED
      BY <1>9, <2>5, <2>6 DEF Reads, a
<1> QED
    BY <1>5, <1>6, <1>8, <1>11 DEF k, a

-----------------------------------------------------------------------------
\* Any array, also one without a terminator: commands last no time.

Typed(m) == m \in [Indices -> Cells] /\ \A i \in Indices : IsCommand(m[i]) => m[i].t = 0

LEMMA EndTyped == ASSUME NEW m, NEW p PROVE End(m, p) \in 0 .. Behind - 1
<1> DEFINE Ends == {i \in 0 .. Behind - 1 : i >= p /\ m[i].c = "end"}
<1>1. Behind \in Nat /\ Behind - 1 \in 0 .. Behind - 1
    BY SizeAssumption DEF Behind
<1>2. CASE Ends = {}
    BY <1>1, <1>2 DEF End
<1>3. CASE Ends # {}
  <2>1. Ends \subseteq Nat
      OBVIOUS
  <2>2. \E i \in Ends : \A j \in Ends : i <= j
      BY <1>3, <2>1, Least
  <2>3. (CHOOSE i \in Ends : \A j \in Ends : i <= j) \in Ends
      BY <2>2
  <2> QED
      BY <1>3, <2>3 DEF End
<1> QED
    BY <1>2, <1>3

LEMMA InsTyped == ASSUME NEW m, Typed(m), NEW p \in Nat PROVE Typed(Ins(m, p))
<1> DEFINE e == End(m, p)
<1>1. Indices = 0 .. Behind /\ Behind \in Nat
    BY BehindIs
<1>2. Ins(m, p) = [i \in Indices |-> IF p < i /\ i <= e + 1 THEN m[i - 1] ELSE m[i]]
    BY DEF Ins
<1>3. \A i \in Indices : p < i => i - 1 \in Indices
    BY <1>1
<1>4. \A i \in Indices : \E j \in Indices : Ins(m, p)[i] = m[j]
    BY <1>2, <1>3
<1>5. Ins(m, p) \in [Indices -> Cells]
    BY <1>2, <1>3 DEF Typed
<1> QED
    BY <1>4, <1>5 DEF Typed

\* A time falls in a level that lasts until then at least.
LEMMA FoundTyped ==
    ASSUME NEW m, Typed(m), NEW tim \in Nat \ {0}
    PROVE  LET f == Found(m, tim)
           IN  /\ f.pt \in 0 .. Behind - 1
               /\ f.diff # 0 => ~IsCommand(m[f.pt]) /\ f.diff \in 0 .. m[f.pt].t
<1> DEFINE a == Elapsed(m)
           f == Found(m, tim)
           e == End(m, 0)
           In == {i \in 0 .. e - 1 : ~IsCommand(m[i]) /\ tim <= a[i + 1]}
<1>1. /\ Behind \in Nat /\ Indices = 0 .. Behind /\ e \in 0 .. Behind - 1 /\ m \in [Indices -> Cells]
      /\ \A i \in Indices : m[i].t \in Nat /\ (IsCommand(m[i]) => m[i].t = 0)
    BY BehindIs, EndTyped DEF Typed, Cells
<1>2. a \in [0 .. Behind + 1 -> Nat] /\ a[0] = 0 /\ \A i \in 0 .. Behind : a[i + 1] = a[i] + m[i].t
    BY <1>1, ElapsedIs
<1>3. f = IF In = {} THEN [pt |-> e, diff |-> 0]
          ELSE LET i == CHOOSE j \in In : \A k \in In : j <= k
               IN  [pt |-> i, diff |-> a[i + 1] - tim]
    BY DEF Found
<1> HIDE DEF a, f, e
<1>4. CASE In = {}
    BY <1>1, <1>3, <1>4 DEF f
<1>5. CASE In # {}
  <2> DEFINE Low(j) == \A k \in In : j <= k
  <2>1. In \subseteq Nat /\ \A i \in In : i \in 0 .. Behind - 1 /\ i \in 0 .. e - 1
      BY <1>1
  <2>2. PICK i \in In : Low(i)
      BY <1>5, <2>1, Least
  <2>3. \A x \in In : Low(x) => x = i
      BY <2>1, <2>2
  <2>4. (CHOOSE x \in In : Low(x)) = i
      BY <2>2, <2>3
  <2>5. f = [pt |-> i, diff |-> a[i + 1] - tim]
      BY <1>3, <1>5, <2>4
  <2>6. /\ i \in 0 .. Behind - 1 /\ i \in 0 .. Behind /\ i \in 0 .. e - 1 /\ i \in 0 .. Behind + 1
        /\ i \in Indices /\ ~IsCommand(m[i]) /\ tim <= a[i + 1]
      BY <1>1, <2>1
  <2>7. ~(tim <= a[i])
    <3> DEFINE T == {j \in 0 .. i : tim <= a[j]}
    <3>1. T \subseteq Nat
        BY <2>6
    <3> SUFFICES ASSUME tim <= a[i] PROVE FALSE
        OBVIOUS
    <3>2. i \in T
        BY <2>6
    <3> HIDE DEF T
    <3>3. PICK j \in T : \A y \in T : j <= y
        BY <3>1, <3>2, Least
    <3>4. j \in 0 .. i /\ tim <= a[j]
        BY <3>3 DEF T
    <3>5. j # 0
        BY <1>2, <3>4
    <3> DEFINE k == j - 1
    <3>6. /\ k \in 0 .. i /\ k \in 0 .. e - 1 /\ k \in 0 .. Behind /\ k \in 0 .. Behind + 1
          /\ k \in Indices /\ k + 1 = j /\ ~(j <= k) /\ ~(i <= k)
        BY <1>1, <2>6, <3>4, <3>5
    <3> HIDE DEF k
    <3>7. ~(tim <= a[k])
        BY <3>3, <3>6 DEF T
    <3>8. a[k] \in Nat /\ a[j] = a[k] + m[k].t /\ m[k].t \in Nat
        BY <1>1, <1>2, <3>6
    <3>9. m[k].t # 0
        BY <3>4, <3>7, <3>8
    <3>10. k \in In
        BY <1>1, <3>4, <3>6, <3>9
    <3> QED
        BY <2>2, <3>6, <3>10
  <2>8. a[i + 1] = a[i] + m[i].t /\ a[i] \in Nat /\ m[i].t \in Nat
      BY <1>1, <1>2, <2>6
  <2>9. a[i + 1] - tim \in 0 .. m[i].t
      BY <2>6, <2>7, <2>8
  <2> QED
      BY <2>5, <2>6, <2>9 DEF f
<1> QED
    BY <1>4, <1>5

LEMMA EdgeTyped ==
    ASSUME NEW m, Typed(m), NEW tim \in Nat
    PROVE  Typed(Edge(m, tim).m) /\ Edge(m, tim).pt \in 0 .. Behind
<1> DEFINE at == Found(m, tim)
           p == at.pt
           n == Ins(m, p)
           k == Split(m, p, at.diff)
<1>1. Behind \in Nat /\ Indices = 0 .. Behind
    BY BehindIs
<1>2. CASE tim = 0
    BY <1>1, <1>2 DEF Edge
<1>3. CASE tim # 0 /\ at.diff = 0
  <2>1. p \in 0 .. Behind - 1
      BY <1>3, FoundTyped
  <2>2. p + 1 \in 0 .. Behind
      BY <1>1, <2>1
  <2> QED
      BY <1>3, <2>2 DEF Edge
<1>4. CASE tim # 0 /\ at.diff # 0
  <2>1. p \in 0 .. Behind - 1 /\ ~IsCommand(m[p]) /\ at.diff \in 0 .. m[p].t
      BY <1>4, FoundTyped
  <2>2. p \in Nat /\ p \in Indices /\ p + 1 \in Indices /\ p + 1 \in 0 .. Behind /\ p # p + 1
      BY <1>1, <2>1
  <2>3. Typed(n)
      BY <2>2, InsTyped
  <2>4. n[p] = m[p]
      BY <2>2 DEF Ins
  <2>5. m[p] \in Cells /\ n \in [Indices -> Cells] /\ n[p] \in Cells
      BY <2>2, <2>3 DEF Typed
  <2>6. m[p].t \in Nat /\ m[p].c \in Kinds /\ m[p].d \in SUBSET Bits
      BY <2>5 DEF Cells
  <2>7. m[p].t - at.diff \in Nat /\ at.diff \in Nat
      BY <2>1, <2>6
  <2> DEFINE x == [n[p] EXCEPT !.t = n[p].t - at.diff]
             y == [n[p] EXCEPT !.t = at.diff]
  <2>8. k = [n EXCEPT ![p] = x, ![p + 1] = y]
      BY <2>2, <2>5 DEF Split
  <2>9. /\ x \in Cells /\ ~IsCommand(x)
        /\ y \in Cells /\ ~IsCommand(y)
    <3>1. n[p] \in [c : Kinds, t : Nat, d : SUBSET Bits] /\ n[p].c = m[p].c /\ n[p].t = m[p].t
        BY <2>4, <2>5 DEF Cells
    <3> HIDE DEF at, p, n
    <3>2. x \in Cells /\ x.c = m[p].c /\ y \in Cells /\ y.c = m[p].c
        BY <2>7, <3>1 DEF Cells
    <3> QED
        BY <2>1, <3>2 DEF IsCommand
  <2> HIDE DEF x, y, n, k, p
  <2>10. k \in [Indices -> Cells] /\ \A i \in Indices : k[i] = IF i = p + 1 THEN y ELSE IF i = p THEN x ELSE n[i]
      BY <2>2, <2>5, <2>8, <2>9
  <2>11. Typed(k)
      BY <2>3, <2>9, <2>10 DEF Typed
  <2>12. Edge(m, tim) = [m |-> k, pt |-> p + 1]
      BY <1>4 DEF Edge, k, p
  <2> QED
      BY <2>2, <2>11, <2>12
<1> QED
    BY <1>2, <1>3, <1>4

LEMMA LvlTyped ==
    ASSUME NEW m, Typed(m), NEW st \in Nat, NEW ed \in Nat, NEW mask, NEW pat, pat \subseteq Bits
    PROVE  Typed(LvlOf(m, st, ed, mask, pat))
<1> DEFINE s == Edge(m, st)
           e == Edge(s.m, ed)
           n == LvlOf(m, st, ed, mask, pat)
           New(cell) == [cell EXCEPT !.d = (cell.d \cap mask) \union pat]
<1>1. Typed(s.m)
    BY EdgeTyped
<1>2. Typed(e.m)
    BY <1>1, EdgeTyped
<1>3. n = [i \in Indices |-> IF s.pt <= i /\ i < e.pt THEN New(e.m[i]) ELSE e.m[i]]
    BY DEF LvlOf
<1>4. ASSUME NEW cell \in Cells
      PROVE  New(cell) \in Cells /\ New(cell).t = cell.t /\ New(cell).c = cell.c
    BY <1>4 DEF Cells
<1> HIDE DEF s, e, n, New
<1>5. \A i \in Indices : n[i] \in {e.m[i], New(e.m[i])} /\ e.m[i] \in Cells
    BY <1>2, <1>3 DEF Typed
<1>6. \A i \in Indices : n[i] \in Cells /\ n[i].t = e.m[i].t /\ n[i].c = e.m[i].c
    BY <1>4, <1>5
<1> QED
    BY <1>2, <1>3, <1>6 DEF Typed, IsCommand, n

LEMMA ComTyped ==
    ASSUME NEW m, Typed(m), NEW tim \in Nat, NEW cmd, cmd.c \in Codes, cmd.d \subseteq Bits
    PROVE  Typed(ComOf(m, tim, cmd))
<1> DEFINE e == Edge(m, tim)
           n == IF IsCommand(e.m[e.pt]) THEN e.m ELSE Ins(e.m, e.pt)
           cell == [c |-> cmd.c, t |-> 0, d |-> cmd.d]
<1>1. Typed(e.m) /\ e.pt \in Nat
  <2>1. e.pt \in 0 .. Behind
      BY EdgeTyped
  <2> QED
      BY <2>1, EdgeTyped
<1>2. Typed(n)
    BY <1>1, InsTyped
<1>3. cell \in Cells /\ cell.t = 0
    BY DEF Cells, Kinds
<1>4. ComOf(m, tim, cmd) = [n EXCEPT ![e.pt] = cell]
    BY DEF ComOf
<1> HIDE DEF e, n, cell
<1> QED
    BY <1>2, <1>3, <1>4 DEF Typed

LEMMA ClrTyped == ASSUME NEW m, Typed(m), NEW n PROVE Typed(ClrOf(m, n)) /\ Typed(Clearpulm(m))
<1> DEFINE level == [c |-> "level", t |-> CellTime, d |-> {}]
           end == [c |-> "end", t |-> 0, d |-> {}]
<1>1. level \in Cells /\ end \in Cells /\ Zero \in Cells /\ end.t = 0 /\ Zero.t = 0 /\ ~IsCommand(level)
    BY SizeAssumption DEF Cells, Kinds, Zero, IsCommand
<1>2. ClrOf(m, n) = [i \in Indices |-> IF i < n THEN level ELSE IF i = n THEN end ELSE m[i]]
    BY DEF ClrOf
<1>3. Clearpulm(m) = [i \in Indices |-> IF i = UMax - 1 THEN end ELSE IF i < UMax THEN Zero ELSE m[i]]
    BY DEF Clearpulm
<1> HIDE DEF level, end
<1>4. Typed(ClrOf(m, n))
    BY <1>1, <1>2 DEF Typed
<1>5. Typed(Clearpulm(m))
    BY <1>1, <1>3 DEF Typed
<1> QED
    BY <1>4, <1>5

-----------------------------------------------------------------------------
\* A command past the end.

AgreeTo(m, n, e) == n \in [Indices -> Cells] /\ \A i \in 0 .. e : n[i] = m[i]

LEMMA SameBefore ==
    ASSUME NEW m, NEW e, Formed(m, e), NEW n, AgreeTo(m, n, e)
    PROVE  /\ Formed(n, e) /\ Elapsed(n)[e] = Elapsed(m)[e]
           /\ \A w : Reads(m, e, w) => Reads(n, e, w)
<1> DEFINE a == Elapsed(m)
           b == Elapsed(n)
<1>1. /\ m \in [Indices -> Cells] /\ n \in [Indices -> Cells] /\ \A i \in 0 .. e : n[i] = m[i]
      /\ e \in Nat /\ Behind \in Nat /\ e <= Behind - 1
    BY BehindIs DEF Formed, AgreeTo
<1>2. \A i \in 0 .. e - 1 : i \in 0 .. e /\ i + 1 \in 0 .. e
    BY <1>1
<1>3. Formed(n, e)
  <2>1. e \in 0 .. e
      BY <1>1
  <2> QED
      BY <1>1, <1>2, <2>1 DEF Formed, IsCommand
<1>4. \A i \in 0 .. e : b[i] = a[i]
  <2> DEFINE z == 0
  <2>1. z \in Nat /\ \A j \in 0 .. e : z + j = j
      BY <1>1
  <2>2. Alike(n, z, m, z, e)
    <3>1. z + e <= Behind + 1 /\ Elapsed(n)[z] = Elapsed(m)[z]
        BY <1>1, ElapsedIs
    <3>2. \A j \in 0 .. e - 1 : n[z + j].t = m[z + j].t
        BY <1>1, <1>2, <2>1
    <3> QED
        BY <3>1, <3>2 DEF Alike
  <2> HIDE DEF z
  <2>3. \A j \in 0 .. e : Elapsed(n)[z + j] = Elapsed(m)[z + j]
      BY <1>1, <2>1, <2>2, SameTimes
  <2> QED
      BY <2>1, <2>3
<1> HIDE DEF a, b
<1>5. \A i \in 0 .. e - 1 : n[i] = m[i] /\ b[i] = a[i] /\ b[i + 1] = a[i + 1]
    BY <1>1, <1>2, <1>4
<1>6. b[e] = a[e]
    BY <1>1, <1>4
<1>7. Met(n, e) = Met(m, e)
    BY <1>5 DEF Met, a, b
<1>8. ASSUME NEW w, Reads(m, e, w) PROVE Reads(n, e, w)
    BY <1>5, <1>6, <1>7, <1>8 DEF Reads, a, b
<1> QED
    BY <1>3, <1>6, <1>8 DEF a, b

\* It is stored behind the terminator; the waveform stays.
LEMMA ComPast ==
    ASSUME NEW m, NEW e, Formed(m, e), Typed(m), e + 3 <= Behind, NEW tim \in Int,
           Elapsed(m)[e] < Tick(tim), NEW cmd, cmd.c \in Codes, cmd.d \subseteq Bits
    PROVE  \E f : /\ f \in {e, e + 1} /\ Formed(ComOf(m, Tick(tim), cmd), f)
                  /\ Elapsed(ComOf(m, Tick(tim), cmd))[f] = Elapsed(m)[e]
                  /\ \A w : Reads(m, e, w) => /\ Reads(ComOf(m, Tick(tim), cmd), f, w)
                                              /\ PW!Command(w, tim, cmd) = w
<1> DEFINE x == Tick(tim)
           r == Edge(m, x)
           k == r.m
           p == r.pt
           n == ComOf(m, x, cmd)
           cell == [c |-> cmd.c, t |-> 0, d |-> cmd.d]
<1>1. e \in Nat /\ Behind \in Nat /\ Indices = 0 .. Behind /\ x \in Nat /\ e + 2 <= Behind
    BY BehindIs DEF Formed, Tick
<1>2. Elapsed(m)[e] \in Nat
  <2>1. e \in 0 .. e + 1
      BY <1>1
  <2> QED
      BY <2>1, LevelLasts
<1>3. PICK f : EdgeOK(m, e, x, r, f)
    BY <1>1, EdgeIs
<1>4. /\ f \in {e, e + 1} /\ Formed(k, f) /\ Elapsed(k)[f] = Elapsed(m)[e]
      /\ At(k, f, p, x) /\ \A w : Reads(m, e, w) => Reads(k, f, w)
    BY <1>3 DEF EdgeOK
<1>5. p = f + 1
  <2> DEFINE y == Elapsed(m)[e]
  <2>1. y \in Nat /\ y < x /\ Elapsed(k)[f] = y
      BY <1>2, <1>4
  <2> HIDE DEF x, y, k, p
  <2>2. ~(x <= y)
      BY <1>1, <2>1
  <2>3. ~(x <= Elapsed(k)[f])
      BY <2>1, <2>2
  <2> QED
      BY <1>4, <2>3 DEF At
<1>6. n = [(IF IsCommand(k[p]) THEN k ELSE Ins(k, p)) EXCEPT ![p] = cell]
    BY DEF ComOf
<1>7. Typed(n)
    BY <1>1, ComTyped
<1> HIDE DEF x, r, k, p, n, cell
<1>8. \A i \in 0 .. f : i \in Indices /\ ~(p < i) /\ i # p
    BY <1>1, <1>4, <1>5
<1>9. k \in [Indices -> Cells]
    BY <1>4 DEF Formed
<1>10. \A i \in Indices : ~(p < i) => Ins(k, p)[i] = k[i]
    BY DEF Ins
<1>11. \A i \in 0 .. f : n[i] = k[i]
  <2>1. CASE IsCommand(k[p])
      BY <1>6, <1>8, <1>9, <2>1
  <2>2. CASE ~IsCommand(k[p])
    <3>1. n = [Ins(k, p) EXCEPT ![p] = cell] /\ DOMAIN Ins(k, p) = Indices
        BY <1>6, <2>2 DEF Ins
    <3>2. \A i \in Indices : i # p => n[i] = Ins(k, p)[i]
        BY <3>1
    <3> QED
        BY <1>8, <1>10, <3>2
  <2> QED
      BY <2>1, <2>2
<1>12. AgreeTo(k, n, f)
    BY <1>7, <1>11 DEF AgreeTo, Typed
<1>13. /\ Formed(n, f) /\ Elapsed(n)[f] = Elapsed(k)[f]
       /\ \A w : Reads(k, f, w) => Reads(n, f, w)
    BY <1>4, <1>12, SameBefore
<1>14. ASSUME NEW w, Reads(m, e, w) PROVE PW!Command(w, tim, cmd) = w
  <2>1. w.total = Elapsed(m)[e]
    <3> DEFINE fw == [y \in 0 .. Elapsed(m)[e] - 1 |-> w.wave[y]]
               fc == [y \in Met(m, e) |-> w.cmds[y]]
    <3>1. w = [total |-> Elapsed(m)[e], wave |-> fw, cmds |-> fc]
        BY <1>14 DEF Reads
    <3> HIDE DEF fw, fc
    <3> QED
        BY <3>1
  <2>2. PW!Tick(tim) = x
      BY DEF PW!Tick, Tick, x
  <2>3. w.total < x /\ w.total \in Nat
      BY <1>2, <2>1 DEF x
  <2>4. ~(x < w.total) /\ ~(x = w.total) /\ x > w.total
      BY <1>1, <2>3
  <2> QED
      BY <2>2, <2>4 DEF PW!Command
<1> QED
    BY <1>4, <1>13, <1>14 DEF n, x

LEMMA ClampIs == ASSUME NEW n \in Lengths PROVE Clamp(n) \in 0 .. UMax
BY SizeAssumption DEF Clamp

-----------------------------------------------------------------------------
\* Every array of the class is typed, and formed as long as no command took the
\* place of the terminator; an edit makes two cells at most.

Good(m, l, k) == \E e \in 0 .. l + 2 * k : Formed(m, e) /\ Elapsed(m)[e] = l * CellTime

MemInv ==
    /\ leng \in 0 .. UMax /\ edits \in 0 .. MaxEdits /\ clears \in 0 .. MaxClears
    /\ late \in {"no", "past", "at"} /\ Typed(databuf)
    /\ late # "at" => Good(databuf, leng, edits)

LEMMA GoodCleared ==
    ASSUME NEW m, NEW l \in 0 .. UMax, Formed(m, l), Elapsed(m)[l] = l * CellTime
    PROVE  Good(m, l, 0)
<1>1. l \in 0 .. l + 2 * 0
    BY SizeAssumption
<1> QED
    BY <1>1 DEF Good

LEMMA InitInv == Init => MemInv
<1> SUFFICES ASSUME Init PROVE MemInv
    OBVIOUS
<1> DEFINE z == [i \in Indices |-> Zero]
<1>1. PICK n \in Lengths : /\ databuf = ClrOf(Clearpulm(z), Clamp(n)) /\ leng = Clamp(n)
                           /\ edits = 0 /\ clears = 0 /\ late = "no"
    BY DEF Init
<1>2. Typed(z)
    BY DEF Typed, Zero, Cells, Kinds
<1> HIDE DEF z
<1>3. Clearpulm(z) \in [Indices -> Cells] /\ leng \in 0 .. UMax /\ Typed(Clearpulm(z))
    BY <1>1, <1>2, ClearpulmIs, ClampIs, ClrTyped DEF Typed
<1>4. Typed(databuf) /\ Formed(databuf, leng) /\ Elapsed(databuf)[leng] = leng * CellTime
    BY <1>1, <1>3, ClrIs, ClrTyped
<1>5. Good(databuf, leng, edits)
    BY <1>1, <1>3, <1>4, GoodCleared
<1>6. edits \in 0 .. MaxEdits /\ clears \in 0 .. MaxClears
    BY <1>1, SizeAssumption
<1> QED
    BY <1>1, <1>3, <1>4, <1>5, <1>6 DEF MemInv

\* clr.
LEMMA ClrStep ==
    ASSUME MemInv, NEW n \in Lengths, Clr(n)
    PROVE  /\ leng' \in 0 .. UMax /\ edits' = 0 /\ Typed(databuf')
           /\ Formed(databuf', leng') /\ Elapsed(databuf')[leng'] = leng' * CellTime
           /\ Reads(databuf', leng', PW!Cleared(Clamp(n)))
           /\ \A i \in UMax .. Behind : i > leng' => databuf'[i] = databuf[i]
<1>1. Typed(databuf) /\ Typed(Clearpulm(databuf))
      /\ \A i \in UMax .. Behind : Clearpulm(databuf)[i] = databuf[i]
  <2>1. Typed(databuf) /\ databuf \in [Indices -> Cells]
      BY DEF MemInv, Typed
  <2> QED
      BY <2>1, ClearpulmIs, ClrTyped
<1>2. /\ databuf' = ClrOf(databuf, leng') \/ databuf' = ClrOf(Clearpulm(databuf), leng')
      /\ leng' = Clamp(n) /\ edits' = 0 /\ leng' \in 0 .. UMax
    BY ClampIs DEF Clr
<1>3. \E m : /\ Typed(m) /\ databuf' = ClrOf(m, leng')
             /\ \A i \in UMax .. Behind : m[i] = databuf[i]
    BY <1>1, <1>2
<1>4. PICK m : /\ Typed(m) /\ databuf' = ClrOf(m, leng')
               /\ \A i \in UMax .. Behind : m[i] = databuf[i]
    BY <1>3
<1>5. m \in [Indices -> Cells]
    BY <1>4 DEF Typed
<1>6. /\ Formed(databuf', leng') /\ Elapsed(databuf')[leng'] = leng' * CellTime
      /\ Reads(databuf', leng', PW!Cleared(leng')) /\ Typed(databuf')
      /\ \A i \in Indices : i > leng' => databuf'[i] = m[i]
    BY <1>2, <1>4, <1>5, ClrIs, ClrTyped
<1>7. \A i \in UMax .. Behind : i \in Indices
    BY SizeAssumption, BehindIs
<1> QED
    BY <1>2, <1>4, <1>6, <1>7

\* lvl and com.
LEMMA GoodEdited ==
    ASSUME NEW l \in Nat, NEW k \in Nat, NEW e \in 0 .. l + 2 * k, NEW f \in e .. e + 2,
           NEW m, NEW n, Elapsed(m)[e] = l * CellTime, Formed(n, f), Elapsed(n)[f] = Elapsed(m)[e]
    PROVE  f \in 0 .. l + 2 * (k + 1) /\ Good(n, l, k + 1)
<1>1. f \in 0 .. l + 2 * (k + 1)
    OBVIOUS
<1> QED
    BY <1>1 DEF Good

LEMMA Room ==
    ASSUME MemInv, NEW e \in 0 .. leng + 2 * edits, edits < MaxEdits
    PROVE  e + 3 <= Behind /\ leng \in Nat /\ edits \in Nat
BY SizeAssumption DEF MemInv, Behind

LEMMA LvlStep ==
    ASSUME MemInv, NEW st \in Times, NEW ed \in Times, NEW mask \in SUBSET Bits, NEW pat \in SUBSET Bits,
           Lvl(st, ed, mask, pat), NEW e \in 0 .. leng + 2 * edits, Formed(databuf, e),
           Elapsed(databuf)[e] = leng * CellTime
    PROVE  \E f : /\ f \in 0 .. leng' + 2 * edits' /\ Formed(databuf', f)
                  /\ Good(databuf', leng', edits')
                  /\ \A i \in Indices : i > f => databuf'[i] = databuf[i]
                  /\ \A w : Reads(databuf, e, w) => Reads(databuf', f, PW!Level(w, st, ed, mask, pat))
<1>1. /\ edits < MaxEdits /\ edits' = edits + 1 /\ leng' = leng
      /\ databuf' = LvlOf(databuf, Tick(st), Tick(ed), mask, pat)
    BY DEF Lvl
<1>2. e + 3 <= Behind /\ st \in Int /\ ed \in Int /\ pat \subseteq Bits /\ leng \in Nat /\ edits \in Nat
    BY <1>1, Room, SizeAssumption
<1>3. PICK f : /\ Edit(databuf, e, databuf', f)
               /\ \A w : Reads(databuf, e, w) => Reads(databuf', f, PW!Level(w, st, ed, mask, pat))
    BY <1>1, <1>2, LvlIs
<1>4. /\ f \in e .. e + 2 /\ Formed(databuf', f) /\ Elapsed(databuf')[f] = Elapsed(databuf)[e]
      /\ \A i \in Indices : i > f => databuf'[i] = databuf[i]
    BY <1>3 DEF Edit
<1>5. f \in 0 .. leng' + 2 * edits' /\ Good(databuf', leng', edits')
    BY <1>1, <1>2, <1>4, GoodEdited
<1> QED
    BY <1>3, <1>4, <1>5

\* Of a com before or past the end.
LEMMA ComStep ==
    ASSUME MemInv, NEW tim \in Times, NEW c \in Codes, NEW d \in SUBSET Bits,
           Com(tim, [c |-> c, d |-> d]), NEW e \in 0 .. leng + 2 * edits, Formed(databuf, e),
           Elapsed(databuf)[e] = leng * CellTime, Tick(tim) # leng * CellTime
    PROVE  \E f : /\ f \in 0 .. leng' + 2 * edits' /\ Formed(databuf', f)
                  /\ Good(databuf', leng', edits')
                  /\ Tick(tim) < leng * CellTime => \A i \in Indices : i > f => databuf'[i] = databuf[i]
                  /\ \A w : Reads(databuf, e, w) =>
                        Reads(databuf', f, PW!Command(w, tim, [c |-> c, d |-> d]))
<1> DEFINE cmd == [c |-> c, d |-> d]
<1>1. /\ edits < MaxEdits /\ edits' = edits + 1 /\ leng' = leng
      /\ databuf' = ComOf(databuf, Tick(tim), cmd)
    BY DEF Com
<1>2. e + 3 <= Behind /\ tim \in Int /\ leng \in Nat /\ edits \in Nat /\ Typed(databuf)
    BY <1>1, Room, SizeAssumption DEF MemInv
<1>3. cmd = [c |-> cmd.c, d |-> cmd.d] /\ cmd.c \in Codes /\ cmd.d \subseteq Bits
    OBVIOUS
<1> HIDE DEF cmd
<1>4. CASE Tick(tim) < leng * CellTime
  <2>1. PICK f : /\ Edit(databuf, e, databuf', f)
                 /\ \A w : Reads(databuf, e, w) => Reads(databuf', f, PW!Command(w, tim, cmd))
      BY <1>1, <1>2, <1>3, <1>4, ComIs
  <2>2. /\ f \in e .. e + 2 /\ Formed(databuf', f) /\ Elapsed(databuf')[f] = Elapsed(databuf)[e]
        /\ \A i \in Indices : i > f => databuf'[i] = databuf[i]
      BY <2>1 DEF Edit
  <2>3. f \in 0 .. leng' + 2 * edits' /\ Good(databuf', leng', edits')
      BY <1>1, <1>2, <2>2, GoodEdited
  <2> QED
      BY <2>1, <2>2, <2>3 DEF cmd
<1>5. CASE ~(Tick(tim) < leng * CellTime)
  <2>1. Elapsed(databuf)[e] < Tick(tim)
    <3> DEFINE x == leng * CellTime
    <3>1. x \in Nat /\ Tick(tim) \in Nat
        BY <1>2, SizeAssumption DEF Tick
    <3>2. ~(Tick(tim) < x) /\ Tick(tim) # x
        BY <1>5
    <3> HIDE DEF x
    <3>3. x < Tick(tim)
        BY <3>1, <3>2
    <3> QED
        BY <3>3 DEF x
  <2>2. PICK f : /\ f \in {e, e + 1} /\ Formed(databuf', f)
                 /\ Elapsed(databuf')[f] = Elapsed(databuf)[e]
                 /\ \A w : Reads(databuf, e, w) => Reads(databuf', f, w) /\ PW!Command(w, tim, cmd) = w
      BY <1>1, <1>2, <1>3, <2>1, ComPast
  <2>3. f \in e .. e + 2
      BY <1>2, <2>2
  <2>4. f \in 0 .. leng' + 2 * edits' /\ Good(databuf', leng', edits')
      BY <1>1, <1>2, <2>2, <2>3, GoodEdited
  <2> QED
      BY <1>5, <2>2, <2>4 DEF cmd
<1> QED
    BY <1>4, <1>5

\* What a com makes of late.
LateOf(x, y, l) == CASE x = y -> "at" [] x > y /\ l # "at" -> "past" [] OTHER -> l

LEMMA LateOfIs ==
    ASSUME NEW x \in Nat, NEW y \in Nat, NEW l
    PROVE  /\ LateOf(x, y, l) \in {"at", "past", l}
           /\ x = y => LateOf(x, y, l) = "at"
           /\ LateOf(x, y, l) # "at" => l # "at" /\ x # y
<1>1. CASE x = y
  <2>1. ~(x > y)
      BY <1>1
  <2> QED
      BY <1>1, <2>1 DEF LateOf
<1>2. CASE x # y
    BY <1>2 DEF LateOf
<1> QED
    BY <1>1, <1>2

LEMMA LateIs ==
    ASSUME MemInv, NEW tim \in Times, NEW cmd, Com(tim, cmd)
    PROVE  /\ late' \in {"at", "past", late}
           /\ Tick(tim) = leng * CellTime => late' = "at"
           /\ late' # "at" => late # "at" /\ Tick(tim) # leng * CellTime
<1> DEFINE x == Tick(tim)
           y == leng * CellTime
<1>1. x \in Nat /\ y \in Nat
    BY SizeAssumption DEF Tick, MemInv
<1>2. late' = LateOf(x, y, late)
    BY DEF Com, LateOf
<1> HIDE DEF x, y
<1> QED
    BY <1>1, <1>2, LateOfIs DEF x, y

LEMMA StepInv == MemInv /\ [Next]_vars => MemInv'
<1> SUFFICES ASSUME MemInv, [Next]_vars PROVE MemInv'
    OBVIOUS
<1>1. Typed(databuf) /\ (late # "at" => Good(databuf, leng, edits)) /\ MaxEdits \in Nat /\ MaxClears \in Nat
    BY SizeAssumption DEF MemInv
<1>2. ASSUME NEW n \in Lengths, Clr(n) PROVE MemInv'
  <2>1. /\ leng' \in 0 .. UMax /\ edits' = 0 /\ Typed(databuf')
        /\ Formed(databuf', leng') /\ Elapsed(databuf')[leng'] = leng' * CellTime
      BY <1>2, ClrStep
  <2>2. Good(databuf', leng', edits')
      BY <2>1, GoodCleared
  <2>3. edits' \in 0 .. MaxEdits /\ clears' \in 0 .. MaxClears /\ late' = "no"
      BY <1>1, <1>2, <2>1 DEF Clr, MemInv
  <2> QED
      BY <2>1, <2>2, <2>3 DEF MemInv
<1>3. ASSUME NEW st \in Times, NEW ed \in Times, NEW mask \in SUBSET Bits, NEW pat \in SUBSET Bits,
             Lvl(st, ed, mask, pat)
      PROVE  MemInv'
  <2>1. /\ leng' = leng /\ edits' \in 0 .. MaxEdits /\ clears' = clears /\ late' = late
        /\ databuf' = LvlOf(databuf, Tick(st), Tick(ed), mask, pat)
      BY <1>1, <1>3 DEF Lvl, MemInv
  <2>2. Typed(databuf')
    <3>1. Tick(st) \in Nat /\ Tick(ed) \in Nat /\ pat \subseteq Bits
        BY SizeAssumption DEF Tick
    <3> QED
        BY <1>1, <2>1, <3>1, LvlTyped
  <2>3. late' # "at" => Good(databuf', leng', edits')
    <3> SUFFICES ASSUME late # "at" PROVE Good(databuf', leng', edits')
        BY <2>1
    <3>1. PICK e \in 0 .. leng + 2 * edits : Formed(databuf, e) /\ Elapsed(databuf)[e] = leng * CellTime
        BY <1>1 DEF Good
    <3> QED
        BY <1>3, <3>1, LvlStep
  <2> QED
      BY <2>1, <2>2, <2>3 DEF MemInv
<1>4. ASSUME NEW tim \in Times, NEW c \in Codes, NEW d \in SUBSET Bits, Com(tim, [c |-> c, d |-> d])
      PROVE  MemInv'
  <2>1. /\ leng' = leng /\ edits' \in 0 .. MaxEdits /\ clears' = clears
        /\ databuf' = ComOf(databuf, Tick(tim), [c |-> c, d |-> d])
      BY <1>1, <1>4 DEF Com, MemInv
  <2>2. late' \in {"at", "past", late} /\ (late' # "at" => late # "at" /\ Tick(tim) # leng * CellTime)
      BY <1>4, LateIs
  <2>3. Typed(databuf')
    <3>1. Tick(tim) \in Nat
        BY SizeAssumption DEF Tick
    <3> DEFINE cmd == [c |-> c, d |-> d]
    <3>2. cmd.c \in Codes /\ cmd.d \subseteq Bits
        OBVIOUS
    <3> HIDE DEF cmd
    <3>3. Typed(ComOf(databuf, Tick(tim), cmd))
        BY <1>1, <3>1, <3>2, ComTyped
    <3> QED
        BY <2>1, <3>3 DEF cmd
  <2>4. late' # "at" => Good(databuf', leng', edits')
    <3> SUFFICES ASSUME late # "at", Tick(tim) # leng * CellTime PROVE Good(databuf', leng', edits')
        BY <2>2
    <3>1. PICK e \in 0 .. leng + 2 * edits : Formed(databuf, e) /\ Elapsed(databuf)[e] = leng * CellTime
        BY <1>1 DEF Good
    <3> QED
        BY <1>4, <3>1, ComStep
  <2> QED
      BY <2>1, <2>2, <2>3, <2>4 DEF MemInv
<1>5. CASE UNCHANGED vars
    BY <1>5 DEF vars, MemInv, Typed, Good, Formed, Elapsed
<1> QED
    BY <1>2, <1>3, <1>4, <1>5 DEF Next

LEMMA AlwaysInv == Spec => []MemInv
BY InitInv, StepInv, PTL DEF Spec

-----------------------------------------------------------------------------
\* Theorems.

LEMMA EndNow ==
    ASSUME MemInv, late # "at"
    PROVE  \E e : Formed(databuf, e) /\ End(databuf, 0) = e
<1>1. PICK e : Formed(databuf, e)
    BY DEF MemInv, Good
<1>2. e \in Nat
    BY <1>1, LevelLasts
<1>3. 0 \in 0 .. e
    BY <1>2
<1> QED
    BY <1>1, <1>3, EndIs

LEMMA InvType == MemInv => TypeOK
<1> SUFFICES ASSUME MemInv PROVE TypeOK
    OBVIOUS
<1>1. databuf \in [Indices -> Cells] /\ \A i \in Indices : IsCommand(databuf[i]) => databuf[i].t = 0
    BY DEF MemInv, Typed
<1>2. late # "at" => \A i \in 0 .. End(databuf, 0) : databuf[i].t = 0 => IsCommand(databuf[i])
    BY EndNow DEF Formed, IsCommand
<1> QED
    BY <1>1, <1>2 DEF TypeOK, MemInv

\* Cells stay well formed, whatever is edited and however often, unless a
\* command takes the place of the terminator; they keep their type even then.
\* (edg, ins, com, clr.)
THEOREM TypeCorrect == Spec => []TypeOK
BY AlwaysInv, InvType, PTL

LEMMA InvOne == MemInv => OneCommandATime
<1> SUFFICES ASSUME MemInv, late # "at" PROVE OneCommandATime
    BY DEF OneCommandATime
<1>1. PICK e : Formed(databuf, e) /\ End(databuf, 0) = e
    BY EndNow
<1> QED
    BY <1>1, OneCommand DEF OneCommandATime

\* The sequencer never meets two commands at the same tick, unless one took the
\* place of the terminator.  (com.)
THEOREM CommandsApart == Spec => []OneCommandATime
BY AlwaysInv, InvOne, PTL

LEMMA InsideStep ==
    ASSUME MemInv, [Next]_vars, leng' + 2 * edits' < UMax, late' = "no"
    PROVE  \A i \in UMax .. Behind : databuf'[i] = databuf[i]
<1>1. /\ UMax \in Nat /\ \A i \in UMax .. Behind : i \in Indices
      /\ leng \in Nat /\ edits \in Nat /\ Behind \in Nat
    BY SizeAssumption, BehindIs DEF MemInv
<1>2. ASSUME NEW f, f \in 0 .. leng' + 2 * edits', \A i \in Indices : i > f => databuf'[i] = databuf[i]
      PROVE  \A i \in UMax .. Behind : databuf'[i] = databuf[i]
  <2>1. MemInv'
      BY StepInv
  <2>2. leng' \in Nat /\ edits' \in Nat
      BY <2>1, SizeAssumption DEF MemInv
  <2> DEFINE x == leng' + 2 * edits'
  <2>3. x \in Nat /\ x < UMax /\ f \in 0 .. x
    <3>1. x \in Nat
      <4>1. \A a, b \in Nat : a + 2 * b \in Nat
          OBVIOUS
      <4> QED
          BY <2>2, <4>1, Zenon
    <3>2. x < UMax
        OBVIOUS
    <3> QED
        BY <1>2, <3>1, <3>2
  <2> HIDE DEF x
  <2>4. \A i \in UMax .. Behind : i > f
      BY <1>1, <2>3
  <2> QED
      BY <1>1, <1>2, <2>4
<1>3. ASSUME NEW n \in Lengths, Clr(n) PROVE \A i \in UMax .. Behind : databuf'[i] = databuf[i]
  <2>1. /\ leng' \in 0 .. UMax /\ edits' = 0 /\ \A i \in UMax .. Behind : i > leng' => databuf'[i] = databuf[i]
      BY <1>3, ClrStep
  <2>2. leng' + 2 * 0 < UMax /\ leng' \in Nat
    <3>1. leng' + 2 * 0 = leng' + 2 * edits' /\ leng' \in 0 .. UMax
        BY <2>1, Zenon
    <3>2. leng' \in Nat
        BY <1>1, <3>1
    <3> QED
        BY <3>1, <3>2, Zenon
  <2>3. \A i \in UMax .. Behind : i > leng'
    <3>1. \A u \in Nat : u + 2 * 0 < UMax => \A i \in UMax .. Behind : i > u
        BY <1>1
    <3> QED
        BY <2>2, <3>1, Zenon
  <2> QED
      BY <2>1, <2>3
<1>4. ASSUME NEW st \in Times, NEW ed \in Times, NEW mask \in SUBSET Bits, NEW pat \in SUBSET Bits,
             Lvl(st, ed, mask, pat)
      PROVE  \A i \in UMax .. Behind : databuf'[i] = databuf[i]
  <2>1. late # "at"
      BY <1>4 DEF Lvl
  <2>2. PICK e \in 0 .. leng + 2 * edits : Formed(databuf, e) /\ Elapsed(databuf)[e] = leng * CellTime
      BY <2>1 DEF MemInv, Good
  <2>3. PICK f : f \in 0 .. leng' + 2 * edits' /\ \A i \in Indices : i > f => databuf'[i] = databuf[i]
      BY <1>4, <2>2, LvlStep
  <2> QED
      BY <1>2, <2>3
<1>5. ASSUME NEW tim \in Times, NEW c \in Codes, NEW d \in SUBSET Bits, Com(tim, [c |-> c, d |-> d])
      PROVE  \A i \in UMax .. Behind : databuf'[i] = databuf[i]
  <2>1. late # "at" /\ Tick(tim) # leng * CellTime /\ ~(Tick(tim) > leng * CellTime)
      BY <1>5 DEF Com
  <2>2. PICK e \in 0 .. leng + 2 * edits : Formed(databuf, e) /\ Elapsed(databuf)[e] = leng * CellTime
      BY <2>1 DEF MemInv, Good
  <2>3. Tick(tim) < leng * CellTime
    <3> DEFINE x == leng * CellTime
    <3>1. x \in Nat /\ Tick(tim) \in Nat /\ Tick(tim) # x /\ ~(Tick(tim) > x)
        BY <1>1, <2>1, SizeAssumption DEF Tick
    <3> HIDE DEF x
    <3>2. Tick(tim) < x
        BY <3>1
    <3> QED
        BY <3>2 DEF x
  <2>4. PICK f : f \in 0 .. leng' + 2 * edits' /\ \A i \in Indices : i > f => databuf'[i] = databuf[i]
      BY <1>5, <2>1, <2>2, <2>3, ComStep
  <2> QED
      BY <1>2, <2>4
<1>6. CASE UNCHANGED vars
    BY <1>6 DEF vars
<1> QED
    BY <1>3, <1>4, <1>5, <1>6 DEF Next

\* As long as every command is before the end of the cleared time, only edits
\* that the array has no room for write behind it.  (ins, edg, clr, com.)
THEOREM InsideAlways == Spec => InsideArray
<1>1. MemInv /\ [Next]_vars =>
        [leng' + 2 * edits' < UMax /\ late' = "no" =>
            \A i \in UMax .. Behind : databuf'[i] = databuf[i]]_vars
    BY InsideStep
<1> QED
    BY <1>1, AlwaysInv, PTL DEF Spec, InsideArray

LEMMA WaveIs == Wave = WaveOf(databuf)
BY DEF Wave, WaveOf, WaveAt

LEMMA WaveIsNext == Wave' = WaveOf(databuf')
BY DEF Wave, WaveOf, WaveAt

\* The waveform is the only one that the cells describe.
LEMMA WaveReads ==
    ASSUME NEW e, Formed(databuf, e)
    PROVE  /\ Reads(databuf, e, Wave) /\ Wave.total = Elapsed(databuf)[e]
           /\ \A w : Reads(databuf, e, w) => w = Wave
<1>1. Reads(databuf, e, Wave)
    BY WaveIs, ReadsOf
<1>2. Wave.total = Elapsed(databuf)[e]
  <2> DEFINE w == Wave
  <2>1. Reads(databuf, e, w)
      BY <1>1
  <2> HIDE DEF w
  <2>2. w = [total |-> Elapsed(databuf)[e], wave |-> [x \in 0 .. Elapsed(databuf)[e] - 1 |-> w.wave[x]],
             cmds |-> [x \in Met(databuf, e) |-> w.cmds[x]]]
      BY <2>1 DEF Reads
  <2>3. w.total = Elapsed(databuf)[e]
      BY <2>2
  <2> QED
      BY <2>3 DEF w
<1> QED
    BY <1>1, <1>2, ReadsOnly

LEMMA WaveNow ==
    ASSUME NEW f, Formed(databuf', f), NEW w, Reads(databuf', f, w)
    PROVE  Wave' = w
<1>1. Reads(databuf', f, Wave')
    BY WaveIsNext, ReadsOf
<1> QED
    BY <1>1, ReadsOnly

LEMMA InitWave == Init => PW!WaveInit
<1> SUFFICES ASSUME Init PROVE PW!WaveInit
    OBVIOUS
<1> DEFINE z == [i \in Indices |-> Zero]
<1>1. PICK n \in Lengths : databuf = ClrOf(Clearpulm(z), Clamp(n)) /\ late = "no"
    BY DEF Init
<1>2. Clearpulm(z) \in [Indices -> Cells] /\ Clamp(n) \in 0 .. UMax
  <2>1. z \in [Indices -> Cells]
      BY DEF Zero, Cells, Kinds
  <2> HIDE DEF z
  <2> QED
      BY <2>1, ClearpulmIs, ClampIs
<1>3. Formed(databuf, Clamp(n)) /\ Reads(databuf, Clamp(n), PW!Cleared(Clamp(n)))
    BY <1>1, <1>2, ClrIs
<1>4. Wave = PW!Cleared(Clamp(n))
    BY <1>3, WaveReads
<1> QED
    BY <1>1, <1>4 DEF PW!WaveInit

\* What is seen of the memory.
Seen == IF late = "at" THEN NoWave ELSE Wave

LEMMA LostIs == PW!Lost = NoWave
<1>1. 0 * CellTime = 0
    BY SizeAssumption
<1>2. 0 .. 0 * CellTime - 1 = {}
    BY <1>1
<1>3. [x \in 0 .. 0 * CellTime - 1 |-> {}] = << >>
    BY <1>2
<1> QED
    BY <1>1, <1>3 DEF PW!Lost, PW!Cleared, NoWave

\* Edits of a memory without terminator.
LEMMA LostStays ==
    ASSUME NEW x \in Int, NEW st \in Int, NEW ed \in Int, NEW mask, NEW pat, NEW cmd
    PROVE  PW!Command(NoWave, x, cmd) = NoWave /\ PW!Level(NoWave, st, ed, mask, pat) = NoWave
<1>1. PW!Command(NoWave, x, cmd) = NoWave
  <2>1. NoWave.total = 0 /\ PW!Tick(x) \in Nat
      BY DEF NoWave, PW!Tick
  <2>2. ~(PW!Tick(x) < NoWave.total)
      BY <2>1
  <2>3. PW!Tick(x) = NoWave.total \/ (PW!Tick(x) > NoWave.total /\ ~(PW!Tick(x) = NoWave.total))
      BY <2>1
  <2> QED
      BY <2>2, <2>3, LostIs DEF PW!Command
<1>2. PW!Level(NoWave, st, ed, mask, pat) = NoWave
    BY DEF PW!Level, NoWave
<1> QED
    BY <1>1, <1>2

LEMMA StepWave ==
    ASSUME MemInv, [Next]_vars
    PROVE  [PW!WaveNext]_Seen
<1>1. late # "at" =>
        \E e \in 0 .. leng + 2 * edits : /\ Formed(databuf, e) /\ Elapsed(databuf)[e] = leng * CellTime
                                         /\ Reads(databuf, e, Wave) /\ Wave.total = leng * CellTime
  <2> SUFFICES ASSUME late # "at"
               PROVE  \E e \in 0 .. leng + 2 * edits :
                         /\ Formed(databuf, e) /\ Elapsed(databuf)[e] = leng * CellTime
                         /\ Reads(databuf, e, Wave) /\ Wave.total = leng * CellTime
      OBVIOUS
  <2>1. PICK e \in 0 .. leng + 2 * edits : Formed(databuf, e) /\ Elapsed(databuf)[e] = leng * CellTime
      BY DEF MemInv, Good
  <2> QED
      BY <2>1, WaveReads
<1>2. ASSUME NEW n \in Lengths, Clr(n) PROVE PW!WaveNext
  <2>1. Formed(databuf', leng') /\ Reads(databuf', leng', PW!Cleared(Clamp(n))) /\ late' = "no"
      BY <1>2, ClrStep DEF Clr
  <2>2. Wave' = PW!Cleared(Clamp(n))
      BY <2>1, WaveNow
  <2>3. PW!Clr(Clamp(n))
      BY <2>1, <2>2 DEF PW!Clr
  <2> QED
      BY <2>3 DEF PW!WaveNext
<1>3. ASSUME NEW st \in Times, NEW ed \in Times, NEW mask \in SUBSET Bits, NEW pat \in SUBSET Bits,
             Lvl(st, ed, mask, pat)
      PROVE  PW!WaveNext
  <2>1. late' = late /\ st \in Int /\ ed \in Int
      BY <1>3, SizeAssumption DEF Lvl
  <2>2. CASE late # "at"
    <3>1. PICK e \in 0 .. leng + 2 * edits :
            Formed(databuf, e) /\ Elapsed(databuf)[e] = leng * CellTime /\ Reads(databuf, e, Wave)
        BY <1>1, <2>2
    <3>2. PICK f : Formed(databuf', f) /\ Reads(databuf', f, PW!Level(Wave, st, ed, mask, pat))
        BY <1>3, <3>1, LvlStep
    <3>3. Wave' = PW!Level(Wave, st, ed, mask, pat)
        BY <3>2, WaveNow
    <3>4. PW!Lvl(st, ed, mask, pat)
        BY <2>1, <2>2, <3>3 DEF PW!Lvl
    <3> QED
        BY <3>4 DEF PW!WaveNext
  <2>3. CASE late = "at"
    <3>1. NoWave' = NoWave /\ PW!Level(NoWave, st, ed, mask, pat) = NoWave
      <4> DEFINE x == 0
      <4>1. x \in Int
          OBVIOUS
      <4> HIDE DEF x
      <4>2. PW!Level(NoWave, st, ed, mask, pat) = NoWave
          BY <2>1, <4>1, LostStays
      <4> QED
          BY <4>2 DEF NoWave
    <3>2. PW!Lvl(st, ed, mask, pat)
        BY <2>1, <2>3, <3>1 DEF PW!Lvl
    <3> QED
        BY <3>2 DEF PW!WaveNext
  <2> QED
      BY <2>2, <2>3
<1>4. ASSUME NEW tim \in Times, NEW c \in Codes, NEW d \in SUBSET Bits, Com(tim, [c |-> c, d |-> d])
      PROVE  PW!WaveNext
  <2> DEFINE cmd == [c |-> c, d |-> d]
  <2>1. cmd \in PW!Commands /\ tim \in Int
      BY SizeAssumption DEF PW!Commands
  <2> SUFFICES PW!Com(tim, cmd)
      BY <2>1 DEF PW!WaveNext
  <2>2. CASE late # "at" /\ Tick(tim) # leng * CellTime
    <3>1. PICK e \in 0 .. leng + 2 * edits :
            Formed(databuf, e) /\ Elapsed(databuf)[e] = leng * CellTime /\ Reads(databuf, e, Wave)
        BY <1>1, <2>2
    <3>2. PICK f : Formed(databuf', f) /\ Reads(databuf', f, PW!Command(Wave, tim, cmd))
        BY <1>4, <2>2, <3>1, ComStep
    <3>3. Wave' = PW!Command(Wave, tim, cmd)
        BY <3>2, WaveNow
    <3>4. late' # "at"
        BY <1>4, <2>2 DEF Com
    <3> QED
        BY <2>2, <3>3, <3>4 DEF PW!Com
  <2>3. CASE late # "at" /\ Tick(tim) = leng * CellTime
    <3>1. late' = "at" /\ NoWave' = NoWave
        BY <1>4, <2>3, LateIs DEF NoWave
    <3>2. Wave.total = leng * CellTime
        BY <1>1, <2>3
    <3>3. PW!Tick(tim) = Wave.total /\ Wave.total \in Nat
      <4>1. leng * CellTime \in Nat
          BY SizeAssumption DEF MemInv
      <4> QED
          BY <2>3, <3>2, <4>1 DEF PW!Tick, Tick
    <3>4. PW!Command(Wave, tim, cmd) = NoWave
      <4>1. ~(PW!Tick(tim) < Wave.total) /\ ~(PW!Tick(tim) > Wave.total)
          BY <3>3
      <4> QED
          BY <3>3, <4>1, LostIs DEF PW!Command
    <3> QED
        BY <2>3, <3>1, <3>4 DEF PW!Com
  <2>4. CASE late = "at"
    <3>1. late' = "at" /\ NoWave' = NoWave
        BY <1>4, <2>4 DEF Com, NoWave
    <3>2. PW!Command(NoWave, tim, cmd) = NoWave
        BY <2>1, LostStays
    <3> QED
        BY <2>4, <3>1, <3>2 DEF PW!Com
  <2> QED
      BY <2>2, <2>3, <2>4
<1>5. CASE UNCHANGED vars
  <2>1. databuf' = databuf /\ late' = late
      BY <1>5 DEF vars
  <2>2. Wave' = Wave /\ NoWave' = NoWave
      BY <2>1, WaveIs, WaveIsNext DEF NoWave
  <2> QED
      BY <2>1, <2>2 DEF Seen
<1> QED
    BY <1>2, <1>3, <1>4, <1>5 DEF Next

\* The cells implement the waveform: each call of clr, lvl and com changes
\* what the pulser puts out as PulseWave says, however its cells are split,
\* with a com at the very end and past it too.
THEOREM CellsAreWave == Spec => ImplementsPulseWave
<1>1. MemInv /\ [Next]_vars => [PW!WaveNext]_(IF late = "at" THEN NoWave ELSE Wave)
    BY StepWave DEF Seen
<1>2. Init => PW!WaveInit
    BY InitWave
<1> QED
    BY <1>1, <1>2, AlwaysInv, PTL DEF Spec, ImplementsPulseWave, PW!WaveSpec
=============================================================================
