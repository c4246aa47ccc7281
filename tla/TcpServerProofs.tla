--------------------------- MODULE TcpServerProofs ---------------------------
(***************************************************************************)
(* Theorems about TcpServer for every number of connections, every stream  *)
(* of bytes and every size of the receive buffer.                          *)
(***************************************************************************)
EXTENDS TcpServer, SequenceTheorems, WellFoundedInduction, TLAPS

Kept == Plain \union {"SC"}

\* With the ranges: the command in hand has one delimiter, its last character,
\* and bytes that are counted as received have been sent.
CommandAt(c) ==
    pc[c] = "exec" => stm[c] # << >> /\ \A i \in 1 .. Len(stm[c]) - 1 : stm[c][i] \in Plain

Placed == TypeOK /\ \A c \in Conns : CommandAt(c)

LEMMA Elements ==
    ASSUME NEW S, NEW s \in Seq(S)
    PROVE  Len(s) \in Nat /\ DOMAIN s = 1 .. Len(s) /\ \A i \in 1 .. Len(s) : s[i] \in S
OBVIOUS

LEMMA StripType ==
    ASSUME NEW s \in Seq(Char)
    PROVE  Strip(s) \in Seq(Kept)
<1>1. /\ Len(s) \in Nat /\ DOMAIN s = 1 .. Len(s)
      /\ \A i \in 1 .. Len(s) : s[i] \in Char
    BY Elements
<1>2. \A x \in Char : (IF x \in Delims THEN "SC" ELSE x) \in Kept
    BY DEF Char, Kept
<1>3. Strip(s) \in [1 .. Len(s) -> Kept]
    BY <1>1, <1>2 DEF Strip
<1> QED
    BY <1>1, <1>3

LEMMA PieceType ==
    ASSUME NEW S, NEW s \in Seq(S), NEW m \in 1 .. Len(s) + 1, NEW n \in 0 .. Len(s)
    PROVE  /\ SubSeq(s, m, n) \in Seq(S)
           /\ Len(SubSeq(s, m, n)) = IF m <= n THEN n - m + 1 ELSE 0
           /\ \A i \in 1 .. n - m + 1 : SubSeq(s, m, n)[i] = s[m + i - 1]
BY SubSeqProperties

\* search_delimit answers with a place in the buffer, before which there is
\* none.
LEMMA DelimiterFound ==
    ASSUME NEW s \in Seq(Kept), SearchDelimit(s) # 0
    PROVE  /\ SearchDelimit(s) \in 1 .. Len(s)
           /\ \A j \in 1 .. SearchDelimit(s) - 1 : s[j] \in Plain
<1>1. \E i \in DOMAIN s : Delimits(s, i)
    BY DEF SearchDelimit
<1>2. SearchDelimit(s) \in DOMAIN s /\ Delimits(s, SearchDelimit(s))
    BY <1>1 DEF SearchDelimit
<1>3. /\ Len(s) \in Nat /\ DOMAIN s = 1 .. Len(s)
      /\ \A i \in 1 .. Len(s) : s[i] \in Kept
    BY Elements
<1>4. \A x \in Kept : x \notin Delims => x \in Plain
    BY DEF Kept, Delims
<1>5. \A j \in 1 .. SearchDelimit(s) - 1 : s[j] \notin Delims
    BY <1>2 DEF Delimits
<1>6. \A j \in 1 .. SearchDelimit(s) - 1 : j \in 1 .. Len(s)
    BY <1>2, <1>3
<1> QED
    BY <1>2, <1>3, <1>4, <1>5, <1>6

LEMMA PlacedInit == Init => Placed
BY BoundsAssumption DEF Init, Placed, TypeOK, CommandAt

LEMMA PlacedStep == Placed /\ [Next]_vars => Placed'
<1> SUFFICES ASSUME Placed, [Next]_vars PROVE Placed'
    OBVIOUS
<1> USE BoundsAssumption DEF Placed, TypeOK, CommandAt
<1>1. ASSUME NEW c \in Conns, Connect(c) \/ Leave(c) PROVE Placed'
  <2>1. peer' \in [Conns -> {"new", "up", "closed", "reset"}]
      BY <1>1 DEF Connect, Leave
  <2>1a. queue' = Append(queue, c) \/ queue' = queue
      BY <1>1 DEF Connect, Leave, loop
  <2>1b. queue' \in Seq(Conns)
    <3>1. queue \in Seq(Conns)
        OBVIOUS
    <3>2. Append(queue, c) \in Seq(Conns)
        BY <3>1, AppendProperties
    <3> QED
        BY <2>1a, <3>1, <3>2
  <2>2. UNCHANGED <<sent, sock, args, fails, pc, rcvd, cmdbuf, stm, done>>
      BY <1>1 DEF Connect, Leave, loop
  <2> QED
      BY <2>1, <2>1b, <2>2
<1>2. ASSUME NEW c \in Conns, NEW ch \in Char, Send(c, ch) PROVE Placed'
  <2>1. sent' \in [Conns -> Seq(Char)] /\ Len(sent'[c]) = Len(sent[c]) + 1
      BY <1>2 DEF Send
  <2> QED
      BY <1>2, <2>1 DEF Send, loop
<1>3. ASSUME Accept PROVE Placed'
  <2>1. Head(queue) \in Conns /\ Tail(queue) \in Seq(Conns)
      BY <1>3 DEF Accept
  <2>2. queue' \in Seq(Conns) /\ args' \subseteq Conns /\ sock' \in [Conns -> {"none", "open", "closed"}]
      BY <1>3, <2>1 DEF Accept
  <2>3. fails' \in 0 .. MaxThreadFails
      BY <1>3 DEF Accept
  <2>4. pc' = pc \/ pc' = [pc EXCEPT ![Head(queue)] = "recv"]
      BY <1>3 DEF Accept
  <2>5. UNCHANGED <<peer, sent, rcvd, cmdbuf, stm, done>>
      BY <1>3 DEF Accept, client
  <2> QED
      BY <2>2, <2>3, <2>4, <2>5
\* What recv returns has been sent, and loses its CR, LF and NUL.
<1>4. ASSUME NEW c \in Conns, Recv(c) PROVE Placed'
  <2>1. PICK x \in 1 .. BUFF_SIZE :
           /\ rcvd[c] + x <= Len(sent[c])
           /\ rcvd' = [rcvd EXCEPT ![c] = @ + x]
           /\ cmdbuf' = [cmdbuf EXCEPT ![c] = @ \o Strip(SubSeq(sent[c], rcvd[c] + 1, rcvd[c] + x))]
      BY <1>4 DEF Recv
  <2>2. x \in Nat /\ rcvd[c] \in Nat /\ sent[c] \in Seq(Char) /\ Len(sent[c]) \in Nat
      BY SizeAssumption
  <2>3. SubSeq(sent[c], rcvd[c] + 1, rcvd[c] + x) \in Seq(Char)
      BY <2>1, <2>2, PieceType
  <2>4. Strip(SubSeq(sent[c], rcvd[c] + 1, rcvd[c] + x)) \in Seq(Kept)
      BY <2>3, StripType
  <2>5. cmdbuf' \in [Conns -> Seq(Plain \union {"SC"})]
      BY <2>1, <2>4 DEF Kept
  <2>6. rcvd' \in [Conns -> Nat] /\ \A d \in Conns : rcvd'[d] <= Len(sent[d])
      BY <2>1, <2>2
  <2>7. pc' = [pc EXCEPT ![c] = "scan"] /\ UNCHANGED <<client, loop, stm, done>>
      BY <1>4 DEF Recv
  <2> QED
      BY <2>5, <2>6, <2>7 DEF client, loop
<1>5. ASSUME NEW c \in Conns, RecvEnds(c) \/ NoDelimiter(c) PROVE Placed'
    BY <1>5 DEF RecvEnds, NoDelimiter, client, loop
<1>6. ASSUME NEW c \in Conns, Cut(c) PROVE Placed'
  <2> DEFINE d == SearchDelimit(cmdbuf[c])
             s == cmdbuf[c]
  <2>1. s \in Seq(Kept) /\ d # 0
      BY <1>6 DEF Cut, Kept
  <2>2. d \in 1 .. Len(s) /\ \A j \in 1 .. d - 1 : s[j] \in Plain
      BY <2>1, DelimiterFound
  <2>3. /\ stm' = [stm EXCEPT ![c] = SubSeq(s, 1, d)]
        /\ cmdbuf' = [cmdbuf EXCEPT ![c] = SubSeq(s, d + 1, Len(s))]
        /\ pc' = [pc EXCEPT ![c] = IF d = 1 THEN "scan" ELSE "exec"]
        /\ UNCHANGED <<client, loop, rcvd, done>>
      BY <1>6 DEF Cut
  <2> HIDE DEF d, s
  <2>4. Len(s) \in Nat
      BY <2>1
  <2>5. /\ SubSeq(s, 1, d) \in Seq(Kept) /\ Len(SubSeq(s, 1, d)) = d
        /\ \A i \in 1 .. d : SubSeq(s, 1, d)[i] = s[i]
      BY <2>1, <2>2, <2>4, PieceType
  <2>6. SubSeq(s, d + 1, Len(s)) \in Seq(Kept)
      BY <2>1, <2>2, <2>4, PieceType
  <2>7. stm' \in [Conns -> Seq(Plain \union {"SC"})] /\ cmdbuf' \in [Conns -> Seq(Plain \union {"SC"})]
      BY <2>3, <2>5, <2>6 DEF Kept
  <2>8. ASSUME NEW u \in Conns PROVE CommandAt(u)'
    <3>1. CASE u = c
      <4>1. stm'[c] = SubSeq(s, 1, d)
          BY <2>3
      <4>2. Len(stm'[c]) = d
          BY <2>5, <4>1
      <4>2a. stm'[c] # << >>
          BY <2>2, <2>4, <4>2
      <4>3. \A i \in 1 .. d - 1 : stm'[c][i] \in Plain
          BY <2>2, <2>5, <4>1
      <4> QED
          BY <3>1, <4>2, <4>2a, <4>3
    <3>2. CASE u # c
        BY <2>3, <3>2
    <3> QED
        BY <3>1, <3>2
  <2> QED
      BY <2>3, <2>7, <2>8 DEF client, loop

\* The command that is executed has lost its delimiter.
<1>7. ASSUME NEW c \in Conns, Execute(c) PROVE Placed'
  <2>1. stm[c] \in Seq(Kept) /\ stm[c] # << >> /\ Len(stm[c]) \in Nat \ {0}
        /\ \A i \in 1 .. Len(stm[c]) - 1 : stm[c][i] \in Plain
      BY <1>7 DEF Execute, Kept
  <2>2. Front(stm[c]) \in Seq(Plain)
      BY <2>1, SubSeqProperties DEF Front
  <2>3. done' \in [Conns -> Seq(Seq(Plain))]
      BY <1>7, <2>2 DEF Execute
  <2> QED
      BY <1>7, <2>3 DEF Execute, client, loop
<1>8. ASSUME NEW c \in Conns, Disconnect(c) PROVE Placed'
    BY <1>8 DEF Disconnect, client
<1>9. ASSUME UNCHANGED vars PROVE Placed'
    BY <1>9 DEF vars, client, loop
<1> QED
    BY <1>1, <1>2, <1>3, <1>4, <1>5, <1>6, <1>7, <1>8, <1>9 DEF Next, Thread, Quiet

\* For every stream of bytes, however recv cuts it and however the connections
\* interleave: no CR, LF or NUL gets past stripCRLF_NULL, no command that is
\* executed contains a delimiter, and nothing counts as received that was not
\* sent.
THEOREM TypeCorrect == Spec => []TypeOK
<1>1. Placed => TypeOK
    BY DEF Placed
<1> QED
    BY <1>1, PlacedInit, PlacedStep, PTL DEF Spec

-----------------------------------------------------------------------------
\* Commands of a byte string.

LEMMA LeastIn ==
    ASSUME NEW R, IsWellFoundedOn(R, Nat), \A x, y \in Nat : x < y => <<x, y>> \in R,
           NEW T, T \subseteq Nat, T # {}
    PROVE  \E x \in T : \A y \in T : x <= y
<1>1. PICK x \in T : \A y \in T : ~ (<<y, x>> \in R)
    BY WFMin
<1>2. ASSUME NEW y \in T PROVE x <= y
  <2>1. x \in Nat /\ y \in Nat /\ ~(<<y, x>> \in R)
      BY <1>1
  <2>2. ~(y < x)
      BY <2>1
  <2> QED
      BY <2>1, <2>2
<1> QED
    BY <1>2

\* A set of numbers has a least one.
LEMMA Least == ASSUME NEW T, T \subseteq Nat, T # {} PROVE \E x \in T : \A y \in T : x <= y
<1>1. \A x, y \in Nat : x < y => <<x, y>> \in OpToRel(<, Nat)
    BY DEF OpToRel
<1> QED
    BY <1>1, LeastIn, NatLessThanWellFounded

\* search_delimit overlooks no delimiter.
LEMMA NoneFound ==
    ASSUME NEW s \in Seq(Kept), SearchDelimit(s) = 0
    PROVE  \A i \in 1 .. Len(s) : s[i] \in Plain
<1>1. /\ Len(s) \in Nat /\ DOMAIN s = 1 .. Len(s)
      /\ \A i \in 1 .. Len(s) : s[i] \in Kept
    BY Elements
<1> DEFINE T == {i \in 1 .. Len(s) : s[i] \in Delims}
<1>2. ASSUME T # {} PROVE FALSE
  <2>1. T \subseteq Nat
      BY <1>1
  <2> HIDE DEF T
  <2>2. PICK i \in T : \A y \in T : i <= y
      BY <1>2, <2>1, Least
  <2>3. i \in 1 .. Len(s) /\ s[i] \in Delims /\ s[i] # "NUL"
      BY <1>1, PlainAssumption DEF T, Kept, Delims
  <2>4. \A j \in 1 .. i - 1 : s[j] \notin Delims
    <3> TAKE j \in 1 .. i - 1
    <3>1. j \in 1 .. Len(s) /\ ~(i <= j)
        BY <1>1, <2>3
    <3> QED
        BY <2>2, <3>1 DEF T
  <2>5. Delimits(s, i) /\ i \in DOMAIN s
      BY <1>1, <2>3, <2>4 DEF Delimits
  <2>6. (CHOOSE k \in DOMAIN s : Delimits(s, k)) = 0
      BY <2>5 DEF SearchDelimit
  <2>7. 0 \in DOMAIN s
      BY <2>5, <2>6
  <2> QED
      BY <1>1, <2>7
<1>3. \A x \in Kept : x \notin Delims => x \in Plain
    BY DEF Kept, Delims
<1> QED
    BY <1>1, <1>2, <1>3

\* What a list of commands is of.
LEMMA Run ==
    ASSUME NEW cs \in Seq(Seq(Plain)), NEW s, NEW n \in Nat, AreCommands(cs, s, n)
    PROVE  /\ Len(cs) \in Nat /\ DOMAIN cs = 1 .. Len(cs)
           /\ \A k \in 1 .. Len(cs) : cs[k] \in Seq(Plain) /\ Len(cs[k]) \in Nat
           /\ \E e \in [1 .. Len(cs) -> Ends(s, n)] :
                 /\ \A k, l \in 1 .. Len(cs) : k < l => e[k] < e[l]
                 /\ \A i \in Ends(s, n) : \E k \in 1 .. Len(cs) : e[k] = i
                 /\ \A k \in 1 .. Len(cs) : RunTo(cs[k], s, e[k])
<1>1. Len(cs) \in Nat /\ DOMAIN cs = 1 .. Len(cs) /\ \A k \in 1 .. Len(cs) : cs[k] \in Seq(Plain)
    BY Elements
<1>2. \A k \in 1 .. Len(cs) : Len(cs[k]) \in Nat
    BY <1>1
<1> QED
    BY <1>1, <1>2 DEF AreCommands

\* They do not depend on later bytes.
LEMMA LaterBytes ==
    ASSUME NEW cs \in Seq(Seq(Plain)), NEW s, NEW r, NEW n \in Nat, \A i \in 1 .. n : r[i] = s[i],
           AreCommands(cs, s, n)
    PROVE  AreCommands(cs, r, n)
<1>1. Ends(r, n) = Ends(s, n)
  <2>1. \A i \in 2 .. n : i \in 1 .. n /\ i - 1 \in 1 .. n
      OBVIOUS
  <2> QED
      BY <2>1 DEF Ends
<1> DEFINE m == Len(cs)
<1>2. PICK e \in [1 .. m -> Ends(s, n)] :
         /\ \A k, l \in 1 .. m : k < l => e[k] < e[l]
         /\ \A i \in Ends(s, n) : \E k \in 1 .. m : e[k] = i
         /\ \A k \in 1 .. m : RunTo(cs[k], s, e[k])
    BY Run
<1>3. DOMAIN cs = 1 .. m /\ \A k \in 1 .. m : Len(cs[k]) \in Nat
    BY Run
<1> HIDE DEF m
<1>4. ASSUME NEW k \in 1 .. m PROVE RunTo(cs[k], r, e[k])
  <2> DEFINE w == cs[k]
             i == e[k]
             z == Len(w)
             j == i - z
  <2>1. RunTo(w, s, i) /\ i \in 2 .. n /\ z \in Nat
      BY <1>2, <1>3 DEF Ends
  <2>2. /\ j >= 1 /\ (j > 1 => s[j - 1] \in Delims)
        /\ \A x \in 1 .. z : w[x] = s[j + x - 1] /\ w[x] \notin Delims
      BY <2>1 DEF RunTo
  <2> HIDE DEF i, z, w
  <2>3. (j > 1 => r[j - 1] = s[j - 1]) /\ \A x \in 1 .. z : r[j + x - 1] = s[j + x - 1]
    <3>1. (j > 1 => j - 1 \in 1 .. n) /\ \A x \in 1 .. z : j + x - 1 \in 1 .. n
        BY <2>1, <2>2
    <3> QED
        BY <3>1
  <2>4. RunTo(w, r, i)
      BY <2>2, <2>3 DEF RunTo, z
  <2> QED
      BY <2>4 DEF w, i
<1> QED
    BY <1>1, <1>2, <1>3, <1>4 DEF AreCommands

\* Bytes that complete no command leave them.
LEMMA SameEnds ==
    ASSUME NEW cs, NEW s, NEW n, NEW m, Ends(s, n) = Ends(s, m), AreCommands(cs, s, n)
    PROVE  AreCommands(cs, s, m)
BY DEF AreCommands

LEMMA Completed ==
    ASSUME NEW s, NEW n \in Nat, n > 0 => s[n] \in Delims, NEW w \in Seq(Plain), w # << >>,
           \A k \in 1 .. Len(w) : s[n + k] = w[k], s[n + Len(w) + 1] \in Delims
    PROVE  /\ Ends(s, n + Len(w) + 1) = Ends(s, n) \union {n + Len(w) + 1}
           /\ RunTo(w, s, n + Len(w) + 1)
<1> DEFINE z == Len(w)
           i == n + z + 1
<1>1. z \in Nat \ {0} /\ \A k \in 1 .. z : w[k] \in Plain
  <2>1. z \in Nat /\ \A k \in 1 .. z : w[k] \in Plain
      BY Elements
  <2> QED
      BY <2>1
<1>2. \A k \in 1 .. z : w[k] \notin Delims
    BY <1>1, PlainAssumption
<1>3. \A k \in 1 .. z : s[n + k] = w[k]
    OBVIOUS
<1>4. s[i] \in Delims
    OBVIOUS
<1> HIDE DEF z
<1>5. ASSUME NEW x \in n + 1 .. n + z PROVE s[x] \notin Delims
  <2>1. x - n \in 1 .. z /\ n + (x - n) = x
      BY <1>1
  <2> QED
      BY <1>2, <1>3, <2>1
<1>6. i \in 2 .. i /\ i - 1 \in n + 1 .. n + z
    BY <1>1
<1>7. ASSUME NEW x \in 2 .. i PROVE x \in 2 .. n \/ x \in n + 1 .. n + z \/ x = i
    BY <1>1
<1>8. ASSUME NEW x \in 2 .. n PROVE x \in 2 .. i
    BY <1>1
<1>9. Ends(s, i) = Ends(s, n) \union {i}
    BY <1>4, <1>5, <1>6, <1>7, <1>8 DEF Ends
<1>10. RunTo(w, s, i)
  <2> DEFINE j == i - Len(w)
  <2>1. j = n + 1
      BY <1>1 DEF z
  <2>2. \A k \in 1 .. z : j + k - 1 = n + k
      BY <1>1, <2>1
  <2>3. \A k \in 1 .. z : w[k] = s[j + k - 1] /\ w[k] \notin Delims
      BY <1>2, <1>3, <2>2
  <2>4. j >= 1 /\ (j > 1 => s[j - 1] \in Delims)
      BY <2>1
  <2> QED
      BY <2>3, <2>4 DEF RunTo, z
<1> QED
    BY <1>9, <1>10 DEF z

\* A run of other characters and a delimiter behind a delimiter are one more.
LEMMA OneMore ==
    ASSUME NEW cs \in Seq(Seq(Plain)), NEW s, NEW n \in Nat, n > 0 => s[n] \in Delims,
           AreCommands(cs, s, n), NEW w \in Seq(Plain), w # << >>,
           \A k \in 1 .. Len(w) : s[n + k] = w[k], s[n + Len(w) + 1] \in Delims
    PROVE  AreCommands(Append(cs, w), s, n + Len(w) + 1)
<1> DEFINE m == Len(cs)
           i == n + Len(w) + 1
           ds == Append(cs, w)
<1>1. PICK e \in [1 .. m -> Ends(s, n)] :
         /\ \A k, l \in 1 .. m : k < l => e[k] < e[l]
         /\ \A x \in Ends(s, n) : \E k \in 1 .. m : e[k] = x
         /\ \A k \in 1 .. m : RunTo(cs[k], s, e[k])
    BY Run
<1>2. Ends(s, i) = Ends(s, n) \union {i} /\ RunTo(w, s, i)
    BY Completed
<1>3. m \in Nat /\ i \in Nat /\ i > n
  <2>1. m \in Nat /\ Len(w) \in Nat
      BY Elements
  <2> QED
      BY <2>1
<1>4. /\ Len(ds) = m + 1 /\ DOMAIN ds = 1 .. m + 1
      /\ ds[m + 1] = w /\ \A k \in 1 .. m : ds[k] = cs[k]
    BY <1>3
<1> DEFINE f == [k \in 1 .. m + 1 |-> IF k <= m THEN e[k] ELSE i]
<1> HIDE DEF m, i, ds
<1>5. \A k \in 1 .. m : f[k] = e[k] /\ e[k] \in Ends(s, n) /\ e[k] \in Nat /\ e[k] < i
    BY <1>1, <1>3 DEF Ends
<1>6. f[m + 1] = i
    BY <1>3
<1>7. \A k \in 1 .. m + 1 : k \in 1 .. m \/ k = m + 1
    BY <1>3
<1>8. f \in [1 .. m + 1 -> Ends(s, i)]
    BY <1>2, <1>5, <1>6, <1>7
<1> HIDE DEF f
<1>9. ASSUME NEW k \in 1 .. m + 1, NEW l \in 1 .. m + 1, k < l PROVE f[k] < f[l]
  <2>1. k \in 1 .. m
      BY <1>3, <1>9
  <2>2. CASE l \in 1 .. m
      BY <1>1, <1>5, <1>9, <2>1, <2>2
  <2>3. CASE l = m + 1
      BY <1>5, <1>6, <2>1, <2>3
  <2> QED
      BY <1>7, <2>2, <2>3
<1>10. ASSUME NEW x \in Ends(s, i) PROVE \E k \in 1 .. m + 1 : f[k] = x
  <2>1. CASE x = i
    <3>1. m + 1 \in 1 .. m + 1
        BY <1>3
    <3> QED
        BY <1>6, <2>1, <3>1
  <2>2. CASE x \in Ends(s, n)
    <3>1. PICK k \in 1 .. m : e[k] = x
        BY <1>1, <2>2
    <3>2. k \in 1 .. m + 1
        BY <1>3
    <3> QED
        BY <1>5, <3>1, <3>2
  <2> QED
      BY <1>2, <2>1, <2>2
<1>11. ASSUME NEW k \in 1 .. m + 1 PROVE RunTo(ds[k], s, f[k])
    BY <1>1, <1>2, <1>4, <1>5, <1>6, <1>7
<1>12. \E g \in [1 .. m + 1 -> Ends(s, i)] :
          /\ \A k, l \in 1 .. m + 1 : k < l => g[k] < g[l]
          /\ \A x \in Ends(s, i) : \E k \in 1 .. m + 1 : g[k] = x
          /\ \A k \in 1 .. m + 1 : RunTo(ds[k], s, g[k])
    BY <1>8, <1>9, <1>10, <1>11, Zenon
<1>13. DOMAIN ds = 1 .. m + 1
    BY <1>4
<1>14. AreCommands(ds, s, i)
    BY <1>12, <1>13, Zenon DEF AreCommands
<1> QED
    BY <1>14 DEF ds, i

-----------------------------------------------------------------------------
\* What the buffer b and the commands cs are of the first r bytes of s.

Stream(s, r, b, cs) ==
    LET cut == r - Len(b)
    IN  /\ cut >= 0 /\ (cut > 0 => s[cut] \in Delims)
        /\ AreCommands(cs, s, cut)
        /\ \A i \in 1 .. Len(b) :
              LET ch == s[cut + i]
              IN  b[i] = IF ch \in Delims THEN "SC" ELSE ch

LEMMA StreamSent ==
    ASSUME NEW s \in Seq(Char), NEW ch \in Char, NEW r \in Nat, r <= Len(s), NEW b \in Seq(Kept),
           NEW cs \in Seq(Seq(Plain)), Stream(s, r, b, cs)
    PROVE  Stream(Append(s, ch), r, b, cs)
<1> DEFINE t == Append(s, ch)
           z == Len(b)
           cut == r - z
<1>1. Len(s) \in Nat /\ z \in Nat
    BY Elements
<1>2. \A i \in 1 .. r : t[i] = s[i]
    BY <1>1
<1>3. /\ cut >= 0 /\ (cut > 0 => s[cut] \in Delims)
      /\ AreCommands(cs, s, cut)
      /\ \A i \in 1 .. z : LET x == s[cut + i] IN b[i] = IF x \in Delims THEN "SC" ELSE x
    BY DEF Stream
<1> HIDE DEF t, z
<1>4. cut \in Nat /\ \A i \in 1 .. cut : t[i] = s[i]
    BY <1>1, <1>2, <1>3
<1>5. cut > 0 => t[cut] = s[cut]
    BY <1>4
<1>6. \A i \in 1 .. z : t[cut + i] = s[cut + i]
  <2>1. \A i \in 1 .. z : cut + i \in 1 .. r
      BY <1>1, <1>4
  <2> QED
      BY <1>2, <2>1
<1> HIDE DEF cut
<1>7. AreCommands(cs, t, cut)
    BY <1>3, <1>4, LaterBytes
<1>8. \A i \in 1 .. z : LET x == t[cut + i] IN b[i] = IF x \in Delims THEN "SC" ELSE x
    BY <1>3, <1>6
<1>9. Stream(t, r, b, cs)
    BY <1>3, <1>5, <1>7, <1>8 DEF Stream, cut, z
<1> QED
    BY <1>9 DEF t

LEMMA StreamReceived ==
    ASSUME NEW s \in Seq(Char), NEW r \in Nat, NEW n \in Nat \ {0}, r + n <= Len(s),
           NEW b \in Seq(Kept), NEW cs, Stream(s, r, b, cs)
    PROVE  Stream(s, r + n, b \o Strip(SubSeq(s, r + 1, r + n)), cs)
<1> DEFINE p == SubSeq(s, r + 1, r + n)
           a == b \o Strip(p)
           z == Len(b)
           cut == r - z
<1>1. Len(s) \in Nat /\ z \in Nat
    BY Elements
<1>2. p \in Seq(Char) /\ Len(p) = n /\ \A i \in 1 .. n : p[i] = s[r + i]
  <2>1. r + 1 \in 1 .. Len(s) + 1 /\ r + n \in 0 .. Len(s)
      BY <1>1
  <2>2. /\ p \in Seq(Char)
        /\ Len(p) = IF r + 1 <= r + n THEN (r + n) - (r + 1) + 1 ELSE 0
        /\ \A i \in 1 .. (r + n) - (r + 1) + 1 : p[i] = s[(r + 1) + i - 1]
      BY <2>1, PieceType
  <2> HIDE DEF p
  <2>3. Len(p) = n
      BY <2>2
  <2>4. \A i \in 1 .. n : i \in 1 .. (r + n) - (r + 1) + 1 /\ (r + 1) + i - 1 = r + i
      OBVIOUS
  <2> QED
      BY <2>2, <2>3, <2>4
<1>3. DOMAIN p = 1 .. n
    BY <1>2
<1> HIDE DEF p
<1> DEFINE q == Strip(p)
<1>4. q \in Seq(Kept) /\ Len(q) = n /\ \A i \in 1 .. n : q[i] = IF p[i] \in Delims THEN "SC" ELSE p[i]
  <2>1. q \in Seq(Kept)
      BY <1>2, StripType
  <2>2. DOMAIN q = 1 .. n
      BY <1>3 DEF Strip
  <2>3. Len(q) = n
      BY <2>1, <2>2
  <2>4. \A i \in 1 .. n : q[i] = IF p[i] \in Delims THEN "SC" ELSE p[i]
      BY <1>3 DEF Strip
  <2> QED
      BY <2>1, <2>3, <2>4
<1> HIDE DEF q
<1>5. /\ Len(b \o q) = z + n
      /\ \A i \in 1 .. z : (b \o q)[i] = b[i]
      /\ \A i \in z + 1 .. z + n : (b \o q)[i] = q[i - z]
    BY <1>1, <1>4
<1>6. /\ cut >= 0 /\ (cut > 0 => s[cut] \in Delims)
      /\ AreCommands(cs, s, cut)
      /\ \A i \in 1 .. z : LET x == s[cut + i] IN b[i] = IF x \in Delims THEN "SC" ELSE x
    BY DEF Stream
<1> HIDE DEF z
<1>7. (r + n) - (z + n) = cut
    BY <1>1
<1>8. ASSUME NEW i \in 1 .. z + n
      PROVE  LET x == s[cut + i] IN (b \o q)[i] = IF x \in Delims THEN "SC" ELSE x
  <2>1. CASE i \in 1 .. z
      BY <1>5, <1>6, <2>1
  <2>2. CASE i \in z + 1 .. z + n
    <3>1. i - z \in 1 .. n /\ r + (i - z) = cut + i
        BY <1>1, <2>2
    <3>2. (b \o q)[i] = q[i - z] /\ p[i - z] = s[cut + i]
        BY <1>2, <1>5, <2>2, <3>1
    <3> QED
        BY <1>4, <3>1, <3>2
  <2>3. i \in 1 .. z \/ i \in z + 1 .. z + n
      BY <1>1
  <2> QED
      BY <2>1, <2>2, <2>3
<1> HIDE DEF cut
<1>9. Stream(s, r + n, b \o q, cs)
    BY <1>5, <1>6, <1>7, <1>8 DEF Stream
<1> QED
    BY <1>9 DEF q, p

LEMMA StreamWaits ==
    ASSUME NEW s, NEW r \in Nat, NEW b \in Seq(Kept), NEW cs, Stream(s, r, b, cs),
           \A i \in 1 .. Len(b) : b[i] # "SC"
    PROVE  AreCommands(cs, s, r)
<1> DEFINE z == Len(b)
           cut == r - z
<1>1. z \in Nat
    OBVIOUS
<1>2. /\ cut >= 0 /\ AreCommands(cs, s, cut)
      /\ \A i \in 1 .. z : LET x == s[cut + i] IN b[i] = IF x \in Delims THEN "SC" ELSE x
    BY DEF Stream
<1>3. \A i \in 1 .. z : s[cut + i] \notin Delims
    BY <1>2
<1> HIDE DEF z
<1>4. ASSUME NEW i \in 2 .. r, i \notin 2 .. cut PROVE s[i] \notin Delims
  <2>1. i - cut \in 1 .. z /\ cut + (i - cut) = i
      BY <1>1, <1>2, <1>4
  <2> QED
      BY <1>3, <2>1
<1>5. \A i \in 2 .. cut : i \in 2 .. r
    BY <1>1
<1>6. Ends(s, cut) = Ends(s, r)
    BY <1>4, <1>5 DEF Ends
<1> HIDE DEF cut
<1> QED
    BY <1>2, <1>6, SameEnds

\* The buffer without its first d bytes.
LEMMA Rest ==
    ASSUME NEW s, NEW r \in Nat, NEW b \in Seq(Kept), NEW cs, Stream(s, r, b, cs),
           NEW d \in 1 .. Len(b), b[d] \in Delims,
           NEW ds, AreCommands(ds, s, (r - Len(b)) + d)
    PROVE  Stream(s, r, SubSeq(b, d + 1, Len(b)), ds)
<1> DEFINE z == Len(b)
           cut == r - z
           a == SubSeq(b, d + 1, z)
<1>1. z \in Nat
    OBVIOUS
<1>2. /\ cut >= 0 /\ (cut > 0 => s[cut] \in Delims)
      /\ \A i \in 1 .. z : LET x == s[cut + i] IN b[i] = IF x \in Delims THEN "SC" ELSE x
    BY DEF Stream
<1>3. Len(a) = z - d /\ \A i \in 1 .. z - d : a[i] = b[d + i]
  <2>1. d + 1 \in 1 .. z + 1 /\ z \in 0 .. z
      BY <1>1
  <2>2. /\ Len(a) = IF d + 1 <= z THEN z - (d + 1) + 1 ELSE 0
        /\ \A i \in 1 .. z - (d + 1) + 1 : a[i] = b[(d + 1) + i - 1]
      BY <2>1, PieceType
  <2> HIDE DEF z, a
  <2>3. d \in Nat /\ d <= z
      BY <1>1 DEF z
  <2>4. Len(a) = z - d
      BY <1>1, <2>2, <2>3
  <2>5. \A i \in 1 .. z - d : i \in 1 .. z - (d + 1) + 1 /\ (d + 1) + i - 1 = d + i
      BY <1>1, <2>3
  <2> QED
      BY <2>2, <2>4, <2>5
<1>4. s[cut + d] \in Delims
    BY <1>2
<1>5. d \in 1 .. z
    OBVIOUS
<1> HIDE DEF z, a
<1>6. r - (z - d) = cut + d /\ cut + d >= 0
    BY <1>1, <1>2, <1>5
<1>7. ASSUME NEW i \in 1 .. z - d
      PROVE  LET x == s[(cut + d) + i] IN a[i] = IF x \in Delims THEN "SC" ELSE x
  <2>1. d + i \in 1 .. z /\ cut + (d + i) = (cut + d) + i
      BY <1>1, <1>2, <1>5
  <2> QED
      BY <1>2, <1>3, <2>1
<1>8. AreCommands(ds, s, cut + d)
    BY DEF z
<1> HIDE DEF cut
<1>9. Stream(s, r, a, ds)
    BY <1>3, <1>4, <1>6, <1>7, <1>8 DEF Stream
<1> QED
    BY <1>9 DEF a, z

LEMMA StreamSkipped ==
    ASSUME NEW s, NEW r \in Nat, NEW b \in Seq(Kept), NEW cs, Stream(s, r, b, cs),
           1 \in 1 .. Len(b), b[1] \in Delims
    PROVE  Stream(s, r, SubSeq(b, 2, Len(b)), cs)
<1> DEFINE z == Len(b)
           cut == r - z
<1>1. z \in Nat
    OBVIOUS
<1>2. /\ cut >= 0 /\ (cut > 0 => s[cut] \in Delims) /\ AreCommands(cs, s, cut)
    BY DEF Stream
<1> HIDE DEF z
<1>3. cut \in Nat
    BY <1>1, <1>2
<1> HIDE DEF cut
<1>4. \A i \in 2 .. cut + 1 : i \in 2 .. cut \/ (cut > 0 /\ i - 1 = cut)
    BY <1>3
<1>5. \A i \in 2 .. cut : i \in 2 .. cut + 1
    BY <1>3
<1>6. Ends(s, cut) = Ends(s, cut + 1)
    BY <1>2, <1>4, <1>5 DEF Ends
<1>7. AreCommands(cs, s, cut + 1)
    BY <1>2, <1>6, SameEnds
<1>8. Stream(s, r, SubSeq(b, 1 + 1, Len(b)), cs)
    BY <1>7, Rest DEF cut, z
<1> QED
    BY <1>8

LEMMA StreamCut ==
    ASSUME NEW s, NEW r \in Nat, NEW b \in Seq(Kept), NEW cs \in Seq(Seq(Plain)), Stream(s, r, b, cs),
           NEW d \in 1 .. Len(b), d > 1, b[d] \in Delims, \A k \in 1 .. d - 1 : b[k] \in Plain
    PROVE  /\ Front(SubSeq(b, 1, d)) \in Seq(Plain)
           /\ Stream(s, r, SubSeq(b, d + 1, Len(b)), Append(cs, Front(SubSeq(b, 1, d))))
<1> DEFINE z == Len(b)
           cut == r - z
           p == SubSeq(b, 1, d)
           w == Front(p)
<1>1. z \in Nat /\ d \in Nat /\ d <= z
    OBVIOUS
<1>2. /\ cut >= 0 /\ (cut > 0 => s[cut] \in Delims) /\ AreCommands(cs, s, cut)
      /\ \A i \in 1 .. z : LET x == s[cut + i] IN b[i] = IF x \in Delims THEN "SC" ELSE x
    BY DEF Stream
<1>3. p \in Seq(Kept) /\ Len(p) = d /\ \A i \in 1 .. d : p[i] = b[i]
  <2>1. 1 \in 1 .. z + 1 /\ d \in 0 .. z
      BY <1>1
  <2>2. /\ p \in Seq(Kept)
        /\ Len(p) = IF 1 <= d THEN d - 1 + 1 ELSE 0
        /\ \A i \in 1 .. d - 1 + 1 : p[i] = b[1 + i - 1]
      BY <2>1, PieceType
  <2> HIDE DEF p
  <2>3. Len(p) = d /\ \A i \in 1 .. d : i \in 1 .. d - 1 + 1 /\ 1 + i - 1 = i
      BY <2>2
  <2> QED
      BY <2>2, <2>3
<1> HIDE DEF p
<1>4. w \in Seq(Plain) /\ Len(w) = d - 1 /\ \A i \in 1 .. d - 1 : w[i] = b[i]
  <2>1. 1 \in 1 .. Len(p) + 1 /\ d - 1 \in 0 .. Len(p)
      BY <1>1, <1>3
  <2>2. w = SubSeq(p, 1, d - 1)
      BY <1>3 DEF Front
  <2> HIDE DEF w
  <2>3. /\ w \in Seq(Kept)
        /\ Len(w) = IF 1 <= d - 1 THEN (d - 1) - 1 + 1 ELSE 0
        /\ \A i \in 1 .. (d - 1) - 1 + 1 : w[i] = p[1 + i - 1]
      BY <1>3, <2>1, <2>2, PieceType
  <2>4. Len(w) = d - 1
      BY <1>1, <2>3
  <2>5. \A i \in 1 .. d - 1 : i \in 1 .. (d - 1) - 1 + 1 /\ 1 + i - 1 = i /\ i \in 1 .. d
      BY <1>1
  <2>6. \A i \in 1 .. d - 1 : w[i] = b[i]
      BY <1>3, <2>3, <2>5
  <2>7. \A i \in 1 .. Len(w) : w[i] \in Plain
      BY <2>4, <2>6
  <2>8. w \in Seq(Plain)
      BY <2>3, <2>7
  <2> QED
      BY <2>4, <2>6, <2>8
<1> HIDE DEF w, z
<1>5. w # << >>
    BY <1>1, <1>4
<1>6. cut \in Nat
    BY <1>1, <1>2
<1>7. \A k \in 1 .. d - 1 : s[cut + k] = w[k]
  <2>1. \A k \in 1 .. d - 1 : k \in 1 .. z
      BY <1>1
  <2>2. \A k \in 1 .. d - 1 : b[k] \notin Delims /\ b[k] # "SC"
      BY PlainAssumption DEF Delims
  <2> QED
      BY <1>2, <1>4, <2>1, <2>2
<1>8. s[cut + d] \in Delims
    BY <1>1, <1>2
<1> HIDE DEF cut
<1>9. cut + (d - 1) + 1 = cut + d
    BY <1>1, <1>6
<1>10. AreCommands(Append(cs, w), s, cut + Len(w) + 1)
    BY <1>2, <1>4, <1>5, <1>6, <1>7, <1>8, <1>9, OneMore
<1>11. AreCommands(Append(cs, w), s, cut + d)
    BY <1>4, <1>9, <1>10
<1>12. Stream(s, r, SubSeq(b, d + 1, Len(b)), Append(cs, w))
    BY <1>11, Rest DEF cut, z
<1> QED
    BY <1>4, <1>12 DEF w, p

\* search_delimit answers with the place of a delimiter.
LEMMA DelimiterThere ==
    ASSUME NEW s \in Seq(Kept), SearchDelimit(s) # 0
    PROVE  s[SearchDelimit(s)] \in Delims
<1>1. \E i \in DOMAIN s : Delimits(s, i)
    BY DEF SearchDelimit
<1>2. Delimits(s, SearchDelimit(s))
    BY <1>1 DEF SearchDelimit
<1> QED
    BY <1>2 DEF Delimits

\* The command in hand without its delimiter.
LEMMA FrontPlain ==
    ASSUME Placed, NEW c \in Conns, pc[c] = "exec"
    PROVE  Front(stm[c]) \in Seq(Plain)
<1>1. /\ stm[c] \in Seq(Kept) /\ stm[c] # << >> /\ Len(stm[c]) \in Nat \ {0}
      /\ \A i \in 1 .. Len(stm[c]) - 1 : stm[c][i] \in Plain
    BY DEF Placed, TypeOK, CommandAt, Kept
<1> QED
    BY <1>1, SubSeqProperties DEF Front

-----------------------------------------------------------------------------
\* The inductive invariant: a connection in the listen queue is there once and
\* has no thread; one without a thread has received nothing; a thread keeps the
\* stream, waits only with a buffer without a delimiter, and leaves nothing
\* behind.

QueueOK ==
    /\ \A i \in 1 .. Len(queue) : pc[queue[i]] = "none" /\ peer[queue[i]] # "new"
    /\ \A i, j \in 1 .. Len(queue) : queue[i] = queue[j] => i = j

ConnOK(c) ==
    /\ peer[c] = "new" => pc[c] = "none"
    /\ pc[c] = "none" => rcvd[c] = 0 /\ cmdbuf[c] = << >> /\ done[c] = << >>
    /\ pc[c] \in {"recv", "scan", "exec"} =>
          Stream(sent[c], rcvd[c], cmdbuf[c], done[c] \o InHand(c))
    /\ pc[c] = "recv" => \A i \in 1 .. Len(cmdbuf[c]) : cmdbuf[c][i] # "SC"
    /\ pc[c] \in {"discon", "gone"} => AreCommands(done[c], sent[c], rcvd[c])

TcpInv == Placed /\ QueueOK /\ \A c \in Conns : ConnOK(c)

\* The ranges of one connection.
LEMMA Ranges ==
    ASSUME Placed, NEW c \in Conns
    PROVE  /\ sent[c] \in Seq(Char) /\ rcvd[c] \in Nat /\ rcvd[c] <= Len(sent[c])
           /\ cmdbuf[c] \in Seq(Kept) /\ stm[c] \in Seq(Kept) /\ done[c] \in Seq(Seq(Plain))
           /\ done[c] \o << >> = done[c]
           /\ pc[c] # "exec" => done[c] \o InHand(c) = done[c]
<1>1. /\ sent[c] \in Seq(Char) /\ rcvd[c] \in Nat /\ rcvd[c] <= Len(sent[c])
      /\ cmdbuf[c] \in Seq(Kept) /\ stm[c] \in Seq(Kept) /\ done[c] \in Seq(Seq(Plain))
    BY DEF Placed, TypeOK, Kept
<1>2. done[c] \o << >> = done[c]
    BY <1>1
<1> QED
    BY <1>1, <1>2 DEF InHand

\* A step that leaves a connection alone, but for the client that comes or goes.
LEMMA Untouched ==
    ASSUME NEW c \in Conns, ConnOK(c), peer'[c] = "new" => peer[c] = "new",
           sent'[c] = sent[c], pc'[c] = pc[c], rcvd'[c] = rcvd[c],
           cmdbuf'[c] = cmdbuf[c], stm'[c] = stm[c], done'[c] = done[c]
    PROVE  ConnOK(c)'
<1>1. InHand(c)' = InHand(c)
    BY DEF InHand
<1> QED
    BY <1>1 DEF ConnOK

LEMMA StreamStarts ==
    ASSUME NEW s
    PROVE  Stream(s, 0, << >>, << >>)
<1>1. Ends(s, 0) = {}
    BY DEF Ends
<1>2. AreCommands(<< >>, s, 0)
  <2>1. << >> \in [DOMAIN << >> -> {}]
      OBVIOUS
  <2> QED
      BY <1>1, <2>1 DEF AreCommands
<1> QED
    BY <1>2 DEF Stream

LEMMA QueueLeft ==
    ASSUME QueueOK, queue' = queue, \A c \in Conns : pc[c] = "none" => pc'[c] = "none",
           \A c \in Conns : peer[c] # "new" => peer'[c] # "new", queue \in Seq(Conns)
    PROVE  QueueOK'
<1>1. \A i \in 1 .. Len(queue) : queue[i] \in Conns
    BY Elements
<1> QED
    BY <1>1 DEF QueueOK

LEMMA TcpInit == Init => TcpInv
BY PlacedInit DEF Init, TcpInv, QueueOK, ConnOK

LEMMA TcpStep == TcpInv /\ [Next]_vars => TcpInv'
<1> SUFFICES ASSUME TcpInv, [Next]_vars PROVE QueueOK' /\ \A c \in Conns : ConnOK(c)'
    BY PlacedStep DEF TcpInv
<1>1. Placed /\ QueueOK /\ (\A c \in Conns : ConnOK(c)) /\ Placed'
    BY PlacedStep DEF TcpInv
<1>2. /\ queue \in Seq(Conns) /\ peer \in [Conns -> {"new", "up", "closed", "reset"}]
      /\ pc \in [Conns -> {"none", "recv", "scan", "exec", "discon", "gone"}]
      /\ sent \in [Conns -> Seq(Char)] /\ rcvd \in [Conns -> Nat]
      /\ cmdbuf \in [Conns -> Seq(Plain \union {"SC"})] /\ stm \in [Conns -> Seq(Plain \union {"SC"})]
      /\ done \in [Conns -> Seq(Seq(Plain))]
    BY <1>1 DEF Placed, TypeOK
<1>3. Len(queue) \in Nat /\ \A i \in 1 .. Len(queue) : queue[i] \in Conns
    BY <1>2, Elements
\* The others.
<1>o. ASSUME NEW c \in Conns, NEW d \in Conns, d # c, Thread(c) PROVE ConnOK(d)'
  <2>1. /\ peer' = peer /\ sent' = sent /\ pc'[d] = pc[d] /\ rcvd'[d] = rcvd[d]
        /\ cmdbuf'[d] = cmdbuf[d] /\ stm'[d] = stm[d] /\ done'[d] = done[d]
      BY <1>o, <1>2 DEF Thread, Recv, RecvEnds, Cut, NoDelimiter, Execute, Disconnect, client, loop
  <2> QED
      BY <1>1, <2>1, Untouched
<1>q. ASSUME NEW c \in Conns, Thread(c) PROVE QueueOK'
  <2>1. queue' = queue /\ peer' = peer /\ pc[c] # "none" /\ \A d \in Conns : d # c => pc'[d] = pc[d]
      BY <1>q, <1>2 DEF Thread, Recv, RecvEnds, Cut, NoDelimiter, Execute, Disconnect, client, loop
  <2> QED
      BY <1>1, <1>2, <2>1, QueueLeft
<1>4. ASSUME NEW c \in Conns, Connect(c) PROVE QueueOK' /\ \A d \in Conns : ConnOK(d)'
  <2>1. /\ peer[c] = "new" /\ peer' = [peer EXCEPT ![c] = "up"] /\ queue' = Append(queue, c)
        /\ UNCHANGED <<sent, pc, rcvd, cmdbuf, stm, done>>
      BY <1>4 DEF Connect
  <2>2. pc[c] = "none" /\ peer'[c] = "up" /\ \A d \in Conns : d # c => peer'[d] = peer[d]
      BY <1>1, <1>2, <2>1 DEF ConnOK
  <2>3. /\ Len(queue') = Len(queue) + 1 /\ queue'[Len(queue) + 1] = c
        /\ \A i \in 1 .. Len(queue) : queue'[i] = queue[i]
      BY <1>2, <2>1
  <2>4. \A i \in 1 .. Len(queue) : queue[i] # c
      BY <1>1, <2>1 DEF QueueOK
  <2>5. \A i \in 1 .. Len(queue') : i \in 1 .. Len(queue) \/ i = Len(queue) + 1
      BY <1>3, <2>3
  <2>6. QueueOK'
    <3>1. ASSUME NEW i \in 1 .. Len(queue') PROVE pc'[queue'[i]] = "none" /\ peer'[queue'[i]] # "new"
      <4>1. CASE i = Len(queue) + 1
          BY <2>1, <2>2, <2>3, <4>1
      <4>2. CASE i \in 1 .. Len(queue)
          BY <1>1, <1>3, <2>1, <2>2, <2>3, <2>4, <4>2 DEF QueueOK
      <4> QED
          BY <2>5, <4>1, <4>2
    <3>2. ASSUME NEW i \in 1 .. Len(queue'), NEW j \in 1 .. Len(queue'), queue'[i] = queue'[j]
          PROVE  i = j
        BY <1>1, <2>3, <2>4, <2>5, <3>2 DEF QueueOK
    <3> QED
        BY <3>1, <3>2 DEF QueueOK
  <2>7. ASSUME NEW d \in Conns PROVE ConnOK(d)'
      BY <1>1, <2>1, <2>2, Untouched
  <2> QED
      BY <2>6, <2>7
<1>5. ASSUME NEW c \in Conns, Leave(c) PROVE QueueOK' /\ \A d \in Conns : ConnOK(d)'
  <2>1. /\ peer[c] = "up" /\ peer'[c] \in {"closed", "reset"} /\ queue' = queue
        /\ \A d \in Conns : d # c => peer'[d] = peer[d]
        /\ UNCHANGED <<sent, pc, rcvd, cmdbuf, stm, done>>
      BY <1>2, <1>5 DEF Leave, loop
  <2>2. QueueOK'
      BY <1>1, <1>2, <2>1, QueueLeft
  <2>3. ASSUME NEW d \in Conns PROVE ConnOK(d)'
      BY <1>1, <2>1, Untouched
  <2> QED
      BY <2>2, <2>3
\* Bytes that are sent later change nothing in what has been received.
<1>6. ASSUME NEW c \in Conns, NEW ch \in Char, Send(c, ch) PROVE QueueOK' /\ \A d \in Conns : ConnOK(d)'
  <2>1. /\ sent'[c] = Append(sent[c], ch) /\ \A d \in Conns : d # c => sent'[d] = sent[d]
        /\ UNCHANGED <<peer, queue, pc, rcvd, cmdbuf, stm, done>>
      BY <1>2, <1>6 DEF Send, loop
  <2>2. QueueOK'
      BY <1>1, <1>2, <2>1, QueueLeft
  <2>3. ASSUME NEW d \in Conns, d # c PROVE ConnOK(d)'
      BY <1>1, <2>1, <2>3, Untouched
  <2>4. ConnOK(c)'
    <3>1. InHand(c)' = InHand(c)
        BY <2>1 DEF InHand
    <3>2. ConnOK(c)
        BY <1>1
    <3>3. pc[c] \in {"recv", "scan", "exec"} => Stream(sent'[c], rcvd[c], cmdbuf[c], done[c] \o InHand(c))
      <4>1. InHand(c) \in Seq(Seq(Plain))
        <5>1. pc[c] = "exec" => Front(stm[c]) \in Seq(Plain)
            BY <1>1, FrontPlain
        <5> QED
            BY <5>1 DEF InHand
      <4>2. done[c] \o InHand(c) \in Seq(Seq(Plain))
          BY <1>1, <4>1, Ranges
      <4> QED
          BY <1>1, <2>1, <3>2, <4>2, Ranges, StreamSent DEF ConnOK
    <3>4. pc[c] \in {"discon", "gone"} => AreCommands(done[c], sent'[c], rcvd[c])
      <4>1. \A i \in 1 .. rcvd[c] : Append(sent[c], ch)[i] = sent[c][i]
          BY <1>1, Ranges
      <4>2. sent[c] \in Seq(Char) /\ rcvd[c] \in Nat /\ done[c] \in Seq(Seq(Plain))
          BY <1>1, Ranges
      <4> QED
          BY <2>1, <3>2, <4>1, <4>2, LaterBytes DEF ConnOK
    <3> QED
        BY <2>1, <3>1, <3>2, <3>3, <3>4 DEF ConnOK
  <2> QED
      BY <2>2, <2>3, <2>4
<1>7. ASSUME Accept PROVE QueueOK' /\ \A d \in Conns : ConnOK(d)'
  <2> DEFINE c == Head(queue)
  <2>1. /\ queue # << >> /\ queue' = Tail(queue)
        /\ pc' = pc \/ pc' = [pc EXCEPT ![c] = "recv"]
        /\ UNCHANGED <<peer, sent, rcvd, cmdbuf, stm, done>>
      BY <1>7 DEF Accept, client
  <2>2. /\ c = queue[1] /\ 1 \in 1 .. Len(queue) /\ Len(queue') = Len(queue) - 1
        /\ \A i \in 1 .. Len(queue) - 1 : queue'[i] = queue[i + 1]
      BY <1>2, <2>1
  <2> HIDE DEF c
  <2>3. c \in Conns /\ pc[c] = "none" /\ peer[c] # "new"
      BY <1>1, <1>3, <2>2 DEF QueueOK
  <2>4. \A i \in 1 .. Len(queue') : i \in 1 .. Len(queue) - 1 /\ i + 1 \in 1 .. Len(queue) /\ i + 1 # 1
      BY <1>3, <2>2
  <2>5. QueueOK'
    <3>1. \A i \in 1 .. Len(queue') : queue'[i] \in Conns /\ queue'[i] # c
        BY <1>1, <1>3, <2>2, <2>4 DEF QueueOK
    <3>2. \A d \in Conns : d # c => pc'[d] = pc[d]
        BY <1>2, <2>1
    <3>3. \A i \in 1 .. Len(queue') : pc[queue'[i]] = "none" /\ peer[queue'[i]] # "new"
        BY <1>1, <2>2, <2>4 DEF QueueOK
    <3>4. ASSUME NEW i \in 1 .. Len(queue'), NEW j \in 1 .. Len(queue'), queue'[i] = queue'[j]
          PROVE  i = j
      <4>1. i + 1 = j + 1
          BY <1>1, <2>2, <2>4, <3>4 DEF QueueOK
      <4> QED
          BY <4>1
    <3> QED
        BY <2>1, <3>1, <3>2, <3>3, <3>4 DEF QueueOK
  <2>6. ASSUME NEW d \in Conns PROVE ConnOK(d)'
    <3>1. CASE pc'[d] = pc[d]
        BY <1>1, <2>1, <3>1, Untouched
    <3>2. CASE pc'[d] # pc[d]
      <4>1. d = c /\ pc'[d] = "recv"
          BY <1>2, <2>1, <3>2
      <4>2. peer'[d] # "new" /\ rcvd'[d] = 0 /\ cmdbuf'[d] = << >> /\ done'[d] = << >>
          BY <1>1, <2>1, <2>3, <4>1 DEF ConnOK
      <4>3. InHand(d)' = << >>
          BY <4>1 DEF InHand
      <4>4. done'[d] \o InHand(d)' = << >>
          BY <4>2, <4>3
      <4>5. Stream(sent'[d], rcvd'[d], cmdbuf'[d], done'[d] \o InHand(d)')
          BY <4>2, <4>4, StreamStarts
      <4> QED
          BY <4>1, <4>2, <4>5 DEF ConnOK
    <3> QED
        BY <3>1, <3>2
  <2> QED
      BY <2>5, <2>6
<1>8. ASSUME NEW c \in Conns, Recv(c) PROVE ConnOK(c)'
  <2>1. PICK n \in 1 .. BUFF_SIZE :
           /\ rcvd[c] + n <= Len(sent[c])
           /\ rcvd' = [rcvd EXCEPT ![c] = @ + n]
           /\ cmdbuf' = [cmdbuf EXCEPT ![c] = @ \o Strip(SubSeq(sent[c], rcvd[c] + 1, rcvd[c] + n))]
      BY <1>8 DEF Recv
  <2>2. /\ pc[c] = "recv" /\ pc'[c] = "scan" /\ UNCHANGED <<peer, sent, stm, done>>
        /\ rcvd'[c] = rcvd[c] + n
        /\ cmdbuf'[c] = cmdbuf[c] \o Strip(SubSeq(sent[c], rcvd[c] + 1, rcvd[c] + n))
      BY <1>2, <1>8, <2>1 DEF Recv, client
  <2>3. n \in Nat \ {0}
      BY SizeAssumption
  <2>4. InHand(c)' = InHand(c)
      BY <2>2 DEF InHand
  <2>5. ConnOK(c)
      BY <1>1
  <2>6. Stream(sent[c], rcvd'[c], cmdbuf'[c], done[c] \o InHand(c))
    <3>1. sent[c] \in Seq(Char) /\ rcvd[c] \in Nat /\ cmdbuf[c] \in Seq(Kept)
        BY <1>1, Ranges
    <3>2. Stream(sent[c], rcvd[c], cmdbuf[c], done[c] \o InHand(c))
        BY <2>2, <2>5 DEF ConnOK
    <3>3. rcvd[c] + n <= Len(sent[c])
        BY <2>1
    <3>4. Stream(sent[c], rcvd[c] + n, cmdbuf[c] \o Strip(SubSeq(sent[c], rcvd[c] + 1, rcvd[c] + n)),
                 done[c] \o InHand(c))
        BY <2>3, <3>1, <3>2, <3>3, StreamReceived
    <3> QED
        BY <2>2, <3>4
  <2> QED
      BY <2>2, <2>4, <2>5, <2>6 DEF ConnOK
<1>9. ASSUME NEW c \in Conns, RecvEnds(c) PROVE ConnOK(c)'
  <2>1. /\ pc[c] = "recv" /\ pc'[c] = "discon"
        /\ UNCHANGED <<peer, sent, rcvd, cmdbuf, stm, done>>
      BY <1>2, <1>9 DEF RecvEnds, client
  <2>2. ConnOK(c) /\ done[c] \o InHand(c) = done[c]
      BY <1>1, <2>1, Ranges
  <2>3. AreCommands(done[c], sent[c], rcvd[c])
      BY <1>1, <2>1, <2>2, Ranges, StreamWaits DEF ConnOK
  <2> QED
      BY <2>1, <2>2, <2>3 DEF ConnOK
<1>10. ASSUME NEW c \in Conns, NoDelimiter(c) PROVE ConnOK(c)'
  <2>1. /\ pc[c] = "scan" /\ pc'[c] = "recv" /\ SearchDelimit(cmdbuf[c]) = 0
        /\ UNCHANGED <<peer, sent, rcvd, cmdbuf, stm, done>>
      BY <1>2, <1>10 DEF NoDelimiter, client
  <2>2. ConnOK(c) /\ InHand(c)' = InHand(c)
      BY <1>1, <2>1 DEF InHand
  <2>3. \A i \in 1 .. Len(cmdbuf[c]) : cmdbuf[c][i] \in Plain
      BY <1>1, <2>1, Ranges, NoneFound
  <2>4. \A i \in 1 .. Len(cmdbuf[c]) : cmdbuf[c][i] # "SC"
      BY <2>3, PlainAssumption DEF Delims
  <2> QED
      BY <2>1, <2>2, <2>4 DEF ConnOK
<1>11. ASSUME NEW c \in Conns, Cut(c) PROVE ConnOK(c)'
  <2> DEFINE d == SearchDelimit(cmdbuf[c])
             b == cmdbuf[c]
  <2>1. /\ pc[c] = "scan" /\ d # 0 /\ pc'[c] = IF d = 1 THEN "scan" ELSE "exec"
        /\ stm'[c] = SubSeq(b, 1, d) /\ cmdbuf'[c] = SubSeq(b, d + 1, Len(b))
        /\ UNCHANGED <<peer, sent, rcvd, done>>
      BY <1>2, <1>11 DEF Cut, client
  <2>2. /\ sent[c] \in Seq(Char) /\ rcvd[c] \in Nat /\ b \in Seq(Kept) /\ done[c] \in Seq(Seq(Plain))
        /\ done[c] \o InHand(c) = done[c] /\ done[c] \o << >> = done[c]
      BY <1>1, <2>1, Ranges
  <2>3. d \in 1 .. Len(b) /\ (\A j \in 1 .. d - 1 : b[j] \in Plain) /\ b[d] \in Delims
      BY <2>1, <2>2, DelimiterFound, DelimiterThere
  <2>4. ConnOK(c) /\ Stream(sent[c], rcvd[c], b, done[c])
      BY <1>1, <2>1, <2>2 DEF ConnOK
  <2> HIDE DEF d, b
  <2>5. CASE d = 1
    <3>1. InHand(c)' = << >> /\ pc'[c] = "scan"
        BY <2>1, <2>5 DEF InHand
    <3>2. Stream(sent[c], rcvd[c], SubSeq(b, 2, Len(b)), done[c])
        BY <2>2, <2>3, <2>4, <2>5, StreamSkipped
    <3>3. Stream(sent'[c], rcvd'[c], cmdbuf'[c], done'[c] \o InHand(c)')
        BY <2>1, <2>2, <2>5, <3>1, <3>2
    <3> QED
        BY <2>1, <2>4, <3>1, <3>3 DEF ConnOK
  <2>6. CASE d > 1
    <3>1. InHand(c)' = <<Front(SubSeq(b, 1, d))>> /\ pc'[c] = "exec"
        BY <2>1, <2>6 DEF InHand
    <3>2. /\ Front(SubSeq(b, 1, d)) \in Seq(Plain)
          /\ Stream(sent[c], rcvd[c], SubSeq(b, d + 1, Len(b)), Append(done[c], Front(SubSeq(b, 1, d))))
        BY <2>2, <2>3, <2>4, <2>6, StreamCut
    <3>3. done[c] \o <<Front(SubSeq(b, 1, d))>> = Append(done[c], Front(SubSeq(b, 1, d)))
        BY <2>2, <3>2, AppendIsConcat
    <3>4. Stream(sent'[c], rcvd'[c], cmdbuf'[c], done'[c] \o InHand(c)')
        BY <2>1, <3>1, <3>2, <3>3
    <3> QED
        BY <2>1, <2>4, <3>1, <3>4 DEF ConnOK
  <2>7. d = 1 \/ d > 1
      BY <2>2, <2>3
  <2> QED
      BY <2>5, <2>6, <2>7
<1>12. ASSUME NEW c \in Conns, Execute(c) PROVE ConnOK(c)'
  <2>1. /\ pc[c] = "exec" /\ pc'[c] = "scan" /\ done'[c] = Append(done[c], Front(stm[c]))
        /\ UNCHANGED <<peer, sent, rcvd, cmdbuf, stm>>
      BY <1>2, <1>12 DEF Execute, client, loop
  <2>2. ConnOK(c) /\ InHand(c) = <<Front(stm[c])>> /\ InHand(c)' = << >> /\ Front(stm[c]) \in Seq(Plain)
      BY <1>1, <2>1, FrontPlain DEF InHand
  <2>3. done[c] \o InHand(c) = Append(done[c], Front(stm[c]))
      BY <1>1, <2>2, Ranges, AppendIsConcat
  <2>4. done'[c] \o << >> = done'[c]
      BY <1>1, Ranges
  <2>5. Stream(sent'[c], rcvd'[c], cmdbuf'[c], done'[c] \o InHand(c)')
      BY <2>1, <2>2, <2>3, <2>4 DEF ConnOK
  <2> QED
      BY <2>1, <2>2, <2>5 DEF ConnOK
<1>13. ASSUME NEW c \in Conns, Disconnect(c) PROVE ConnOK(c)'
    BY <1>1, <1>2, <1>13 DEF Disconnect, ConnOK, client
<1>14. ASSUME UNCHANGED vars PROVE QueueOK' /\ \A d \in Conns : ConnOK(d)'
  <2>1. UNCHANGED <<peer, sent, queue, pc, rcvd, cmdbuf, stm, done>>
      BY <1>14 DEF vars, client, loop
  <2> QED
      BY <1>1, <1>2, <2>1, QueueLeft, Untouched
<1>15. ASSUME NEW c \in Conns, Thread(c) PROVE QueueOK' /\ \A d \in Conns : ConnOK(d)'
  <2>1. ConnOK(c)'
      BY <1>8, <1>9, <1>10, <1>11, <1>12, <1>13, <1>15 DEF Thread
  <2> QED
      BY <1>o, <1>q, <1>15, <2>1
<1> QED
    BY <1>4, <1>5, <1>6, <1>7, <1>14, <1>15 DEF Next, Quiet

LEMMA TcpAlways == Spec => []TcpInv
BY TcpInit, TcpStep, PTL DEF Spec

\* For every stream of bytes, however recv cuts it and however the connections
\* interleave: the commands executed and the one in hand are those of the bytes
\* up to a delimiter, and the buffer holds the rest.
THEOREM StreamAlwaysKept == Spec => []StreamKept
<1>1. TcpInv => StreamKept
    BY DEF TcpInv, ConnOK, StreamKept, Stream
<1> QED
    BY <1>1, TcpAlways, PTL

\* A thread that waits for bytes, or has ended, has executed every command that
\* it has received completely.
THEOREM NothingEverLeftBehind == Spec => []NothingLeftBehind
<1>1. ASSUME TcpInv, NEW c \in Conns, pc[c] \in {"recv", "discon", "gone"}
      PROVE  AreCommands(done[c], sent[c], rcvd[c])
  <2>1. Placed /\ ConnOK(c)
      BY <1>1 DEF TcpInv
  <2>2. CASE pc[c] = "recv"
    <3>1. done[c] \o InHand(c) = done[c]
        BY <2>1, <2>2, Ranges
    <3> QED
        BY <2>1, <2>2, <3>1, Ranges, StreamWaits DEF ConnOK
  <2>3. CASE pc[c] # "recv"
      BY <1>1, <2>1, <2>3 DEF ConnOK
  <2> QED
      BY <2>2, <2>3
<1>2. TcpInv => NothingLeftBehind
    BY <1>1 DEF NothingLeftBehind
<1> QED
    BY <1>2, TcpAlways, PTL
=============================================================================
