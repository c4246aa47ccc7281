---------------------------- MODULE RfModuleProofs ----------------------------
(***************************************************************************)
(* Theorems about RfModule for every number of clients and requests, every *)
(* length of requests and answers and every limit.                         *)
(***************************************************************************)
EXTENDS RfModule, TLAPS

Character == {"req", "ans", "error", "noise"} \X Requests \X Nat

\* A thread that still sends has characters left, and one that still receives
\* has room for one more.
PlaceAt(t) ==
    /\ k[t] <= Length[req[t]]
    /\ Len(ans[t]) = ct[t] /\ ct[t] <= Limit + 1
    /\ pc[t] = "send" => k[t] < Length[req[t]]
    /\ pc[t] = "recv" => ct[t] <= Limit
    /\ pc[t] \in {"send", "sleep"} => ct[t] = 0

Placed ==
    /\ line \in Seq(Character) /\ pending \in Seq(Character) /\ out \in Seq(Character)
    /\ noise \in BOOLEAN
    /\ pc \in [Clients -> {"idle", "send", "sleep", "recv"}]
    /\ req \in [Clients -> Requests]
    /\ k \in [Clients -> Nat] /\ ct \in [Clients -> Nat]
    /\ ans \in [Clients -> Seq(Character)]
    /\ \A t \in Clients : PlaceAt(t)

LEMMA CharsType ==
    ASSUME NEW r \in Requests, NEW n \in Nat,
           NEW what \in {"req", "ans", "error", "noise"}
    PROVE  Chars(what, r, n) \in Seq(Character)
<1>1. \A j \in 1 .. n : <<what, r, j>> \in Character
    BY DEF Character
<1> QED
    BY <1>1 DEF Chars

LEMMA PlacedInit == Init => Placed
<1> SUFFICES ASSUME Init PROVE Placed
    OBVIOUS
<1>1. ASSUME NEW t \in Clients PROVE PlaceAt(t)
  <2>1. Length[req[t]] \in Nat /\ Len(ans[t]) = 0
      BY RfAssumption DEF Init
  <2> QED
      BY <2>1, RfAssumption DEF Init, PlaceAt
<1>2. /\ line \in Seq(Character) /\ pending \in Seq(Character) /\ out \in Seq(Character)
      /\ ans \in [Clients -> Seq(Character)]
    BY DEF Init
<1> QED
    BY <1>1, <1>2 DEF Init, Placed

LEMMA PlacedStep == Placed /\ [Next]_vars => Placed'
<1> SUFFICES ASSUME Placed, [Next]_vars PROVE Placed'
    OBVIOUS
<1> USE RfAssumption DEF Placed, PlaceAt
<1>1. ASSUME NEW t \in Clients, Begin(t) PROVE Placed'
    BY <1>1 DEF Begin, module
<1>2. ASSUME NEW t \in Clients, Send(t) PROVE Placed'
  <2> DEFINE c == <<"req", req[t], k[t] + 1>>
  <2>1. c \in Character
      BY DEF Character
  <2>2. k[t] < Length[req[t]] /\ Length[req[t]] \in Nat
      BY <1>2 DEF Send
  <2>3. Append(line, c) \in Seq(Character)
      BY <2>1
  <2>4. Understood(Append(line, c)) \in Seq(Character)
    <3>1. Append(line, c)[Len(Append(line, c))][2] = req[t]
        BY <2>1
    <3>2. Reply(req[t]) \in Seq(Character) /\ Chars("error", req[t], 1) \in Seq(Character)
        BY CharsType DEF Reply
    <3> QED
        BY <3>1, <3>2 DEF Understood
  <2>5. /\ line' \in Seq(Character) /\ pending' \in Seq(Character)
        /\ \/ pc' = pc /\ k[t] + 1 # Length[req[t]]
           \/ pc' = [pc EXCEPT ![t] = "sleep"]
    <3>1. CASE k[t] + 1 = Length[req[t]]
      <4>1. /\ line' = << >> /\ pending' = pending \o Understood(Append(line, c))
            /\ pc' = [pc EXCEPT ![t] = "sleep"]
          BY <1>2, <3>1 DEF Send
      <4> QED
          BY <2>4, <4>1
    <3>2. CASE k[t] + 1 # Length[req[t]]
      <4>1. line' = Append(line, c) /\ UNCHANGED <<pending, pc>>
          BY <1>2, <3>2 DEF Send
      <4> QED
          BY <2>3, <3>2, <4>1
    <3> QED
        BY <3>1, <3>2
  <2>6. k' = [k EXCEPT ![t] = @ + 1] /\ UNCHANGED <<out, noise, req, ans, ct>> /\ pc[t] = "send"
      BY <1>2 DEF Send
  <2> HIDE DEF c
  <2>7. ASSUME NEW u \in Clients PROVE PlaceAt(u)'
      BY <2>2, <2>5, <2>6
  <2> QED
      BY <2>5, <2>6, <2>7
<1>3. ASSUME NEW t \in Clients, Wake(t) PROVE Placed'
    BY <1>3 DEF Wake, module
\* recvmodu leaves its loop with Limit + 1 characters at the latest.
<1>4. ASSUME NEW t \in Clients, Receive(t) PROVE Placed'
  <2>1. pc[t] = "recv" /\ ct[t] <= Limit /\ Len(ans[t]) = ct[t]
        /\ UNCHANGED <<line, pending, noise, req, k>>
      BY <1>4 DEF Receive
  <2>2. CASE Input = {}
      BY <1>4, <2>1, <2>2 DEF Receive
  <2>3. CASE Input # {}
    <3> DEFINE c == CHOOSE x \in Input : TRUE
    <3>1. c \in Character
      <4>1. CASE noise
        <5>1. (CHOOSE r \in Requests : TRUE) \in Requests
            BY <2>1
        <5>2. Input = {<<"noise", CHOOSE r \in Requests : TRUE, 1>>}
            BY <4>1 DEF Input
        <5>3. <<"noise", CHOOSE r \in Requests : TRUE, 1>> \in Character
            BY <5>1 DEF Character
        <5>4. c \in Input
            BY <2>3
        <5> HIDE DEF c
        <5> QED
            BY <5>2, <5>3, <5>4
      <4>2. CASE ~noise
          BY <2>3, <4>2 DEF Input
      <4> QED
          BY <4>1, <4>2
    <3>2. /\ ct' = [ct EXCEPT ![t] = @ + 1]
          /\ ans' = [ans EXCEPT ![t] = Append(@, c)]
          /\ out' = IF noise THEN out ELSE Tail(out)
          /\ pc' = IF Limit < ct'[t] THEN [pc EXCEPT ![t] = "idle"] ELSE pc
        BY <1>4, <2>1, <2>3 DEF Receive, Counted
    <3> HIDE DEF c
    <3>3. out' \in Seq(Character)
        BY <2>3, <3>2 DEF Input
    <3>4. ans' \in [Clients -> Seq(Character)] /\ Len(ans'[t]) = ct[t] + 1
        BY <2>1, <3>1, <3>2
    <3>5. ct' \in [Clients -> Nat] /\ pc' \in [Clients -> {"idle", "send", "sleep", "recv"}]
        BY <3>2
    <3>6. ASSUME NEW u \in Clients PROVE PlaceAt(u)'
        BY <2>1, <3>2, <3>4
    <3> QED
        BY <2>1, <3>3, <3>4, <3>5, <3>6
  <2> QED
      BY <2>2, <2>3
<1>5. ASSUME Emit PROVE Placed'
    BY <1>5 DEF Emit
<1>6. ASSUME Fail PROVE Placed'
    BY <1>6 DEF Fail
<1>7. ASSUME UNCHANGED vars PROVE Placed'
    BY <1>7 DEF vars, module
<1> QED
    BY <1>1, <1>2, <1>3, <1>4, <1>5, <1>6, <1>7 DEF Next, Step

\* recvmodu stays in its buffer and sendmodu in its request, for any number of
\* clients that mix their characters in one register, however slow the module
\* is and when it fails for good.
THEOREM TypeCorrect == Spec => []TypeOK
<1>1. ASSUME Placed PROVE TypeOK
  <2>1. ASSUME NEW t \in Clients
        PROVE  /\ k[t] \in 0 .. Length[req[t]]
               /\ Len(ans[t]) = ct[t] /\ ct[t] \in 0 .. Limit + 1
    <3>1. Length[req[t]] \in Nat /\ k[t] \in Nat /\ ct[t] \in Nat /\ Limit \in Nat
        BY <1>1, RfAssumption DEF Placed
    <3>2. k[t] <= Length[req[t]] /\ Len(ans[t]) = ct[t] /\ ct[t] <= Limit + 1
        BY <1>1 DEF Placed, PlaceAt
    <3> QED
        BY <3>1, <3>2
  <2> QED
      BY <2>1 DEF TypeOK
<1> QED
    BY <1>1, PlacedInit, PlacedStep, PTL DEF Spec

-----------------------------------------------------------------------------
\* There is a place of its own in S for each of n characters.

Fits(n, S) == \E f \in [1 .. n -> S] : \A i, j \in 1 .. n : f[i] = f[j] => i = j

LEMMA FitsIn ==
    ASSUME NEW n, NEW S, NEW T, S \subseteq T, Fits(n, S)
    PROVE  Fits(n, T)
BY DEF Fits

LEMMA FitsLess ==
    ASSUME NEW n \in Nat, NEW m \in Nat, m <= n, NEW S, Fits(n, S)
    PROVE  Fits(m, S)
<1>1. PICK f \in [1 .. n -> S] : \A i, j \in 1 .. n : f[i] = f[j] => i = j
    BY DEF Fits
<1> DEFINE g == [i \in 1 .. m |-> f[i]]
<1>2. \A i \in 1 .. m : i \in 1 .. n
    OBVIOUS
<1>3. g \in [1 .. m -> S]
    BY <1>2
<1>4. \A i, j \in 1 .. m : g[i] = g[j] => i = j
    BY <1>1, <1>2
<1> QED
    BY <1>3, <1>4 DEF Fits

LEMMA FitsNone == ASSUME NEW n \in Nat, NEW S, S = {}, Fits(n, S) PROVE n = 0
<1>1. ASSUME n # 0 PROVE FALSE
  <2>1. 1 \in 1 .. n
      BY <1>1
  <2> QED
      BY <2>1 DEF Fits
<1> QED
    BY <1>1

LEMMA FitsZero == ASSUME NEW S PROVE Fits(0, S)
<1>1. << >> \in [1 .. 0 -> S] /\ \A i, j \in 1 .. 0 : << >>[i] = << >>[j] => i = j
    OBVIOUS
<1> QED
    BY <1>1 DEF Fits

\* One character and one place less.
LEMMA FitsWithout ==
    ASSUME NEW n \in Nat \ {0}, NEW S, NEW x, Fits(n, S)
    PROVE  Fits(n - 1, S \ {x})
<1>1. PICK f \in [1 .. n -> S] : \A i, j \in 1 .. n : f[i] = f[j] => i = j
    BY DEF Fits
<1>2. n \in 1 .. n /\ \A i \in 1 .. n - 1 : i \in 1 .. n /\ i # n
    OBVIOUS
<1> DEFINE g == [i \in 1 .. n - 1 |-> IF f[i] = x THEN f[n] ELSE f[i]]
<1>3. \A i \in 1 .. n - 1 : g[i] \in S \ {x}
    BY <1>1, <1>2
<1>4. \A i, j \in 1 .. n - 1 : g[i] = g[j] => i = j
    BY <1>1, <1>2
<1>5. g \in [1 .. n - 1 -> S \ {x}]
    BY <1>3
<1> HIDE DEF g
<1> QED
    BY <1>4, <1>5 DEF Fits

LEMMA FitsMore ==
    ASSUME NEW n \in Nat, NEW m \in Nat, NEW S, NEW T, S \intersect T = {}, Fits(n, S), Fits(m, T)
    PROVE  Fits(n + m, S \union T)
<1>1. PICK f \in [1 .. n -> S] : \A i, j \in 1 .. n : f[i] = f[j] => i = j
    BY DEF Fits
<1>2. PICK h \in [1 .. m -> T] : \A i, j \in 1 .. m : h[i] = h[j] => i = j
    BY DEF Fits
<1> DEFINE g == [i \in 1 .. n + m |-> IF i <= n THEN f[i] ELSE h[i - n]]
<1>3. \A i \in 1 .. n + m : (i <= n => i \in 1 .. n) /\ (~(i <= n) => i - n \in 1 .. m)
    OBVIOUS
<1>4. \A i \in 1 .. n + m : g[i] = IF i <= n THEN f[i] ELSE h[i - n]
    OBVIOUS
<1>5. \A i \in 1 .. n + m : g[i] \in S \union T
    BY <1>3, <1>4
<1>6. g \in [1 .. n + m -> S \union T]
    BY <1>5
<1> HIDE DEF g
<1>7. ASSUME NEW i \in 1 .. n + m, NEW j \in 1 .. n + m, g[i] = g[j] PROVE i = j
  <2>1. CASE i <= n /\ j <= n
      BY <1>1, <1>3, <1>4, <1>7, <2>1
  <2>2. CASE ~(i <= n) /\ ~(j <= n)
    <3>1. i - n = j - n
        BY <1>2, <1>3, <1>4, <1>7, <2>2
    <3> QED
        BY <3>1
  <2>3. CASE i <= n /\ ~(j <= n)
    <3>1. g[i] \in S /\ g[j] \in T
        BY <1>3, <1>4, <2>3
    <3> QED
        BY <1>7, <3>1
  <2>4. CASE ~(i <= n) /\ j <= n
    <3>1. g[i] \in T /\ g[j] \in S
        BY <1>3, <1>4, <2>4
    <3> QED
        BY <1>7, <3>1
  <2> QED
      BY <2>1, <2>2, <2>3, <2>4
<1> QED
    BY <1>6, <1>7 DEF Fits

-----------------------------------------------------------------------------
\* The inductive invariant, as long as the module is in time.  A client that
\* sleeps has room for a whole answer, one that receives for what it has not
\* counted; every character that the module has still to put out has its place
\* with a client that sleeps, every one that waits in the register with one of
\* both kinds.  So nothing waits when no request is under way.

Asleep == {x \in Clients \X (1 .. Limit + 1) : pc[x[1]] = "sleep"}
Rooms == {x \in Clients \X (1 .. Limit + 1) :
            pc[x[1]] = "sleep" \/ (pc[x[1]] = "recv" /\ ct[x[1]] < x[2])}
RoomOK == ~slow /\ ~noise => /\ Fits(Len(pending), Asleep)
                             /\ Fits(Len(out) + Len(pending), Rooms)

LineOK == line # << >> => \E t \in Clients : pc[t] = "send"

\* The characters of a request that is alone, and of its answer.
OwnOK(t) ==
    /\ alone[t] /\ Busy(t) => \A u \in Clients \ {t} : ~Busy(u)
    /\ alone[t] /\ ~slow /\ ~noise =>
          /\ pc[t] = "send" => /\ line = Chars("req", req[t], k[t])
                               /\ pending = << >> /\ out = << >>
          /\ pc[t] = "sleep" => line = << >> /\ out \o pending = Reply(req[t])
          /\ pc[t] = "recv" => pending = << >> /\ ans[t] \o out = Reply(req[t])

RfInv ==
    /\ Placed /\ RoomOK /\ LineOK
    /\ alone \in [Clients -> BOOLEAN]
    /\ \A t \in Clients : OwnOK(t)

LEMMA ChToo ==
    ASSUME NEW what, NEW r, NEW n \in Nat
    PROVE  /\ Chars(what, r, n) \in Seq({<<what, r, i>> : i \in 1 .. n})
           /\ Len(Chars(what, r, n)) = n
           /\ \A i \in 1 .. n : Chars(what, r, n)[i] = <<what, r, i>>
BY DEF Chars

LEMMA OneChar ==
    ASSUME NEW r \in Requests, NEW n \in Nat
    PROVE  Append(Chars("req", r, n), <<"req", r, n + 1>>) = Chars("req", r, n + 1)
<1>1. \A i \in 1 .. n + 1 : i \in 1 .. n \/ i = n + 1
    OBVIOUS
<1> QED
    BY <1>1 DEF Chars

LEMMA UnderstoodLength ==
    ASSUME ShortAnswers, NEW l \in Seq(Character), l # << >>
    PROVE  Understood(l) \in Seq(Character) /\ Len(Understood(l)) <= Limit + 1
<1>1. l[Len(l)] \in Character
    OBVIOUS
<1>2. l[Len(l)][2] \in Requests
    BY <1>1 DEF Character
<1>3. ASSUME NEW r \in Requests
      PROVE  /\ Chars("error", r, 1) \in Seq(Character) /\ Len(Chars("error", r, 1)) = 1
             /\ Reply(r) \in Seq(Character) /\ Len(Reply(r)) = Answer[r] /\ Answer[r] \in Nat
             /\ Answer[r] <= Limit
  <2>1. Answer[r] \in Nat /\ Answer[r] <= Limit
      BY RfAssumption DEF ShortAnswers
  <2> QED
      BY <2>1, CharsType, ChToo DEF Reply
<1> DEFINE r == l[Len(l)][2]
<1>4. Understood(l) = Reply(r) \/ Understood(l) = Chars("error", r, 1)
    BY DEF Understood
<1> HIDE DEF r
<1>5. 1 <= Limit + 1 /\ \A n \in Nat : n <= Limit => n <= Limit + 1
    BY RfAssumption
<1> QED
    BY <1>2, <1>3, <1>4, <1>5 DEF r

LEMMA HeadOver ==
    ASSUME NEW S, NEW p \in Seq(S), NEW q \in Seq(S), q # << >>
    PROVE  Append(p, Head(q)) \o Tail(q) = p \o q
<1> DEFINE a == Append(p, Head(q)) \o Tail(q)
           b == p \o q
<1>1. Len(p) \in Nat /\ Len(q) \in Nat \ {0} /\ Head(q) \in S /\ Tail(q) \in Seq(S)
    OBVIOUS
<1>2. a \in Seq(S) /\ b \in Seq(S) /\ Len(a) = Len(p) + Len(q) /\ Len(b) = Len(p) + Len(q)
    BY <1>1
<1>3. \A i \in 1 .. Len(p) + Len(q) : a[i] = b[i]
    BY <1>1
<1> HIDE DEF a, b
<1>4. a = b
    BY <1>2, <1>3
<1> QED
    BY <1>4 DEF a, b

LEMMA RfInit == Init => RfInv
<1> SUFFICES ASSUME Init PROVE RfInv
    OBVIOUS
<1>1. Fits(Len(pending), Asleep) /\ Fits(Len(out) + Len(pending), Rooms)
  <2>1. Len(pending) = 0 /\ Len(out) + Len(pending) = 0
      BY DEF Init
  <2> QED
      BY <2>1, FitsZero
<1>2. \A t \in Clients : OwnOK(t)
    BY DEF Init, OwnOK, Busy
<1> QED
    BY <1>1, <1>2, PlacedInit DEF Init, RfInv, RoomOK, LineOK

\* A step of one client leaves what is true of the requests of the others.
LEMMA OthersKeep ==
    ASSUME NEW t \in Clients, Busy(t), \A u \in Clients : OwnOK(u), alone' = alone,
           NEW u \in Clients, u # t, pc'[u] = pc[u]
    PROVE  OwnOK(u)'
<1>1. ~(alone[u] /\ Busy(u))
    BY DEF OwnOK
<1>2. alone'[u] => ~Busy(u)'
    BY <1>1 DEF Busy
<1> QED
    BY <1>2 DEF OwnOK, Busy

LEMMA RfStep == ShortAnswers /\ RfInv /\ [Next]_vars => RfInv'
<1> SUFFICES ASSUME ShortAnswers, RfInv, [Next]_vars
             PROVE  /\ RoomOK' /\ LineOK' /\ alone' \in [Clients -> BOOLEAN]
                    /\ \A t \in Clients : OwnOK(t)'
    BY PlacedStep DEF RfInv
<1>1. Placed /\ Placed' /\ RoomOK /\ LineOK /\ (\A t \in Clients : OwnOK(t)) /\ Limit \in Nat
      /\ alone \in [Clients -> BOOLEAN]
    BY PlacedStep, RfAssumption DEF RfInv
<1>2. /\ pending \in Seq(Character) /\ out \in Seq(Character) /\ line \in Seq(Character)
      /\ Len(pending) \in Nat /\ Len(out) \in Nat
      /\ pc \in [Clients -> {"idle", "send", "sleep", "recv"}] /\ req \in [Clients -> Requests]
      /\ k \in [Clients -> Nat] /\ ct \in [Clients -> Nat] /\ ans \in [Clients -> Seq(Character)]
      /\ noise \in BOOLEAN
      /\ \A t \in Clients : PlaceAt(t)
    BY <1>1 DEF Placed
\* Nothing is left when a request begins alone.
<1>3. ASSUME NEW t \in Clients, Begin(t)
      PROVE  RoomOK' /\ LineOK' /\ alone' \in [Clients -> BOOLEAN] /\ \A u \in Clients : OwnOK(u)'
  <2>1. /\ pc[t] = "idle" /\ pc' = [pc EXCEPT ![t] = "send"] /\ k' = [k EXCEPT ![t] = 0]
        /\ ct' = [ct EXCEPT ![t] = 0] /\ UNCHANGED <<line, pending, out, noise, slow>>
        /\ alone' = [u \in Clients |-> IF u = t THEN \A v \in Clients \ {t} : ~Busy(v)
                                       ELSE alone[u] /\ ~Busy(u)]
      BY <1>3 DEF Begin, module
  <2>2. Asleep' = Asleep /\ Rooms' = Rooms
      BY <1>2, <2>1 DEF Asleep, Rooms
  <2>3. RoomOK' /\ LineOK'
    <3>1. RoomOK'
        BY <1>1, <2>1, <2>2 DEF RoomOK
    <3>2. LineOK'
        BY <1>2, <2>1 DEF LineOK
    <3> QED
        BY <3>1, <3>2
  <2>4. alone' \in [Clients -> BOOLEAN]
      BY <1>1, <2>1
  <2>5. OwnOK(t)'
    <3>1. ASSUME alone'[t] PROVE \A u \in Clients : ~Busy(u)
        BY <2>1, <3>1 DEF Busy
    <3>2. ASSUME alone'[t] PROVE \A u \in Clients \ {t} : ~Busy(u)'
        BY <1>2, <2>1, <3>1, <3>2 DEF Busy
    <3>3. ASSUME alone'[t], ~slow', ~noise'
          PROVE  line' = Chars("req", req'[t], k'[t]) /\ pending' = << >> /\ out' = << >>
      <4>1. \A u \in Clients : pc[u] = "idle"
          BY <3>1, <3>3 DEF Busy
      <4>2. Rooms = {} /\ line = << >>
          BY <1>1, <4>1 DEF Rooms, LineOK
      <4>3. Fits(Len(out) + Len(pending), Rooms)
          BY <1>1, <2>1, <3>3 DEF RoomOK
      <4>4. Len(out) + Len(pending) = 0
          BY <1>2, <4>2, <4>3, FitsNone
      <4>5. out = << >> /\ pending = << >>
          BY <1>2, <4>4
      <4>6. Chars("req", req'[t], 0) = << >>
          BY DEF Chars
      <4> QED
          BY <1>2, <2>1, <4>2, <4>5, <4>6
    <3> QED
        BY <1>2, <2>1, <3>2, <3>3 DEF OwnOK
  <2>6. ASSUME NEW u \in Clients, u # t PROVE OwnOK(u)'
    <3>1. alone'[u] => ~Busy(u)'
        BY <1>2, <2>1, <2>6 DEF Busy
    <3> QED
        BY <3>1 DEF OwnOK, Busy
  <2> QED
      BY <2>3, <2>4, <2>5, <2>6
\* The answer to the line has its room with the client that sent the line feed.
<1>4. ASSUME NEW t \in Clients, Send(t)
      PROVE  RoomOK' /\ LineOK' /\ alone' \in [Clients -> BOOLEAN] /\ \A u \in Clients : OwnOK(u)'
  <2> DEFINE c == <<"req", req[t], k[t] + 1>>
             l == Append(line, c)
             a == Understood(l)
  <2>1. /\ pc[t] = "send" /\ k' = [k EXCEPT ![t] = @ + 1]
        /\ UNCHANGED <<out, noise, req, ans, ct, alone, slow>>
      BY <1>4 DEF Send
  <2>2. c \in Character /\ l \in Seq(Character) /\ l # << >>
    <3>1. c \in Character
        BY <1>2 DEF Character
    <3> HIDE DEF c
    <3>2. l \in Seq(Character) /\ Len(l) = Len(line) + 1 /\ Len(line) \in Nat
        BY <1>2, <3>1
    <3>3. l # << >>
        BY <3>2
    <3> QED
        BY <3>1, <3>2, <3>3
  <2> HIDE DEF c, l
  <2>3. a \in Seq(Character) /\ Len(a) \in Nat /\ Len(a) <= Limit + 1
    <3>1. Understood(l) \in Seq(Character) /\ Len(Understood(l)) <= Limit + 1
        BY <1>1, <2>2, UnderstoodLength
    <3> QED
        BY <3>1
  <2>4. /\ k[t] + 1 = Length[req[t]] =>
              line' = << >> /\ pending' = pending \o a /\ pc' = [pc EXCEPT ![t] = "sleep"]
        /\ k[t] + 1 # Length[req[t]] => line' = l /\ pending' = pending /\ pc' = pc
      BY <1>4 DEF Send, l, c
  <2>5. alone[t] /\ ~slow /\ ~noise =>
            l = Chars("req", req[t], k[t] + 1) /\ pending = << >> /\ out = << >>
      BY <1>1, <1>2, <2>1, OneChar DEF OwnOK, l, c
  <2>6. alone[t] => \A u \in Clients \ {t} : ~Busy(u)
      BY <1>1, <2>1 DEF OwnOK, Busy
  <2>7. ASSUME NEW u \in Clients, u # t PROVE OwnOK(u)'
    <3>1. pc'[u] = pc[u] /\ Busy(t)
        BY <1>2, <2>1, <2>4, <2>7 DEF Busy
    <3> QED
        BY <1>1, <2>1, <2>7, <3>1, OthersKeep
  <2>8. CASE k[t] + 1 = Length[req[t]]
    <3> HIDE DEF a
    <3>1. /\ line' = << >> /\ pending' = pending \o a /\ pc' = [pc EXCEPT ![t] = "sleep"]
        BY <2>4, <2>8
    <3>2. Len(pending') = Len(pending) + Len(a)
        BY <1>2, <2>3, <3>1
    <3> DEFINE Mine == {t} \X (1 .. Limit + 1)
    <3>3. Fits(Len(a), Mine)
      <4> DEFINE f == [i \in 1 .. Len(a) |-> <<t, i>>]
      <4>1. \A i \in 1 .. Len(a) : i \in 1 .. Limit + 1
          BY <1>1, <2>3
      <4>2. f \in [1 .. Len(a) -> Mine] /\ \A i, j \in 1 .. Len(a) : f[i] = f[j] => i = j
          BY <4>1
      <4> HIDE DEF f, Mine
      <4> QED
          BY <4>2 DEF Fits
    <3>4. /\ Asleep' = Asleep \union Mine /\ Asleep \intersect Mine = {}
          /\ Rooms' = Rooms \union Mine /\ Rooms \intersect Mine = {}
      <4>1. pc'[t] = "sleep" /\ \A u \in Clients : u # t => pc'[u] = pc[u]
          BY <1>2, <3>1
      <4>2. ct' = ct
          BY <2>1
      <4>3. Asleep' = Asleep \union Mine /\ Asleep \intersect Mine = {}
          BY <2>1, <4>1 DEF Asleep
      <4>4. Rooms' = Rooms \union Mine /\ Rooms \intersect Mine = {}
          BY <2>1, <4>1, <4>2 DEF Rooms
      <4> QED
          BY <4>3, <4>4
    <3> HIDE DEF Mine
    <3>5. RoomOK'
      <4>1. ASSUME ~slow', ~noise'
            PROVE  Fits(Len(pending'), Asleep') /\ Fits(Len(out') + Len(pending'), Rooms')
        <5>1. Fits(Len(pending), Asleep) /\ Fits(Len(out) + Len(pending), Rooms)
            BY <1>1, <2>1, <4>1 DEF RoomOK
        <5>2. Fits(Len(pending) + Len(a), Asleep \union Mine)
            BY <1>2, <2>3, <3>3, <3>4, <5>1, FitsMore
        <5>3. Fits((Len(out) + Len(pending)) + Len(a), Rooms \union Mine)
          <6>1. Len(out) + Len(pending) \in Nat
              BY <1>2
          <6> QED
              BY <2>3, <3>3, <3>4, <5>1, <6>1, FitsMore
        <5>4. (Len(out) + Len(pending)) + Len(a) = Len(out') + Len(pending')
            BY <1>2, <2>1, <2>3, <3>2
        <5> QED
            BY <3>2, <3>4, <5>2, <5>3, <5>4
      <4> QED
          BY <4>1 DEF RoomOK
    <3>6. LineOK'
        BY <3>1 DEF LineOK
    <3>7. OwnOK(t)'
      <4>1. pc'[t] = "sleep" /\ \A u \in Clients \ {t} : pc'[u] = pc[u]
          BY <1>2, <3>1
      <4>2. alone'[t] => \A u \in Clients \ {t} : ~Busy(u)'
          BY <2>1, <2>6, <4>1 DEF Busy
      <4>3. ASSUME alone'[t], ~slow', ~noise' PROVE out' \o pending' = Reply(req'[t])
        <5>1. l = Chars("req", req[t], Length[req[t]]) /\ pending = << >> /\ out = << >>
            BY <2>1, <2>5, <2>8, <4>3 DEF l
        <5>2. l[Len(l)][2] = req[t]
            BY <1>2, <2>2 DEF l, c
        <5>3. a = Reply(req[t])
            BY <5>1, <5>2 DEF a, Understood
        <5>4. << >> \o (<< >> \o a) = a
            BY <2>3
        <5> QED
            BY <2>1, <3>1, <5>1, <5>3, <5>4
      <4> QED
          BY <3>1, <4>1, <4>2, <4>3 DEF OwnOK
    <3> QED
        BY <1>1, <2>1, <2>7, <3>5, <3>6, <3>7
  <2>9. CASE k[t] + 1 # Length[req[t]]
    <3> HIDE DEF a
    <3>1. line' = l /\ UNCHANGED <<pending, pc, ct, out, noise, slow, alone, req>>
        BY <2>1, <2>4, <2>9
    <3>2. Asleep' = Asleep /\ Rooms' = Rooms
        BY <3>1 DEF Asleep, Rooms
    <3>3. RoomOK'
        BY <1>1, <3>1, <3>2 DEF RoomOK
    <3>4. LineOK'
        BY <2>1, <3>1 DEF LineOK
    <3>5. k'[t] = k[t] + 1
        BY <1>2, <2>1
    <3>6. OwnOK(t)'
      <4>1. alone'[t] => \A u \in Clients \ {t} : ~Busy(u)'
          BY <2>6, <3>1 DEF Busy
      <4> QED
          BY <2>1, <2>5, <3>1, <3>5, <4>1 DEF OwnOK
    <3> QED
        BY <1>1, <2>7, <3>1, <3>3, <3>4, <3>6
  <2> QED
      BY <2>8, <2>9
<1>5. ASSUME NEW t \in Clients, Wake(t)
      PROVE  RoomOK' /\ LineOK' /\ alone' \in [Clients -> BOOLEAN] /\ \A u \in Clients : OwnOK(u)'
  <2>1. /\ pc[t] = "sleep" /\ pc' = [pc EXCEPT ![t] = "recv"]
        /\ UNCHANGED <<line, pending, out, noise, req, k, ans, ct, alone>>
        /\ ~slow' => pending = << >> /\ slow' = slow
      BY <1>5 DEF Wake, Waited, module
  <2>2. pc'[t] = "recv" /\ \A u \in Clients : u # t => pc'[u] = pc[u]
      BY <1>2, <2>1
  <2>3. Rooms' = Rooms
    <3>1. ct[t] = 0 /\ \A i \in 1 .. Limit + 1 : 0 < i
        BY <1>1, <1>2, <2>1 DEF PlaceAt
    <3> QED
        BY <2>1, <2>2, <3>1 DEF Rooms
  <2>4. RoomOK'
    <3>1. ASSUME ~slow', ~noise'
          PROVE  Fits(Len(pending'), Asleep') /\ Fits(Len(out') + Len(pending'), Rooms')
      <4>1. Len(pending') = 0
          BY <2>1, <3>1
      <4>2. Fits(Len(out') + Len(pending'), Rooms')
          BY <1>1, <2>1, <2>3, <3>1 DEF RoomOK
      <4> QED
          BY <4>1, <4>2, FitsZero
    <3> QED
        BY <3>1 DEF RoomOK
  <2>5. LineOK'
      BY <1>1, <2>1, <2>2 DEF LineOK
  <2>6. OwnOK(t)'
    <3>1. alone'[t] => \A u \in Clients \ {t} : ~Busy(u)'
        BY <1>1, <2>1, <2>2 DEF OwnOK, Busy
    <3>2. ASSUME alone'[t], ~slow', ~noise' PROVE pending' = << >> /\ ans'[t] \o out' = Reply(req'[t])
      <4>1. pending = << >> /\ out \o pending = Reply(req[t])
          BY <1>1, <2>1, <3>2 DEF OwnOK
      <4>2. ans[t] = << >>
          BY <1>2, <2>1 DEF PlaceAt
      <4>3. out \o << >> = << >> \o out
          BY <1>2
      <4> QED
          BY <2>1, <4>1, <4>2, <4>3
    <3> QED
        BY <2>2, <3>1, <3>2 DEF OwnOK
  <2>7. ASSUME NEW u \in Clients, u # t PROVE OwnOK(u)'
    <3>1. pc'[u] = pc[u] /\ Busy(t)
        BY <2>1, <2>2, <2>7 DEF Busy
    <3> QED
        BY <1>1, <2>1, <2>7, <3>1, OthersKeep
  <2> QED
      BY <1>1, <2>1, <2>4, <2>5, <2>6, <2>7
\* Each character that is received uses up one place.
<1>6. ASSUME NEW t \in Clients, Receive(t)
      PROVE  RoomOK' /\ LineOK' /\ alone' \in [Clients -> BOOLEAN] /\ \A u \in Clients : OwnOK(u)'
  <2>1. /\ pc[t] = "recv" /\ UNCHANGED <<line, pending, noise, req, k, alone, slow>>
        /\ pc' = pc \/ pc' = [pc EXCEPT ![t] = "idle"]
      BY <1>6 DEF Receive
  <2>2. \A u \in Clients : u # t => pc'[u] = pc[u]
      BY <1>2, <2>1
  <2>3. Asleep' = Asleep
      BY <1>2, <2>1 DEF Asleep
  <2>4. LineOK'
      BY <1>1, <2>1, <2>2 DEF LineOK
  <2>5. ASSUME NEW u \in Clients, u # t PROVE OwnOK(u)'
    <3>1. pc'[u] = pc[u] /\ Busy(t)
        BY <2>1, <2>2, <2>5 DEF Busy
    <3> QED
        BY <1>1, <2>1, <2>5, <3>1, OthersKeep
  <2>6. alone'[t] => \A u \in Clients \ {t} : ~Busy(u)'
      BY <1>1, <2>1, <2>2 DEF OwnOK, Busy
  <2>7. CASE noise
      BY <1>1, <1>2, <2>1, <2>4, <2>5, <2>6, <2>7 DEF RoomOK, OwnOK, Busy
  <2>8. CASE ~noise /\ out = << >>
    <3>1. out' = out /\ pc' = [pc EXCEPT ![t] = "idle"] /\ ct' = ct
        BY <1>6, <2>8 DEF Receive, Input
    <3>2. RoomOK'
      <4>1. Asleep' \subseteq Rooms'
          BY DEF Asleep, Rooms
      <4>2. Len(out') + Len(pending') = Len(pending)
          BY <1>2, <2>1, <2>8, <3>1
      <4>3. ASSUME ~slow', ~noise'
            PROVE  Fits(Len(pending'), Asleep') /\ Fits(Len(out') + Len(pending'), Rooms')
        <5>1. Fits(Len(pending), Asleep')
            BY <1>1, <2>1, <2>3, <4>3 DEF RoomOK
        <5> QED
            BY <2>1, <4>1, <4>2, <5>1, FitsIn
      <4> QED
          BY <4>3 DEF RoomOK
    <3>3. OwnOK(t)'
        BY <1>2, <3>1 DEF OwnOK, Busy
    <3> QED
        BY <1>1, <2>1, <2>4, <2>5, <3>2, <3>3
  <2>9. CASE ~noise /\ out # << >>
    <3> DEFINE x == <<t, ct[t] + 1>>
    <3>0. Input = {Head(out)} /\ (CHOOSE y \in Input : TRUE) = Head(out)
        BY <2>9 DEF Input
    <3>1. /\ Len(ans[t]) = ct[t] /\ ct[t] <= Limit /\ ct[t] \in Nat
        BY <1>2, <2>1 DEF PlaceAt
    <3>2. /\ out' = Tail(out) /\ ct' = [ct EXCEPT ![t] = @ + 1]
          /\ ans' = [ans EXCEPT ![t] = Append(@, Head(out))]
          /\ pc' = IF Limit < ct'[t] THEN [pc EXCEPT ![t] = "idle"] ELSE pc
      <4>1. Input # {} /\ ~(Len(ans[t]) > Limit)
          BY <1>1, <3>0, <3>1
      <4>2. /\ out' = IF noise THEN out ELSE Tail(out)
            /\ ct' = [ct EXCEPT ![t] = Counted(@)]
            /\ ans' = [ans EXCEPT ![t] = IF Len(@) > Limit THEN @
                                         ELSE Append(@, CHOOSE y \in Input : TRUE)]
            /\ pc' = IF Limit < ct'[t] THEN [pc EXCEPT ![t] = "idle"] ELSE pc
          BY <1>6, <4>1 DEF Receive
      <4>3. ans' = [ans EXCEPT ![t] = Append(@, Head(out))]
          BY <3>0, <4>1, <4>2
      <4> QED
          BY <2>9, <4>2, <4>3 DEF Counted
    <3>3. /\ ct'[t] = ct[t] + 1 /\ ans'[t] = Append(ans[t], Head(out))
          /\ \A u \in Clients : u # t => ct'[u] = ct[u]
          /\ pc'[t] = IF Limit < ct[t] + 1 THEN "idle" ELSE "recv"
        BY <1>2, <2>1, <3>2
    <3>4. Len(out') = Len(out) - 1 /\ Len(out) \in Nat \ {0}
        BY <1>2, <2>9, <3>2
    <3>5. Rooms \ {x} \subseteq Rooms'
      <4>1. ASSUME NEW y \in Rooms, y # x PROVE y \in Rooms'
        <5>1. PICK u \in Clients, i \in 1 .. Limit + 1 : y = <<u, i>>
            BY DEF Rooms
        <5>2. CASE u # t
            BY <2>2, <3>3, <5>1, <5>2 DEF Rooms
        <5>3. CASE u = t
          <6>1. ct[t] < i /\ i # ct[t] + 1
              BY <2>1, <4>1, <5>1, <5>3 DEF Rooms
          <6>2. ct[t] + 1 < i /\ ~(Limit < ct[t] + 1)
              BY <1>1, <3>1, <5>1, <6>1
          <6> QED
              BY <3>3, <5>1, <5>3, <6>2 DEF Rooms
        <5> QED
            BY <5>2, <5>3
      <4> QED
          BY <4>1
    <3> HIDE DEF x
    <3>6. RoomOK'
      <4>1. ASSUME ~slow', ~noise'
            PROVE  Fits(Len(pending'), Asleep') /\ Fits(Len(out') + Len(pending'), Rooms')
        <5>1. Fits(Len(pending), Asleep) /\ Fits(Len(out) + Len(pending), Rooms)
            BY <1>1, <2>1, <4>1 DEF RoomOK
        <5>2. Len(out) + Len(pending) \in Nat \ {0}
            BY <1>2, <3>4
        <5>3. Fits((Len(out) + Len(pending)) - 1, Rooms \ {x})
            BY <5>1, <5>2, FitsWithout
        <5>4. (Len(out) + Len(pending)) - 1 = Len(out') + Len(pending')
            BY <1>2, <2>1, <3>4
        <5>5. Fits(Len(out') + Len(pending'), Rooms \ {x})
            BY <5>3, <5>4
        <5>6. Fits(Len(out') + Len(pending'), Rooms')
            BY <3>5, <5>5, FitsIn
        <5> QED
            BY <2>1, <2>3, <5>1, <5>6
      <4> QED
          BY <4>1 DEF RoomOK
    <3>7. OwnOK(t)'
      <4>1. ASSUME alone'[t], ~slow', ~noise' PROVE pending' = << >> /\ ans'[t] \o out' = Reply(req'[t])
        <5>1. pending = << >> /\ ans[t] \o out = Reply(req[t])
            BY <1>1, <2>1, <4>1 DEF OwnOK
        <5>2. Append(ans[t], Head(out)) \o Tail(out) = ans[t] \o out
            BY <1>2, <2>9, HeadOver
        <5> QED
            BY <2>1, <3>2, <3>3, <5>1, <5>2
      <4> QED
          BY <2>6, <3>3, <4>1 DEF OwnOK
    <3> QED
        BY <1>1, <2>1, <2>4, <2>5, <3>6, <3>7
  <2> QED
      BY <1>2, <2>7, <2>8, <2>9
<1>7. ASSUME Emit
      PROVE  RoomOK' /\ LineOK' /\ alone' \in [Clients -> BOOLEAN] /\ \A u \in Clients : OwnOK(u)'
  <2>1. /\ pending # << >> /\ out' = Append(out, Head(pending)) /\ pending' = Tail(pending)
        /\ UNCHANGED <<line, noise, pc, req, k, ans, ct, alone, slow>>
      BY <1>7 DEF Emit
  <2>2. /\ Len(pending') = Len(pending) - 1 /\ Len(pending) \in Nat \ {0}
        /\ Len(out') + Len(pending') = Len(out) + Len(pending)
      BY <1>2, <2>1
  <2>3. Asleep' = Asleep /\ Rooms' = Rooms
      BY <2>1 DEF Asleep, Rooms
  <2>4. RoomOK'
    <3>1. ASSUME ~slow', ~noise'
          PROVE  Fits(Len(pending'), Asleep') /\ Fits(Len(out') + Len(pending'), Rooms')
      <4>1. Fits(Len(pending), Asleep) /\ Fits(Len(out) + Len(pending), Rooms)
          BY <1>1, <2>1, <3>1 DEF RoomOK
      <4>2. Fits(Len(pending'), Asleep)
          BY <2>2, <4>1, FitsLess
      <4> QED
          BY <2>2, <2>3, <4>1, <4>2
    <3> QED
        BY <3>1 DEF RoomOK
  <2>5. LineOK'
      BY <1>1, <2>1 DEF LineOK
  <2>6. ASSUME NEW u \in Clients PROVE OwnOK(u)'
    <3>1. OwnOK(u)
        BY <1>1
    <3>2. Append(out, Head(pending)) \o Tail(pending) = out \o pending
        BY <1>2, <2>1, HeadOver
    <3>3. Busy(u)' = Busy(u) /\ \A v \in Clients \ {u} : Busy(v)' = Busy(v)
        BY <2>1 DEF Busy
    <3> QED
        BY <2>1, <3>1, <3>2, <3>3 DEF OwnOK
  <2> QED
      BY <1>1, <2>1, <2>4, <2>5, <2>6
<1>8. ASSUME Fail
      PROVE  RoomOK' /\ LineOK' /\ alone' \in [Clients -> BOOLEAN] /\ \A u \in Clients : OwnOK(u)'
  <2>1. noise' = TRUE /\ UNCHANGED <<line, pc, alone>>
      BY <1>8 DEF Fail
  <2> QED
      BY <1>1, <2>1 DEF RoomOK, LineOK, OwnOK, Busy
<1>9. ASSUME UNCHANGED vars
      PROVE  RoomOK' /\ LineOK' /\ alone' \in [Clients -> BOOLEAN] /\ \A u \in Clients : OwnOK(u)'
  <2>1. UNCHANGED <<line, pending, out, noise, pc, req, k, ans, ct, alone, slow>>
      BY <1>9 DEF vars, module
  <2>2. Asleep' = Asleep /\ Rooms' = Rooms
      BY <2>1 DEF Asleep, Rooms
  <2> QED
      BY <1>1, <2>1, <2>2 DEF RoomOK, LineOK, OwnOK, Busy
<1> QED
    BY <1>3, <1>4, <1>5, <1>6, <1>7, <1>8, <1>9 DEF Next, Step

\* A module whose answers are of up to Limit characters, in time and without
\* failure: a client whose request is the only one under way gets the answer to
\* it and nothing of an earlier one, for any number of clients that have mixed
\* their characters before.
THEOREM AnswerAlwaysOwn == ASSUME ShortAnswers PROVE Spec => OwnAnswer
<1>1. ASSUME RfInv, [Next]_vars, NEW t \in Clients, Ends(t), alone[t], ~slow, ~noise
      PROVE  ans'[t] = Reply(req[t])
  <2>1. /\ Placed /\ OwnOK(t) /\ Limit \in Nat /\ out \in Seq(Character) /\ ans[t] \in Seq(Character)
        /\ pc \in [Clients -> {"idle", "send", "sleep", "recv"}]
        /\ ans \in [Clients -> Seq(Character)] /\ ct \in [Clients -> Nat]
        /\ PlaceAt(t) /\ req[t] \in Requests
      BY <1>1, RfAssumption DEF RfInv, Placed
  <2>2. pc[t] = "recv" /\ pc'[t] = "idle" /\ ans[t] \o out = Reply(req[t])
      BY <1>1, <2>1 DEF Ends, OwnOK
  <2>3. Receive(t)
      BY <1>1, <2>1, <2>2 DEF Next, Step, Begin, Send, Wake, Receive, Emit, Fail, vars
  <2>4. CASE out = << >>
    <3>1. ans' = ans
        BY <1>1, <2>3, <2>4 DEF Receive, Input
    <3>2. ans[t] \o << >> = ans[t]
        BY <2>1
    <3> QED
        BY <2>2, <2>4, <3>1, <3>2
  <2>5. CASE out # << >>
    <3>1. Len(ans[t]) = ct[t] /\ ct[t] <= Limit /\ ct[t] \in Nat
        BY <2>1, <2>2 DEF PlaceAt
    <3>2. ct' = [ct EXCEPT ![t] = @ + 1] /\ pc' = IF Limit < ct'[t] THEN [pc EXCEPT ![t] = "idle"] ELSE pc
        BY <1>1, <2>3, <2>5 DEF Receive, Input, Counted
    <3>3. Limit < ct[t] + 1
        BY <2>1, <2>2, <3>2
    <3>4. Len(Reply(req[t])) = Answer[req[t]] /\ Answer[req[t]] \in Nat /\ Answer[req[t]] <= Limit
        BY <2>1, RfAssumption, ChToo DEF Reply, ShortAnswers
    <3>5. Len(ans[t] \o out) = Len(ans[t]) + Len(out) /\ Len(out) \in Nat \ {0}
        BY <2>1, <2>5
    <3>6. FALSE
        BY <2>1, <2>2, <3>1, <3>3, <3>4, <3>5
    <3> QED
        BY <3>6
  <2> QED
      BY <2>4, <2>5
<1>2. RfInv /\ [Next]_vars =>
        [\A t \in Clients : Ends(t) /\ alone[t] /\ ~slow /\ ~noise => ans'[t] = Reply(req[t])]_vars
    BY <1>1
<1> QED
    BY <1>2, RfInit, RfStep, PTL DEF Spec, OwnAnswer
=============================================================================
