----------------------------- MODULE TcpServer -----------------------------
(***************************************************************************)
(* One port of the server (tcp3.c): accept_loop gives every connection a   *)
(* thread of its own, and send_recv_thread cuts the bytes it receives into *)
(* commands and has each executed.  TCP delivers what the client sent in   *)
(* order, in pieces that need not match its writes; a client may close at  *)
(* any time, or reset, which discards what the server has not received.    *)
(***************************************************************************)
EXTENDS Integers, Sequences, SequencesExt

CONSTANTS
    Conns,          \* the connections that clients may open
    Plain,          \* characters that are not delimiters
    BUFF_SIZE,      \* bytes of one recv (8200)
    Backlog,        \* connections that wait for accept (5)
    MaxSend,        \* bound: MaxSend[c] bytes that the client of c sends
    MaxThreadFails  \* bound: calls of pthread_create that fail

Delims == {"SC", "CR", "LF", "NUL"}
Char == Plain \union Delims

ASSUME PlainAssumption == Plain \intersect Delims = {}
ASSUME SizeAssumption == BUFF_SIZE \in Nat \ {0} /\ Backlog \in Nat \ {0}
ASSUME BoundsAssumption == MaxSend \in [Conns -> Nat] /\ MaxThreadFails \in Nat

VARIABLES
    \* clients and network (external)
    peer,     \* "new", "up", "closed", "reset"
    sent,     \* sent[c]: the bytes that c's client has sent
    queue,    \* connections that wait in the listen queue
    \* accept_loop
    sock,     \* sock[c]: the server's descriptor: "none", "open", "closed"
    args,     \* connections whose TCP3_ARGS are allocated
    fails,
    \* send_recv_thread
    pc,       \* "none", "recv", "scan", "exec", "discon", "gone"
    rcvd,     \* rcvd[c]: how many bytes of sent[c] recv has returned
    cmdbuf,   \* cmdbuf[c]: received bytes that have not been cut off
    stm,      \* stm[c]: the command that has been cut off
    done      \* done[c]: the commands that XXXexec has executed

client == <<peer, sent>>
loop   == <<queue, sock, args, fails>>
vars   == <<client, loop, pc, rcvd, cmdbuf, stm, done>>

Init ==
    /\ peer = [c \in Conns |-> "new"]
    /\ sent = [c \in Conns |-> << >>]
    /\ queue = << >>
    /\ sock = [c \in Conns |-> "none"]
    /\ args = {}
    /\ fails = 0
    /\ pc = [c \in Conns |-> "none"]
    /\ rcvd = [c \in Conns |-> 0]
    /\ cmdbuf = [c \in Conns |-> << >>]
    /\ stm = [c \in Conns |-> << >>]
    /\ done = [c \in Conns |-> << >>]

-----------------------------------------------------------------------------
\* Mutant: a NUL stays in the buffer.
Strip_KeepsNul(s) == [i \in DOMAIN s |-> IF s[i] \in {"CR", "LF"} THEN "SC" ELSE s[i]]

\* stripCRLF_NULL
Strip(s) == [i \in DOMAIN s |-> IF s[i] \in Delims THEN "SC" ELSE s[i]]

\* search_delimit: the place of the first delimiter, 0 if there is none
\* before the NUL that ends the string.
Delimits(s, i) == s[i] \in Delims \ {"NUL"} /\ \A j \in 1 .. i - 1 : s[j] \notin Delims
SearchDelimit(s) ==
    IF \E i \in DOMAIN s : Delimits(s, i) THEN CHOOSE i \in DOMAIN s : Delimits(s, i) ELSE 0

-----------------------------------------------------------------------------
\* Clients.
Connect(c) ==
    /\ peer[c] = "new" /\ Len(queue) < Backlog
    /\ peer' = [peer EXCEPT ![c] = "up"]
    /\ queue' = Append(queue, c)
    /\ UNCHANGED <<sent, sock, args, fails, pc, rcvd, cmdbuf, stm, done>>

Send(c, ch) ==
    /\ peer[c] = "up" /\ Len(sent[c]) < MaxSend[c]
    /\ sent' = [sent EXCEPT ![c] = Append(@, ch)]
    /\ UNCHANGED <<peer, loop, pc, rcvd, cmdbuf, stm, done>>

Leave(c) ==
    /\ peer[c] = "up"
    /\ \E how \in {"closed", "reset"} : peer' = [peer EXCEPT ![c] = how]
    /\ UNCHANGED <<sent, loop, pc, rcvd, cmdbuf, stm, done>>

-----------------------------------------------------------------------------
\* Mutant: a thread that cannot be created ends the loop.
Accept_UntilError ==
    /\ queue # << >> /\ fails = 0
    /\ LET c == Head(queue)
       IN  /\ sock' = [sock EXCEPT ![c] = "open"]
           /\ args' = args \union {c}
           /\ \/ pc' = [pc EXCEPT ![c] = "recv"] /\ UNCHANGED fails
              \/ fails < MaxThreadFails /\ fails' = fails + 1 /\ UNCHANGED pc
    /\ queue' = Tail(queue)
    /\ UNCHANGED <<client, rcvd, cmdbuf, stm, done>>

\* accept_loop: accept, allocate the arguments, create the thread.  If that
\* fails the error is printed and the loop goes on.
Accept ==
    /\ queue # << >>
    /\ LET c == Head(queue)
       IN  /\ sock' = [sock EXCEPT ![c] = "open"]
           /\ args' = args \union {c}
           /\ \/ pc' = [pc EXCEPT ![c] = "recv"] /\ UNCHANGED fails
              \/ fails < MaxThreadFails /\ fails' = fails + 1 /\ UNCHANGED pc
    /\ queue' = Tail(queue)
    /\ UNCHANGED <<client, rcvd, cmdbuf, stm, done>>

-----------------------------------------------------------------------------
\* send_recv_thread.

\* Mutant: the received bytes replace what was left in the buffer.
Recv_Replaces(c) ==
    /\ pc[c] = "recv" /\ peer[c] # "reset"
    /\ \E n \in 1 .. BUFF_SIZE :
        /\ rcvd[c] + n <= Len(sent[c])
        /\ rcvd' = [rcvd EXCEPT ![c] = @ + n]
        /\ cmdbuf' = [cmdbuf EXCEPT ![c] = Strip(SubSeq(sent[c], rcvd[c] + 1, rcvd[c] + n))]
    /\ pc' = [pc EXCEPT ![c] = "scan"]
    /\ UNCHANGED <<client, loop, stm, done>>

\* recv returns up to BUFF_SIZE of the bytes that have arrived; they are
\* stripped and appended.
Recv(c) ==
    /\ pc[c] = "recv" /\ peer[c] # "reset"
    /\ \E n \in 1 .. BUFF_SIZE :
        /\ rcvd[c] + n <= Len(sent[c])
        /\ rcvd' = [rcvd EXCEPT ![c] = @ + n]
        /\ cmdbuf' = [cmdbuf EXCEPT ![c] =
                         @ \o Strip(SubSeq(sent[c], rcvd[c] + 1, rcvd[c] + n))]
    /\ pc' = [pc EXCEPT ![c] = "scan"]
    /\ UNCHANGED <<client, loop, stm, done>>

\* recv returns 0 at the end of the stream, -1 after a reset.
RecvEnds(c) ==
    /\ pc[c] = "recv"
    /\ peer[c] = "reset" \/ (peer[c] = "closed" /\ rcvd[c] = Len(sent[c]))
    /\ pc' = [pc EXCEPT ![c] = "discon"]
    /\ UNCHANGED <<client, loop, rcvd, cmdbuf, stm, done>>

\* A delimiter is found: the bytes up to it are copied to stm and the rest
\* moves down; a delimiter alone is skipped.
Cut(c) ==
    LET d == SearchDelimit(cmdbuf[c])
    IN  /\ pc[c] = "scan" /\ d # 0
        /\ stm' = [stm EXCEPT ![c] = SubSeq(cmdbuf[c], 1, d)]
        /\ cmdbuf' = [cmdbuf EXCEPT ![c] = SubSeq(@, d + 1, Len(@))]
        /\ pc' = [pc EXCEPT ![c] = IF d = 1 THEN "scan" ELSE "exec"]
        /\ UNCHANGED <<client, loop, rcvd, done>>

NoDelimiter(c) ==
    /\ pc[c] = "scan" /\ SearchDelimit(cmdbuf[c]) = 0
    /\ pc' = [pc EXCEPT ![c] = "recv"]
    /\ UNCHANGED <<client, loop, rcvd, cmdbuf, stm, done>>

\* Mutant: one command is cut off after a recv (if for while).
Execute_OnlyOne(c) ==
    /\ pc[c] = "exec"
    /\ done' = [done EXCEPT ![c] = Append(@, Front(stm[c]))]
    /\ pc' = [pc EXCEPT ![c] = "recv"]
    /\ UNCHANGED <<client, loop, rcvd, cmdbuf, stm>>

\* XXXexec(stm, acc, NULL); what it does is the business of the boards.  Its
\* tokeniser drops the delimiter.
Execute(c) ==
    /\ pc[c] = "exec"
    /\ done' = [done EXCEPT ![c] = Append(@, Front(stm[c]))]
    /\ pc' = [pc EXCEPT ![c] = "scan"]
    /\ UNCHANGED <<client, loop, rcvd, cmdbuf, stm>>

\* discon: the socket is closed, the buffers and the arguments are freed.
Disconnect(c) ==
    /\ pc[c] = "discon"
    /\ sock' = [sock EXCEPT ![c] = "closed"]
    /\ cmdbuf' = [cmdbuf EXCEPT ![c] = << >>]
    /\ args' = args \ {c}
    /\ pc' = [pc EXCEPT ![c] = "gone"]
    /\ UNCHANGED <<client, queue, fails, rcvd, stm, done>>

Thread(c) ==
    Recv(c) \/ RecvEnds(c) \/ Cut(c) \/ NoDelimiter(c) \/ Execute(c) \/ Disconnect(c)

\* The server waits for clients that have sent all they will.
Quiet ==
    /\ queue = << >>
    /\ \A c \in Conns :
        /\ peer[c] # "new"
        /\ pc[c] \in {"none", "gone"}
    /\ UNCHANGED vars

Next ==
    \/ \E c \in Conns : Connect(c) \/ Leave(c) \/ Thread(c) \/ \E ch \in Char : Send(c, ch)
    \/ Accept
    \/ Quiet

Spec == Init /\ [][Next]_vars
FairSpec == Spec /\ WF_vars(Accept) /\ \A c \in Conns : WF_vars(Thread(c))

-----------------------------------------------------------------------------
\* Properties.

\* Every variable keeps its range.  In particular no CR, LF or NUL passes
\* stripCRLF_NULL, and no command contains a delimiter.
TypeOK ==
    /\ peer \in [Conns -> {"new", "up", "closed", "reset"}]
    /\ sent \in [Conns -> Seq(Char)]
    /\ queue \in Seq(Conns)
    /\ sock \in [Conns -> {"none", "open", "closed"}]
    /\ args \subseteq Conns
    /\ fails \in 0 .. MaxThreadFails
    /\ pc \in [Conns -> {"none", "recv", "scan", "exec", "discon", "gone"}]
    /\ rcvd \in [Conns -> Nat]
    /\ \A c \in Conns : rcvd[c] <= Len(sent[c])
    /\ cmdbuf \in [Conns -> Seq(Plain \union {"SC"})]
    /\ stm \in [Conns -> Seq(Plain \union {"SC"})]
    /\ done \in [Conns -> Seq(Seq(Plain))]

\* cs are the commands of the first n bytes of s, stated without reading them
\* piece by piece: a command is a longest run of other characters that a
\* delimiter follows, e[k] the place of the delimiter behind the k-th.
Ends(s, n) == {i \in 2 .. n : s[i] \in Delims /\ s[i - 1] \notin Delims}
RunTo(w, s, i) ==
    LET j == i - Len(w)
    IN  /\ j >= 1 /\ (j > 1 => s[j - 1] \in Delims)
        /\ \A k \in 1 .. Len(w) : w[k] = s[j + k - 1] /\ w[k] \notin Delims
AreCommands(cs, s, n) ==
    \E e \in [DOMAIN cs -> Ends(s, n)] :
        /\ \A k, l \in DOMAIN cs : k < l => e[k] < e[l]
        /\ \A i \in Ends(s, n) : \E k \in DOMAIN cs : e[k] = i
        /\ \A k \in DOMAIN cs : RunTo(cs[k], s, e[k])

InHand(c) == IF pc[c] = "exec" THEN <<Front(stm[c])>> ELSE << >>

\* However the stream is cut into pieces by recv, and with any mixture of
\* delimiters, the commands executed and the one in hand are those of the bytes
\* up to a delimiter, each once and in order, and the buffer holds the bytes
\* received behind it; a tail without a delimiter is never executed.  (The
\* append and cut loop of send_recv_thread.)
StreamKept ==
    \A c \in Conns :
        pc[c] \in {"recv", "scan", "exec"} =>
            LET cut == rcvd[c] - Len(cmdbuf[c])
            IN  /\ cut >= 0 /\ (cut > 0 => sent[c][cut] \in Delims)
                /\ AreCommands(done[c] \o InHand(c), sent[c], cut)
                /\ \A i \in 1 .. Len(cmdbuf[c]) :
                      LET ch == sent[c][cut + i]
                      IN  cmdbuf[c][i] = IF ch \in Delims THEN "SC" ELSE ch

\* When the thread waits for bytes, or has ended, every complete command that
\* it has received has been executed, also one that the client sent just
\* before it closed.
NothingLeftBehind ==
    \A c \in Conns :
        pc[c] \in {"recv", "discon", "gone"} => AreCommands(done[c], sent[c], rcvd[c])

\* A client that closes in an orderly way has all the commands it completed
\* executed, whether or not it waits for the answers, and the connection
\* disappears: descriptor closed, arguments freed.  Only the connection whose
\* own thread could not be created is left out; accept_loop goes on to serve
\* the others.
ClosedIsServed ==
    \A c \in Conns :
        peer[c] = "closed" ~>
            \/ /\ AreCommands(done[c], sent[c], Len(sent[c]))
               /\ sock[c] = "closed" /\ c \notin args
            \/ sock[c] = "open" /\ pc[c] = "none" /\ fails > 0
=============================================================================
