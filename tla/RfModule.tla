------------------------------ MODULE RfModule ------------------------------
(***************************************************************************)
(* The RF server (compu_rf.cpp).  A request goes to the RF module          *)
(* character by character through one register, a millisecond later the    *)
(* answer is read from the same register until it gives 0 or 255.  The     *)
(* module and its speed are external.  The last character of a request is  *)
(* the line feed that sendmodu appends.                                    *)
(***************************************************************************)
EXTENDS Integers, Sequences

CONSTANTS
    Clients,
    Requests,
    Length,     \* Length[r]: characters of request r with its line feed
    Answer,     \* Answer[r]: characters that the module answers with
    Limit,      \* 250: the characters after which recvmodu gives up
    MaxCmds     \* bound: MaxCmds[t] requests of client t

ASSUME RfAssumption ==
    /\ Length \in [Requests -> Nat \ {0}] /\ Answer \in [Requests -> Nat]
    /\ Limit \in Nat /\ MaxCmds \in [Clients -> Nat]

VARIABLES
    line,       \* the characters that the module got since the last line feed
    pending,    \* characters of answers that it has not put out yet
    out,        \* those that wait in the register
    noise,      \* the register never gets empty
    pc, req, k, \* of each client: the place, the request, characters sent
    ans, ct,    \* what recvmodu has stored and counted
    used,
    alone,      \* history: no other request was under way with this one
    slow        \* history: an answer was not ready within Sleep(1)
module == <<line, pending, out, noise>>
vars == <<module, pc, req, k, ans, ct, used, alone, slow>>

\* A character is its text and its place in it.
Chars(what, r, n) == [i \in 1 .. n |-> <<what, r, i>>]
Reply(r) == Chars("ans", r, Answer[r])
Busy(t) == pc[t] # "idle"

Init ==
    /\ line = << >> /\ pending = << >> /\ out = << >> /\ noise = FALSE
    /\ pc = [t \in Clients |-> "idle"] /\ req \in [Clients -> Requests]
    /\ k = [t \in Clients |-> 0] /\ ans = [t \in Clients |-> << >>] /\ ct = [t \in Clients |-> 0]
    /\ used = [t \in Clients |-> 0] /\ alone = [t \in Clients |-> TRUE] /\ slow = FALSE

\* compuRF: the next request of the message.
Begin(t) ==
    /\ pc[t] = "idle" /\ used[t] < MaxCmds[t]
    /\ \E r \in Requests : req' = [req EXCEPT ![t] = r]
    /\ pc' = [pc EXCEPT ![t] = "send"] /\ k' = [k EXCEPT ![t] = 0]
    /\ ans' = [ans EXCEPT ![t] = << >>] /\ ct' = [ct EXCEPT ![t] = 0]
    /\ used' = [used EXCEPT ![t] = @ + 1]
    /\ alone' = [u \in Clients |-> IF u = t THEN \A v \in Clients \ {t} : ~Busy(v)
                                   ELSE alone[u] /\ ~Busy(u)]
    /\ UNCHANGED <<module, slow>>

\* External: what the module makes of a line.  Characters of two requests in
\* one line are an error.
Understood(l) ==
    LET r == l[Len(l)][2]
    IN  IF l = Chars("req", r, Length[r]) THEN Reply(r) ELSE Chars("error", r, 1)

\* sendmodu: outdevb of one character.
Send(t) ==
    /\ pc[t] = "send"
    /\ LET c == <<"req", req[t], k[t] + 1>>
       IN  IF k[t] + 1 = Length[req[t]]
           THEN /\ line' = << >> /\ pending' = pending \o Understood(Append(line, c))
                /\ pc' = [pc EXCEPT ![t] = "sleep"]
           ELSE line' = Append(line, c) /\ UNCHANGED <<pending, pc>>
    /\ k' = [k EXCEPT ![t] = @ + 1]
    /\ UNCHANGED <<out, noise, req, ans, ct, used, alone, slow>>

\* Mutant: no wait between request and answer.
Waited_Not == TRUE

\* The module has put out its answer within Sleep(1).
Waited == pending = << >>

\* compuRF: Sleep(1), after which the answer is there or not.
Wake(t) ==
    /\ pc[t] = "sleep"
    /\ (Waited /\ UNCHANGED slow) \/ slow' = TRUE
    /\ pc' = [pc EXCEPT ![t] = "recv"]
    /\ UNCHANGED <<module, req, k, ans, ct, used, alone>>

\* Mutant: the characters are not counted.
Counted_Not(n) == n

\* ct++
Counted(n) == n + 1

\* indevb: a character, or 0 (255, 0x100) for none.
Input == IF noise THEN {<<"noise", CHOOSE r \in Requests : TRUE, 1>>}
         ELSE IF out = << >> THEN {} ELSE {Head(out)}

\* recvmodu: one turn of the loop.  A full buffer ends it, without the 0 behind
\* the last character.
Receive(t) ==
    /\ pc[t] = "recv"
    /\ IF Input = {} THEN pc' = [pc EXCEPT ![t] = "idle"] /\ UNCHANGED <<out, ans, ct>>
       ELSE /\ out' = IF noise THEN out ELSE Tail(out)
            /\ ct' = [ct EXCEPT ![t] = Counted(@)]
            /\ ans' = [ans EXCEPT ![t] = IF Len(@) > Limit THEN @
                                         ELSE Append(@, CHOOSE c \in Input : TRUE)]
            /\ pc' = IF Limit < ct'[t] THEN [pc EXCEPT ![t] = "idle"] ELSE pc
    /\ UNCHANGED <<line, pending, noise, req, k, used, alone, slow>>

\* External: the next character of the answer is in the register.
Emit ==
    /\ pending # << >>
    /\ out' = Append(out, Head(pending)) /\ pending' = Tail(pending)
    /\ UNCHANGED <<line, noise, pc, req, k, ans, ct, used, alone, slow>>

\* External: the module, or its cable, fails for good.
Fail ==
    /\ noise = FALSE /\ noise' = TRUE
    /\ UNCHANGED <<line, pending, out, pc, req, k, ans, ct, used, alone, slow>>

Step(t) == Send(t) \/ Wake(t) \/ Receive(t)
Next == Emit \/ Fail \/ \E t \in Clients : Begin(t) \/ Step(t)
Spec == Init /\ [][Next]_vars /\ WF_vars(Emit) /\ \A t \in Clients : WF_vars(Step(t))

-----------------------------------------------------------------------------
\* Properties.

\* recvmodu stays in its buffer, and counts what it stored.
TypeOK ==
    \A t \in Clients : /\ k[t] \in 0 .. Length[req[t]]
                       /\ Len(ans[t]) = ct[t] /\ ct[t] \in 0 .. Limit + 1

Ends(t) == pc[t] = "recv" /\ pc'[t] = "idle"

\* As long as the module answers in time and does not fail, a client whose
\* request was the only one under way gets the whole answer to it, whatever
\* other clients mixed before: nothing of an earlier answer is left in the
\* register.  (Answers of up to Limit characters: of a longer one recvmodu
\* leaves a rest.)
ShortAnswers == \A r \in Requests : Answer[r] <= Limit
OwnAnswer ==
    [][\A t \in Clients : Ends(t) /\ alone[t] /\ ~slow /\ ~noise => ans'[t] = Reply(req[t])]_vars

\* A request always ends, even when the register never gives 0 or 255.
RequestEnds == \A t \in Clients : Busy(t) ~> ~Busy(t)
=============================================================================
