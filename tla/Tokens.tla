-------------------------------- MODULE Tokens --------------------------------
(***************************************************************************)
(* How messages are cut into commands and parameters (strtok_r.cpp,        *)
(* compu_common.cpp, and the loops of compuPULSER, compuAD and compuRF).   *)
(* MY_strtok_r is made from strtok, which has one hidden pointer for all   *)
(* its callers: the loop over the commands, the cutting of parameters      *)
(* inside it, and the threads of other connections.                        *)
(*                                                                         *)
(* A buffer is a sequence of characters that ends with a NUL, a pointer is *)
(* an index, 0 is NULL.  "w" stands for the word of a command with         *)
(* parameters, "x" for any other text.                                     *)
(***************************************************************************)
EXTENDS Integers, Sequences, SequencesExt, FiniteSets

CONSTANTS
    Threads,
    Messages,   \* Messages[t]: what t may have received
    MaxArgs     \* parameters that are cut: 3, or 4 for startad

ASSUME TokensAssumption ==
    /\ MaxArgs \in Nat \ {0}
    /\ \A t \in Threads : \A m \in Messages[t] : m \in Seq({"w", "x", ",", ";"})

VARIABLES
    hidden,     \* the pointer of strtok: the thread and buffer, and the place
    message,        \* history: the message of each thread
    buf, saveptr, cmd2,     \* the buffer, and the pointers of the loop over commands
    stm, argptr, arg,       \* the copy of a command, and the pointers of its parameters
    stage, calls,  \* the place, the calls that a cut function has made
    cmds        \* cmds[t]: for each command its parameters
cutvars == <<hidden, message, buf, saveptr, cmd2, stm, argptr, arg, stage, calls, cmds>>

NULL == 0
Terminated(s) == Append(s, "NUL")

\* The first place from p on that holds one of the characters cs.
FirstOf(b, p, cs) == CHOOSE i \in p .. Len(b) : /\ b[i] \in cs
                                                /\ \A j \in p .. i - 1 : b[j] \notin cs
Text(b, p) == SubSeq(b, p, FirstOf(b, p, {"NUL"}) - 1)

-----------------------------------------------------------------------------
\* External: strtok of the C library, from the place p.
Strtok(b, p, d) ==
    LET s == FirstOf(b, p, {"NUL", "w", "x", ",", ";"} \ {d})
        e == FirstOf(b, s, {"NUL", d})
    IN  CASE b[s] = "NUL" -> [res |-> NULL, b |-> b, next |-> s]
          [] b[s] # "NUL" /\ b[e] = "NUL" -> [res |-> s, b |-> b, next |-> e]
          [] OTHER -> [res |-> s, b |-> [b EXCEPT ![e] = "NUL"], next |-> e + 1]

\* Mutant: the caller goes on with the pointer of strtok (where that is in its
\* buffer).
From_Hidden(str, save) == IF str # NULL THEN str ELSE IF hidden < save THEN hidden ELSE save

\* Where MY_strtok_r begins: at str, or where it was the last time.
From(str, save) == IF str # NULL THEN str ELSE save

\* *save after a token, with last the end of what was cut.
Rest(r, last) == LET e == FirstOf(r.b, r.res, {"NUL"}) IN IF e < last THEN e + 1 ELSE NULL

\* MY_strtok_r: the token, the buffer and the pointers after it.
MyStrtok(b, str, d, save) ==
    LET p == From(str, save)
    IN  IF p = NULL THEN [res |-> NULL, b |-> b, save |-> save, next |-> hidden]
        ELSE LET r == Strtok(b, p, d)
             IN  [res |-> r.res, b |-> r.b, next |-> r.next,
                  save |-> IF r.res = NULL THEN NULL ELSE Rest(r, FirstOf(b, p, {"NUL"}))]

-----------------------------------------------------------------------------
\* saveptr of the cut functions is not initialised; any pointer will do.
CutInit ==
    /\ hidden = 1
    /\ message \in {m \in [Threads -> UNION {Messages[t] : t \in Threads}] :
                  \A t \in Threads : m[t] \in Messages[t]}
    /\ buf = [t \in Threads |-> Terminated(message[t])]
    /\ saveptr = [t \in Threads |-> NULL] /\ cmd2 = [t \in Threads |-> 1]
    /\ stm = [t \in Threads |-> Terminated(<< >>)]
    /\ argptr = [t \in Threads |-> 1] /\ arg = [t \in Threads |-> NULL]
    /\ stage = [t \in Threads |-> "command"] /\ calls = [t \in Threads |-> 0]
    /\ cmds = [t \in Threads |-> << >>]

\* The head of the loop, and strcpy( stm, cmd ).  checkword finds the word, or
\* the command is done.
Command(t) ==
    /\ stage[t] = "command"
    /\ LET r    == MyStrtok(buf[t], cmd2[t], ";", saveptr[t])
           text == IF r.res = NULL THEN << >> ELSE Text(r.b, r.res)
       IN  /\ buf' = [buf EXCEPT ![t] = r.b]
           /\ saveptr' = [saveptr EXCEPT ![t] = r.save] /\ hidden' = r.next
           /\ cmd2' = [cmd2 EXCEPT ![t] = NULL]
           /\ IF r.res = NULL
              THEN stage' = [stage EXCEPT ![t] = "done"] /\ UNCHANGED <<stm, arg, cmds>>
              ELSE /\ stm' = [stm EXCEPT ![t] = Terminated(text)]
                   /\ arg' = [arg EXCEPT ![t] = 2]
                   /\ \E f \in {"cut", "cutall"} :
                         stage' = IF text[1] = "w" THEN [stage EXCEPT ![t] = f] ELSE stage
                   /\ cmds' = [cmds EXCEPT ![t] = Append(@, << >>)]
    /\ calls' = [calls EXCEPT ![t] = 0] /\ UNCHANGED <<message, argptr>>

\* One MY_strtok_r of cutThreeData or cutFourData, which return when there is
\* no more, or of cutTimes or cutParams, which make all their calls.
Parameter(t) ==
    /\ stage[t] \in {"cut", "cutall"}
    /\ LET r == MyStrtok(stm[t], arg[t], ",", argptr[t])
           k == Len(cmds[t])
           now == IF r.res = NULL THEN cmds[t][k] ELSE Append(cmds[t][k], Text(r.b, r.res))
       IN  /\ stm' = [stm EXCEPT ![t] = r.b]
           /\ argptr' = [argptr EXCEPT ![t] = r.save] /\ hidden' = r.next
           /\ arg' = [arg EXCEPT ![t] = NULL]
           /\ cmds' = [cmds EXCEPT ![t][k] = now]
           /\ calls' = [calls EXCEPT ![t] = @ + 1]
           /\ stage' = IF calls'[t] = MaxArgs \/ (r.res = NULL /\ stage[t] = "cut")
                    THEN [stage EXCEPT ![t] = "command"] ELSE stage
    /\ UNCHANGED <<message, buf, saveptr, cmd2>>

\* All messages are done.
Quiet == (\A t \in Threads : stage[t] = "done") /\ UNCHANGED cutvars

CutNext == Quiet \/ \E t \in Threads : Command(t) \/ Parameter(t)
CutSpec == CutInit /\ [][CutNext]_cutvars

-----------------------------------------------------------------------------
\* Properties.

\* From i to j is a longest part of s without d.
IsPart(s, d, i, j) ==
    /\ i <= j /\ \A x \in i .. j : s[x] # d
    /\ i > 1 => s[i - 1] = d
    /\ j < Len(s) => s[j + 1] = d
Begins(s, d) == {i \in DOMAIN s : \E j \in i .. Len(s) : IsPart(s, d, i, j)}
Earlier(s, d, i) == {c \in Begins(s, d) : c < i}

\* The longest parts of s without d, in their order: what a token is.
Parts(s, d) ==
    LET Begin(n) == CHOOSE i \in Begins(s, d) : Cardinality(Earlier(s, d, i)) = n - 1
        End(i) == CHOOSE j \in i .. Len(s) : IsPart(s, d, i, j)
    IN  [n \in 1 .. Cardinality(Begins(s, d)) |-> SubSeq(s, Begin(n), End(Begin(n)))]

\* The first MaxArgs parameters of a command with a word, of any other none.
Args(c) ==
    LET p == Parts(Tail(c), ",")
    IN  IF c[1] = "w" THEN SubSeq(p, 1, IF Len(p) < MaxArgs THEN Len(p) ELSE MaxArgs) ELSE << >>
Meant(m) == LET p == Parts(m, ";") IN [n \in DOMAIN p |-> Args(p[n])]

\* What has been executed is at any time the beginning of what the message
\* means, and all of it in the end: neither the cutting of parameters inside
\* the loop nor another thread's calls of strtok disturb it.  (MY_strtok_r
\* never lets strtok use its pointer; compuXXX copies the command.)
TokensAsMeant ==
    \A t \in Threads :
        LET m == Meant(message[t])
            done == IF stage[t] \in {"command", "done"} THEN cmds[t] ELSE Front(cmds[t])
        IN  /\ IsPrefix(done, m)
            /\ stage[t] = "done" => done = m
=============================================================================
