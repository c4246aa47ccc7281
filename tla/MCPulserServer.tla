--------------------------- MODULE MCPulserServer ---------------------------
(***************************************************************************)
(* Instances of PulserServer for TLC: the messages that clients send.      *)
(* Which of them a run allows is chosen at the beginning.                  *)
(***************************************************************************)
EXTENDS PulserServer, TLC

CONSTANTS p1, p2, e1, u1, u2

Set(p)     == [c |-> "set", v |-> p]
Edit(e)    == [c |-> "edit", v |-> e]
Setmode(m) == [c |-> "setmode", v |-> m]
StartN(k)  == [c |-> "start", v |-> k]
Cmd(c)     == [c |-> c, v |-> 0]

\* Over TCP every command is a message.
Single == {<<Set(p)>> : p \in Params} \union {<<Edit(e)>> : e \in Edits}
          \union {<<Setmode(m)>> : m \in {0, 1}} \union {<<StartN(k)>> : k \in Counts}
          \union {<<Cmd("memclr")>>, <<Cmd("update")>>, <<Cmd("stop")>>}

\* u1 drives the pulser, as a Lua script with several commands at once; u2
\* only stops it.
OneDriver ==
    u1 :> Single \union {<<StartN(1), Set(p1)>>, <<Cmd("stop"), Setmode(0), StartN(0)>>,
                        <<Edit(e1), Cmd("update"), Cmd("stop")>>} @@
    u2 :> {<<Cmd("stop")>>}

\* Both drive the pulser, so that their bursts meet.
TwoDrivers ==
    u1 :> {<<Edit(e1)>>, <<Setmode(0)>>, <<StartN(0)>>} @@ u2 :> {<<Cmd("update")>>, <<Cmd("isrun")>>}

\* u2 sets a parameter while u1 starts.
DriverAndSetter ==
    u1 :> {<<Set(p1)>>, <<Setmode(0)>>, <<StartN(0)>>} @@ u2 :> {<<Set(p2)>>}

AnyMsgs == [t \in Clients |-> OneDriver[t] \union TwoDrivers[t] \union DriverAndSetter[t]]

VARIABLE play   \* what each client may send
PlayNext ==
    /\ \/ \E t \in Clients : Exec(t) \/ \E m \in play[t] : Receive(t, m)
       \/ BoardEnds
    /\ UNCHANGED play

PlayInit == Init /\ play \in {OneDriver, TwoDrivers}
PlaySpec == PlayInit /\ [][PlayNext]_<<vars, play>>

SetterInit == Init /\ play = DriverAndSetter
SetterSpec == SetterInit /\ [][PlayNext]_<<vars, play>>
=============================================================================
