------------------------------ MODULE MCRfModule ------------------------------
(* A short and a longer request; the second one has the longer answer.        *)
EXTENDS RfModule

ASSUME ShortAnswers

CONSTANTS c1, c2, idn, freq
MCClients == {c1, c2}
MCMaxCmds == [t \in MCClients |-> IF t = c1 THEN 2 ELSE 1]
MCRequests == {idn, freq}
MCLength == [r \in MCRequests |-> IF r = idn THEN 2 ELSE 3]
MCAnswer == [r \in MCRequests |-> IF r = idn THEN 1 ELSE 3]
=============================================================================
