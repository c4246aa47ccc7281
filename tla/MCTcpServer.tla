----------------------------- MODULE MCTcpServer -----------------------------
(* Two connections.  The first sends enough to have a command cut off after  *)
(* a delimiter while another one is behind it, the second competes for      *)
(* accept and closes.                                                        *)
EXTENDS TcpServer

CONSTANTS c1, c2

MCConns == {c1, c2}
MCMaxSend == [c \in MCConns |-> IF c = c1 THEN 4 ELSE 0]
=============================================================================
