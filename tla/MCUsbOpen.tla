------------------------------ MODULE MCUsbOpen ------------------------------
(* Two programs and two boards, with an empty slot between the boards and    *)
(* switches that are set the other way round.                                *)
EXTENDS UsbOpen

CONSTANTS b0, b1
MCBoards == {b0, b1}
MCHome == [b \in MCBoards |-> IF b = b0 THEN 0 ELSE 2]
MCDip == [b \in MCBoards |-> IF b = b0 THEN 1 ELSE 0]

ASSUME ReachableHere == AllReachable
=============================================================================
