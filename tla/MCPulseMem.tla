------------------------------ MODULE MCPulseMem ------------------------------
(* Edits around the boundaries of the cells: before the start, at it, inside  *)
(* the cells, between them, at the end and past it; clears that fit, that     *)
(* fill the array and whose length wraps around.                              *)
EXTENDS PulseMem
MCTimes == {-1, 1, 2, 3, 4}
=============================================================================
