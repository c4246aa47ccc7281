------------------------------- MODULE MCTokens -------------------------------
(* All messages of up to five characters beside one with a command of its own. *)
EXTENDS Tokens

CONSTANTS t1, t2
MCThreads == {t1, t2}
Others == {<<"w", "x", ",", "x">>, <<"x", ";", "w">>}
MCMessages == [t \in MCThreads |->
    IF t = t1 THEN SeqOf({"w", "x", ",", ";"}, 5)
    ELSE Others]
=============================================================================
