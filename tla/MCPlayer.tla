------------------------------- MODULE MCPlayer -------------------------------
(* Small instances of Player for TLC: each part is an item of its own, and a  *)
(* sample lasts a millisecond.                                                *)
EXTENDS Player

CONSTANTS p1, p2

Pcm == [kind |-> "pcm16", sample_rate |-> 1000]
OneFormat == {Pcm}
InOrder == <<p1, p2>>
OwnItems == [p \in Parts |-> p]
=============================================================================
