---------------------------- MODULE MCCoordinator ----------------------------
(* Instances of Coordinator for TLC. *)
EXTENDS Coordinator, TLC

\* Response, call and request ids are only compared for equality.
Symmetry == Permutations(Responses) \cup Permutations(Calls) \cup Permutations(Requests)

\* The states that ended their loop are checked and not explored further: a
\* constraint of the runs whose ledgers the wind-down no longer changes.
InLoop == pc = "loop"
=============================================================================
