------------------------ MODULE MCCoordinatorEndpoint ------------------------
(* Instances of CoordinatorEndpoint for TLC. *)
EXTENDS CoordinatorEndpoint, TLC

\* Response, call and request ids are only compared for equality.
Symmetry == Permutations(Responses) \cup Permutations(Calls) \cup Permutations(Requests)

\* The states that ended their loop are checked and not explored further: what
\* is checked there is decided in the loop.
InLoop == pc = "loop"

AllReports == {"unreported", "default", "out_of_band"}
=============================================================================
