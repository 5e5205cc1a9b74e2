-------------------------------- MODULE MCLanes --------------------------------
(* Small queues for TLC.                                                   *)
EXTENDS Lanes
=============================================================================
