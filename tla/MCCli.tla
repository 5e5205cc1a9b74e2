--------------------------------- MODULE MCCli ---------------------------------
(* Small queues for TLC.                                                   *)
EXTENDS Cli
=============================================================================
