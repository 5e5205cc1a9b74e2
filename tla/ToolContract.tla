---------------------------- MODULE ToolContract ----------------------------
(***************************************************************************)
(* What a session promises about tool calls, whatever its endpoint, host   *)
(* and tools do (docs/protocol.md, "Session and playback contract").       *)
(*                                                                         *)
(* A committed call is run at most once and answered by at most one        *)
(* result; a call answered without running, because it was rejected or     *)
(* cancelled, never runs afterwards; nothing is committed, answered or     *)
(* acknowledged once the session stops being open, and nothing is run      *)
(* once it is quiet.  Coordinator.tla implements this module.              *)
(***************************************************************************)
EXTENDS Naturals

CONSTANT Calls

VARIABLES
  stage,   \* how far each call has come
  runs,    \* how often its executor was invoked
  session  \* "open", "closing" or "quiet"

vars == <<stage, runs, session>>

TypeOK ==
  /\ stage \in [Calls -> {"absent", "committed", "answered", "acknowledged"}]
  /\ runs \in [Calls -> 0 .. 1]
  /\ session \in {"open", "closing", "quiet"}

Init ==
  /\ stage = [c \in Calls |-> "absent"]
  /\ runs = [c \in Calls |-> 0]
  /\ session = "open"

\* New calls are committed together; those of rejected are answered at once.
\* A refused call, or one whose result cannot be sent, may end the session after
\* the calls reported before it.
Commit(new, rejected) ==
  /\ session = "open" /\ session' \in {"open", "closing"}
  /\ \A c \in new : stage[c] = "absent"
  /\ stage' = [c \in Calls |-> IF c \in rejected THEN "answered"
                               ELSE IF c \in new THEN "committed" ELSE stage[c]]
  /\ UNCHANGED runs

Run(c) ==
  /\ session # "quiet" /\ stage[c] = "committed" /\ runs[c] = 0
  /\ runs' = [runs EXCEPT ![c] = 1]
  /\ UNCHANGED <<stage, session>>

Answer(c) ==
  /\ session = "open" /\ stage[c] = "committed"
  /\ stage' = [stage EXCEPT ![c] = "answered"]
  /\ UNCHANGED <<runs, session>>

\* The continuation this makes due may not be sent any more.
Acknowledge(c) ==
  /\ session = "open" /\ session' \in {"open", "closing"}
  /\ stage[c] = "answered"
  /\ stage' = [stage EXCEPT ![c] = "acknowledged"]
  /\ UNCHANGED runs

Close ==
  /\ \/ session = "open" /\ session' = "closing"
     \/ session = "closing" /\ session' = "quiet"
  /\ UNCHANGED <<stage, runs>>

Next ==
  \/ \E new \in SUBSET Calls : \E rejected \in SUBSET new : Commit(new, rejected)
  \/ \E c \in Calls : Run(c) \/ Answer(c) \/ Acknowledge(c)
  \/ Close

Spec == Init /\ [][Next]_vars
=============================================================================
