------------------------- MODULE CoordinatorEndpoint -------------------------
(***************************************************************************)
(* Coordinator composed with an endpoint that knows whose a response is:   *)
(* it creates one for the default conversation when it likes (voice        *)
(* activity, or a request), and one out of band only when it was asked to. *)
(* It may report the owner at the creation, at the end, or never, but not  *)
(* falsely, and what it sends of a response it created is read in any      *)
(* order.  The endpoint is outside the repository; it is what              *)
(* src/src/session.rs assumes of one.                                      *)
(***************************************************************************)
EXTENDS Coordinator

VARIABLES
  owner,   \* of each response: "default", "out_of_band", or "none" yet
  asked    \* a request of an out-of-band response is under way or answered

ownerVars == <<owner, asked>>
allVars == <<vars, ownerVars>>

EInit ==
  /\ Init
  /\ owner = [r \in Responses |-> "none"]
  /\ asked = FALSE

EndpointCreates(r, conversation) ==
  /\ pc = "loop" /\ owner[r] = "none"
  /\ conversation = "out_of_band" => asked
  /\ owner' = [owner EXCEPT ![r] = conversation]
  /\ UNCHANGED <<vars, asked>>

\* What the endpoint may report of a response it created.
Truly(r, report) == owner[r] # "none" /\ report \in {"unreported", owner[r]}

\* The handlers that read of a response.
SessionReads ==
  /\ \E r \in Responses :
       \/ \E report \in Reports :
            /\ Truly(r, report)
            /\ \/ ResponseCreated(r, report)
               \/ \E ending \in {"completed", "cancelled", "failed"},
                     S \in SUBSET Items : ResponseDone(r, ending, report, S)
       \/ /\ owner[r] # "none"
          /\ ResponseMentioned(r) \/ \E item \in Items : OutputItemDone(r, item)
  /\ UNCHANGED ownerVars

\* The request is on its way as soon as the session has taken note of it.
HostAsks(q, out_of_band) ==
  /\ Respond(q, out_of_band)
  /\ asked' = (asked \/ out_of_band)
  /\ UNCHANGED owner

\* All that does not depend on the owner of a response.
SessionGoesOn ==
  /\ \/ SessionUpdated \/ PeerFails \/ Stop \/ Tools \/ Clock \/ WindDown \/ Over
     \/ \E c \in Calls, own \in BOOLEAN : ItemReported(c, own)
     \/ \E c \in Calls : ResultRefused(c) \/ CancelTool(c)
     \/ \E q \in Requests : RequestRefused(q)
     \/ \E r \in Responses : StopSpeech(r)
  /\ UNCHANGED ownerVars

ENext ==
  \/ \E r \in Responses, conversation \in {"default", "out_of_band"} :
       EndpointCreates(r, conversation)
  \/ SessionReads
  \/ \E q \in Requests, out_of_band \in BOOLEAN : HostAsks(q, out_of_band)
  \/ SessionGoesOn

ESpec == EInit /\ [][ENext]_allVars

\* src/src/session.rs:192, of a response out of band "calls never execute": they
\* are the host's.  Whatever the endpoint leaves unreported, and however
\* creations, requests, calls and endings cross, only calls of the default
\* conversation run, and only its batches are continued.
InBandOnly ==
  /\ \A c \in Calls : executions[c] > 0 => owner[calls[c].response] = "default"
  /\ \A r \in Responses : continuations[r] > 0 => owner[r] = "default"
=============================================================================
