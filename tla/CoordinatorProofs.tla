-------------------------- MODULE CoordinatorProofs --------------------------
(***************************************************************************)
(* Theorems about Coordinator, for every set of responses, calls, inputs   *)
(* and requests and every limit.                                           *)
(***************************************************************************)
EXTENDS Coordinator, FiniteSetTheorems, TLAPS

-----------------------------------------------------------------------------
(* Type correctness.                                                       *)

\* continue_ready() keeps the response ledger and the pending request typed.
LEMMA ContinueReadyType ==
  ASSUME NEW rs \in [Responses -> ResponseRecords], NEW cs, NEW adm, NEW act,
         NEW pending \in PendingRecords \cup {None},
         continuations \in [Responses -> Nat],
         ContinueReady(rs, cs, adm, act, pending)
  PROVE  /\ responses' \in [Responses -> ResponseRecords]
         /\ create_id' \in PendingRecords \cup {None}
         /\ continuations' \in [Responses -> Nat]
<1>1. CASE create_id' = pending /\ responses' = rs /\ UNCHANGED continuations
  BY <1>1
<1>2. ASSUME /\ \E q \in Requests : create_id' = [id |-> q, out_of_band |-> FALSE]
             /\ responses' = [r \in Responses |->
                  IF r \in Due(rs, cs, adm)
                  THEN [rs[r] EXCEPT !.continued = TRUE] ELSE rs[r]]
             /\ continuations' = [r \in Responses |->
                  IF r \in Due(rs, cs, adm)
                  THEN continuations[r] + 1 ELSE continuations[r]]
      PROVE  /\ responses' \in [Responses -> ResponseRecords]
             /\ create_id' \in PendingRecords \cup {None}
             /\ continuations' \in [Responses -> Nat]
  <2>1. \A r \in Responses : [rs[r] EXCEPT !.continued = TRUE] \in ResponseRecords
    BY DEF ResponseRecords
  <2>2. create_id' \in PendingRecords
    BY <1>2 DEF PendingRecords
  <2> QED  BY <1>2, <2>1, <2>2
<1> QED  BY <1>1, <1>2 DEF ContinueReady

\* A handler goes on with the loop, or fails the session.
GoesOnOrFails ==
  /\ UNCHANGED status
  /\ UNCHANGED <<pc, outcome>> \/ (pc' = "abort" /\ outcome' = "failed")

LEMMA ContinueReadyGoesOn ==
  ASSUME NEW rs, NEW cs, NEW adm, NEW act, NEW pending,
         ContinueReady(rs, cs, adm, act, pending)
  PROVE  GoesOnOrFails
BY DEF ContinueReady, Fail, Continue, lifecycle, GoesOnOrFails

\* An admission of S, which may break off in one call and so end the session.
Admission(r, S, run, cut) ==
  /\ Admit(r, S, run, cut)
  /\ run \in SUBSET Named(S) /\ cut \subseteq Fresher(S) \ run
  /\ \A c, d \in cut : c = d
  /\ cut # {} => pc' = "abort" /\ outcome' = "failed"

LEMMA WholeAdmission ==
  ASSUME NEW r, NEW S, NEW run \in SUBSET Named(S), Admit(r, S, run, {})
  PROVE  Admission(r, S, run, {})
BY DEF Admission

LEMMA BrokenAdmission ==
  ASSUME NEW r, NEW x, NEW S \in SUBSET Items, AdmitThenFail(r, x, S)
  PROVE  /\ S # {} /\ pc' = "abort" /\ outcome' = "failed" /\ UNCHANGED status
         /\ \E P \in SUBSET S : /\ ~Refused(r, x, P)
                                /\ \E run, cut : Admission(r, P, run, cut)
<1>0. PICK P \in SUBSET S : \E run \in SUBSET Named(P) :
        /\ ~Refused(r, x, P)
        /\ \/ (\E item \in S : item \notin P) /\ Admit(r, P, run, {})
           \/ \E c \in Fresher(P) \ run :
                Admit(r, P, run, {c}) \/ Admit(r, P, run, {})
  BY DEF AdmitThenFail
<1>1. PICK run \in SUBSET Named(P) :
        /\ ~Refused(r, x, P)
        /\ \/ (\E item \in S : item \notin P) /\ Admit(r, P, run, {})
           \/ \E c \in Fresher(P) \ run :
                Admit(r, P, run, {c}) \/ Admit(r, P, run, {})
  BY <1>0
<1>2. pc' = "abort" /\ outcome' = "failed" /\ UNCHANGED status
  BY DEF AdmitThenFail, Fail
<1>3. S # {}
  BY <1>1 DEF Fresher, Named
<1>4. CASE Admit(r, P, run, {})
  BY <1>1, <1>2, <1>3, <1>4, WholeAdmission
<1>5. ASSUME NEW c \in Fresher(P) \ run, Admit(r, P, run, {c})
      PROVE  Admission(r, P, run, {c})
  BY <1>2, <1>5 DEF Admission
<1> QED  BY <1>1, <1>2, <1>3, <1>4, <1>5

\* Admission keeps the call ledger, the tasks and the answers typed.
LEMMA AdmitType ==
  ASSUME TypeOK, NEW r \in Responses, NEW S \in SUBSET Items,
         NEW run, NEW cut, Admit(r, S, run, cut)
  PROVE  /\ calls' \in [Calls -> CallRecords]
         /\ admitted' \in SUBSET Calls
         /\ tasks' \in [Calls -> {"none", "spawned", "running", "finished"}]
         /\ answers' \in [Calls -> Nat]
         /\ executions' \in [Calls -> Nat]
<1>1. Fresher(S) \subseteq Calls
  BY DEF Fresher, Named, Items
<1>2. ASSUME NEW c \in Fresher(S)
      PROVE  (CHOOSE i \in Inputs : <<c, i>> \in S) \in Inputs
  BY <1>2 DEF Fresher, Named, Items
<1>3. calls' \in [Calls -> CallRecords]
  BY <1>2 DEF TypeOK, Admit, WithCalls, CallRecords
<1>4. admitted' \in SUBSET Calls
  BY <1>1 DEF TypeOK, Admit
<1>5. tasks' \in [Calls -> {"none", "spawned", "running", "finished"}]
  BY DEF TypeOK, Admit
<1>6. answers' \in [Calls -> Nat]
  BY DEF TypeOK, Admit
<1>7. executions' \in [Calls -> Nat]
  BY DEF TypeOK, Admit
<1> QED  BY <1>3, <1>4, <1>5, <1>6, <1>7

LEMMA RecordUpdates ==
  ASSUME NEW x \in ResponseRecords, NEW report \in Conversations,
         NEW completed \in BOOLEAN, NEW cancelled \in BOOLEAN
  PROVE  /\ Reported(x, report) \in ResponseRecords
         /\ [x EXCEPT !.created = TRUE] \in ResponseRecords
         /\ [x EXCEPT !.done = TRUE, !.successful = completed,
                      !.cancelled = @ \/ cancelled] \in ResponseRecords
BY DEF Reported, ResponseRecords

LEMMA CancelUpdate ==
  ASSUME NEW x \in ResponseRecords
  PROVE  [x EXCEPT !.cancelled = TRUE] \in ResponseRecords
BY DEF ResponseRecords

LEMMA CallUpdates ==
  ASSUME NEW x \in CallRecords
  PROVE  /\ [x EXCEPT !.cancel = TRUE] \in CallRecords
         /\ [x EXCEPT !.accepted = TRUE, !.deadline = FALSE] \in CallRecords
         /\ [x EXCEPT !.finished = TRUE, !.deadline = TRUE] \in CallRecords
BY DEF CallRecords

\* The session has an outcome as soon as it leaves its loop, so that what it
\* publishes is a status.
HasOutcome == pc = "loop" <=> outcome = "open"

\* Type correctness: every ledger stays a function of the declared kind, and
\* every ending publishes a final status.
THEOREM TypeCorrect == Spec => [](TypeOK /\ HasOutcome)
<1> USE DEF TypeOK, HasOutcome
<1>1. Init => TypeOK /\ HasOutcome
  <2>1. NewResponse \in ResponseRecords /\ NoCall \in CallRecords
    BY DEF NewResponse, NoCall, ResponseRecords, CallRecords, Conversations
  <2>2. Init => /\ responses \in [Responses -> ResponseRecords]
                /\ calls \in [Calls -> CallRecords]
    BY <2>1 DEF Init
  <2>3. Init => /\ executions \in [Calls -> Nat] /\ answers \in [Calls -> Nat]
                /\ continuations \in [Responses -> Nat]
                /\ clears \in [Responses -> Nat]
    BY DEF Init
  <2>4. Init => tasks \in [Calls -> {"none", "spawned", "running", "finished"}]
    BY DEF Init
  <2>5. Init => /\ create_id \in PendingRecords \cup {None}
                /\ known \in SUBSET Responses /\ active \in SUBSET Responses
                /\ admitted \in SUBSET Calls
                /\ stopped \in SUBSET Responses
    BY DEF Init
  <2>6. Init => /\ terminal \in BOOLEAN /\ out_of_band_requested \in BOOLEAN
                /\ HasOutcome
    BY DEF Init
  <2> QED  BY <2>2, <2>3, <2>4, <2>5, <2>6 DEF Init
<1>2. TypeOK /\ HasOutcome /\ [Next]_vars => TypeOK' /\ HasOutcome'
  <2> SUFFICES ASSUME TypeOK, HasOutcome, [Next]_vars PROVE TypeOK' /\ HasOutcome'
    OBVIOUS
  <2> USE DEF ledgers, requests, playback, lifecycle, history, Fail, Continue
  <2>1. CASE SessionUpdated
    BY <2>1 DEF SessionUpdated
  <2>2. ASSUME NEW r \in Responses, NEW report \in Reports, ResponseCreated(r, report)
        PROVE  TypeOK' /\ HasOutcome'
    <3> DEFINE x == [Reported(responses[r], report) EXCEPT !.created = TRUE]
               pending == IF Settles(report) THEN None ELSE create_id
    <3>1. x \in ResponseRecords
      BY RecordUpdates, ReportsAssumption
    <3>2. [responses EXCEPT ![r] = x] \in [Responses -> ResponseRecords]
      BY <3>1
    <3>3. ContinueReady([responses EXCEPT ![r] = x], calls, admitted, active', pending)
      BY <2>2 DEF ResponseCreated
    <3>4. /\ responses' \in [Responses -> ResponseRecords]
          /\ create_id' \in PendingRecords \cup {None}
          /\ continuations' \in [Responses -> Nat]
      <4> HIDE DEF x, pending
      <4>1. pending \in PendingRecords \cup {None}
        BY DEF pending
      <4> QED  BY <3>2, <3>3, <4>1, ContinueReadyType
    <3>5. GoesOnOrFails
      BY <3>3, ContinueReadyGoesOn
    <3> QED  BY <2>2, <3>4, <3>5 DEF ResponseCreated, GoesOnOrFails
  <2>3. ASSUME NEW r \in Responses, ResponseMentioned(r)
        PROVE  TypeOK' /\ HasOutcome'
    BY <2>3 DEF ResponseMentioned
  <2>4. ASSUME NEW r \in Responses, NEW item \in Items, OutputItemDone(r, item)
        PROVE  TypeOK' /\ HasOutcome'
    <3>1. PICK S \in SUBSET Items : \E run, cut : Admit(r, S, run, cut)
      <4>1. CASE AdmitThenFail(r, responses[r], {item})
        <5>1. PICK P \in SUBSET {item} : \E run, cut : Admission(r, P, run, cut)
          BY <4>1, BrokenAdmission
        <5> QED  BY <5>1 DEF Admission
      <4>2. ASSUME NEW run \in SUBSET {item[1]}, Admit(r, {item}, run, {})
            PROVE  \E S \in SUBSET Items : \E given, cut : Admit(r, S, given, cut)
        BY <4>2
      <4> QED  BY <2>4, <4>1, <4>2 DEF OutputItemDone
    <3> QED  BY <2>4, <3>1, AdmitType DEF OutputItemDone, AdmitThenFail
  <2>5. ASSUME NEW r \in Responses, NEW ending \in {"completed", "cancelled", "failed"},
               NEW report \in Reports, NEW S \in SUBSET Items,
               ResponseDone(r, ending, report, S)
        PROVE  TypeOK' /\ HasOutcome'
    <3> DEFINE x == Reported(responses[r], report)
               ended == [x EXCEPT !.done = TRUE,
                                  !.successful = (ending = "completed"),
                                  !.cancelled = @ \/ ending = "cancelled"]
    <3>1. x \in ResponseRecords /\ ended \in ResponseRecords
      BY RecordUpdates, ReportsAssumption
    <3>2. \/ UNCHANGED <<calls, admitted, tasks, executions, answers>>
          \/ \E P \in SUBSET Items : \E run, cut : Admit(r, P, run, cut)
      BY <2>5, BrokenAdmission DEF ResponseDone, Admission
    <3>3. /\ responses' \in [Responses -> ResponseRecords]
          /\ create_id' \in PendingRecords \cup {None}
          /\ continuations' \in [Responses -> Nat]
      <4>1. CASE ContinueReady([responses EXCEPT ![r] = ended], calls',
                               admitted', active', create_id)
        <5> HIDE DEF ended
        <5>1. [responses EXCEPT ![r] = ended] \in [Responses -> ResponseRecords]
          BY <3>1
        <5> QED  BY <4>1, <5>1, ContinueReadyType
      <4>2. CASE /\ \/ responses' = [responses EXCEPT ![r] = x]
                    \/ responses' = [responses EXCEPT ![r] = ended]
                 /\ UNCHANGED <<create_id, continuations>>
        BY <4>2, <3>1
      <4> QED  BY <2>5, <4>1, <4>2 DEF ResponseDone
    <3>4. /\ calls' \in [Calls -> CallRecords]
          /\ admitted' \in SUBSET Calls
          /\ tasks' \in [Calls -> {"none", "spawned", "running", "finished"}]
          /\ answers' \in [Calls -> Nat]
          /\ executions' \in [Calls -> Nat]
      BY <3>2, AdmitType
    <3>5. /\ stopped' \in SUBSET Responses
          /\ clears' \in [Responses -> Nat]
      BY <2>5 DEF ResponseDone, ClearPlayback, ClearPlaybackFails
    <3>6. /\ known' \in SUBSET Responses
          /\ active' \in SUBSET Responses
          /\ UNCHANGED <<out_of_band_requested, terminal>>
      BY <2>5 DEF ResponseDone
    <3>7. GoesOnOrFails
      BY <2>5, ContinueReadyGoesOn DEF ResponseDone, AdmitThenFail, ClearPlaybackFails,
         GoesOnOrFails
    <3> QED  BY <3>3, <3>4, <3>5, <3>6, <3>7 DEF GoesOnOrFails
  <2>6. ASSUME NEW c \in Calls, NEW own \in BOOLEAN, ItemReported(c, own)
        PROVE  TypeOK' /\ HasOutcome'
    <3>1. ContinueReady(responses, calls', admitted, active, create_id)
      BY <2>6 DEF ItemReported
    <3>2. calls' \in [Calls -> CallRecords]
      BY <2>6, CallUpdates DEF ItemReported, Accepted
    <3> QED
      BY <2>6, <3>1, <3>2, ContinueReadyType, ContinueReadyGoesOn
      DEF ItemReported, GoesOnOrFails
  <2>7. ASSUME NEW q \in Requests, RequestRefused(q)
        PROVE  TypeOK' /\ HasOutcome'
    <3>1. ContinueReady(responses, calls, admitted, active, None)
      BY <2>7 DEF RequestRefused
    <3> QED
      BY <2>7, <3>1, ContinueReadyType, ContinueReadyGoesOn
      DEF RequestRefused, GoesOnOrFails
  <2>8. ASSUME NEW c \in Calls, ResultRefused(c) \/ ResultUnacknowledged(c)
        PROVE  TypeOK' /\ HasOutcome'
    BY <2>8 DEF ResultRefused, ResultUnacknowledged
  <2>9. CASE PeerFails \/ RequestUnacknowledged \/ Uninitialized
    BY <2>9 DEF PeerFails, RequestUnacknowledged, Uninitialized
  <2>10. ASSUME NEW q \in Requests, NEW out_of_band \in BOOLEAN, Respond(q, out_of_band)
         PROVE  TypeOK' /\ HasOutcome'
    BY <2>10 DEF Respond, PendingRecords
  <2>11. ASSUME NEW r \in Responses, StopSpeech(r)
         PROVE  TypeOK' /\ HasOutcome'
    <3>1. responses' \in [Responses -> ResponseRecords]
      BY <2>11, CancelUpdate DEF StopSpeech
    <3> QED  BY <2>11, <3>1 DEF StopSpeech, ClearPlayback, ClearPlaybackFails
  <2>12. ASSUME NEW c \in Calls, CancelTool(c)
         PROVE  TypeOK' /\ HasOutcome'
    BY <2>12, CallUpdates DEF CancelTool
  <2>13. CASE Stop
    BY <2>13 DEF Stop
  <2>14. ASSUME NEW c \in Calls,
                \/ TaskStarts(c) \/ TaskReturns(c) \/ TaskTimesOut(c)
                \/ ToolJoined(c) \/ ToolJoinFails(c)
         PROVE  TypeOK' /\ HasOutcome'
    <3>1. CASE TaskStarts(c)
      BY <3>1 DEF TaskStarts
    <3>2. CASE TaskReturns(c)
      BY <3>2 DEF TaskReturns
    <3>3. CASE TaskTimesOut(c)
      BY <3>3, CallUpdates DEF TaskTimesOut
    <3>4. CASE ToolJoined(c)
      <4>1. calls' = [calls EXCEPT ![c] =
                        [calls[c] EXCEPT !.finished = TRUE, !.deadline = TRUE]]
        BY <3>4 DEF ToolJoined, Answered, CallRecords
      <4>2. calls' \in [Calls -> CallRecords]
        BY <4>1, CallUpdates
      <4>3. /\ answers' \in [Calls -> Nat]
            /\ tasks' \in [Calls -> {"none", "spawned", "running", "finished"}]
        BY <3>4 DEF ToolJoined
      <4>4. UNCHANGED <<responses, known, admitted, requests, playback, executions,
                        continuations, pc, outcome, status>>
        BY <3>4 DEF ToolJoined
      <4> QED  BY <4>2, <4>3, <4>4
    <3>5. CASE ToolJoinFails(c)
      BY <3>5 DEF ToolJoinFails
    <3> QED  BY <2>14, <3>1, <3>2, <3>3, <3>4, <3>5
  <2>15. CASE AbortTools
    BY <2>15, CallUpdates DEF AbortTools
  <2>16. ASSUME NEW c \in Calls, AbortedJoined(c)
         PROVE  TypeOK' /\ HasOutcome'
    BY <2>16 DEF AbortedJoined
  <2>17. CASE PublishTerminal \/ PublishStatus
    BY <2>17 DEF PublishTerminal, PublishStatus
  <2>18. CASE UNCHANGED vars
    BY <2>18 DEF vars
  <2> QED
    BY <2>1, <2>2, <2>3, <2>4, <2>5, <2>6, <2>7, <2>8, <2>9, <2>10, <2>11, <2>12,
       <2>13, <2>14, <2>15, <2>16, <2>17, <2>18
    DEF Next, Server, Host, Tools, Clock, WindDown, Over
<1> QED  BY <1>1, <1>2, PTL DEF Spec

-----------------------------------------------------------------------------
(* Continuation.                                                           *)

\* continue_ready() finds a reason not to ask, or cannot and fails, ...
Idle(rs, cs, adm, act, pending) ==
  /\ create_id' = pending /\ responses' = rs /\ continuations' = continuations
  /\ pc' # "abort" /\ ClientContinues /\ act = {} /\ pending = None
       => Due(rs, cs, adm) = {}

\* ... or asks for every batch that is due.
Asks(rs, cs, adm, act, pending) ==
  /\ act = {} /\ pending = None /\ ClientContinues
  /\ create_id' \in PendingRecords /\ ~create_id'.out_of_band
  /\ \A r \in Responses :
       /\ responses'[r] = IF r \in Due(rs, cs, adm)
                          THEN [rs[r] EXCEPT !.continued = TRUE] ELSE rs[r]
       /\ continuations'[r] = IF r \in Due(rs, cs, adm)
                              THEN continuations[r] + 1 ELSE continuations[r]

\* What continue_ready() leaves alone.
SameButContinued(rs) ==
  \A r \in Responses : /\ responses'[r].created = rs[r].created
                       /\ responses'[r].conversation = rs[r].conversation
                       /\ responses'[r].done = rs[r].done
                       /\ responses'[r].successful = rs[r].successful
                       /\ responses'[r].cancelled = rs[r].cancelled

LEMMA ContinueReadyFacts ==
  ASSUME NEW rs \in [Responses -> ResponseRecords], NEW cs, NEW adm, NEW act,
         NEW pending, ContinueReady(rs, cs, adm, act, pending)
  PROVE  /\ SameButContinued(rs)
         /\ Idle(rs, cs, adm, act, pending) \/ Asks(rs, cs, adm, act, pending)
<1>1. CASE /\ create_id' = pending /\ responses' = rs /\ UNCHANGED continuations
           /\ ~(MayContinue(act, pending) /\ Due(rs, cs, adm) # {}) \/ pc' = "abort"
  BY <1>1 DEF MayContinue, Idle, SameButContinued
<1>2. ASSUME /\ MayContinue(act, pending)
             /\ \E q \in Requests : create_id' = [id |-> q, out_of_band |-> FALSE]
             /\ responses' = [r \in Responses |->
                  IF r \in Due(rs, cs, adm)
                  THEN [rs[r] EXCEPT !.continued = TRUE] ELSE rs[r]]
             /\ continuations' = [r \in Responses |->
                  IF r \in Due(rs, cs, adm)
                  THEN continuations[r] + 1 ELSE continuations[r]]
      PROVE  SameButContinued(rs) /\ Asks(rs, cs, adm, act, pending)
  <2>1. create_id' \in PendingRecords /\ ~create_id'.out_of_band
    BY <1>2 DEF PendingRecords
  <2>2. ASSUME NEW r \in Responses
        PROVE  /\ responses'[r].created = rs[r].created
               /\ responses'[r].conversation = rs[r].conversation
               /\ responses'[r].done = rs[r].done
               /\ responses'[r].successful = rs[r].successful
               /\ responses'[r].cancelled = rs[r].cancelled
    BY <1>2 DEF ResponseRecords
  <2> QED  BY <1>2, <2>1, <2>2 DEF MayContinue, Asks, SameButContinued
<1> QED  BY <1>1, <1>2 DEF ContinueReady, Fail

-----------------------------------------------------------------------------
(* Tool calls.                                                             *)

callVars == <<calls, admitted, tasks, executions, answers>>

\* What a response must be like for a call of it to be committed.
Admissible(r) ==
  /\ ~responses[r].done /\ ~responses[r].cancelled
  /\ out_of_band_requested => responses'[r].conversation = "default"

\* The steps of the session as its tool calls see them.
CallStep ==
  \/ /\ \/ pc' = pc /\ outcome' = outcome
        \/ pc = "loop" /\ pc' = "abort"
        \/ (pc = "join" /\ pc' = "publish") \/ (pc = "publish" /\ pc' = "over")
     /\ UNCHANGED callVars
  \/ /\ pc = "loop" /\ pc' \in {"loop", "abort"}
     /\ \E r \in Responses, S \in SUBSET Items : \E run, cut :
          Admission(r, S, run, cut) /\ (Fresher(S) # {} => Admissible(r))
  \/ /\ pc = "loop" /\ pc' \in {"loop", "abort"}
     /\ UNCHANGED <<admitted, tasks, executions, answers>>
     /\ \E c \in Calls : calls' = Accepted(c)
  \/ \E c \in Calls :
       \/ CancelTool(c) \/ TaskStarts(c) \/ TaskReturns(c) \/ TaskTimesOut(c)
       \/ ToolJoined(c) \/ ToolJoinFails(c) \/ AbortedJoined(c)
  \/ AbortTools

LEMMA EveryCallStep == TypeOK /\ [Next]_vars => CallStep
<1> SUFFICES ASSUME TypeOK, [Next]_vars PROVE CallStep
  OBVIOUS
<1> USE DEF ledgers, requests, playback, lifecycle, history, callVars, Fail, Continue
<1>1. CASE SessionUpdated \/ Stop \/ PeerFails \/ RequestUnacknowledged \/ Uninitialized
  BY <1>1 DEF SessionUpdated, Stop, PeerFails, RequestUnacknowledged, Uninitialized,
     CallStep
<1>2. ASSUME NEW r \in Responses, NEW report \in Reports, ResponseCreated(r, report)
      PROVE  CallStep
  BY <1>2, ContinueReadyGoesOn DEF ResponseCreated, GoesOnOrFails, CallStep
<1>3. ASSUME NEW r \in Responses, ResponseMentioned(r) \/ StopSpeech(r)
      PROVE  CallStep
  BY <1>3 DEF ResponseMentioned, StopSpeech, ClearPlaybackFails, CallStep
<1>4. ASSUME NEW r \in Responses, NEW item \in Items, OutputItemDone(r, item)
      PROVE  CallStep
  <2>1. Named({item}) = {item[1]}
    BY DEF Named
  <2>2. PICK S \in SUBSET Items : /\ ~Refused(r, responses[r], S)
                                  /\ \E run, cut : Admission(r, S, run, cut)
    BY <1>4, <2>1, WholeAdmission, BrokenAdmission DEF OutputItemDone
  <2>3. Fresher(S) # {} => S # {}
    BY DEF Fresher, Named
  <2>4. Fresher(S) # {} => Admissible(r)
    BY <1>4, <2>2, <2>3
    DEF OutputItemDone, Skipped, Refused, Late, Unattributed, Admissible, TypeOK,
        ResponseRecords, Conversations
  <2> QED  BY <1>4, <2>2, <2>4 DEF OutputItemDone, AdmitThenFail, CallStep
<1>5. ASSUME NEW r \in Responses, NEW ending \in {"completed", "cancelled", "failed"},
             NEW report \in Reports, NEW S \in SUBSET Items,
             ResponseDone(r, ending, report, S)
      PROVE  CallStep
  <2> DEFINE x == Reported(responses[r], report)
             ended == [x EXCEPT !.done = TRUE,
                                !.successful = (ending = "completed"),
                                !.cancelled = @ \/ ending = "cancelled"]
  <2>1. pc = "loop" /\ pc' \in {"loop", "abort"}
    BY <1>5, ContinueReadyGoesOn DEF ResponseDone, AdmitThenFail, ClearPlaybackFails,
       GoesOnOrFails
  <2>2. CASE ClearPlaybackFails(r) /\ UNCHANGED callVars
    BY <2>1, <2>2 DEF ClearPlaybackFails, CallStep
  <2> SUFFICES ASSUME NEW P \in SUBSET S, NEW run, NEW cut, ~Refused(r, x, P),
                      Admission(r, P, run, cut)
               PROVE  CallStep
    BY <1>5, <2>2, WholeAdmission, BrokenAdmission DEF ResponseDone
  <2>3. x \in ResponseRecords /\ ended \in ResponseRecords
    BY RecordUpdates, ReportsAssumption DEF TypeOK
  <2>4. /\ x.done = responses[r].done /\ x.cancelled = responses[r].cancelled
    BY DEF Reported, TypeOK, ResponseRecords
  <2>5. responses'[r].conversation = x.conversation
    <3>1. CASE ContinueReady([responses EXCEPT ![r] = ended], calls',
                             admitted', active', create_id)
      <4>1. [responses EXCEPT ![r] = ended] \in [Responses -> ResponseRecords]
        BY <2>3 DEF TypeOK
      <4>2. ended.conversation = x.conversation
        BY <2>3 DEF ResponseRecords
      <4>3. [responses EXCEPT ![r] = ended][r] = ended
        BY DEF TypeOK
      <4> HIDE DEF ended
      <4>4. responses'[r].conversation = [responses EXCEPT ![r] = ended][r].conversation
        BY <3>1, <4>1, ContinueReadyFacts DEF SameButContinued
      <4> QED  BY <4>2, <4>3, <4>4
    <3>2. CASE responses' = [responses EXCEPT ![r] = x]
      BY <3>2 DEF TypeOK
    <3>3. CASE responses' = [responses EXCEPT ![r] = ended]
      BY <2>3, <3>3 DEF TypeOK, ResponseRecords
    <3> QED  BY <1>5, <3>1, <3>2, <3>3 DEF ResponseDone
  <2>6. Fresher(P) # {} => P # {} /\ S # {}
    BY DEF Fresher, Named
  <2>7. S # {} => ~Skipped(x)
    BY <1>5 DEF ResponseDone
  <2>8. Fresher(P) # {} => Admissible(r)
    <3> HIDE DEF x
    <3> QED
      BY <2>3, <2>4, <2>5, <2>6, <2>7
      DEF Skipped, Refused, Late, Unattributed, Admissible, ResponseRecords, Conversations
  <2> QED  BY <2>1, <2>8 DEF CallStep
<1>6. ASSUME NEW c \in Calls, NEW own \in BOOLEAN, ItemReported(c, own)
      PROVE  CallStep
  BY <1>6, ContinueReadyGoesOn DEF ItemReported, GoesOnOrFails, CallStep
<1>7. ASSUME NEW q \in Requests, RequestRefused(q)
      PROVE  CallStep
  BY <1>7, ContinueReadyGoesOn DEF RequestRefused, GoesOnOrFails, CallStep
<1>8. ASSUME NEW q \in Requests, NEW out_of_band \in BOOLEAN, Respond(q, out_of_band)
      PROVE  CallStep
  BY <1>8 DEF Respond, CallStep
<1>9. ASSUME NEW c \in Calls, ResultRefused(c) \/ ResultUnacknowledged(c)
      PROVE  CallStep
  BY <1>9 DEF ResultRefused, ResultUnacknowledged, CallStep
<1>10. ASSUME NEW c \in Calls,
              \/ CancelTool(c) \/ TaskStarts(c) \/ TaskReturns(c) \/ TaskTimesOut(c)
              \/ ToolJoined(c) \/ ToolJoinFails(c) \/ AbortedJoined(c)
       PROVE  CallStep
  BY <1>10 DEF CallStep
<1>11. CASE AbortTools \/ PublishTerminal \/ PublishStatus
  BY <1>11 DEF PublishTerminal, PublishStatus, CallStep
<1>12. CASE UNCHANGED vars
  BY <1>12 DEF vars, CallStep
<1> QED
  BY <1>1, <1>2, <1>3, <1>4, <1>5, <1>6, <1>7, <1>8, <1>9, <1>10, <1>11, <1>12
  DEF Next, Server, Host, Tools, Clock, WindDown, Over

\* Where a call stands is told alike by the ledger, by its task and by what was
\* run and sent for it.
CallAgrees(c) ==
  /\ tasks[c] # "none" => c \in admitted /\ ~calls[c].finished
  /\ c \notin admitted => ~calls[c].finished /\ executions[c] = 0
  /\ tasks[c] = "spawned" => executions[c] = 0
  /\ executions[c] <= 1
  /\ answers[c] = IF calls[c].finished THEN 1 ELSE 0
  /\ calls[c].accepted => calls[c].finished
  /\ calls[c].deadline <=> calls[c].finished /\ ~calls[c].accepted

\* Only the handler that ends the session loses a call, and only one.
OneLost ==
  /\ pc = "loop" => Lost = {}
  /\ pc = "abort" => \A c, d \in Lost : c = d /\ outcome = "failed"

\* The inductive invariant of the call ledger.
CallInv == (\A c \in Calls : CallAgrees(c)) /\ OneLost

\* Admission answers, starts or loses what is new, and touches nothing else.
LEMMA AdmissionFacts ==
  ASSUME TypeOK, \A c \in Calls : CallAgrees(c),
         NEW r, NEW S \in SUBSET Items, NEW run, NEW cut, Admission(r, S, run, cut)
  PROVE  /\ Fresher(S) \subseteq Calls /\ Fresher(S) \cap admitted = {}
         /\ \A c \in Fresher(S) :
              /\ calls'[c].finished <=> c \notin run \cup cut
              /\ calls'[c].deadline <=> c \notin run \cup cut
              /\ ~calls'[c].accepted /\ calls'[c].response = r /\ c \in admitted'
              /\ tasks'[c] = IF c \in run THEN "spawned" ELSE "none"
              /\ executions'[c] = 0
              /\ answers'[c] = IF c \in run \cup cut THEN 0 ELSE 1
         /\ \A c \in Calls \ Fresher(S) :
              /\ calls'[c] = calls[c] /\ tasks'[c] = tasks[c]
              /\ executions'[c] = executions[c] /\ answers'[c] = answers[c]
              /\ c \in admitted' <=> c \in admitted
<1> USE DEF TypeOK, CallAgrees
<1>1. Fresher(S) \subseteq Calls /\ Fresher(S) \cap admitted = {} /\ run \subseteq Fresher(S)
  BY DEF Fresher, Named, Items, Admission, Admit, Dispatched
<1>2. ASSUME NEW c \in Fresher(S)
      PROVE  /\ calls'[c].finished <=> c \notin run \cup cut
             /\ calls'[c].deadline <=> c \notin run \cup cut
             /\ ~calls'[c].accepted /\ calls'[c].response = r
  <2> DEFINE entry(sent) == [response |-> r, input |-> CHOOSE i \in Inputs : <<c, i>> \in S,
                             cancel |-> FALSE, finished |-> sent,
                             accepted |-> FALSE, deadline |-> sent]
  <2>1. calls'[c] = entry(c \notin run \cup cut)
    BY <1>1, <1>2 DEF Admission, Admit, WithCalls
  <2>2. CASE c \in run \cup cut
    <3>1. calls'[c] = entry(FALSE)
      BY <2>1, <2>2, Zenon
    <3> QED  BY <2>2, <3>1
  <2>3. CASE c \notin run \cup cut
    <3>1. calls'[c] = entry(TRUE)
      BY <2>1, <2>3, Zenon
    <3> QED  BY <2>3, <3>1
  <2> QED  BY <2>2, <2>3
<1>3. ASSUME NEW c \in Fresher(S)
      PROVE  /\ c \in admitted'
             /\ tasks'[c] = IF c \in run THEN "spawned" ELSE "none"
             /\ executions'[c] = 0
             /\ answers'[c] = IF c \in run \cup cut THEN 0 ELSE 1
  BY <1>1, <1>3 DEF Admission, Admit
<1>4. ASSUME NEW c \in Calls \ Fresher(S)
      PROVE  /\ calls'[c] = calls[c] /\ tasks'[c] = tasks[c]
             /\ executions'[c] = executions[c] /\ answers'[c] = answers[c]
             /\ c \in admitted' <=> c \in admitted
  BY <1>1, <1>4 DEF Admission, Admit, WithCalls
<1> QED  BY <1>1, <1>2, <1>3, <1>4

LEMMA CallInvStep == TypeOK /\ CallInv /\ [Next]_vars => CallInv'
<1> SUFFICES ASSUME TypeOK, CallInv, CallStep PROVE CallInv'
  BY EveryCallStep
<1> USE DEF ledgers, requests, playback, lifecycle, history, Fail, Continue, TypeOK,
            CallInv, OneLost, Lost
<1>1. CASE /\ \/ pc' = pc /\ outcome' = outcome
              \/ pc = "loop" /\ pc' = "abort"
              \/ (pc = "join" /\ pc' = "publish") \/ (pc = "publish" /\ pc' = "over")
           /\ UNCHANGED callVars
  BY <1>1 DEF callVars, CallAgrees
<1>2. ASSUME pc = "loop", pc' \in {"loop", "abort"},
             NEW r \in Responses, NEW S \in SUBSET Items, NEW run, NEW cut,
             Admission(r, S, run, cut)
      PROVE  CallInv'
  <2>1. /\ Fresher(S) \subseteq Calls /\ Fresher(S) \cap admitted = {}
        /\ \A c \in Fresher(S) :
             /\ calls'[c].finished <=> c \notin run \cup cut
             /\ calls'[c].deadline <=> c \notin run \cup cut
             /\ ~calls'[c].accepted /\ calls'[c].response = r /\ c \in admitted'
             /\ tasks'[c] = IF c \in run THEN "spawned" ELSE "none"
             /\ executions'[c] = 0
             /\ answers'[c] = IF c \in run \cup cut THEN 0 ELSE 1
        /\ \A c \in Calls \ Fresher(S) :
             /\ calls'[c] = calls[c] /\ tasks'[c] = tasks[c]
             /\ executions'[c] = executions[c] /\ answers'[c] = answers[c]
             /\ c \in admitted' <=> c \in admitted
    <3> HIDE DEF TypeOK
    <3> QED  BY <1>2, AdmissionFacts
  <2>2. ASSUME NEW c \in Calls PROVE CallAgrees(c)'
    <3>1. CASE c \in Fresher(S)
      BY <2>1, <3>1 DEF CallAgrees
    <3>2. CASE c \notin Fresher(S)
      BY <2>1, <3>2 DEF CallAgrees
    <3> QED  BY <3>1, <3>2
  <2>3. admitted' \subseteq Calls
    BY <1>2 DEF Admission, Admit, Fresher, Named, Items
  <2>4. \A c \in Lost' : c \in cut
    BY <1>2, <2>1, <2>3
  <2> QED  BY <1>2, <2>2, <2>4 DEF Admission
<1>3. ASSUME pc = "loop", pc' \in {"loop", "abort"},
             UNCHANGED <<admitted, tasks, executions, answers>>,
             NEW c \in Calls, calls' = Accepted(c)
      PROVE  CallInv'
  <2>1. \A d \in Calls : CallAgrees(d)' /\ calls'[d].finished = calls[d].finished
    BY <1>3 DEF Accepted, CallRecords, CallAgrees
  <2> QED  BY <1>3, <2>1
<1>4. ASSUME NEW c \in Calls, CancelTool(c)
      PROVE  CallInv'
  <2>1. \A d \in Calls : CallAgrees(d)' /\ calls'[d].finished = calls[d].finished
    BY <1>4 DEF CancelTool, CallRecords, CallAgrees
  <2> QED  BY <1>4, <2>1 DEF CancelTool
<1>5. ASSUME NEW c \in Calls, TaskStarts(c)
      PROVE  CallInv'
  <2>1. \A d \in Calls : CallAgrees(d)' /\ (tasks'[d] = "none" => tasks[d] = "none")
    BY <1>5 DEF TaskStarts, CallAgrees
  <2> QED  BY <1>5, <2>1 DEF TaskStarts
<1>6. ASSUME NEW c \in Calls, TaskReturns(c)
      PROVE  CallInv'
  <2>1. \A d \in Calls : CallAgrees(d)' /\ (tasks'[d] = "none" => tasks[d] = "none")
    BY <1>6 DEF TaskReturns, CallAgrees
  <2> QED  BY <1>6, <2>1 DEF TaskReturns
<1>7. ASSUME NEW c \in Calls, TaskTimesOut(c)
      PROVE  CallInv'
  <2>1. \A d \in Calls : /\ CallAgrees(d)' /\ calls'[d].finished = calls[d].finished
                         /\ tasks'[d] = "none" => tasks[d] = "none"
    BY <1>7 DEF TaskTimesOut, CallRecords, CallAgrees
  <2> QED  BY <1>7, <2>1 DEF TaskTimesOut
<1>8. ASSUME NEW c \in Calls, ToolJoined(c)
      PROVE  CallInv'
  <2>1. calls' = [calls EXCEPT ![c] =
                    [calls[c] EXCEPT !.finished = TRUE, !.deadline = TRUE]]
    BY <1>8 DEF ToolJoined, Answered, CallRecords
  <2>2. /\ calls'[c].finished /\ calls'[c].deadline
        /\ calls'[c].accepted = calls[c].accepted
        /\ tasks'[c] = "none" /\ answers'[c] = answers[c] + 1 /\ c \in admitted'
        /\ executions'[c] = executions[c] /\ ~calls[c].finished
    BY <1>8, <2>1 DEF ToolJoined, Joinable, CallRecords, CallAgrees
  <2>3. \A d \in Calls \ {c} :
          /\ calls'[d] = calls[d] /\ tasks'[d] = tasks[d] /\ answers'[d] = answers[d]
          /\ executions'[d] = executions[d] /\ (d \in admitted' <=> d \in admitted)
    BY <1>8, <2>1 DEF ToolJoined
  <2>4. pc' = pc /\ outcome' = outcome /\ admitted' = admitted
    BY <1>8 DEF ToolJoined
  <2>5. ASSUME NEW d \in Calls PROVE CallAgrees(d)'
    BY <2>2, <2>3, <2>5 DEF CallAgrees
  <2> QED  BY <2>2, <2>3, <2>4, <2>5
<1>9. ASSUME NEW c \in Calls, ToolJoinFails(c)
      PROVE  CallInv'
  <2>1. \A d \in Calls : CallAgrees(d)' /\ (d # c => tasks'[d] = tasks[d])
    BY <1>9 DEF ToolJoinFails, CallAgrees
  <2> QED  BY <1>9, <2>1 DEF ToolJoinFails
<1>10. ASSUME NEW c \in Calls, AbortedJoined(c)
       PROVE  CallInv'
  BY <1>10 DEF AbortedJoined, CallAgrees
<1>11. CASE AbortTools
  BY <1>11 DEF AbortTools, CallRecords, CallAgrees
<1> QED
  BY <1>1, <1>2, <1>3, <1>4, <1>5, <1>6, <1>7, <1>8, <1>9, <1>10, <1>11 DEF CallStep

\* The ledger, the tasks and the history of every call agree, always.
THEOREM CallsConsistent == Spec => []CallInv
<1>1. Init => CallInv
  BY DEF Init, CallInv, CallAgrees, OneLost, Lost, NoCall
<1> QED  BY <1>1, CallInvStep, TypeCorrect, PTL DEF Spec

\* No call is executed or answered twice.
THEOREM NoCallRepeated == Spec => []AtMostOnce
<1>1. CallInv => AtMostOnce
  BY DEF CallInv, CallAgrees, AtMostOnce
<1> QED  BY <1>1, CallsConsistent, PTL

\* No committed call is lost while the session lives, or answered while its
\* task is still out; the handler whose failure ends it loses one at most.
THEOREM NoCallLost == Spec => []CallsAccountedFor
<1>1. CallInv => CallsAccountedFor
  BY DEF CallInv, CallAgrees, OneLost, CallsAccountedFor
<1> QED  BY <1>1, CallsConsistent, PTL

\* Every result in doubt is under a deadline, and only those.
THEOREM NoResultUnsupervised == Spec => []ResultsSupervised
<1>1. CallInv => ResultsSupervised
  BY DEF CallInv, CallAgrees, ResultsSupervised
<1> QED  BY <1>1, CallsConsistent, PTL

-----------------------------------------------------------------------------
(* Refinement of the tool call contract.                                   *)

\* The contract's variables, read off the ledgers.
stage == [c \in Calls |-> Stage(c)]
session == CASE pc = "loop" -> "open" [] pc = "abort" -> "closing" [] OTHER -> "quiet"

LEMMA SameCallsSameStage ==
  ASSUME TypeOK, admitted' = admitted,
         \A c \in Calls : /\ calls'[c].accepted = calls[c].accepted
                          /\ calls'[c].finished = calls[c].finished
  PROVE  stage' = stage
BY DEF stage, Stage

LEMMA ContractStep ==
  TypeOK /\ CallInv /\ [Next]_vars => [Contract!Next]_(Contract!vars)
<1> SUFFICES ASSUME TypeOK, CallInv, CallStep
             PROVE  \/ Contract!Next \/ UNCHANGED <<stage, executions, session>>
  BY EveryCallStep DEF Contract!vars, stage, session
<1> USE DEF ledgers, requests, playback, lifecycle, history, Continue
<1>1. CASE /\ \/ pc' = pc \/ (pc = "loop" /\ pc' = "abort")
              \/ (pc = "join" /\ pc' = "publish") \/ (pc = "publish" /\ pc' = "over")
           /\ UNCHANGED callVars
  <2>1. stage' = stage /\ executions' = executions
    BY <1>1, SameCallsSameStage DEF callVars
  <2>2. \/ session' = session
        \/ session = "open" /\ session' = "closing"
    BY <1>1 DEF session
  <2> QED  BY <2>1, <2>2 DEF Contract!Next, Contract!Close, stage, session
<1>2. ASSUME pc = "loop", pc' \in {"loop", "abort"},
             NEW r \in Responses, NEW S \in SUBSET Items, NEW run, NEW cut,
             Admission(r, S, run, cut)
      PROVE  Contract!Next
  <2> DEFINE new == Fresher(S)
             rejected == Fresher(S) \ (run \cup cut)
  <2>1. new \in SUBSET Calls /\ rejected \in SUBSET new
    BY DEF Fresher, Named, Items
  <2>2. session = "open" /\ session' \in {"open", "closing"}
    BY <1>2 DEF session
  <2>3. \A c \in new : stage[c] = "absent"
    BY <2>1 DEF stage, Stage, Fresher
  <2>4. ASSUME NEW c \in Calls
        PROVE  Stage(c)' = IF c \in rejected THEN "answered"
                           ELSE IF c \in new THEN "committed" ELSE Stage(c)
    BY <1>2, AdmissionFacts DEF CallInv, Stage
  <2>5. stage' = [c \in Calls |-> IF c \in rejected THEN "answered"
                                  ELSE IF c \in new THEN "committed" ELSE stage[c]]
    BY <2>4 DEF stage
  <2>6. executions' = executions
    BY <1>2 DEF Admission, Admit
  <2>7. Contract!Commit(new, rejected)
    BY <2>1, <2>2, <2>3, <2>5, <2>6 DEF Contract!Commit, stage, session
  <2> QED  BY <2>1, <2>7 DEF Contract!Next
<1>3. ASSUME pc = "loop", pc' \in {"loop", "abort"},
             UNCHANGED <<admitted, tasks, executions, answers>>,
             NEW c \in Calls, calls' = Accepted(c)
      PROVE  Contract!Next \/ UNCHANGED <<stage, executions, session>>
  <2>1. session = "open" /\ session' \in {"open", "closing"}
    BY <1>3 DEF session
  <2>2. CASE c \in admitted /\ calls[c].finished /\ ~calls[c].accepted
    <3>1. /\ calls'[c].accepted
          /\ \A d \in Calls \ {c} : calls'[d] = calls[d]
      BY <1>3, <2>2 DEF Accepted, TypeOK, CallRecords
    <3>2. stage' = [stage EXCEPT ![c] = "acknowledged"] /\ stage[c] = "answered"
      BY <1>3, <2>2, <3>1 DEF stage, Stage
    <3>3. Contract!Acknowledge(c)
      BY <1>3, <2>1, <3>2 DEF Contract!Acknowledge, stage, session
    <3> QED  BY <3>3 DEF Contract!Next
  <2>3. CASE ~(c \in admitted /\ calls[c].finished /\ ~calls[c].accepted)
    <3>1. \A d \in Calls : /\ calls'[d].accepted = calls[d].accepted
                           /\ calls'[d].finished = calls[d].finished
      BY <1>3, <2>3 DEF Accepted, TypeOK, CallRecords
    <3>2. stage' = stage
      BY <1>3, <3>1, SameCallsSameStage
    <3> QED
      BY <1>3, <2>1, <3>2 DEF Contract!Next, Contract!Close, stage, session
  <2> QED  BY <2>2, <2>3
<1>4. ASSUME NEW c \in Calls, CancelTool(c) \/ TaskTimesOut(c)
      PROVE  UNCHANGED <<stage, executions, session>>
  <2>1. /\ admitted' = admitted
        /\ \A d \in Calls : /\ calls'[d].accepted = calls[d].accepted
                            /\ calls'[d].finished = calls[d].finished
    BY <1>4 DEF CancelTool, TaskTimesOut, TypeOK, CallRecords
  <2> QED  BY <1>4, <2>1, SameCallsSameStage DEF CancelTool, TaskTimesOut, session
<1>5. ASSUME NEW c \in Calls, TaskReturns(c) \/ AbortedJoined(c)
      PROVE  UNCHANGED <<stage, executions, session>>
  BY <1>5, SameCallsSameStage DEF TaskReturns, AbortedJoined, session
<1>6. ASSUME NEW c \in Calls, TaskStarts(c)
      PROVE  Contract!Next \/ UNCHANGED <<stage, executions, session>>
  <2>1. stage' = stage /\ session' = session /\ session # "quiet"
    BY <1>6, SameCallsSameStage DEF TaskStarts, session
  <2>2. CASE executions' = executions
    BY <2>1, <2>2
  <2>3. CASE executions' = [executions EXCEPT ![c] = @ + 1]
    <3>1. stage[c] = "committed" /\ executions[c] = 0
      BY <1>6 DEF TaskStarts, CallInv, CallAgrees, stage, Stage
    <3>2. executions' = [executions EXCEPT ![c] = 1]
      BY <2>3, <3>1 DEF TypeOK
    <3>3. Contract!Run(c)
      BY <2>1, <3>1, <3>2 DEF Contract!Run, stage, session
    <3> QED  BY <3>3 DEF Contract!Next
  <2> QED  BY <1>6, <2>2, <2>3 DEF TaskStarts
<1>7. ASSUME NEW c \in Calls, ToolJoined(c)
      PROVE  Contract!Next
  <2>1. session = "open" /\ session' = session /\ executions' = executions
    BY <1>7 DEF ToolJoined, session
  <2>2. /\ admitted' = admitted /\ c \in admitted
        /\ ~calls[c].finished /\ ~calls[c].accepted
    BY <1>7 DEF ToolJoined, Joinable, CallInv, CallAgrees
  <2>3. /\ calls'[c].finished /\ calls'[c].accepted = calls[c].accepted
        /\ \A d \in Calls \ {c} : calls'[d] = calls[d]
    BY <1>7 DEF ToolJoined, Answered, TypeOK, CallRecords
  <2>4. stage' = [stage EXCEPT ![c] = "answered"] /\ stage[c] = "committed"
    BY <2>2, <2>3 DEF stage, Stage
  <2>5. Contract!Answer(c)
    BY <2>1, <2>4 DEF Contract!Answer, stage, session
  <2> QED  BY <2>5 DEF Contract!Next
<1>9. ASSUME NEW c \in Calls, ToolJoinFails(c)
      PROVE  Contract!Next
  <2>1. stage' = stage /\ executions' = executions
    BY <1>9, SameCallsSameStage DEF ToolJoinFails
  <2>2. session = "open" /\ session' = "closing"
    BY <1>9 DEF ToolJoinFails, Fail, session
  <2> QED  BY <2>1, <2>2 DEF Contract!Next, Contract!Close, stage, session
<1>8. CASE AbortTools
  <2>1. /\ admitted' = admitted
        /\ \A d \in Calls : /\ calls'[d].accepted = calls[d].accepted
                            /\ calls'[d].finished = calls[d].finished
    BY <1>8 DEF AbortTools, TypeOK, CallRecords
  <2>2. stage' = stage /\ executions' = executions
    BY <1>8, <2>1, SameCallsSameStage DEF AbortTools
  <2>3. session = "closing" /\ session' = "quiet"
    BY <1>8 DEF AbortTools, session
  <2> QED  BY <2>2, <2>3 DEF Contract!Next, Contract!Close, stage, session
<1> QED
  BY <1>1, <1>2, <1>3, <1>4, <1>5, <1>6, <1>7, <1>8, <1>9 DEF CallStep

\* The session, with any calls, tools, host and endpoint, implements the
\* contract: a call runs at most once, is answered at most once, never runs
\* after its answer, and nothing runs once the session is quiet.
THEOREM ContractKept == Spec => KeepsContract
<1>1. Init => Contract!Init
  BY DEF Init, Contract!Init, Stage
<1>2. TypeOK /\ CallInv /\ [Next]_vars => [Contract!Next]_(Contract!vars)
  BY ContractStep
<1> QED
  BY <1>1, <1>2, TypeCorrect, CallsConsistent, PTL DEF Spec, KeepsContract, Contract!Spec

-----------------------------------------------------------------------------
(* Batches.                                                                *)

\* What any step does to the calls already committed, and to those it adds.
CallsKept ==
  /\ admitted \subseteq admitted'
  /\ \A c \in admitted : /\ calls'[c].response = calls[c].response
                         /\ calls[c].accepted => calls'[c].accepted
  /\ \A c \in admitted' \ admitted : /\ calls'[c].response \in Responses
                                     /\ Admissible(calls'[c].response)
                                     /\ ~calls'[c].accepted

LEMMA EveryStepKeepsCalls == TypeOK /\ [Next]_vars => CallsKept
<1> SUFFICES ASSUME TypeOK, CallStep PROVE CallsKept
  BY EveryCallStep
<1> USE DEF ledgers, requests, playback, lifecycle, history, Continue, TypeOK
<1>1. CASE UNCHANGED callVars
  BY <1>1 DEF callVars, CallsKept
<1>2. ASSUME NEW r \in Responses, NEW S \in SUBSET Items, NEW run, NEW cut,
             Admission(r, S, run, cut), Fresher(S) # {} => Admissible(r)
      PROVE  CallsKept
  <2>1. Fresher(S) \subseteq Calls /\ Fresher(S) \cap admitted = {}
    BY DEF Fresher, Named, Items
  <2>2. admitted' = admitted \cup Fresher(S)
    BY <1>2 DEF Admission, Admit
  <2>3. \A c \in admitted : calls'[c] = calls[c]
    BY <1>2, <2>1 DEF Admission, Admit, WithCalls
  <2>4. \A c \in Fresher(S) : calls'[c].response = r /\ ~calls'[c].accepted
    BY <1>2, <2>1 DEF Admission, Admit, WithCalls
  <2> QED  BY <1>2, <2>1, <2>2, <2>3, <2>4 DEF CallsKept
<1>3. ASSUME UNCHANGED admitted, NEW c \in Calls, calls' = Accepted(c)
      PROVE  CallsKept
  BY <1>3 DEF Accepted, CallRecords, CallsKept
<1>4. ASSUME NEW c \in Calls, CancelTool(c) \/ TaskTimesOut(c)
      PROVE  CallsKept
  <2>1. admitted' = admitted
    BY <1>4 DEF CancelTool, TaskTimesOut
  <2>2. \A d \in Calls : /\ calls'[d].response = calls[d].response
                         /\ calls'[d].accepted = calls[d].accepted
    <3>1. CASE CancelTool(c)
      BY <3>1 DEF CancelTool, CallRecords
    <3>2. CASE TaskTimesOut(c)
      BY <3>2 DEF TaskTimesOut, CallRecords
    <3> QED  BY <1>4, <3>1, <3>2
  <2> QED  BY <2>1, <2>2 DEF CallsKept
<1>5. ASSUME NEW c \in Calls, TaskStarts(c) \/ TaskReturns(c) \/ AbortedJoined(c)
      PROVE  CallsKept
  BY <1>5 DEF TaskStarts, TaskReturns, AbortedJoined, CallsKept
<1>6. ASSUME NEW c \in Calls, ToolJoined(c)
      PROVE  CallsKept
  BY <1>6 DEF ToolJoined, Answered, CallRecords, CallsKept
<1>7. CASE AbortTools
  BY <1>7 DEF AbortTools, CallRecords, CallsKept
<1>8. ASSUME NEW c \in Calls, ToolJoinFails(c)
      PROVE  CallsKept
  BY <1>8 DEF ToolJoinFails, CallsKept
<1> QED  BY <1>1, <1>2, <1>3, <1>4, <1>5, <1>6, <1>7, <1>8 DEF CallStep

\* Whatever is reported again or late, the batch of an ended response is
\* closed.
THEOREM BatchesFrozen == Spec => BatchFrozen
<1>1. TypeOK /\ [Next]_vars =>
        [\A r \in Responses : responses[r].done => CallsOf(r)' = CallsOf(r)]_vars
  BY EveryStepKeepsCalls DEF CallsKept, Admissible, CallsOf
<1> QED  BY <1>1, TypeCorrect, PTL DEF Spec, BatchFrozen

\* No call is committed for a stopped or ended response, nor, after an
\* out-of-band request, for a response that may be out of band.
THEOREM CallsAttributed == Spec => Attributed
<1>1. TypeOK /\ [Next]_vars =>
        [\A c \in admitted' \ admitted :
           LET r == calls'[c].response
           IN /\ ~responses[r].cancelled /\ ~responses[r].done
              /\ out_of_band_requested => responses'[r].conversation = "default"]_vars
  BY EveryStepKeepsCalls DEF CallsKept, Admissible
<1> QED  BY <1>1, TypeCorrect, PTL DEF Spec, Attributed

-----------------------------------------------------------------------------
(* The conversation: who speaks, what is pending, which batches are due.   *)

\* A live session has heard nothing of the owner of a response that neither
\* started nor ended: without it, a creation might not count as it reports.
OwnersHeard ==
  pc = "loop" =>
    \A r \in Responses : ~responses[r].created /\ ~responses[r].done
                           => responses[r].conversation = "unreported"

ConversationInv == OneSpeaker /\ NoForgottenBatch /\ ContinuedOnce /\ OwnersHeard

\* A step that accepts no result, changes no request and at most stops a
\* response makes no batch due.
LEMMA ConversationUntouched ==
  ASSUME TypeOK, ConversationInv, CallsKept, pc' = "loop" => pc = "loop",
         UNCHANGED <<active, create_id, continuations>>,
         \A r \in Responses :
           /\ responses'[r].created = responses[r].created
           /\ responses'[r].conversation = "out_of_band"
                <=> responses[r].conversation = "out_of_band"
           /\ pc' = "loop" => responses'[r].conversation = responses[r].conversation
           /\ responses'[r].done = responses[r].done
           /\ responses'[r].successful = responses[r].successful
           /\ responses'[r].continued = responses[r].continued
           /\ responses[r].cancelled => responses'[r].cancelled,
         \A c \in admitted : calls'[c].accepted = calls[c].accepted
  PROVE  ConversationInv'
<1>1. Due(responses', calls', admitted') \subseteq Due(responses, calls, admitted)
  BY DEF Due, CallsKept
<1>2. NoForgottenBatch'
  BY <1>1 DEF ConversationInv, NoForgottenBatch
<1>3. OneSpeaker'
  BY DEF ConversationInv, OneSpeaker
<1>4. ContinuedOnce'
  BY DEF ConversationInv, ContinuedOnce, CallsOf, CallsKept, Admissible
<1>5. OwnersHeard'
  BY DEF ConversationInv, OwnersHeard
<1> QED  BY <1>2, <1>3, <1>4, <1>5 DEF ConversationInv

\* A step that ends in continue_ready() leaves no batch behind.
LEMMA ConversationReconsidered ==
  ASSUME TypeOK, ConversationInv, CallsKept,
         NEW rs \in [Responses -> ResponseRecords],
         NEW pending \in PendingRecords \cup {None},
         ContinueReady(rs, calls', admitted', active', pending),
         active' = {r \in Responses : /\ rs[r].created /\ ~rs[r].done
                                      /\ rs[r].conversation # "out_of_band"},
         pending # None /\ active' # {} => pending.out_of_band,
         \A r \in Responses : /\ rs[r].continued = responses[r].continued
                              /\ responses[r].done => rs[r].done
                              /\ ~rs[r].created /\ ~rs[r].done
                                   => rs[r].conversation = "unreported"
  PROVE  ConversationInv'
<1> DEFINE due == Due(rs, calls', admitted')
           idle == Idle(rs, calls', admitted', active', pending)
           asks == Asks(rs, calls', admitted', active', pending)
<1>1. SameButContinued(rs) /\ (idle \/ asks)
  BY ContinueReadyFacts
<1> USE DEF SameButContinued, Idle, Asks
<1>2. OneSpeaker'
  BY <1>1 DEF OneSpeaker
<1>3. NoForgottenBatch'
  BY <1>1, NoneAssumption DEF NoForgottenBatch
<1>4. ContinuedOnce'
  <2> SUFFICES ASSUME NEW r \in Responses PROVE ContinuedOnce!(r)'
    BY DEF ContinuedOnce
  <2>1. CASE asks /\ r \in due
    <3>1. /\ ClientContinues /\ continuations'[r] = continuations[r] + 1
          /\ responses'[r] = [rs[r] EXCEPT !.continued = TRUE]
      BY <2>1
    <3>2. /\ ~rs[r].continued /\ rs[r].done
          /\ \E c \in admitted' : calls'[c].response = r
          /\ \A c \in admitted' : calls'[c].response = r => calls'[c].accepted
      BY <2>1 DEF Due
    <3>3. responses'[r].continued /\ responses'[r].done
      BY <3>1, <3>2 DEF ResponseRecords
    <3>4. continuations[r] = 0
      BY <3>2 DEF ConversationInv, ContinuedOnce
    <3> QED  BY <3>1, <3>2, <3>3, <3>4 DEF CallsOf
  <2>2. CASE idle \/ (asks /\ r \notin due)
    <3>1. responses'[r] = rs[r] /\ continuations'[r] = continuations[r]
      BY <2>2
    <3>2. CASE ~rs[r].continued
      BY <3>1, <3>2 DEF ConversationInv, ContinuedOnce
    <3>3. CASE rs[r].continued
      <4>1. responses[r].continued /\ continuations[r] = 1 /\ ClientContinues
        BY <3>3 DEF ConversationInv, ContinuedOnce
      <4>2. responses[r].done /\ CallsOf(r) # {} /\ \A c \in CallsOf(r) : calls[c].accepted
        BY <4>1 DEF ConversationInv, ContinuedOnce
      <4>3. CallsOf(r)' = CallsOf(r)
        BY <4>2 DEF CallsOf, CallsKept, Admissible
      <4>4. \A c \in CallsOf(r) : calls'[c].accepted
        BY <4>2 DEF CallsOf, CallsKept
      <4>5. rs[r].done
        BY <4>2
      <4> QED  BY <3>1, <3>3, <4>1, <4>2, <4>3, <4>4, <4>5
    <3> QED  BY <3>2, <3>3
  <2> QED  BY <1>1, <2>1, <2>2
<1>5. OwnersHeard'
  BY <1>1 DEF OwnersHeard
<1> QED  BY <1>2, <1>3, <1>4, <1>5 DEF ConversationInv

LEMMA ConversationStep == TypeOK /\ ConversationInv /\ [Next]_vars => ConversationInv'
<1> SUFFICES ASSUME TypeOK, ConversationInv, [Next]_vars, CallsKept
             PROVE  ConversationInv'
  BY EveryStepKeepsCalls
<1> USE DEF ledgers, requests, playback, lifecycle, history, Fail, Continue
<1>1. CASE \/ SessionUpdated \/ Stop \/ PeerFails \/ RequestUnacknowledged
           \/ Uninitialized \/ PublishTerminal \/ PublishStatus \/ UNCHANGED vars
  BY <1>1, ConversationUntouched
  DEF SessionUpdated, Stop, PeerFails, RequestUnacknowledged, Uninitialized,
      PublishTerminal, PublishStatus, vars
<1>2. ASSUME NEW r \in Responses, NEW report \in Reports, ResponseCreated(r, report)
      PROVE  ConversationInv'
  <2> DEFINE x == [Reported(responses[r], report) EXCEPT !.created = TRUE]
             rs == [responses EXCEPT ![r] = x]
             pending == IF Settles(report) THEN None ELSE create_id
  <2>1. x \in ResponseRecords /\ report \in Conversations
    BY RecordUpdates, ReportsAssumption DEF TypeOK
  <2>2. /\ x.created /\ x.done = responses[r].done /\ x.continued = responses[r].continued
        /\ ~responses[r].created
        /\ ~x.done => x.conversation = report
    BY <1>2 DEF ResponseCreated, Reported, TypeOK, ResponseRecords, ConversationInv,
       OwnersHeard
  <2>3. /\ rs \in [Responses -> ResponseRecords] /\ rs[r] = x
        /\ \A other \in Responses \ {r} : rs[other] = responses[other]
    BY <2>1 DEF TypeOK
  <2>4. /\ ContinueReady(rs, calls', admitted', active', pending)
        /\ active' = IF Speaks(x, report) THEN active \cup {r} ELSE active
        /\ pc = "loop"
    BY <1>2 DEF ResponseCreated
  <2>5. pending \in PendingRecords \cup {None}
    BY DEF TypeOK
  <2>6. pending # None /\ active' # {} => pending.out_of_band
    BY <2>1, <2>4 DEF Speaks, Settles, ConversationInv, OneSpeaker, Conversations, TypeOK,
       PendingRecords
  <2> HIDE DEF x, rs, pending
  <2>7. active' = {other \in Responses : /\ rs[other].created /\ ~rs[other].done
                                         /\ rs[other].conversation # "out_of_band"}
    BY <2>2, <2>3, <2>4 DEF Speaks, ConversationInv, OneSpeaker
  <2>8. \A other \in Responses :
          /\ rs[other].continued = responses[other].continued
          /\ responses[other].done => rs[other].done
          /\ ~rs[other].created /\ ~rs[other].done
               => rs[other].conversation = "unreported"
    BY <2>2, <2>3, <2>4 DEF ConversationInv, OwnersHeard
  <2> QED  BY <2>3, <2>4, <2>5, <2>6, <2>7, <2>8, ConversationReconsidered
<1>3. ASSUME NEW r \in Responses, ResponseMentioned(r)
      PROVE  ConversationInv'
  BY <1>3, ConversationUntouched DEF ResponseMentioned
<1>4. ASSUME NEW r \in Responses, NEW item \in Items, OutputItemDone(r, item)
      PROVE  ConversationInv'
  <2>1. \A c \in admitted : calls'[c] = calls[c]
    <3>1. PICK S \in SUBSET Items : \E run, cut : Admit(r, S, run, cut)
      BY <1>4, BrokenAdmission DEF OutputItemDone, Admission
    <3>2. PICK run, cut : Admit(r, S, run, cut)
      BY <3>1
    <3>3. calls' = WithCalls(r, S, run \cup cut)
      BY <3>2 DEF Admit
    <3> QED  BY <3>3 DEF WithCalls, Fresher, TypeOK
  <2>2. /\ pc' = "loop" => pc = "loop"
        /\ UNCHANGED <<responses, active, create_id, continuations>>
    BY <1>4 DEF OutputItemDone, AdmitThenFail
  <2> QED  BY <2>1, <2>2, ConversationUntouched
<1>5. ASSUME NEW r \in Responses, NEW ending \in {"completed", "cancelled", "failed"},
             NEW report \in Reports, NEW S \in SUBSET Items,
             ResponseDone(r, ending, report, S)
      PROVE  ConversationInv'
  <2> DEFINE x == Reported(responses[r], report)
             ended == [x EXCEPT !.done = TRUE,
                                !.successful = (ending = "completed"),
                                !.cancelled = @ \/ ending = "cancelled"]
             rs == [responses EXCEPT ![r] = ended]
  <2>1. x \in ResponseRecords /\ ended \in ResponseRecords
    BY RecordUpdates, ReportsAssumption DEF TypeOK
  <2>2. CASE /\ ContinueReady(rs, calls', admitted', active', create_id)
             /\ active' = active \ {r} /\ pc = "loop"
    <3>1. ended.done /\ ended.continued = responses[r].continued
      BY <2>1 DEF Reported, TypeOK, ResponseRecords
    <3>2. /\ rs \in [Responses -> ResponseRecords] /\ rs[r] = ended
          /\ \A other \in Responses \ {r} : rs[other] = responses[other]
      BY <2>1 DEF TypeOK
    <3>3. create_id \in PendingRecords \cup {None}
      BY DEF TypeOK
    <3>4. create_id # None /\ active' # {} => create_id.out_of_band
      BY <2>2 DEF ConversationInv, OneSpeaker
    <3> HIDE DEF ended, rs
    <3>5. active' = {other \in Responses : /\ rs[other].created /\ ~rs[other].done
                                           /\ rs[other].conversation # "out_of_band"}
      BY <2>2, <3>1, <3>2 DEF ConversationInv, OneSpeaker
    <3>6. \A other \in Responses :
            /\ rs[other].continued = responses[other].continued
            /\ responses[other].done => rs[other].done
            /\ ~rs[other].created /\ ~rs[other].done
                 => rs[other].conversation = "unreported"
      BY <2>2, <3>1, <3>2 DEF ConversationInv, OwnersHeard
    <3> QED  BY <2>2, <3>2, <3>3, <3>4, <3>5, <3>6, ConversationReconsidered
  <2>3. CASE /\ AdmitThenFail(r, x, S) /\ responses' = [responses EXCEPT ![r] = x]
             /\ UNCHANGED <<active, create_id, continuations>>
             /\ S # {} => ~Skipped(x)
    <3>1. S # {} /\ pc' = "abort" /\ \E P \in SUBSET S : \E run, cut : Admit(r, P, run, cut)
      BY <2>3, BrokenAdmission DEF Admission
    <3>2. x.conversation # "out_of_band"
      BY <2>3, <3>1 DEF Skipped
    <3>3. /\ x.created = responses[r].created /\ x.done = responses[r].done
          /\ x.successful = responses[r].successful
          /\ x.continued = responses[r].continued
          /\ x.cancelled = responses[r].cancelled
          /\ responses[r].conversation # "out_of_band"
      BY <3>2 DEF Reported, TypeOK, ResponseRecords
    <3>4. \A c \in admitted : calls'[c] = calls[c]
      BY <3>1 DEF Admit, WithCalls, Fresher, TypeOK
    <3>5. /\ responses'[r] = x
          /\ \A other \in Responses \ {r} : responses'[other] = responses[other]
      BY <2>3 DEF TypeOK
    <3> HIDE DEF x
    <3> QED  BY <2>3, <3>1, <3>2, <3>3, <3>4, <3>5, ConversationUntouched
  <2>4. CASE /\ ClearPlaybackFails(r) /\ responses' = rs /\ active' = active \ {r}
             /\ UNCHANGED <<calls, admitted, create_id, continuations>>
    <3>1. /\ ended.done /\ ended.continued = responses[r].continued
          /\ pc' = "abort"
      BY <2>1, <2>4 DEF Reported, TypeOK, ResponseRecords, ClearPlaybackFails
    <3>2. /\ responses'[r] = ended
          /\ \A other \in Responses \ {r} : responses'[other] = responses[other]
      BY <2>1, <2>4 DEF TypeOK
    <3> HIDE DEF ended, rs
    <3>3. OneSpeaker'
      BY <2>4, <3>1, <3>2 DEF ConversationInv, OneSpeaker
    <3>4. ContinuedOnce'
      BY <2>4, <3>1, <3>2 DEF ConversationInv, ContinuedOnce, CallsOf
    <3> QED
      BY <3>1, <3>3, <3>4 DEF ConversationInv, NoForgottenBatch, OwnersHeard
  <2> QED  BY <1>5, <2>2, <2>3, <2>4 DEF ResponseDone
<1>6. ASSUME NEW c \in Calls, NEW own \in BOOLEAN, ItemReported(c, own)
      PROVE  ConversationInv'
  <2>1. /\ ContinueReady(responses, calls', admitted', active', create_id)
        /\ active' = active /\ pc = "loop"
    BY <1>6 DEF ItemReported
  <2> QED
    BY <2>1, ConversationReconsidered DEF TypeOK, ConversationInv, OneSpeaker, OwnersHeard
<1>7. ASSUME NEW q \in Requests, RequestRefused(q)
      PROVE  ConversationInv'
  <2>1. /\ ContinueReady(responses, calls', admitted', active', None)
        /\ active' = active /\ pc = "loop"
    BY <1>7 DEF RequestRefused
  <2> QED
    BY <2>1, ConversationReconsidered DEF TypeOK, ConversationInv, OneSpeaker, OwnersHeard
<1>8. ASSUME NEW q \in Requests, NEW out_of_band \in BOOLEAN, Respond(q, out_of_band)
      PROVE  ConversationInv'
  <2>1. /\ UNCHANGED <<responses, calls, admitted, active, continuations, pc>>
        /\ create_id' \in PendingRecords
        /\ create_id'.out_of_band \/ active = {}
    BY <1>8 DEF Respond, PendingRecords
  <2> QED
    BY <2>1, NoneAssumption
    DEF ConversationInv, OneSpeaker, NoForgottenBatch, ContinuedOnce, OwnersHeard, CallsOf
<1>9. ASSUME NEW r \in Responses, StopSpeech(r)
      PROVE  ConversationInv'
  BY <1>9, ConversationUntouched DEF StopSpeech, ClearPlaybackFails, TypeOK, ResponseRecords
<1>10. ASSUME NEW c \in Calls,
              \/ ResultRefused(c) \/ ResultUnacknowledged(c)
              \/ TaskStarts(c) \/ TaskReturns(c) \/ ToolJoinFails(c) \/ AbortedJoined(c)
       PROVE  ConversationInv'
  BY <1>10, ConversationUntouched
  DEF ResultRefused, ResultUnacknowledged, TaskStarts, TaskReturns, ToolJoinFails,
      AbortedJoined
<1>11. ASSUME NEW c \in Calls, CancelTool(c) \/ TaskTimesOut(c) \/ ToolJoined(c)
       PROVE  ConversationInv'
  <2>1. \A d \in admitted : calls'[d].accepted = calls[d].accepted
    <3>1. CASE CancelTool(c) \/ TaskTimesOut(c)
      BY <3>1 DEF CancelTool, TaskTimesOut, TypeOK, CallRecords
    <3>2. CASE ToolJoined(c)
      <4>1. calls' = [calls EXCEPT ![c] = [calls[c] EXCEPT !.finished = TRUE,
                                                           !.deadline = TRUE]]
        BY <3>2 DEF ToolJoined, Answered, TypeOK
      <4> QED  BY <4>1 DEF TypeOK, CallRecords
    <3> QED  BY <1>11, <3>1, <3>2
  <2> QED
    BY <1>11, <2>1, ConversationUntouched DEF CancelTool, TaskTimesOut, ToolJoined
<1>12. CASE AbortTools
  <2>1. \A d \in admitted : calls'[d].accepted = calls[d].accepted
    BY <1>12 DEF AbortTools, TypeOK, CallRecords
  <2> QED  BY <1>12, <2>1, ConversationUntouched DEF AbortTools
<1> QED
  BY <1>1, <1>2, <1>3, <1>4, <1>5, <1>6, <1>7, <1>8, <1>9, <1>10, <1>11, <1>12
  DEF Next, Server, Host, Tools, Clock, WindDown, Over

LEMMA ConversationHolds == Spec => []ConversationInv
<1>1. Init => ConversationInv
  BY DEF Init, ConversationInv, OneSpeaker, NoForgottenBatch, ContinuedOnce, OwnersHeard,
     NewResponse, Due
<1> QED  BY <1>1, ConversationStep, TypeCorrect, PTL DEF Spec

\* One speaker in the default conversation, and no request for a second.
THEOREM OneSpeakerAlways == Spec => []OneSpeaker
<1> QED  BY ConversationHolds, PTL DEF ConversationInv

\* No order of events leaves a batch behind that nothing blocks.
THEOREM NoBatchForgotten == Spec => []NoForgottenBatch
<1> QED  BY ConversationHolds, PTL DEF ConversationInv

\* A batch is continued at most once, and only when it is complete.
THEOREM BatchContinuedOnce == Spec => []ContinuedOnce
<1> QED  BY ConversationHolds, PTL DEF ConversationInv
-----------------------------------------------------------------------------
(* Playback that is stopped, and the end of the session.                   *)

\* What a step of stopped playback does: r, if new, is announced, or the step
\* ends the session.
StopStep(r) ==
  /\ ClearPlayback(r) \/ ClearPlaybackFails(r)
  /\ \A other \in Responses :
       responses'[other].cancelled <=> responses[other].cancelled \/ other = r

NoStop ==
  /\ UNCHANGED <<stopped, clears>>
  /\ \A r \in Responses : responses'[r].cancelled <=> responses[r].cancelled

\* A report of the owner stops nothing.
LEMMA ReportedKeepsCancelled ==
  ASSUME NEW x \in ResponseRecords, NEW report
  PROVE  Reported(x, report).cancelled = x.cancelled
BY DEF Reported, ResponseRecords

LEMMA EveryStopStep ==
  TypeOK /\ [Next]_vars => NoStop \/ \E r \in Responses : StopStep(r)
<1> SUFFICES ASSUME TypeOK, [Next]_vars
             PROVE  NoStop \/ \E r \in Responses : StopStep(r)
  OBVIOUS
<1> USE DEF ledgers, requests, playback, lifecycle, history
<1>1. CASE UNCHANGED responses /\ UNCHANGED <<stopped, clears>>
  BY <1>1 DEF NoStop
<1>2. ASSUME NEW r \in Responses, NEW report \in Reports, ResponseCreated(r, report)
      PROVE  NoStop
  <2> DEFINE x == [Reported(responses[r], report) EXCEPT !.created = TRUE]
             rs == [responses EXCEPT ![r] = x]
             pending == IF Settles(report) THEN None ELSE create_id
  <2>0. Reported(responses[r], report) \in ResponseRecords
    BY RecordUpdates, ReportsAssumption DEF TypeOK
  <2>1. /\ x \in ResponseRecords /\ rs \in [Responses -> ResponseRecords]
        /\ x.cancelled = responses[r].cancelled
    <3>1. x \in ResponseRecords /\ x.cancelled = Reported(responses[r], report).cancelled
      BY <2>0 DEF ResponseRecords
    <3> QED  BY <3>1, ReportedKeepsCancelled DEF TypeOK
  <2>2. ContinueReady(rs, calls, admitted, active', pending)
    BY <1>2 DEF ResponseCreated
  <2>3. \A other \in Responses : rs[other].cancelled <=> responses[other].cancelled
    BY <2>1 DEF TypeOK
  <2> HIDE DEF rs, pending
  <2>4. SameButContinued(rs)
    BY <2>1, <2>2, ContinueReadyFacts
  <2> QED  BY <1>2, <2>3, <2>4 DEF SameButContinued, NoStop, ResponseCreated
<1>3. ASSUME NEW r \in Responses, NEW ending \in {"completed", "cancelled", "failed"},
             NEW report \in Reports, NEW S \in SUBSET Items,
             ResponseDone(r, ending, report, S)
      PROVE  NoStop \/ StopStep(r)
  <2> DEFINE x == Reported(responses[r], report)
             ended == [x EXCEPT !.done = TRUE,
                                !.successful = (ending = "completed"),
                                !.cancelled = @ \/ ending = "cancelled"]
             rs == [responses EXCEPT ![r] = ended]
  <2>0. x \in ResponseRecords /\ ended \in ResponseRecords
    BY RecordUpdates, ReportsAssumption DEF TypeOK
  <2>1. /\ x \in ResponseRecords /\ ended \in ResponseRecords
        /\ rs \in [Responses -> ResponseRecords]
        /\ x.cancelled = responses[r].cancelled
    BY <2>0, ReportedKeepsCancelled DEF TypeOK
  <2>2. ended.cancelled <=> responses[r].cancelled \/ ending = "cancelled"
    BY <2>1 DEF ResponseRecords
  <2>3. \A other \in Responses :
          rs[other].cancelled <=> responses[other].cancelled
                                    \/ (other = r /\ ending = "cancelled")
    BY <2>2 DEF TypeOK
  <2>4. CASE /\ ContinueReady(rs, calls', admitted', active', create_id)
             /\ IF ending = "cancelled"
                THEN ClearPlayback(r) ELSE UNCHANGED <<stopped, clears>>
    <3> HIDE DEF rs
    <3>1. \A other \in Responses : responses'[other].cancelled = rs[other].cancelled
      BY <2>1, <2>4, ContinueReadyFacts DEF SameButContinued
    <3>2. CASE ending = "cancelled"
      BY <2>3, <2>4, <3>1, <3>2 DEF StopStep
    <3>3. CASE ending # "cancelled"
      BY <2>3, <2>4, <3>1, <3>3 DEF NoStop
    <3> QED  BY <3>2, <3>3
  <2>5. CASE responses' = [responses EXCEPT ![r] = x] /\ UNCHANGED <<stopped, clears>>
    BY <2>1, <2>5 DEF NoStop, TypeOK
  <2>6. CASE ending = "cancelled" /\ ClearPlaybackFails(r) /\ responses' = rs
    BY <2>3, <2>6 DEF StopStep
  <2> QED  BY <1>3, <2>4, <2>5, <2>6 DEF ResponseDone
<1>4. ASSUME NEW r \in Responses, StopSpeech(r)
      PROVE  StopStep(r)
  BY <1>4 DEF StopSpeech, StopStep, TypeOK, ResponseRecords
<1>5. ASSUME NEW c \in Calls, NEW own \in BOOLEAN, ItemReported(c, own)
      PROVE  NoStop
  <2>1. SameButContinued(responses)
    BY <1>5, ContinueReadyFacts DEF ItemReported, TypeOK
  <2> QED  BY <1>5, <2>1 DEF ItemReported, SameButContinued, NoStop
<1>6. ASSUME NEW q \in Requests, RequestRefused(q)
      PROVE  NoStop
  <2>1. SameButContinued(responses)
    BY <1>6, ContinueReadyFacts DEF RequestRefused, TypeOK
  <2> QED  BY <1>6, <2>1 DEF RequestRefused, SameButContinued, NoStop
<1> QED
  BY <1>1, <1>2, <1>3, <1>4, <1>5, <1>6
  DEF Next, Server, Host, Tools, Clock, WindDown, Over, vars, SessionUpdated,
      ResponseMentioned, OutputItemDone, ResultRefused, PeerFails, Respond, CancelTool,
      Stop, TaskStarts, TaskReturns, TaskTimesOut, ToolJoined, ToolJoinFails,
      ResultUnacknowledged, RequestUnacknowledged, Uninitialized, AbortTools, AbortedJoined,
      PublishTerminal, PublishStatus

\* A session that left its loop does not return to it, nor change why it ended.
LEMMA EndingsStand ==
  [Next]_vars /\ pc # "loop" => pc' # "loop" /\ UNCHANGED outcome
<1> SUFFICES ASSUME [Next]_vars, pc # "loop"
             PROVE  pc' # "loop" /\ UNCHANGED outcome
  OBVIOUS
<1>1. ~Server /\ ~Host /\ ~Clock
  <2>1. ASSUME NEW r \in Responses, NEW report \in Reports PROVE ~ResponseCreated(r, report)
    BY DEF ResponseCreated
  <2>2. ASSUME NEW r \in Responses, NEW item \in Items PROVE ~OutputItemDone(r, item)
    BY DEF OutputItemDone
  <2>3. ASSUME NEW r \in Responses, NEW ending \in {"completed", "cancelled", "failed"},
               NEW report \in Reports, NEW S \in SUBSET Items
        PROVE  ~ResponseDone(r, ending, report, S)
    BY DEF ResponseDone
  <2>4. ASSUME NEW c \in Calls, NEW own \in BOOLEAN PROVE ~ItemReported(c, own)
    BY DEF ItemReported
  <2> QED
    BY <2>1, <2>2, <2>3, <2>4
    DEF Server, SessionUpdated, ResponseMentioned, RequestRefused, ResultRefused, PeerFails,
        Host, Respond, StopSpeech, CancelTool, Stop, Clock, ResultUnacknowledged,
        RequestUnacknowledged, Uninitialized
<1>2. CASE Tools
  BY <1>2 DEF Tools, TaskStarts, TaskReturns, TaskTimesOut, ToolJoined, ToolJoinFails,
     lifecycle
<1>3. CASE WindDown
  BY <1>3 DEF WindDown, AbortTools, AbortedJoined, PublishTerminal, PublishStatus, lifecycle
<1>4. CASE Over \/ UNCHANGED vars
  BY <1>4 DEF Over, vars, lifecycle
<1> QED  BY <1>1, <1>2, <1>3, <1>4 DEF Next

\* The watch and the ledger agree on stopped playback, and it is announced once:
\* always while the session lives, and but for the stop that ended it.
THEOREM StoppedAgreed == Spec => []StoppedAgrees
<1>1. Init => StoppedAgrees
  BY DEF Init, StoppedAgrees, NewResponse
<1>2. TypeOK /\ StoppedAgrees /\ [Next]_vars => StoppedAgrees'
  <2> SUFFICES ASSUME TypeOK, StoppedAgrees, [Next]_vars PROVE StoppedAgrees'
    OBVIOUS
  <2>1. CASE NoStop
    BY <2>1, EndingsStand DEF NoStop, StoppedAgrees
  <2>2. ASSUME NEW r \in Responses, StopStep(r) PROVE StoppedAgrees'
    <3>1. /\ stopped' = stopped \cup {r}
          /\ \/ clears' = IF r \in stopped THEN clears ELSE [clears EXCEPT ![r] = @ + 1]
             \/ r \notin stopped /\ UNCHANGED clears /\ pc' = "abort" /\ outcome' = "failed"
      BY <2>2 DEF StopStep, ClearPlayback, ClearPlaybackFails, Fail
    <3>2. stopped' = {other \in Responses : responses'[other].cancelled}
      BY <2>2, <3>1 DEF StopStep, StoppedAgrees
    <3>3. ASSUME NEW other \in Responses
          PROVE  /\ clears'[other] <= IF other \in stopped' THEN 1 ELSE 0
                 /\ other \in stopped' /\ clears'[other] = 0
                      => pc' # "loop" /\ outcome' = "failed"
      <4>1. CASE other # r \/ other \in stopped
        <5>1. clears'[other] = clears[other] /\ (other \in stopped' <=> other \in stopped)
          BY <3>1, <4>1 DEF TypeOK
        <5> QED  BY <5>1, EndingsStand DEF StoppedAgrees
      <4>2. CASE other = r /\ r \notin stopped
        <5>1. clears[r] = 0
          BY <4>2 DEF StoppedAgrees, TypeOK
        <5>2. /\ other \in stopped' /\ clears'[other] \in {0, 1}
              /\ clears'[other] = 0 => pc' # "loop" /\ outcome' = "failed"
          BY <3>1, <4>2, <5>1 DEF TypeOK
        <5> QED  BY <5>2
      <4> QED  BY <4>1, <4>2
    <3> QED  BY <3>2, <3>3 DEF StoppedAgrees
  <2> QED  BY <2>1, <2>2, EveryStopStep
<1> QED  BY <1>1, <1>2, TypeCorrect, PTL DEF Spec

\* Tasks are joined before the last two publications, which come in order.
EndingInv ==
  /\ terminal <=> pc \in {"publish", "over"}
  /\ terminal => Tasks = {}
  /\ status \in {"closed", "failed"} => pc = "over"

\* A final status is published when the tools are gone and playback is dead.
THEOREM QuietAtTheEnd == Spec => []QuietWhenOver
<1>1. Init => EndingInv
  BY DEF Init, EndingInv
<1>2. TypeOK /\ HasOutcome /\ EndingInv /\ [Next]_vars => EndingInv'
  <2> SUFFICES ASSUME TypeOK, HasOutcome, EndingInv, [Next]_vars PROVE EndingInv'
    OBVIOUS
  <2> USE DEF ledgers, requests, playback, lifecycle, history, Fail, Continue
  <2>1. \/ /\ pc \in {"loop", "abort"} /\ pc' \in {"loop", "abort", "join"}
           /\ UNCHANGED terminal /\ status' \in {status, "ready"}
        \/ \E c \in Calls : AbortedJoined(c)
        \/ PublishTerminal \/ PublishStatus \/ UNCHANGED vars
    <3>1. CASE Server
      <4> SUFFICES /\ pc = "loop" /\ pc' \in {"loop", "abort"}
                   /\ UNCHANGED terminal /\ status' \in {status, "ready"}
        OBVIOUS
      <4>1. ASSUME NEW r \in Responses, NEW item \in Items, OutputItemDone(r, item)
            PROVE  /\ pc = "loop" /\ pc' \in {"loop", "abort"}
                   /\ UNCHANGED terminal /\ status' \in {status, "ready"}
        BY <4>1 DEF OutputItemDone, AdmitThenFail
      <4>2. ASSUME NEW r \in Responses, NEW report \in Reports,
                   NEW ending \in {"completed", "cancelled", "failed"},
                   NEW S \in SUBSET Items, ResponseDone(r, ending, report, S)
            PROVE  /\ pc = "loop" /\ pc' \in {"loop", "abort"}
                   /\ UNCHANGED terminal /\ status' \in {status, "ready"}
        BY <4>2, ContinueReadyGoesOn
        DEF ResponseDone, AdmitThenFail, ClearPlaybackFails, GoesOnOrFails
      <4> QED
        BY <3>1, <4>1, <4>2, ContinueReadyGoesOn
        DEF Server, SessionUpdated, ResponseCreated, ResponseMentioned, ItemReported,
            RequestRefused, ResultRefused, PeerFails, GoesOnOrFails
    <3>2. CASE Host \/ Clock
      BY <3>2 DEF Host, Clock, Respond, StopSpeech, ClearPlaybackFails, CancelTool, Stop,
         ResultUnacknowledged, RequestUnacknowledged, Uninitialized
    <3>3. CASE Tools
      BY <3>3 DEF Tools, TaskStarts, TaskReturns, TaskTimesOut, ToolJoined, ToolJoinFails
    <3>4. CASE WindDown
      BY <3>4 DEF WindDown, AbortTools
    <3>5. CASE Over
      BY <3>5 DEF Over
    <3> QED  BY <3>1, <3>2, <3>3, <3>4, <3>5 DEF Next
  <2>2. CASE /\ pc \in {"loop", "abort"} /\ pc' \in {"loop", "abort", "join"}
             /\ UNCHANGED terminal /\ status' \in {status, "ready"}
    BY <2>2 DEF EndingInv, TypeOK
  <2>3. ASSUME NEW c \in Calls, AbortedJoined(c) PROVE EndingInv'
    BY <2>3 DEF AbortedJoined, EndingInv, Tasks, TypeOK
  <2>4. CASE PublishTerminal
    BY <2>4 DEF PublishTerminal, EndingInv, Tasks, TypeOK
  <2>5. CASE PublishStatus \/ UNCHANGED vars
    BY <2>5 DEF PublishStatus, vars, EndingInv, Tasks, TypeOK
  <2> QED  BY <2>1, <2>2, <2>3, <2>4, <2>5
<1>3. EndingInv => QuietWhenOver
  BY DEF EndingInv, QuietWhenOver
<1> QED  BY <1>1, <1>2, <1>3, TypeCorrect, PTL DEF Spec
-----------------------------------------------------------------------------
(* Limits.                                                                 *)

\* A step admits calls within the limits, or lists at most one response more.
LimitStep ==
  /\ Tasks' \subseteq Tasks \/ Cardinality(Tasks') <= ConcurrentTools
  /\ admitted' \subseteq admitted \/ Cardinality(admitted') <= MaxCalls
  /\ known' \subseteq known \/ \E r \in Responses : CanKnow(r) /\ known' = known \cup {r}

\* Admission respects both limits, whichever calls the first one spares.
LEMMA AdmitWithinLimits ==
  ASSUME TypeOK, IsFiniteSet(Calls), NEW r, NEW x, NEW S \in SUBSET Items,
         NEW run, NEW cut, Admit(r, S, run, cut), ~Refused(r, x, S)
  PROVE  /\ Tasks' \subseteq Tasks \/ Cardinality(Tasks') <= ConcurrentTools
         /\ Cardinality(admitted') <= MaxCalls
<1>1. /\ run \subseteq Fresher(S)
      /\ run = {} \/ Cardinality(Tasks \cup run) <= ConcurrentTools
  <2>1. Dispatched({item \in S : item[1] \notin cut}, run)
    BY DEF Admit
  <2>2. Fresher({item \in S : item[1] \notin cut}) \subseteq Fresher(S)
    BY DEF Fresher, Named
  <2> QED  BY <2>1, <2>2 DEF Dispatched
<1>6. Named(S) \subseteq Calls
  BY DEF Named, Items
<1>2. Tasks' = Tasks \cup run
  BY <1>1, <1>6 DEF Admit, Tasks, Fresher, TypeOK
<1>3. admitted' = admitted \cup Named(S)
  BY DEF Admit, Fresher
<1>4. Cardinality(admitted \cup Named(S)) \in Nat
  BY <1>6, FS_Subset, FS_CardinalityType DEF TypeOK
<1>5. Cardinality(admitted \cup Named(S)) <= MaxCalls
  BY <1>4, LimitsAssumption DEF Refused
<1> QED  BY <1>1, <1>2, <1>3, <1>5

LEMMA EveryLimitStep ==
  ASSUME TypeOK, IsFiniteSet(Calls), [Next]_vars
  PROVE  LimitStep
<1> USE DEF ledgers, requests, playback, lifecycle, history
<1>1. ASSUME NEW r \in Responses, NEW item \in Items, OutputItemDone(r, item)
      PROVE  LimitStep
  <2>1. PICK S \in SUBSET Items : /\ \E run, cut : Admit(r, S, run, cut)
                                  /\ ~Refused(r, responses[r], S)
    BY <1>1, BrokenAdmission DEF OutputItemDone, Admission
  <2> QED  BY <1>1, <2>1, AdmitWithinLimits DEF OutputItemDone, LimitStep
<1>2. ASSUME NEW r \in Responses, NEW ending \in {"completed", "cancelled", "failed"},
             NEW report \in Reports, NEW S \in SUBSET Items,
             ResponseDone(r, ending, report, S)
      PROVE  LimitStep
  <2>1. CASE UNCHANGED <<admitted, tasks>>
    BY <1>2, <2>1 DEF ResponseDone, LimitStep, Tasks
  <2>2. CASE ~UNCHANGED <<admitted, tasks>>
    <3>1. PICK P \in SUBSET Items :
            /\ \E run, cut : Admit(r, P, run, cut)
            /\ ~Refused(r, Reported(responses[r], report), P)
      BY <1>2, <2>2, BrokenAdmission DEF ResponseDone, Admission
    <3> QED  BY <1>2, <3>1, AdmitWithinLimits DEF ResponseDone, LimitStep
  <2> QED  BY <2>1, <2>2
<1>3. CASE \/ \E r \in Responses, report \in Reports : ResponseCreated(r, report)
           \/ \E r \in Responses : ResponseMentioned(r)
  BY <1>3 DEF ResponseCreated, ResponseMentioned, LimitStep, Tasks
<1>4. CASE /\ UNCHANGED <<admitted, known>>
           /\ UNCHANGED tasks
  BY <1>4 DEF LimitStep, Tasks
<1>5. ASSUME NEW c \in Calls,
             \/ TaskStarts(c) \/ TaskReturns(c) \/ TaskTimesOut(c) \/ ToolJoined(c)
             \/ ToolJoinFails(c) \/ AbortedJoined(c)
      PROVE  LimitStep
  <2>1. /\ \A d \in Calls : tasks'[d] # "none" => tasks[d] # "none"
        /\ UNCHANGED <<admitted, known>>
    BY <1>5 DEF TaskStarts, TaskReturns, TaskTimesOut, ToolJoined, ToolJoinFails,
       AbortedJoined, TypeOK
  <2> QED  BY <2>1 DEF LimitStep, Tasks
<1> QED
  BY <1>1, <1>2, <1>3, <1>4, <1>5
  DEF Next, Server, Host, Tools, Clock, WindDown, Over, vars, SessionUpdated,
      ItemReported, RequestRefused, ResultRefused, PeerFails, Respond, StopSpeech,
      CancelTool, Stop, ResultUnacknowledged, RequestUnacknowledged, Uninitialized,
      AbortTools, PublishTerminal, PublishStatus

\* Concurrency and the ledgers stay within their limits, whatever ids the
\* endpoint draws from: the sets are large, not unlimited.
THEOREM LimitsKept ==
  ASSUME IsFiniteSet(Calls), IsFiniteSet(Responses)
  PROVE  Spec => []Bounded
<1>1. Init => Bounded
  <2> SUFFICES ASSUME Init PROVE Bounded
    OBVIOUS
  <2>1. Tasks = {} /\ known = {} /\ admitted = {}
    BY DEF Init, Tasks
  <2> QED  BY <2>1, FS_EmptySet, LimitsAssumption DEF Bounded
<1>2. TypeOK /\ Bounded /\ [Next]_vars => Bounded'
  <2> SUFFICES ASSUME TypeOK, Bounded, [Next]_vars PROVE Bounded'
    OBVIOUS
  <2>1. LimitStep
    BY EveryLimitStep
  <2>2. IsFiniteSet(Tasks) /\ IsFiniteSet(admitted) /\ IsFiniteSet(known)
    BY FS_Subset DEF TypeOK, Tasks
  <2>3. Cardinality(Tasks') <= ConcurrentTools
    <3>1. CASE Tasks' \subseteq Tasks
      <4>1. /\ Cardinality(Tasks') <= Cardinality(Tasks)
            /\ Cardinality(Tasks') \in Nat /\ Cardinality(Tasks) \in Nat
        BY <2>2, <3>1, FS_Subset, FS_CardinalityType
      <4> QED  BY <4>1, LimitsAssumption DEF Bounded
    <3> QED  BY <2>1, <3>1 DEF LimitStep
  <2>4. Cardinality(admitted') <= MaxCalls
    <3>1. CASE admitted' \subseteq admitted
      <4>1. /\ Cardinality(admitted') <= Cardinality(admitted)
            /\ Cardinality(admitted') \in Nat /\ Cardinality(admitted) \in Nat
        BY <2>2, <3>1, FS_Subset, FS_CardinalityType
      <4> QED  BY <4>1, LimitsAssumption DEF Bounded
    <3> QED  BY <2>1, <3>1 DEF LimitStep
  <2>5. Cardinality(known') <= MaxResponses
    <3>1. CASE known' \subseteq known
      <4>1. /\ Cardinality(known') <= Cardinality(known)
            /\ Cardinality(known') \in Nat /\ Cardinality(known) \in Nat
        BY <2>2, <3>1, FS_Subset, FS_CardinalityType
      <4> QED  BY <4>1, LimitsAssumption DEF Bounded
    <3>2. ASSUME NEW r \in Responses, CanKnow(r), known' = known \cup {r}
          PROVE  Cardinality(known') <= MaxResponses
      <4>1. CASE r \in known
        BY <3>1, <3>2, <4>1
      <4>2. CASE r \notin known
        <5>1. Cardinality(known') = Cardinality(known) + 1 /\ Cardinality(known) \in Nat
          BY <2>2, <3>2, <4>2, FS_AddElement, FS_CardinalityType
        <5> QED  BY <3>2, <4>2, <5>1, LimitsAssumption DEF CanKnow
      <4> QED  BY <4>1, <4>2
    <3> QED  BY <2>1, <3>1, <3>2 DEF LimitStep
  <2> QED  BY <2>3, <2>4, <2>5 DEF Bounded
<1> QED  BY <1>1, <1>2, TypeCorrect, PTL DEF Spec
=============================================================================
