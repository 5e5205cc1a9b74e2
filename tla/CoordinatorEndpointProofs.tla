---------------------- MODULE CoordinatorEndpointProofs ----------------------
(* Theorems about CoordinatorEndpoint, for any number of responses, calls and *)
(* requests, and an endpoint that reports owners or does not.                *)
EXTENDS CoordinatorEndpoint, CoordinatorProofs

Owners == {"none", "default", "out_of_band"}

OwnerTypeOK == owner \in [Responses -> Owners] /\ asked \in BOOLEAN

\* The session knows of every request the endpoint can know of.
AskedInv ==
  /\ asked => out_of_band_requested
  /\ \A r \in Responses : owner[r] = "out_of_band" => asked

\* It believes of an owner what is true, or nothing.
TruthInv ==
  \A r \in Responses : responses[r].conversation \in {"unreported", owner[r]}

\* It committed only to calls of the default conversation.
CommitInv ==
  \A c \in admitted : calls[c].response \in Responses
                        /\ owner[calls[c].response] = "default"

EndpointInv == OwnerTypeOK /\ AskedInv /\ TruthInv /\ CommitInv

-----------------------------------------------------------------------------
\* Composing Coordinator with an endpoint adds no behaviour to it.
LEMMA StepsAreSteps == [ENext]_allVars => [Next]_vars
<1> SUFFICES ASSUME [ENext]_allVars PROVE [Next]_vars
  OBVIOUS
<1>1. ASSUME NEW r \in Responses, NEW conversation \in {"default", "out_of_band"},
             EndpointCreates(r, conversation)
      PROVE  [Next]_vars
  BY <1>1 DEF EndpointCreates
<1>2. CASE SessionReads
  BY <1>2 DEF SessionReads, Next, Server
<1>3. ASSUME NEW q \in Requests, NEW out_of_band \in BOOLEAN, HostAsks(q, out_of_band)
      PROVE  [Next]_vars
  BY <1>3 DEF HostAsks, Next, Host
<1>4. CASE SessionGoesOn
  BY <1>4 DEF SessionGoesOn, Next, Server, Host
<1>5. CASE UNCHANGED allVars
  BY <1>5 DEF allVars
<1> QED  BY <1>1, <1>2, <1>3, <1>4, <1>5 DEF ENext

\* All that is proved of Coordinator holds of the composition.
THEOREM CompositionCoordinates == ESpec => Spec
<1>1. EInit => Init
  BY DEF EInit
<1> QED  BY <1>1, StepsAreSteps, PTL DEF ESpec, Spec

-----------------------------------------------------------------------------
(* What a step lets the session believe, and commit to.                    *)

\* Nothing was heard of an owner.
Unheard == \A s \in Responses : responses'[s].conversation = responses[s].conversation

\* Nothing was heard of an owner, but perhaps of that of r.
HeardOnly(r, report) ==
  \A s \in Responses :
    \/ responses'[s].conversation = responses[s].conversation
    \/ s = r /\ responses'[s].conversation = report

\* New calls are calls of r.
CommitsOnly(r) == \A c \in admitted' \ admitted : calls'[c].response = r

LEMMA ReportedTruly ==
  ASSUME NEW x \in ResponseRecords, NEW report \in Conversations
  PROVE  /\ Reported(x, report) \in ResponseRecords
         /\ Reported(x, report).conversation \in {x.conversation, report}
BY DEF Reported, ResponseRecords

\* Rewriting the record of r as x, whatever is continued with it.
LEMMA HeardAs ==
  ASSUME TypeOK, NEW r \in Responses, NEW x \in ResponseRecords, NEW report,
         x.conversation \in {responses[r].conversation, report},
         NEW rs, rs = [responses EXCEPT ![r] = x],
         \/ responses' = rs
         \/ SameButContinued(rs)
  PROVE  HeardOnly(r, report)
BY DEF TypeOK, SameButContinued, HeardOnly

LEMMA CreationHeard ==
  ASSUME TypeOK, NEW r \in Responses, NEW report \in Reports, ResponseCreated(r, report)
  PROVE  HeardOnly(r, report) /\ UNCHANGED <<admitted, calls, out_of_band_requested>>
<1> DEFINE y == Reported(responses[r], report)
           x == [y EXCEPT !.created = TRUE]
           rs == [responses EXCEPT ![r] = x]
           pending == IF Settles(report) THEN None ELSE create_id
<1>1. y \in ResponseRecords /\ y.conversation \in {responses[r].conversation, report}
  BY ReportedTruly, ReportsAssumption DEF TypeOK
<1>2. x \in ResponseRecords /\ x.conversation = y.conversation
  BY <1>1 DEF ResponseRecords
<1>3. ContinueReady(rs, calls, admitted, active', pending)
  BY DEF ResponseCreated
<1>4. rs \in [Responses -> ResponseRecords]
  BY <1>2 DEF TypeOK
<1> HIDE DEF x, y, pending
<1>5. SameButContinued(rs)
  <2> HIDE DEF rs
  <2> QED  BY <1>3, <1>4, ContinueReadyFacts
<1> QED  BY <1>1, <1>2, <1>5, HeardAs DEF ResponseCreated

LEMMA AdmitsOnly ==
  ASSUME NEW r \in Responses, NEW S \in SUBSET Items, NEW run, NEW cut,
         Admit(r, S, run, cut)
  PROVE  CommitsOnly(r)
<1>1. Fresher(S) \subseteq Calls
  BY DEF Fresher, Named, Items
<1> QED  BY <1>1 DEF Admit, WithCalls, CommitsOnly

LEMMA EndingHeard ==
  ASSUME TypeOK, NEW r \in Responses, NEW ending \in {"completed", "cancelled", "failed"},
         NEW report \in Reports, NEW S \in SUBSET Items,
         ResponseDone(r, ending, report, S)
  PROVE  HeardOnly(r, report) /\ CommitsOnly(r) /\ UNCHANGED out_of_band_requested
<1> DEFINE y == Reported(responses[r], report)
           x == [y EXCEPT !.done = TRUE,
                          !.successful = (ending = "completed"),
                          !.cancelled = @ \/ ending = "cancelled"]
           rs == [responses EXCEPT ![r] = x]
<1>1. y \in ResponseRecords /\ y.conversation \in {responses[r].conversation, report}
  BY ReportedTruly, ReportsAssumption DEF TypeOK
<1>2. x \in ResponseRecords /\ x.conversation = y.conversation
  BY <1>1 DEF ResponseRecords
<1>3. \/ ContinueReady(rs, calls', admitted', active', create_id)
      \/ responses' = rs
      \/ responses' = [responses EXCEPT ![r] = y]
  BY DEF ResponseDone
<1>4. \/ UNCHANGED admitted
      \/ \E P \in SUBSET Items : \E run, cut : Admit(r, P, run, cut)
  <2>1. CASE AdmitThenFail(r, y, S)
    <3>1. PICK P \in SUBSET S : \E run, cut : Admission(r, P, run, cut)
      BY <2>1, BrokenAdmission
    <3> QED  BY <3>1 DEF Admission
  <2>2. CASE \E run \in SUBSET Named(S) : Admit(r, S, run, {})
    BY <2>2
  <2> QED  BY <2>1, <2>2 DEF ResponseDone
<1>5. CommitsOnly(r)
  BY <1>4, AdmitsOnly DEF CommitsOnly
<1>6. UNCHANGED out_of_band_requested
  BY DEF ResponseDone
<1>7. rs \in [Responses -> ResponseRecords]
  BY <1>2 DEF TypeOK
<1> HIDE DEF x, y
<1>8. CASE ContinueReady(rs, calls', admitted', active', create_id)
  <2>1. SameButContinued(rs)
    <3> HIDE DEF rs
    <3> QED  BY <1>7, <1>8, ContinueReadyFacts
  <2> QED  BY <1>1, <1>2, <1>5, <1>6, <2>1, HeardAs
<1>9. CASE responses' = [responses EXCEPT ![r] = y]
  BY <1>1, <1>5, <1>6, <1>9, HeardAs
<1>10. CASE responses' = rs
  BY <1>1, <1>2, <1>5, <1>6, <1>10, HeardAs
<1> QED  BY <1>3, <1>8, <1>9, <1>10

LEMMA ItemHeard ==
  ASSUME NEW r \in Responses, NEW item \in Items, OutputItemDone(r, item)
  PROVE  Unheard /\ CommitsOnly(r) /\ UNCHANGED out_of_band_requested
<1>1. {item} \in SUBSET Items
  OBVIOUS
<1>2. ASSUME AdmitThenFail(r, responses[r], {item})
      PROVE  CommitsOnly(r)
  <2>1. PICK P \in SUBSET {item} : \E run, cut : Admission(r, P, run, cut)
    BY <1>1, <1>2, BrokenAdmission
  <2>2. P \in SUBSET Items
    OBVIOUS
  <2> QED  BY <2>1, <2>2, AdmitsOnly DEF Admission
<1>3. CommitsOnly(r)
  BY <1>1, <1>2, AdmitsOnly DEF OutputItemDone
<1> QED  BY <1>3 DEF OutputItemDone, Unheard, requests

LEMMA RestHeardNothing ==
  ASSUME TypeOK, \/ SessionGoesOn \/ UNCHANGED vars
                 \/ \E r \in Responses : ResponseMentioned(r)
  PROVE  Unheard /\ UNCHANGED <<admitted, out_of_band_requested>>
<1> USE DEF ledgers, requests, playback, lifecycle, history
<1>1. ASSUME NEW c \in Calls, NEW own \in BOOLEAN, ItemReported(c, own)
      PROVE  Unheard /\ UNCHANGED <<admitted, out_of_band_requested>>
  <2>1. SameButContinued(responses)
    BY <1>1, ContinueReadyFacts DEF ItemReported, TypeOK
  <2> QED  BY <1>1, <2>1 DEF ItemReported, SameButContinued, Unheard
<1>2. ASSUME NEW q \in Requests, RequestRefused(q)
      PROVE  Unheard /\ UNCHANGED <<admitted, out_of_band_requested>>
  <2>1. SameButContinued(responses)
    BY <1>2, ContinueReadyFacts DEF RequestRefused, TypeOK
  <2> QED  BY <1>2, <2>1 DEF RequestRefused, SameButContinued, Unheard
<1>3. ASSUME NEW r \in Responses, StopSpeech(r)
      PROVE  Unheard /\ UNCHANGED <<admitted, out_of_band_requested>>
  BY <1>3 DEF StopSpeech, Unheard, TypeOK, ResponseRecords
<1>4. CASE UNCHANGED <<responses, admitted, out_of_band_requested>>
  BY <1>4 DEF Unheard
<1>5. CASE Tools \/ WindDown \/ Clock \/ Over
  BY <1>4, <1>5
  DEF Tools, TaskStarts, TaskReturns, TaskTimesOut, ToolJoined, ToolJoinFails, WindDown, AbortTools,
      AbortedJoined, PublishTerminal, PublishStatus, Clock, ResultUnacknowledged,
      RequestUnacknowledged, Uninitialized, Over, vars
<1>6. CASE \/ SessionUpdated \/ PeerFails \/ Stop \/ UNCHANGED vars
           \/ \E r \in Responses : ResponseMentioned(r)
           \/ \E c \in Calls : ResultRefused(c) \/ CancelTool(c)
  BY <1>4, <1>6
  DEF SessionUpdated, PeerFails, Stop, ResponseMentioned, ResultRefused, CancelTool, vars
<1> QED  BY <1>1, <1>2, <1>3, <1>5, <1>6 DEF SessionGoesOn

-----------------------------------------------------------------------------
\* What is heard truly, of responses that exist, keeps the session's beliefs
\* true and its commitments in the default conversation.  Before any request
\* out of band there is nothing else; after one, Admissible asks for a report.
LEMMA HeardTruly ==
  ASSUME EndpointInv, CallsKept, UNCHANGED <<ownerVars, out_of_band_requested>>,
         \/ Unheard
         \/ \E r \in Responses, report \in Reports : Truly(r, report) /\ HeardOnly(r, report),
         \A c \in admitted' \ admitted : owner[calls'[c].response] # "none"
  PROVE  EndpointInv'
<1> USE DEF EndpointInv, OwnerTypeOK, AskedInv, ownerVars
<1>1. TruthInv'
  BY DEF TruthInv, Unheard, HeardOnly, Truly
<1>2. ASSUME NEW c \in admitted'
      PROVE  calls'[c].response \in Responses /\ owner'[calls'[c].response] = "default"
  <2>1. CASE c \in admitted
    BY <2>1 DEF CommitInv, CallsKept
  <2>2. CASE c \notin admitted
    <3> DEFINE r == calls'[c].response
    <3>1. r \in Responses /\ Admissible(r) /\ owner[r] # "none"
      BY <1>2, <2>2 DEF CallsKept
    <3>2. CASE out_of_band_requested
      BY <1>1, <3>1, <3>2 DEF Admissible, TruthInv
    <3>3. CASE ~out_of_band_requested
      BY <3>1, <3>3 DEF Owners
    <3> QED  BY <3>1, <3>2, <3>3
  <2> QED  BY <2>1, <2>2
<1>3. CommitInv'
  BY <1>2 DEF CommitInv
<1> QED  BY <1>1, <1>3

LEMMA EndpointInvStep == TypeOK /\ EndpointInv /\ [ENext]_allVars => EndpointInv'
<1> SUFFICES ASSUME TypeOK, EndpointInv, [ENext]_allVars PROVE EndpointInv'
  OBVIOUS
<1>1. CallsKept
  BY StepsAreSteps, EveryStepKeepsCalls
<1>2. ASSUME NEW r \in Responses, NEW conversation \in {"default", "out_of_band"},
             EndpointCreates(r, conversation)
      PROVE  EndpointInv'
  <2>1. /\ owner[r] = "none" /\ owner' = [owner EXCEPT ![r] = conversation]
        /\ conversation = "out_of_band" => asked
        /\ UNCHANGED <<responses, calls, admitted, out_of_band_requested, asked>>
    BY <1>2 DEF EndpointCreates, vars, ledgers, requests
  <2>2. OwnerTypeOK' /\ AskedInv'
    BY <2>1 DEF EndpointInv, OwnerTypeOK, AskedInv, Owners
  <2>3. responses[r].conversation = "unreported"
    BY <2>1 DEF EndpointInv, TruthInv, TypeOK, ResponseRecords, Conversations
  <2>4. TruthInv'
    BY <2>1, <2>3 DEF EndpointInv, OwnerTypeOK, TruthInv
  <2>5. CommitInv'
    BY <2>1 DEF EndpointInv, OwnerTypeOK, CommitInv
  <2> QED  BY <2>2, <2>4, <2>5 DEF EndpointInv
<1>3. ASSUME NEW r \in Responses, NEW report \in Reports, Truly(r, report),
             ResponseCreated(r, report), UNCHANGED ownerVars
      PROVE  EndpointInv'
  BY <1>1, <1>3, CreationHeard, HeardTruly
<1>4. ASSUME NEW r \in Responses, NEW report \in Reports, Truly(r, report),
             NEW ending \in {"completed", "cancelled", "failed"}, NEW S \in SUBSET Items,
             ResponseDone(r, ending, report, S), UNCHANGED ownerVars
      PROVE  EndpointInv'
  <2>1. HeardOnly(r, report) /\ CommitsOnly(r) /\ UNCHANGED out_of_band_requested
    BY <1>4, EndingHeard
  <2> QED  BY <1>1, <1>4, <2>1, HeardTruly DEF CommitsOnly, Truly
<1>5. ASSUME NEW r \in Responses, NEW item \in Items, owner[r] # "none",
             OutputItemDone(r, item), UNCHANGED ownerVars
      PROVE  EndpointInv'
  <2>1. Unheard /\ CommitsOnly(r) /\ UNCHANGED out_of_band_requested
    BY <1>5, ItemHeard
  <2> QED  BY <1>1, <1>5, <2>1, HeardTruly DEF CommitsOnly
<1>6. ASSUME NEW q \in Requests, NEW out_of_band \in BOOLEAN, HostAsks(q, out_of_band)
      PROVE  EndpointInv'
  <2>1. /\ UNCHANGED <<responses, calls, admitted, owner>>
        /\ asked' = (asked \/ out_of_band)
        /\ out_of_band_requested' = (out_of_band_requested \/ out_of_band)
    BY <1>6 DEF HostAsks, Respond, ledgers
  <2> QED
    BY <2>1 DEF EndpointInv, OwnerTypeOK, AskedInv, TruthInv, CommitInv
<1>7. ASSUME UNCHANGED ownerVars,
             \/ SessionGoesOn \/ UNCHANGED vars
             \/ \E r \in Responses : ResponseMentioned(r)
      PROVE  EndpointInv'
  BY <1>1, <1>7, RestHeardNothing, HeardTruly
<1> QED
  BY <1>2, <1>3, <1>4, <1>5, <1>6, <1>7
  DEF ENext, SessionReads, SessionGoesOn, allVars

\* However creations, requests, calls and endings cross, and whatever the
\* endpoint leaves unreported, only calls of the default conversation run and
\* only its batches are continued.
THEOREM OnlyInBandRuns == ESpec => []InBandOnly
<1>1. EInit => EndpointInv
  <2> SUFFICES ASSUME EInit PROVE EndpointInv
    OBVIOUS
  <2>1. OwnerTypeOK /\ AskedInv
    BY DEF EInit, OwnerTypeOK, Owners, AskedInv
  <2>2. TruthInv /\ CommitInv
    BY DEF EInit, Init, TruthInv, CommitInv, NewResponse
  <2> QED  BY <2>1, <2>2 DEF EndpointInv
<1>2. TypeOK /\ EndpointInv /\ CallInv /\ ContinuedOnce => InBandOnly
  <2> SUFFICES ASSUME TypeOK, EndpointInv, CallInv, ContinuedOnce PROVE InBandOnly
    OBVIOUS
  <2>1. ASSUME NEW c \in Calls, executions[c] > 0
        PROVE  owner[calls[c].response] = "default"
    BY <2>1 DEF CallInv, CallAgrees, EndpointInv, CommitInv
  <2>2. ASSUME NEW r \in Responses, continuations[r] > 0
        PROVE  owner[r] = "default"
    <3>1. CallsOf(r) # {}
      BY <2>2 DEF ContinuedOnce, TypeOK
    <3> QED  BY <3>1 DEF CallsOf, EndpointInv, CommitInv
  <2> QED  BY <2>1, <2>2 DEF InBandOnly
<1> QED
  BY <1>1, <1>2, EndpointInvStep, CompositionCoordinates, TypeCorrect, CallsConsistent,
     BatchContinuedOnce, PTL DEF ESpec
=============================================================================
