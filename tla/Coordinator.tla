----------------------------- MODULE Coordinator -----------------------------
(***************************************************************************)
(* The session state machine of melipona: the Coordinator of               *)
(* src/src/session.rs, the tool tasks it spawns, and the wind-down of the  *)
(* task that owns it.  The host (commands), the endpoint (server events),  *)
(* the executor (tool tasks) and the clock (deadlines) are the             *)
(* environment: each may take any step the code accepts, in any order.     *)
(*                                                                         *)
(* An operator commented as a slip is a plausible error in the code that   *)
(* the operator after it models; the mutation runs put it in its place.    *)
(*                                                                         *)
(* A step is one handler run of the select! loop: to its end, or to the    *)
(* `?` at which a full queue breaks it off, what it did before remaining   *)
(* done.  Tool tasks and the wind-down interleave with it.  Playback       *)
(* positions, audio parts and formats are in Playback.tla.                 *)
(***************************************************************************)
EXTENDS Naturals, FiniteSets

CONSTANTS
  Responses,        \* response ids the endpoint may use
  Calls,            \* tool call ids the endpoint may use
  Inputs,           \* a call's name with its canonical arguments
  Runnable,         \* inputs that pass the size, JSON, name and schema checks
  Requests,         \* event ids of response.create
  Reports,          \* what the endpoint may report of a conversation
  ClientContinues,  \* Config.continuation = Continuation::Client
  ConcurrentTools,  \* Limits.concurrent_tools
  MaxResponses,     \* Limits.responses
  MaxCalls,         \* Limits.calls
  None

Conversations == {"unreported", "default", "out_of_band"}

PendingRecords == [id : Requests, out_of_band : BOOLEAN]

ASSUME InputsAssumption == Runnable \subseteq Inputs
ASSUME ReportsAssumption == Reports \subseteq Conversations
ASSUME NoneAssumption == None \notin PendingRecords
ASSUME LimitsAssumption ==
  /\ ConcurrentTools \in Nat
  /\ MaxResponses \in Nat
  /\ MaxCalls \in Nat
ASSUME ModeAssumption == ClientContinues \in BOOLEAN

VARIABLES
  responses,     \* the response ledger; unlisted ids hold NewResponse
  known,         \* the ids listed in it
  calls,         \* the call ledger; unlisted ids hold NoCall
  admitted,      \* the ids listed in it
  tasks,         \* the JoinSet: "none", "spawned", "running" or "finished"
  active,        \* default-conversation responses in progress
  create_id,     \* the request awaiting acknowledgement, or None
  out_of_band_requested,
  stopped,       \* PlaybackState.stopped
  terminal,      \* PlaybackState.terminal
  status,        \* the Status watch
  pc,            \* where the session task is: "loop", "abort", "join", ...
  outcome,       \* what run() will return
  executions,    \* history: how often each call's executor was invoked
  answers,       \* history: function_call_output items sent for each call
  continuations, \* history: continuation requests each batch took part in
  clears         \* history: playback_clear events of each response

ledgers == <<responses, known, calls, admitted>>
requests == <<active, create_id, out_of_band_requested>>
playback == <<stopped, terminal, clears>>
lifecycle == <<status, pc, outcome>>
history == <<executions, answers, continuations>>
vars == <<ledgers, tasks, requests, playback, lifecycle, history>>

NewResponse ==
  [created |-> FALSE, conversation |-> "unreported", done |-> FALSE,
   successful |-> FALSE, cancelled |-> FALSE, continued |-> FALSE]

NoCall ==
  [response |-> None, input |-> None, cancel |-> FALSE,
   finished |-> FALSE, accepted |-> FALSE, deadline |-> FALSE]

ResponseRecords ==
  [created : BOOLEAN, conversation : Conversations, done : BOOLEAN,
   successful : BOOLEAN, cancelled : BOOLEAN, continued : BOOLEAN]

CallRecords ==
  [response : Responses \cup {None}, input : Inputs \cup {None},
   cancel : BOOLEAN, finished : BOOLEAN, accepted : BOOLEAN, deadline : BOOLEAN]

Init ==
  /\ responses = [r \in Responses |-> NewResponse]
  /\ known = {}
  /\ calls = [c \in Calls |-> NoCall]
  /\ admitted = {}
  /\ tasks = [c \in Calls |-> "none"]
  /\ active = {}
  /\ create_id = None
  /\ out_of_band_requested = FALSE
  /\ stopped = {}
  /\ terminal = FALSE
  /\ status = "connecting"
  /\ pc = "loop"
  /\ outcome = "open"
  /\ executions = [c \in Calls |-> 0]
  /\ answers = [c \in Calls |-> 0]
  /\ continuations = [r \in Responses |-> 0]
  /\ clears = [r \in Responses |-> 0]

-----------------------------------------------------------------------------
(* The ledgers.                                                            *)

\* The calls of a response: Response.calls.
CallsOf(r) == {c \in admitted : calls[c].response = r}

\* The tasks JoinSet still holds.
Tasks == {c \in Calls : tasks[c] # "none"}

\* response(): an id new to a full ledger ends the session.
CanKnow(r) == r \in known \/ Cardinality(known) < MaxResponses

\* state.conversation.or(report): the first report stands.
Reported(x, report) ==
  IF x.conversation = "unreported" THEN [x EXCEPT !.conversation = report] ELSE x

\* Slip: a batch is due when its results are sent, not accepted.
DueWhenSent(rs, cs, adm) ==
  {r \in Responses :
     /\ rs[r].done /\ rs[r].successful
     /\ ~rs[r].cancelled /\ ~rs[r].continued
     /\ \E c \in adm : cs[c].response = r
     /\ \A c \in adm : cs[c].response = r => cs[c].finished}

\* A batch whose continuation is due: the filter of continue_ready().
Due(rs, cs, adm) ==
  {r \in Responses :
     /\ rs[r].done /\ rs[r].successful
     /\ ~rs[r].cancelled /\ ~rs[r].continued
     /\ \E c \in adm : cs[c].response = r
     /\ \A c \in adm : cs[c].response = r => cs[c].accepted}

\* A fresh event id: never the one still awaiting acknowledgement.
Fresh(q) == create_id # None => q # create_id.id

\* The early return of continue_ready().
MayContinue(act, pending) == ClientContinues /\ act = {} /\ pending = None

\* An error out of a handler or a deadline: run() leaves its loop.
Fail == pc' = "abort" /\ outcome' = "failed" /\ UNCHANGED status
Continue == UNCHANGED lifecycle

\* continue_ready(), which ends a handler that has computed rs, cs, act and
\* pending: one request stands for every batch that is due, unless the write
\* queue does not take it.
ContinueReady(rs, cs, adm, act, pending) ==
  LET due == Due(rs, cs, adm)
      goes == MayContinue(act, pending) /\ due # {}
  IN \/ /\ goes /\ Continue
        /\ \E q \in Requests :
             Fresh(q) /\ create_id' = [id |-> q, out_of_band |-> FALSE]
        /\ responses' = [r \in Responses |->
             IF r \in due THEN [rs[r] EXCEPT !.continued = TRUE] ELSE rs[r]]
        /\ continuations' = [r \in Responses |->
             IF r \in due THEN continuations[r] + 1 ELSE continuations[r]]
     \/ /\ IF goes THEN Fail ELSE Continue
        /\ create_id' = pending
        /\ responses' = rs
        /\ UNCHANGED continuations

-----------------------------------------------------------------------------
(* Tool admission: admit(), over the set of function items one event       *)
(* carries, each a pair of a call id and an input.                         *)

Items == Calls \X Inputs
Named(S) == {item[1] : item \in S}

\* Slip: call ids are not looked up before they are admitted.
Unseen(S) == Named(S)

\* The items that are not duplicates of an admitted call.
Fresher(S) == Named(S) \ admitted

\* Slip: what is out of band only does not occupy the conversation.
SkippedWhenStopped(x) == x.cancelled

\* Calls of stopped and of out-of-band responses are the host's business.
Skipped(x) == x.cancelled \/ x.conversation = "out_of_band"

\* Slip: a report that comes with response.created is waited for, so that
\* only calls of responses already created are held to it.
UnattributedOnceCreated(x, S) ==
  S # {} /\ out_of_band_requested /\ x.created /\ x.conversation = "unreported"

\* Some item's response might be out of band.
Unattributed(x, S) ==
  S # {} /\ out_of_band_requested /\ x.conversation = "unreported"

\* An item repeats a call id with another owner, name or arguments.
Conflicting(r, S) ==
  \/ \E item \in S : /\ item[1] \in admitted
                     /\ \/ calls[item[1]].response # r
                        \/ calls[item[1]].input # item[2]
  \/ \E a, b \in S : a[1] = b[1] /\ a[2] # b[2]

\* Slip: only a failed response is closed to new calls.
LateIfFailed(x, S) == x.done /\ ~x.successful /\ Fresher(S) # {}

\* A new call comes after its response ended.
Late(x, S) == x.done /\ Fresher(S) # {}

\* The items cannot all be admitted to response r, whose record is x.
Refused(r, x, S) ==
  \/ Unattributed(x, S) \/ Conflicting(r, S) \/ Late(x, S)
  \/ Cardinality(admitted \cup Named(S)) > MaxCalls

\* Slip: the concurrency limit is off by one.
DispatchedOneOver(S, run) ==
  LET runnable == {c \in Fresher(S) : \E i \in Runnable : <<c, i>> \in S}
      used == Cardinality(Tasks \cup run)
  IN /\ run \subseteq runnable
     /\ run = {} \/ used <= ConcurrentTools + 1
     /\ run = runnable \/ used > ConcurrentTools

\* run is what may be dispatched of S: the runnable new calls, up to the
\* concurrency limit.  Which ones the limit spares depends on their order.
Dispatched(S, run) ==
  LET runnable == {c \in Fresher(S) : \E i \in Runnable : <<c, i>> \in S}
      used == Cardinality(Tasks \cup run)
  IN /\ run \subseteq runnable
     /\ run = {} \/ used <= ConcurrentTools
     /\ run = runnable \/ used >= ConcurrentTools

\* The call ledger after admitting S: what is not left open is answered with
\* an error at once, which arms its acknowledgement deadline.
WithCalls(r, S, open) ==
  [c \in Calls |->
     IF c \in Fresher(S)
     THEN [response |-> r, input |-> CHOOSE i \in Inputs : <<c, i>> \in S,
           cancel |-> FALSE, finished |-> c \notin open, accepted |-> FALSE,
           deadline |-> c \notin open]
     ELSE calls[c]]

\* The items of S are admitted, those of the calls in cut only entered in the
\* ledger.
Admit(r, S, run, cut) ==
  /\ Dispatched({item \in S : item[1] \notin cut}, run)
  /\ calls' = WithCalls(r, S, run \cup cut)
  /\ admitted' = admitted \cup Fresher(S)
  /\ tasks' = [c \in Calls |-> IF c \in run THEN "spawned" ELSE tasks[c]]
  /\ answers' = [c \in Calls |->
       IF c \in Fresher(S) \ (run \cup cut) THEN answers[c] + 1 ELSE answers[c]]
  /\ UNCHANGED executions

\* admit() fails the session.  Either the items before a refused one have been
\* admitted; or a queue was full, and those up to c have, the call c itself
\* being cut off before its task or its result, or after its result.
AdmitThenFail(r, x, S) ==
  /\ \E P \in SUBSET S : \E run \in SUBSET Named(P) :
       /\ ~Refused(r, x, P)
       /\ \/ /\ \E item \in S \ P : Refused(r, x, P \cup {item})
             /\ Admit(r, P, run, {})
          \/ \E c \in Fresher(P) \ run :
               Admit(r, P, run, {c}) \/ Admit(r, P, run, {})
  /\ Fail

-----------------------------------------------------------------------------
(* Server events.                                                          *)

\* session.updated: the loop then publishes Status::Ready.
SessionUpdated ==
  /\ pc = "loop" /\ status = "connecting"
  /\ status' = "ready"
  /\ UNCHANGED <<ledgers, tasks, requests, playback, pc, outcome, history>>

\* Slip: a creation that arrives after its response ended still occupies
\* the default conversation.
SpeaksEvenDone(x, report) == report # "out_of_band"

\* The creation starts a response of the default conversation.
Speaks(x, report) == report # "out_of_band" /\ ~x.done

\* The creation may answer the pending request.
Settles(report) ==
  create_id # None
    /\ (report = "unreported" \/ (report = "default") # create_id.out_of_band)

\* response.created, the first for r; a repetition changes nothing.  It
\* settles the pending request unless its reported ownership rules it out.
ResponseCreated(r, report) ==
  /\ pc = "loop" /\ CanKnow(r) /\ ~responses[r].created
  /\ LET x == [Reported(responses[r], report) EXCEPT !.created = TRUE]
         pending == IF Settles(report) THEN None ELSE create_id
     IN /\ active' = IF Speaks(x, report) THEN active \cup {r} ELSE active
        /\ known' = known \cup {r}
        /\ ContinueReady([responses EXCEPT ![r] = x], calls, admitted,
                         active', pending)
  /\ UNCHANGED <<calls, admitted, tasks, out_of_band_requested, playback,
                 executions, answers>>

\* An audio delta, at this level, only lists its response.
ResponseMentioned(r) ==
  /\ pc = "loop" /\ r \notin known /\ CanKnow(r)
  /\ known' = known \cup {r}
  /\ Continue
  /\ UNCHANGED <<responses, calls, admitted, tasks, requests, playback, history>>

\* response.output_item.done with a completed function call.
OutputItemDone(r, item) ==
  /\ pc = "loop" /\ CanKnow(r) /\ ~Skipped(responses[r])
  /\ known' = known \cup {r}
  /\ \/ /\ ~Refused(r, responses[r], {item})
        /\ \E run \in SUBSET {item[1]} : Admit(r, {item}, run, {})
        /\ Continue
     \/ AdmitThenFail(r, responses[r], {item})
  /\ UNCHANGED <<responses, requests, playback, continuations>>

\* Slip: the host is told again of a response it already stopped.
ClearPlaybackAgain(r) ==
  /\ stopped' = stopped \cup {r}
  /\ clears' = [clears EXCEPT ![r] = @ + 1]

\* clear_playback(): only the first stop of a response is announced.
ClearPlayback(r) ==
  /\ stopped' = stopped \cup {r}
  /\ clears' = IF r \in stopped THEN clears ELSE [clears EXCEPT ![r] = @ + 1]

\* The event queue is full: the watch stops the response, but the host is not
\* told.
ClearPlaybackFails(r) ==
  /\ r \notin stopped
  /\ stopped' = stopped \cup {r}
  /\ UNCHANGED clears
  /\ Fail

\* response.done, first or repeated.  The completed calls S of its output
\* reconcile missing item events; output that is not read counts as empty.  A
\* cancelled status stops playback.
ResponseDone(r, ending, report, S) ==
  /\ pc = "loop" /\ CanKnow(r)
  /\ LET x == Reported(responses[r], report)
         ended == [x EXCEPT !.done = TRUE,
                            !.successful = (ending = "completed"),
                            !.cancelled = @ \/ ending = "cancelled"]
     IN /\ S # {} => ending = "completed" /\ ~Skipped(x)
        /\ known' = known \cup {r}
        /\ \/ /\ ~Refused(r, x, S)
              /\ \E run \in SUBSET Named(S) : Admit(r, S, run, {})
              /\ active' = active \ {r}
              /\ IF ending = "cancelled"
                 THEN ClearPlayback(r) ELSE UNCHANGED <<stopped, clears>>
              /\ ContinueReady([responses EXCEPT ![r] = ended], calls',
                               admitted', active', create_id)
           \/ /\ ending = "cancelled" /\ ClearPlaybackFails(r)
              /\ responses' = [responses EXCEPT ![r] = ended]
              /\ active' = active \ {r}
              /\ UNCHANGED <<calls, admitted, tasks, create_id, history>>
           \/ /\ AdmitThenFail(r, x, S)
              /\ responses' = [responses EXCEPT ![r] = x]
              /\ UNCHANGED <<active, create_id, stopped, clears, continuations>>
  /\ UNCHANGED <<out_of_band_requested, terminal>>

\* Slip: the acknowledgement does not lift its deadline.
AcceptedStillDue(c) ==
  IF c \in admitted /\ calls[c].finished
  THEN [calls EXCEPT ![c].accepted = TRUE] ELSE calls

\* Slip: a result not yet sent can be acknowledged.
AcceptedUnsent(c) ==
  IF c \in admitted THEN [calls EXCEPT ![c].accepted = TRUE] ELSE calls

\* The call ledger once the endpoint reports the result item of c.
Accepted(c) ==
  IF c \in admitted /\ calls[c].finished
  THEN [calls EXCEPT ![c].accepted = TRUE, ![c].deadline = FALSE] ELSE calls

\* conversation.item.added/done/created of a function_call_output: it accepts
\* the result if the item is the result's own, and reconsiders the batches.
ItemReported(c, own) ==
  /\ pc = "loop"
  /\ calls' = IF own THEN Accepted(c) ELSE calls
  /\ ContinueReady(responses, calls', admitted, active, create_id)
  /\ UNCHANGED <<known, admitted, tasks, active, out_of_band_requested,
                 playback, executions, answers>>

\* Slip: the batches that waited for the refused request are not reconsidered.
RequestRefusedOnly(q) ==
  /\ pc = "loop" /\ status = "ready"
  /\ create_id # None /\ create_id.id = q
  /\ create_id' = None
  /\ Continue
  /\ UNCHANGED <<ledgers, tasks, active, out_of_band_requested, playback, history>>

\* error naming the pending request: no retry, the consumer decides.  An
\* error naming anything else is only forwarded.
RequestRefused(q) ==
  /\ pc = "loop" /\ status = "ready"
  /\ create_id # None /\ create_id.id = q
  /\ ContinueReady(responses, calls, admitted, active, None)
  /\ UNCHANGED <<known, calls, admitted, tasks, active, out_of_band_requested,
                 playback, executions, answers>>

\* error naming a tool result, accepted or not: the result is not retried.
ResultRefused(c) ==
  /\ pc = "loop" /\ c \in admitted /\ calls[c].finished
  /\ Fail
  /\ UNCHANGED <<ledgers, tasks, requests, playback, history>>

\* Disconnection, malformed or ill-formatted input, an error before ready,
\* silence beyond the idle timeout, a full ledger, a failed write, a queue that
\* is full before the first change a handler makes or after its last.
PeerFails ==
  /\ pc = "loop"
  /\ Fail
  /\ UNCHANGED <<ledgers, tasks, requests, playback, history>>

-----------------------------------------------------------------------------
(* Host commands.  A rejected command changes nothing.                     *)

\* respond: create_response().  Ordinary commands wait for ready.
Respond(q, out_of_band) ==
  /\ pc = "loop" /\ status = "ready"
  /\ create_id = None
  /\ out_of_band \/ active = {}
  /\ create_id' = [id |-> q, out_of_band |-> out_of_band]
  /\ out_of_band_requested' = (out_of_band_requested \/ out_of_band)
  /\ Continue
  /\ UNCHANGED <<ledgers, tasks, active, playback, history>>

\* interrupt and playback_stopped: clear_playback().  They differ in the
\* response.cancel frame that only an interrupt of a live response sends.
StopSpeech(r) ==
  /\ pc = "loop" /\ r \in known
  /\ responses' = [responses EXCEPT ![r].cancelled = TRUE]
  /\ (ClearPlayback(r) /\ Continue) \/ ClearPlaybackFails(r)
  /\ UNCHANGED <<known, calls, admitted, tasks, requests, terminal, history>>

\* Slip: cancelling a tool counts as its answer.
CancelToolForGood(c) ==
  /\ pc = "loop" /\ c \in admitted /\ ~calls[c].finished
  /\ calls' = [calls EXCEPT ![c].cancel = TRUE, ![c].finished = TRUE]
  /\ Continue
  /\ UNCHANGED <<responses, known, admitted, tasks, requests, playback, history>>

\* cancel_tool: cooperative, the task answers in its own time.
CancelTool(c) ==
  /\ pc = "loop" /\ c \in admitted /\ ~calls[c].finished
  /\ calls' = [calls EXCEPT ![c].cancel = TRUE]
  /\ Continue
  /\ UNCHANGED <<responses, known, admitted, tasks, requests, playback, history>>

\* close, Session::finish, a dropped session or a dropped event receiver.
Stop ==
  /\ pc = "loop"
  /\ pc' = "abort" /\ outcome' = "closed"
  /\ UNCHANGED <<ledgers, tasks, requests, playback, status, history>>

-----------------------------------------------------------------------------
(* Tool tasks: execute() on the runtime's workers.                         *)

\* The first poll looks at the cancellation token, then invokes the executor.
TaskStarts(c) ==
  /\ pc \in {"loop", "abort"} /\ tasks[c] = "spawned"
  /\ IF calls[c].cancel
     THEN /\ tasks' = [tasks EXCEPT ![c] = "finished"]
          /\ UNCHANGED executions
     ELSE /\ tasks' = [tasks EXCEPT ![c] = "running"]
          /\ executions' = [executions EXCEPT ![c] = @ + 1]
  /\ UNCHANGED <<ledgers, requests, playback, lifecycle, answers, continuations>>

\* The executor returns, fails or panics, or its token is cancelled.
TaskReturns(c) ==
  /\ pc \in {"loop", "abort"} /\ tasks[c] = "running"
  /\ tasks' = [tasks EXCEPT ![c] = "finished"]
  /\ UNCHANGED <<ledgers, requests, playback, lifecycle, history>>

\* The tool deadline cancels the token and gives up the executor's future.
TaskTimesOut(c) ==
  /\ pc \in {"loop", "abort"} /\ tasks[c] = "running"
  /\ tasks' = [tasks EXCEPT ![c] = "finished"]
  /\ calls' = [calls EXCEPT ![c].cancel = TRUE]
  /\ UNCHANGED <<responses, known, admitted, requests, playback, lifecycle, history>>

Joinable(c) == tasks[c] = "finished"

\* Slip: a result is sent without a deadline for its acknowledgement.
AnsweredUnsupervised(c) == [calls EXCEPT ![c].finished = TRUE]

\* tool_result(): the result item is sent and its deadline armed.
Answered(c) == [calls EXCEPT ![c].finished = TRUE, ![c].deadline = TRUE]

\* join_next() yields a finished task: tool_joined() sends its result.
ToolJoined(c) ==
  /\ pc = "loop" /\ Joinable(c)
  /\ tasks' = [tasks EXCEPT ![c] = "none"]
  /\ calls' = Answered(c)
  /\ answers' = [answers EXCEPT ![c] = @ + 1]
  /\ Continue
  /\ UNCHANGED <<responses, known, admitted, requests, playback, executions,
                 continuations>>

\* The write queue does not take the result of a task that has left the JoinSet,
\* or the task itself has failed.
ToolJoinFails(c) ==
  /\ pc = "loop" /\ Joinable(c)
  /\ tasks' = [tasks EXCEPT ![c] = "none"]
  /\ Fail
  /\ UNCHANGED <<ledgers, requests, playback, history>>

-----------------------------------------------------------------------------
(* Deadlines: check_deadlines().                                           *)

ResultUnacknowledged(c) ==
  /\ pc = "loop" /\ calls[c].deadline
  /\ Fail
  /\ UNCHANGED <<ledgers, tasks, requests, playback, history>>

\* Slip: an out-of-band request has no deadline.
DefaultRequestUnacknowledged ==
  /\ pc = "loop" /\ create_id # None /\ ~create_id.out_of_band
  /\ Fail
  /\ UNCHANGED <<ledgers, tasks, requests, playback, history>>

RequestUnacknowledged ==
  /\ pc = "loop" /\ create_id # None
  /\ Fail
  /\ UNCHANGED <<ledgers, tasks, requests, playback, history>>

Uninitialized ==
  /\ pc = "loop" /\ status = "connecting"
  /\ Fail
  /\ UNCHANGED <<ledgers, tasks, requests, playback, history>>

-----------------------------------------------------------------------------
(* Wind-down: the tail of run() and the task that awaits it.               *)

\* Every token is cancelled and every task aborted, started or not.
AbortTools ==
  /\ pc = "abort" /\ pc' = "join"
  /\ calls' = [c \in Calls |->
       IF c \in admitted THEN [calls[c] EXCEPT !.cancel = TRUE] ELSE calls[c]]
  /\ UNCHANGED <<responses, known, admitted, tasks, requests, playback,
                 status, outcome, history>>

\* Slip: the wind-down waits for running tools without aborting them.
AbortedJoinedUnlessRunning(c) ==
  /\ pc = "join" /\ tasks[c] \in {"spawned", "finished"}
  /\ tasks' = [tasks EXCEPT ![c] = "none"]
  /\ UNCHANGED <<ledgers, requests, playback, lifecycle, history>>

\* An aborted task is dropped once its poll in progress yields.
AbortedJoined(c) ==
  /\ pc = "join" /\ tasks[c] # "none"
  /\ tasks' = [tasks EXCEPT ![c] = "none"]
  /\ UNCHANGED <<ledgers, requests, playback, lifecycle, history>>

\* Slip: aborted tasks are not joined.
PublishTerminalEarly ==
  /\ pc = "join"
  /\ pc' = "publish"
  /\ terminal' = TRUE
  /\ UNCHANGED <<ledgers, tasks, requests, stopped, clears, status, outcome, history>>

\* run() has returned: all queued playback is invalidated.
PublishTerminal ==
  /\ pc = "join" /\ Tasks = {}
  /\ pc' = "publish"
  /\ terminal' = TRUE
  /\ UNCHANGED <<ledgers, tasks, requests, stopped, clears, status, outcome, history>>

PublishStatus ==
  /\ pc = "publish"
  /\ pc' = "over"
  /\ status' = outcome
  /\ UNCHANGED <<ledgers, tasks, requests, playback, outcome, history>>

Over == pc = "over" /\ UNCHANGED vars

-----------------------------------------------------------------------------
Server ==
  \/ SessionUpdated
  \/ \E r \in Responses, report \in Reports : ResponseCreated(r, report)
  \/ \E r \in Responses : ResponseMentioned(r)
  \/ \E r \in Responses, item \in Items : OutputItemDone(r, item)
  \/ \E r \in Responses, ending \in {"completed", "cancelled", "failed"},
        report \in Reports, S \in SUBSET Items : ResponseDone(r, ending, report, S)
  \/ \E c \in Calls, own \in BOOLEAN : ItemReported(c, own)
  \/ \E q \in Requests : RequestRefused(q)
  \/ \E c \in Calls : ResultRefused(c)
  \/ PeerFails

Host ==
  \/ \E q \in Requests, out_of_band \in BOOLEAN : Respond(q, out_of_band)
  \/ \E r \in Responses : StopSpeech(r)
  \/ \E c \in Calls : CancelTool(c)
  \/ Stop

Tools ==
  \E c \in Calls :
    \/ TaskStarts(c) \/ TaskReturns(c) \/ TaskTimesOut(c)
    \/ ToolJoined(c) \/ ToolJoinFails(c)

Clock ==
  \/ \E c \in Calls : ResultUnacknowledged(c)
  \/ RequestUnacknowledged
  \/ Uninitialized

WindDown ==
  \/ AbortTools
  \/ \E c \in Calls : AbortedJoined(c)
  \/ PublishTerminal
  \/ PublishStatus

Next == Server \/ Host \/ Tools \/ Clock \/ WindDown \/ Over

Spec == Init /\ [][Next]_vars

-----------------------------------------------------------------------------
(* Invariants.                                                             *)

\* Every variable holds a value of its kind: the ledgers are total functions
\* whose unlisted entries stand for absent ones.
TypeOK ==
  /\ responses \in [Responses -> ResponseRecords]
  /\ known \in SUBSET Responses
  /\ calls \in [Calls -> CallRecords]
  /\ admitted \in SUBSET Calls
  /\ tasks \in [Calls -> {"none", "spawned", "running", "finished"}]
  /\ active \in SUBSET Responses
  /\ create_id \in PendingRecords \cup {None}
  /\ out_of_band_requested \in BOOLEAN
  /\ stopped \in SUBSET Responses
  /\ terminal \in BOOLEAN
  /\ status \in {"connecting", "ready", "closed", "failed"}
  /\ pc \in {"loop", "abort", "join", "publish", "over"}
  /\ outcome \in {"open", "closed", "failed"}
  /\ executions \in [Calls -> Nat]
  /\ answers \in [Calls -> Nat]
  /\ continuations \in [Responses -> Nat]
  /\ clears \in [Responses -> Nat]

\* docs/protocol.md: "Identical call IDs and canonical arguments execute once
\* per session."  However often, late or by whichever event a call is
\* reported, its executor runs at most once and one result answers it.
AtMostOnce == \A c \in Calls : executions[c] <= 1 /\ answers[c] <= 1

\* The committed calls that have neither a task nor a sent result.
Lost == {c \in admitted : tasks[c] = "none" /\ ~calls[c].finished}

\* While the session lives no committed call is lost and none is answered
\* behind its task's back: a call has either a task or a sent result.  A full
\* queue that breaks a handler off ends the session and loses one call at most.
CallsAccountedFor ==
  /\ \A c \in Calls : tasks[c] # "none" => c \in admitted /\ ~calls[c].finished
  /\ pc = "loop" => Lost = {}
  /\ pc = "abort" => \A c, d \in Lost : c = d /\ outcome = "failed"

\* A result is under its acknowledgement deadline from the moment it is sent
\* until it is accepted: no lost acknowledgement goes unnoticed, and no
\* deadline outlives its acknowledgement.
ResultsSupervised ==
  \A c \in Calls :
    /\ calls[c].deadline <=> calls[c].finished /\ ~calls[c].accepted
    /\ calls[c].accepted => answers[c] = 1

\* The default conversation has one speaker: active holds just its responses
\* in progress, and no request for another is pending beside one.
OneSpeaker ==
  /\ active = {r \in Responses : /\ responses[r].created /\ ~responses[r].done
                                 /\ responses[r].conversation # "out_of_band"}
  /\ create_id # None /\ active # {} => create_id.out_of_band

\* docs/protocol.md: client continuation "waits for the response to finish
\* successfully and for all results to be accepted, then sends one
\* response.create".  No order of events leaves a batch behind: when nothing
\* blocks the request any more, it has been made.
NoForgottenBatch ==
  pc = "loop" /\ ClientContinues /\ active = {} /\ create_id = None
    => Due(responses, calls, admitted) = {}

\* A batch takes part in one request, never before its last result is in,
\* and only when the client owns continuation.
ContinuedOnce ==
  \A r \in Responses :
    /\ continuations[r] = IF responses[r].continued THEN 1 ELSE 0
    /\ responses[r].continued =>
         /\ ClientContinues /\ responses[r].done /\ CallsOf(r) # {}
         /\ \A c \in CallsOf(r) : calls[c].accepted

\* The playback watch and the ledger agree on what is stopped, and the host
\* is told once, and only of stopped responses, to clear what it has queued: of
\* each of them, unless that found the event queue full, which ended the session.
StoppedAgrees ==
  /\ stopped = {r \in Responses : responses[r].cancelled}
  /\ \A r \in Responses : clears[r] <= IF r \in stopped THEN 1 ELSE 0
  /\ \A r \in stopped : clears[r] = 0 => pc # "loop" /\ outcome = "failed"

\* A host that sees a final status finds every tool task gone and all queued
\* playback invalid: the status is the last thing the session publishes.
QuietWhenOver ==
  /\ status \in {"closed", "failed"} => terminal
  /\ terminal => Tasks = {}

\* Concurrency and the lifetime ledgers stay within their limits.
Bounded ==
  /\ Cardinality(Tasks) <= ConcurrentTools
  /\ Cardinality(known) <= MaxResponses
  /\ Cardinality(admitted) <= MaxCalls

-----------------------------------------------------------------------------
(* Action properties.                                                      *)

\* No call is committed for a stopped or ended response; once an out-of-band
\* response was requested, none is committed whose response the endpoint has
\* not attributed to the default conversation.
Attributed ==
  [][\A c \in admitted' \ admitted :
       LET r == calls'[c].response
       IN /\ ~responses[r].cancelled /\ ~responses[r].done
          /\ out_of_band_requested => responses'[r].conversation = "default"]_vars

\* An ended response's batch is closed: no later event adds, removes or
\* reassigns one of its calls, so what was continued stays what was run.
BatchFrozen ==
  [][\A r \in Responses : responses[r].done => CallsOf(r)' = CallsOf(r)]_vars

-----------------------------------------------------------------------------
(* Refinement: the contract of ToolContract.tla, read off the ledgers.     *)

Stage(c) ==
  IF c \notin admitted THEN "absent"
  ELSE IF calls[c].accepted THEN "acknowledged"
  ELSE IF calls[c].finished THEN "answered" ELSE "committed"

Contract == INSTANCE ToolContract WITH
  stage <- [c \in Calls |-> Stage(c)],
  runs <- executions,
  session <- CASE pc = "loop" -> "open" [] pc = "abort" -> "closing"
               [] OTHER -> "quiet"

\* The session implements the contract of its tool calls.
KeepsContract == Contract!Spec

-----------------------------------------------------------------------------
(* Liveness.  The runtime polls every task, the loop's select! is fair to   *)
(* its ready arms, and its tick fires; tools return or time out.            *)

Fairness ==
  /\ \A c \in Calls :
       /\ WF_vars(TaskStarts(c))
       /\ WF_vars(TaskTimesOut(c))
       /\ WF_vars(ToolJoined(c))
       /\ WF_vars(ResultUnacknowledged(c))
       /\ WF_vars(AbortedJoined(c))
  /\ WF_vars(RequestUnacknowledged)
  /\ WF_vars(Uninitialized)
  /\ WF_vars(AbortTools)
  /\ WF_vars(PublishTerminal)
  /\ WF_vars(PublishStatus)

FairSpec == Spec /\ Fairness

\* src/src/lib.rs, ToolState::Admitted: "exactly one result follows unless
\* the session ends first".  It is sent, and accepted or ends the session: it is
\* never left in doubt, whatever tool and endpoint do.
EveryCallSettled ==
  \A c \in Calls : c \in admitted ~> (calls[c].accepted \/ pc # "loop")

\* A request is settled or ends the session: none blocks the next for ever.
EveryRequestSettled ==
  \A q \in Requests :
    (create_id # None /\ create_id.id = q)
      ~> (create_id = None \/ create_id.id # q \/ pc # "loop")

\* A session that leaves its loop tears its tools down and publishes how it
\* ended.
EveryEndPublished == pc # "loop" ~> status \in {"closed", "failed"}

\* An endpoint that ends the responses it creates.
EndpointFairness ==
  \A r \in Responses :
    WF_vars(responses[r].created /\ ~responses[r].done
            /\ \E report \in Reports : ResponseDone(r, "completed", report, {}))

\* A successful batch is continued, unless it is stopped, reported as failed
\* after all, or the session ends: neither other responses nor the host's own
\* requests can postpone it for ever.
EveryBatchContinued ==
  \A r \in Responses :
    (responses[r].done /\ responses[r].successful /\ CallsOf(r) # {}
       /\ ClientContinues)
      ~> \/ responses[r].continued
         \/ responses[r].cancelled \/ ~responses[r].successful
         \/ pc # "loop"

HonestSpec == FairSpec /\ EndpointFairness
=============================================================================
