# A verification development for melipona

melipona is a Rust harness for realtime speech-to-speech endpoints: one library
task owns a WebSocket, translates the protocol into events for a host, runs the
tools the model calls, asks for continuations, and keeps the ledger of what the
host actually played. `melipona` (the command) wraps it in stdin/stdout JSON
lines.

This directory holds TLA+ models of that program, TLC configurations that check
them on small instances, and TLAPS proofs for every value of the constants.
Paths below are those of the repository, whose root is `src/` here.

## 1. The system

| Part | Source | State it keeps | Operations |
|---|---|---|---|
| Session coordinator | `src/src/session.rs` 261-1170 | response, call and audio ledgers, `active`, `create_id`, `out_of_band_requested`, deadlines, formats | a handler per server event, per command, per joined tool, per deadline |
| Tool tasks | `session.rs` 401-447 | one task and one cancellation token per admitted call, in a `JoinSet` | first poll, return, panic, timeout, abort, join |
| Wind-down and status | `session.rs` 160-190, 350-372 | `Status` and `PlaybackState` watches | cancel and abort tools, join, terminal playback, final status |
| Playback and audio ledger | `session.rs` 640-860 | bytes, format, heard position and truncation per audio part | deltas, `interrupt`, `playback_stopped`, Frankie positions |
| Lanes, writer, watchdog | `session.rs` 80-158, 320-345, 374-400, 455-470 | bounded command, control, event and two socket queues; ping and pong times | `Handle::send`, `emit`, the biased writer, the heartbeat |
| Endpoint | outside; `docs/protocol.md` | its own session, responses and items | sends server events in order, some time after it decided them |
| Connection set-up | `session.rs` `connect`, `lib.rs` | none before the task is spawned | checks of the configuration, handshake |
| Tool registry | `src/src/tools.rs` | compiled schemas | validation of a call's name and arguments |
| Local MCP tools | `src/src/mcp.rs` | catalogue and routes; child processes and connections, calls in flight, a task tracker | start and list all servers; call, cancel, drop, time out; shut down |
| Command line host | `src/src/main.rs` | stdin and stdout threads, a `select!` loop | forward events, wind down, exit code |
| Soak host | `src/examples/soak/main.rs`, `player.rs` | queued, rendered and stopped audio per part; truncations it waits for | add, render, stop, report, settle a turn |
| Conformance program, soak scenarios | `src/examples/` | a script | drive the library against a live endpoint, one call after the other |

How they interact. The host calls `Handle::send`, which puts a command on one of
two bounded lanes: *controls* (interrupt, playback_stopped, cancel_tool, close)
and ordinary commands, which wait until the session is ready. The coordinator is
a single task whose `select!` takes a control, a command, a socket message, a
finished tool or a tick, runs one handler, and puts frames on the
writer's urgent or ordinary queue and events on the host's queue. Tool tasks run
on other threads and come back only through the `JoinSet`. `Status` and
`PlaybackState` are watches, read by the host at any time. When the loop ends,
for whatever reason, the same task cancels and aborts tools, joins them,
publishes terminal playback, and last the status. The command line host adds two
blocking threads and its own `select!` over Ctrl+C, thread errors, events and the
status.

What is hard about it:

* **Order.** A response's creation, its audio, its item events and its end may
  come repeated, late or interleaved with those of another response; a creation
  names no request, so it may settle one it does not answer; the same call is
  reported twice by design; a control overtakes commands sent before it.
* **Wake-ups.** A batch of results waits for the last of four obstacles to go;
  whichever handler removes it must look.
* **Attribution.** Once out-of-band responses were requested, a response whose
  conversation is unreported must not run tools.
* **Interleaving.** A tool is cancelled, timed out or aborted before it is first
  polled, while it runs, or when finished and not joined.
* **Measurement.** Audio is measured in a format that may change between the
  request, the creation and the audio.
* **Endings.** Everything can end the session, in the middle of a handler too,
  and none of it may leave a tool running behind a final status, a writer
  unjoined, a child process behind, or a program waiting for a pipe.
* **Two owners of one truth.** What was heard is known to the host, told to the
  session through two lanes that overtake each other, and cut at the endpoint;
  audio of a stopped response is still under way meanwhile.
* **Processes.** A call of a local server is dropped at any await; its
  cancellation notice is a detached task that races the shutdown of the servers.

What makes each part correct: *coordinator*, a call runs at most once and gets
one supervised result, a batch is continued exactly once and never forgotten, one
response speaks at a time; *tools*, concurrency is bounded and nothing outlives
the status; *playback*, the endpoint forgets exactly what was not heard, in true
milliseconds; *lanes*, a full queue breaks a handler off without a lie, the cause
of an ending is told, and every dead session ends; *MCP*, a route leads to what
was advertised, what a call says of its dispatch is true, nothing runs on;
*command line*, it ends when told to, after its session, with the right exit
code; *soak host*, it renders at most the frame in hand of a stopped response and
settles on the true cut.
`PROJECT.json` lists the hazards one by one, at their lines, with the properties
that cover them.

## 2. The modules

| Module | Models |
|---|---|
| `ToolContract` | abstract: what a session promises about tool calls |
| `Coordinator` | the session loop, its tool tasks and its wind-down; implements `ToolContract` |
| `MCCoordinator` | its instances |
| `CoordinatorProofs` | its theorems |
| `CoordinatorEndpoint` | `Coordinator` composed with an endpoint that knows whose its responses are |
| `MCCoordinatorEndpoint` | its instances |
| `CoordinatorEndpointProofs` | the composition implements `Coordinator`, and runs only calls of the default conversation |
| `Playback` | the audio ledger and the commands that touch it |
| `PlaybackEndpoint` | `Playback` composed with an endpoint and the wire |
| `MCPlayback`, `MCPlaybackEndpoint` | their instances |
| `PlaybackProofs` | theorems about `Playback` |
| `PlaybackEndpointProofs` | the composition implements `Playback`, and measures truly |
| `Lanes`, `MCLanes`, `LanesProofs` | queues, writer, watchdog, the loop around every handler |
| `McpCatalog` | start-up and discovery of the local MCP servers |
| `Mcp`, `MCMcp`, `McpProofs` | extends `McpCatalog`: calls, cancellation, shutdown |
| `Player`, `MCPlayer`, `PlayerProofs` | the soak host composed with `Playback` over bounded queues, and its theorems |
| `Cli`, `MCCli`, `CliProofs` | the command line host |

Operators commented *Slip:* are not part of a specification. Each is the
definition after it with a mistake a programmer could plausibly make, and exists
so that every property can be shown to notice one (`mutants` in `PROJECT.json`).

### Coordinator

One action per handler; nothing runs between its statements, so an action is the
whole of it, the trailing `continue_ready()` included, or the part of it before a
full queue broke it off. `responses`, `known`,
`calls`, `admitted` are the maps `self.responses` and `self.calls` with their
key sets apart, so that unlisted ids have a default; `tasks` is the `JoinSet`
joined with the phase of the task, `active` is the set of default responses in progress,
`create_id` the pending request, `stopped` and `terminal` the playback watch,
`status` the status watch, `pc` the place of the owning task. `executions`,
`answers`, `continuations` and `clears` are history: what reached the executor,
the endpoint and the host.

| Action | Code |
|---|---|
| `SessionUpdated`, `ResponseCreated`, `ResponseMentioned`, `OutputItemDone`, `ResponseDone`, `ItemReported`, `RequestRefused`, `ResultRefused`, `PeerFails` | the arms of `server_event()` and the loop's own errors |
| `Respond`, `StopSpeech`, `CancelTool`, `Stop` | the arms of `command()`, `finish()` and dropped handles |
| `TaskStarts`, `TaskReturns`, `TaskTimesOut` | `execute()` on a worker |
| `ToolJoined`, `ToolJoinFails` | `tool_joined()` and `tool_result()`; the same with no room for the result, or a task that failed |
| `ResultUnacknowledged`, `RequestUnacknowledged`, `Uninitialized` | `check_deadlines()` |
| `AbortTools`, `AbortedJoined`, `PublishTerminal`, `PublishStatus` | the tail of `run()` and of the task that awaits it |

`Due` and `MayContinue` are the filter and the early return of
`continue_ready()`. `Refused`, `Dispatched`, `WithCalls`, `Admit` and
`AdmitThenFail` are `admit()` over all the items one event carries: the code
admits them one by one, so a refused item ends the session after the ones before
it were admitted, spawned or rejected. Which ones those are is any
acceptable part of them, in some order.

A `?` on a full queue ends the session with what the handler did so far. Where that
is neither nothing nor all of it, the handler has an outcome of its own:
`ClearPlaybackFails`, where the watch stops a response and the host is not told
(`session.rs:738`, 744); `AdmitThenFail`, where a call is in the ledger and neither
spawned nor answered (1004, 1018, 1059), which is the parameter `cut` of `Admit`;
`ToolJoinFails`, where the task has left the `JoinSet` and its result is not sent; and the second
disjunct of `ContinueReady`, where a due request is not sent. Hence the second
halves of `CallsAccountedFor` and `StoppedAgrees`: the failure that ends the session loses at
most one call, and a stop goes unannounced only if its announcement was that failure.

Abstractions. An input is a tool's name with its canonical arguments, and
`Runnable` the inputs that pass the size, JSON, name and schema checks. A fresh event
id only differs from the one pending. Deadlines are enabled while armed: time is
left out, so an answer and its deadline race in every order. Failures of the
socket or of an input, and a queue that is full before the first change of a handler or
after its last, are one action, `PeerFails`; how full a queue is, and what was
put in it before, is the business of `Lanes`. `StopSpeech` stands for `interrupt` and
`playback_stopped`, whose positions are in `Playback`.

### CoordinatorEndpoint

`Coordinator` takes the endpoint's events in any order and with any report of an
owner, so it cannot say whether the session is *right* about a response.
`CoordinatorEndpoint` adds the truth: `owner`, set when the endpoint creates a
response, of its own accord for the default conversation and out of band only
once it was `asked`. What it reports of a response is that owner or nothing, at
the creation, at the end, at both or neither; what it sends of a response it
created (creation, items, audio, end) is read in any order and any number of
times. `SessionReads` and `HostAsks` are the handlers in which that matters,
`SessionGoesOn` all the others. Which request a creation answers is not recorded.

### Playback and PlaybackEndpoint

`Playback` holds the fields of a response and of an audio part that measure and
cut speech: `Measure` is how the format of a delta is found, `Unaccountable`
everything that ends the session instead of being counted, `Duration` the
saturating product and integer division of the code, `ValidHeard` is
`validate_heard()`, `Truncate` is `truncate()`. Its events come in *any*
order, also ones no endpoint would send, and `Respond` is not gated by
`Coordinator`'s conditions, so its invariants do not depend on them.

Whether a part is measured in the right format cannot be said without the truth
about it. `PlaybackEndpoint` adds an endpoint (external: modelled from what
`session.rs` and `docs/protocol.md` expect) that fixes a format when it creates a
response, for a request or on its own, reports it or not, changes the session
format, and whose events are read in order but late. It is honest: what it
reports is true. The requests it has not answered are in flight to it in order.

### Lanes

What `Coordinator` and `Playback` take as instantaneous: a handler is a sequence
of operations on queues that may be full, and the first that fails breaks it off
with what it did so far (`Handled` threads a record of queues, watch and failure
through `ClearPlayback`, `Truncate`, `Emit` and `Send`). Queues are counts; which
command or frame was taken is chosen when it is handled. `PollHead` is the head
of the loop, which takes controls before the `select!`; `ControlArm`, `StopArm`,
`WriterArm`, `CommandArm`, `FrameArm`, `ToolArm` and `TickArm` are its arms;
`TailStep` is the tail that joins or aborts the writer and puts its error in the
place of a plain disconnection. The writer is a task of its own, which takes, writes,
fails, and is *then* marked finished, so that the tail can look in between. Time
is `silence`, in halves of the idle timeout, since a frame was read.

### McpCatalog and Mcp

`McpCatalog` is `connect()`: `Launch`, `Initialize` and `Lists` (a page, the last
page with selection and aliases, or a refusal), any of which may fail or time out
and then drops every server started so far. Servers answer as they like: pages
without end, repeated cursors, tools twice. `Alias` is a constant, any mapping at
all, because two tools may well get the same one.

`Mcp` adds the calls and the owner. A call is cut where `execute()` awaits:
`Enter`, `Dispatch` (the look at the tokens, then the request is put in the
server's queue), `Admit`, `Receives`, `GivesUp`, `Dropped`; `CleansUp` is the
detached task that sends the cancellation; `cleanup` and `at` together are the
task tracker. `shutdown()` is `ShutDown`, `Drained`, `Closing`, `Kills`, `Reaped`
or `ReapFails`, `Returns`, with a clock of three values: in the grace, past it,
past the deadline. `HostDrops` drops the owner, or the future of its shutdown, at
any of these points. The kill in the `Drop` of a server (`DropOwner`) is taken to
succeed; the one in `shutdown()` (`Kills`, `ReapFails`) may not.

### Player

The soak host is two pieces of code, the player (`Add`, `Done`, `Clear`,
`Invalidated`, `Render`, `Feedback`) and the turn loop (`StopAll`, `TakesEvent`,
`TickLooks`, `Tick`, `Settles`), over a record that a tick threads through them in the
order of the code. A tick borrows the playback watch once (`soak/main.rs:430`) and
renders later (435), while the session runs on another thread of the runtime: so it
is two steps, `TickLooks`, which keeps in `allowed` what the watch allowed, and
`Tick`, which acts on that, with any steps of the session in between. The rest of a tick touches
only what is the host's own, but for the room in the lanes, which the model takes
at one moment: a session that makes room between two reports of one
tick is left out. The session is `Playback`, whose events now reach the host through a
queue, and whose stops and positions come through the control lane and the
ordinary one. The endpoint opens the parts in order and confirms each truncation,
some time later. Its `frankie.playback.clear` (`FrankieClear`) is limited to responses
that the session has not stopped, one at a time on its way to the host.

A loop of the code over the player's parts is stated by its result: `Total` is the
number of bytes a loop adds up, `Taken` what a frame takes of one part,
`Sorted` the order in which parts or responses are come to, `StopAll` the stops of
a tick, the last of which may find the control lane full. The host waits for
truncations by item, and so does `pending`, which holds the first part of each.
Of the endpoint it is assumed that an item of several parts belongs to one
response: neither the host nor the session would notice otherwise.

### Cli

The stdin thread, the stdout thread, `main`, and the session reduced to its
lanes, its token and the three instants the host can tell apart: `run()`
returned (its senders are gone), the status published. Each step of stdin or
stdout may never come.

## 3. The runs

`Responses`, `Calls` and `Requests` are symmetric sets of model values. Two
responses are enough to have one that blocks, settles or is mistaken for the
other; two calls a batch that is half accepted; three a batch that exceeds a
limit of two; two inputs one conflict and one rejection; two request ids one
fresh beside one pending. All ledgers' counters are bounded by these sets, so
the state spaces are finite without further bounds.

| Run | Bounds | Asks |
|---|---|---|
| `ownership` | 2 responses, 1 call, 2 requests, honest endpoint | `OneSpeaker`, `Attributed`, `StoppedAgrees`: who speaks, who runs tools, what the host is told; `InBandOnly`: nothing out of band runs |
| `calls` | 1 response, 3 calls, ledger of 2, 1 slot, `Continuation::Server` | `AtMostOnce`, `CallsAccountedFor`, `ResultsSupervised`, `Bounded` |
| `fair` | 1 response, 2 calls, 2 slots, fairness | `KeepsContract`: `Coordinator` refines `ToolContract`; `QuietWhenOver` from every way out; `EveryCallSettled`, `EveryRequestSettled`, `EveryEndPublished` |
| `live` | 2 responses, 1 call, fair endpoint | `NoForgottenBatch`, `ContinuedOnce`, `BatchFrozen`, `EveryBatchContinued` |
| `playback` | 2 responses, 2 parts, 2 formats, chunks of 6 bytes, positions 0 and 1 ms, 1 event and 2 requests in flight | `MeasuredTruly`, `TruncatedAtHeard`, `NoPartEscapes`, `HeardWithinReceived` |
| `omitted_parts` | as `playback`, without endpoint | finding, see section 6 |
| `lanes` | queues of 1, 2 urgent frames, 1 frame unread | `JoinedOnce`, `CutOnlyWhenStopped`, `WriterErrorTold`, `ShutdownEnds`, `DeadEndsEnd` |
| `mcp` | 2 servers, 2 tools, one alias shared, 2 pages, 2 calls | `TypeOK` (the limits on what is listed), `RoutesAsAdvertised`, `OutcomeTrue`, `DispatchSettled`, `DrainedBeforeClose`, `NothingRuns`, `ShutdownReturns`, `CancelledCallsEnd` |
| `player` | 1 response, 2 parts, chunks of 3 and 4 bytes, frames of 2, queues of 2, 1 and 1 | `BytesCounted`, `HeardRendered`, `SettledCut`, `StopsWithinAFrame` |
| `player_stops` | the same | finding, see section 6 |
| `cli` | lanes of 2, 1, 1 and 2 | `SuccessIntended`, `EndsWhenAsked` |
| `cli_eof` | the same | finding, see section 6 |

The runs `ownership` and `calls` have the constraint `InLoop`: a state outside
the loop is checked but has no successors. Their properties speak of ledgers
which the wind-down only marks as cancelled; `fair` and `live` follow it to the
end. `ownership` runs the composition with an endpoint that reports truly, since
`InBandOnly` needs the truth; `live` has an endpoint that ends what it creates;
`calls` and `fair` have any at all. The safety properties of the first two other
than `InBandOnly` are proved for any endpoint too.

In `playback`, PCM at 2000 Hz plays 6 bytes in 1.5 ms and G.711 in 0.75 ms, so
that rounding matters. One event in flight already lets a format change lie
between a creation and its audio, as the endpoint's own state runs ahead of the
wire, and two requests let an unanswered one be overtaken by a creation of the
endpoint's own. More events in flight, and durations that saturate at `MaxCount` (the code's
`u64::MAX`), are the matter of the theorems. A part stops
growing at 6 bytes (`Short`).

In `lanes` a queue of one is full after one frame, so that each handler breaks
off at each of its operations; two urgent frames let a cancel fit and its
truncation not. In `mcp`, one of the tools has the same alias on both servers,
the last page may come after the limit, and the second server's tools are
refused if selected, so that start-up fails late as well as early. In `player` a
sample lasts a millisecond and a part is two frames, so that a stop finds it
before, in the middle and after; the second part is the one that comes late, and
a chunk of three bytes is half a sample too long and is refused. Each part is an item
of its own there; that a Frankie position of a later part of an item moves its first
part is covered by the theorem `HeardWasRendered` alone.

Type invariants are proved and are not run again; `mcp` runs its
own because it also says that the limits hold.

Deadlock is checked in every run. `Over`, `Exited` and `Idle` are where the
program, or the turn, has ended, and stutter.

### Fairness

`FairSpec` of `Coordinator` assumes that the runtime polls spawned tasks; that
the loop's `select!` is fair among its ready arms (tokio's is random, except
that controls come first: a host that keeps the control lane full for ever is
excluded); that the tick fires, so an armed deadline that stays armed expires;
that a tool times out (`TaskTimesOut`, never `TaskReturns`); and that an aborted
task yields, which Tokio requires of every future. Nothing is assumed of the
endpoint or the host. Under that, everything is answered, settled or ends the
session.

`live` adds `EndpointFairness`, because the code has no deadline for a response
in progress: an endpoint that never ends one blocks every batch, by design. With
an endpoint that ends the responses it creates, a successful batch is continued
whatever else the host asks for.

`FairSpec` of `Lanes` assumes that the loop runs, that time passes, that the
runtime marks a task that returned, and that an arm of the `select!` which is
ready again and again is drawn: tokio draws at random, and the tick, the notice
that the receiver is gone and the writer's end stay ready or come back.
`ShutdownEnds` needs no more. `DeadEndsEnd` also assumes `LoopSelects`, that the
host does not keep controls waiting for ever: the loop polls them before it looks
at anything else.

`MFairSpec` of `Mcp` assumes that calls are polled when they can go on, that the
detached notices and the future of `shutdown()` run while they are held, and that
time passes. Nothing is assumed of the servers, of a killed process or of
`connect()`. `Player` checks safety only.

`FairSpec` of `Cli` has no fairness for either thread, so that it shows the
program ends with stdin open and stdout blocked; it assumes that the session and
`main` are polled and that `finish()` and the MCP shutdown, both bounded by
deadlines, return.

## 4. The proofs

All theorems are about `Spec` (`PSpec` of `Player`) with arbitrary constants under the named
assumptions (`InputsAssumption`, `ReportsAssumption`, `NoneAssumption`,
`LimitsAssumption`, `ModeAssumption`; `FormatsAssumption`, `AudioAssumption`,
`PartsAssumption`, `AbsentAssumption`; `QueuesAssumption`; `PlayerAssumption`).
`LimitsKept` also assumes that the id sets are finite, as cardinality needs;
`PlayerAssumption` says it of the parts, of which an endpoint sends finitely many.

`CoordinatorProofs`

* `TypeCorrect`: `TypeOK` with `HasOutcome` (in the loop exactly while the
  outcome is open), without which a published status could be none.
* `NoCallRepeated`, `NoCallLost`, `NoResultUnsupervised` from one inductive
  invariant, `CallInv`, which relates the ledger entry of a call, its task and
  its two counters. None of the three is inductive alone: that nothing runs
  twice needs that a running task was counted once and that an unlisted call
  has neither a task nor a count. `CallStep` says what any step does to a call;
  the fifteen-odd actions are reduced to it once (`EveryCallStep`).
* `ContractKept`: initial states map to initial states, and `ContractStep` maps
  each action to a step of `ToolContract` or a stutter.
* `BatchesFrozen`, `CallsAttributed`: from `CallsKept`, what a step does to the
  set of admitted calls, with the guards it did it under.
* `OneSpeakerAlways`, `NoBatchForgotten`, `BatchContinuedOnce`: together, as
  `ConversationInv`, with `OwnersHeard` (only a listed response has a record other
  than the new one). Two lemmas split the
  actions: those that leave the conversation alone, and those that call
  `ContinueReady` with what they computed (`ConversationReconsidered`).
* `StoppedAgreed` from `EveryStopStep` and `EndingsStand` (a session that left its
  loop does not come back), `QuietAtTheEnd` from `EndingInv`, `LimitsKept` from
  `EveryLimitStep`.
* A handler that breaks off is covered by the same lemmas: `Admission` is an
  admission that loses at most one call and then ends the session (`BrokenAdmission`),
  `OneLost` the part of `CallInv` about it, `ContinueReadyGoesOn` what a
  continuation may do to the session.

`CoordinatorEndpointProofs`: `CompositionCoordinates`, that the composition only
does what `Coordinator` does; and `OnlyInBandRuns`. `InBandOnly` looks at what
ran, long after the decision. `EndpointInv` holds at the decision: the endpoint
was asked for nothing the session forgot (`AskedInv`), what the session believes
of an owner is true or nothing (`TruthInv`), and every call it committed to is of
the default conversation (`CommitInv`). A new call's response exists; either none
was ever requested out of band, so it is in band, or its owner was reported, and
truly (`HeardTruly`). The lemmas `CreationHeard`, `EndingHeard`, `ItemHeard` and
`RestHeardNothing` say what each step lets the session believe. From there
`CallInv` leads to executions and `ContinuedOnce` to continuations.

`PlaybackProofs`: `TypeCorrect`; `TruncationFinal` and `EveryPartTruncated` from
`PlaybackInv`, which adds that a response with a reported stop is cancelled, as
otherwise a delta could add a part after it; `MutedIsSilent`; and
`HeardNeverExceedsReceived`, from the lemma that the duration of a part is
monotone in its bytes (`DivMonotone`, `DurationMonotone`), for every sample rate
and also where the product saturates. The proofs are about `AnySpec`, which is `Spec`
with a host that may report any position at all (`AnyHeards`), so that they hold of
every composition with a host, whatever it computes its positions from.

`PlaybackEndpointProofs`: `CompositionPlays`, that the composition with an
endpoint only does what `Playback` does, so that all of the above holds of it;
and `AlwaysMeasuredTruly`, for any number of events, requests and updates in
flight. `MeasuredTruly` is far from inductive: it relates a part to a choice the
endpoint made many steps ago. `EndpointInv` says what is on its way instead. The
format the session has is what the last update read said, and each update or creation on
the wire carries what the endpoint had when it sent it (`FormatInv`,
`CreationInv`); audio on the wire has a creation before it, on the wire or read
(`AudioInv`); while no request has named a format, none of the unanswered ones
does (`AskedInv`); so a creation that was read either reported its format, or
came while no request had named one and the session's was the endpoint's
(`KnownInv`), and then what is measured is right (`MeasureInv`). It was
model-checked with three events in flight before it was proved.

`LanesProofs`: one inductive invariant, in the parts `RestOK`, `LanesOK`, `JoinOK`
and `WriterOK`. The lemmas about `Send`, `Emit`, `ClearPlayback` and `Truncate`
say that each keeps `LaneOK`, in which the cut is behind the stop, so that it
does not matter where a handler breaks off. `WriterJoinedOnce` needs that a poll
of the writer in the loop leaves the loop; `ErrorTold` that a writer's error
stays, and which errors a handler can produce.

`McpProofs`: one inductive invariant again, `CallsOK` for a call's request, notice
and outcome, `OwnerOK` for which processes run in which phase, and
`DrainedBeforeClose`, which is its own strengthening. From it `TypeCorrect`,
`RoutesTrue` (for every `Alias`, injective or not), `OutcomesTrue`,
`RequestsSettled`, `ClosesDrained`, `NothingLeftRunning` and `StartsAllOrNothing`,
which is what `NothingRuns` says of a start-up that failed.

`CliProofs`: `TypeCorrect`, `SessionFirst` and `NoAccidentalSuccess`, from
`LaneInv` (a close in the lane, an ended session and a set token each have their
cause), `EndInv`, `CountInv` and `KindInv`.

`PlayerProofs`: `PlayerPlays`, that the session behind the soak host is one of
`AnySpec`, so that the ledger's theorems hold of it (`LedgerOfHost`); `BytesExact`,
`HeardWasRendered`, `SettledOnTheCut`, `WatchObeyed`, for any number of responses and
parts and queues of any length; and `ToldTheRendered`, which ties both ends together: what
the endpoint was told to keep is what was rendered.

* *Sums.* `Total` counts pairs rather than recursing, so that what is taken from
  it or added to it follows from bijections of finite sets (`TotalTaken`,
  `TotalAdded`).
* *What the host holds.* `HostInv` is about the record the handlers thread through:
  the tracks agree with the ledger (`TracksKept`), the count is exact (`Counted`), and
  each report and position that is *on its way* is true: a report names
  stopped parts where they stopped, and what it leaves out came after the stop
  (`ControlTrue`); a position was reached in some part of its item (`CommandTrue`).
  A cut part is stopped at its cut or late (`CutTrue`), a stopped one is cut or
  awaited (`StopAwaited`). Neither `HeardRendered` nor `SettledCut` is inductive
  without them: both depend on a report made many steps before it is taken.
* *Growth.* No operation of the host moves a stopped part back or forgets one
  (`Grows`), and all of `HostInv` that looks at the past survives that
  (`GrowthKeeps`). So each of `Add`, `Done`, `StopAll`, `Render`, `Feedback` has a
  lemma of its own, and a tick is their chain (`TickKeeps`).
* *The watch.* A tick renders only of responses in `allowed` (`TickKeeps`), which may
  be stale. `FrameInv` says that a response of which a frame was rendered too late
  is disallowed now, for good (`WatchNarrows`), and not in `allowed`, so that
  there is no second frame (`FrameStep`).
* *The session.* `LedgerInv` says why a confirmation settles a whole item: its parts are
  of one response, muted before any is cut, so no part of it can arrive
  uncut while the confirmation is under way. The session's steps are reduced to those that
  cut nothing (`NothingCut`) and the stop, which cuts what its report names
  (`ControlStep`).

`PlayerInv` was model-checked, with two responses and with two parts of one
item, before it was proved.

Every safety property that a passing run checks is the statement of a theorem. Only
model-checked: liveness (`fair`, `live`, `lanes`, `mcp`, `cli`), which is beyond the
prover, and the three findings.

## 5. What is not modelled

* `connect()` and the configuration's checks: a sequence of tests before
  anything runs concurrently.
* The tool registry: schema validation is the jsonschema crate's; its verdict is
  `Runnable`, and its refusal of a definition `Misshapen`.
* Of the lanes, the order across the urgent and the ordinary one: a truncate
  overtakes frames queued before it, as `docs/protocol.md:73` says it may, and no
  property of the session depends on it. Within a lane the order is the channel's.
* Of MCP, the environment and arguments of a launch, what a result is turned into
  and where it is cut, and the limit on the bytes of the catalogue, which is a
  refusal like the others.
* Of the soak host, scenario files, microphone frames, tools, transcripts,
  metrics, turn deadlines and the evidence it writes.
* The conformance program: one script after the other, each a plain sequence of
  calls of the library, judged at the end.
* The echo tool, argument and environment parsing of the command line.
* Text: transcripts, formatting of events, redaction, tracing.
* `u32`/`u64` arithmetic elsewhere than in the audio ledger, where it saturates
  or is checked.

## 6. Findings

* `docs/protocol.md:27` says of a stop: "Omitted parts are treated as unheard."
  `truncate()` (`src/src/session.rs:765`) cuts every part at the position of its
  ledger, which an earlier `frankie.playback.position` may have moved
  (`session.rs:700`). Run `omitted_parts`.
* `src/src/main.rs:33` says "EOF closes the session." At end of input the stdin
  thread sends `close` through the bounded control lane and ignores a refusal
  (`main.rs:134`); with the lane full the close is lost, the thread has ended and
  the program goes on. Run `cli_eof`. An explicit `close` that is refused is
  reported as an error, and one that is admitted always ends the program
  (`EndsWhenAsked`).
* `src/examples/soak/main.rs:394` says of `stop()`: "Stops local playback of
  `response`". It marks the parts the player holds at that moment; a part that is
  still in the event queue is added unstopped and rendered until the session has
  handled the stop and the watch disallows the response. Run `player_stops`.
  `StopsWithinAFrame` shows that the watch itself is obeyed but for one frame, and
  `SettledCut` that a turn without such a late part settles on the true cut.

Observed, and not judged. A Frankie position names an item, not a part of it
(`examples/soak/player.rs:168`), and the session applies it to content 0
(`session.rs:695`); with a second audio part in the item, the position of the
second is taken for one of the first. `HeardRendered` bounds it: no part counts as
heard further than it, or some part of the item it leads, was rendered.

`src/src/lib.rs:110` speaks of the liveness deadline as
met when a frame *arrives*, and the code measures what it *read*
(`session.rs:556`), so that a session kept busy by controls may end as if its peer
were silent. `Lanes` lets frames wait unread, and `DeadEndsEnd` claims an end only
when none do.

## 7. Plan

What is left, in order:

1. `CoordinatorEndpoint` with the requests in flight to the endpoint, as
   `PlaybackEndpoint` has them: when a request is settled by a creation that does
   not answer it, and that the session recovers from it.
2. `Player` with the turn deadline, and with a turn after a turn.
3. Pure algorithms against a definition: tool aliases (`mcp.rs` 419-442),
   bounded results (`mcp.rs` 546-585), registration (`tools.rs` 46-80).
4. `Lanes` with the contents of its queues, refined to a pair of bounded FIFO
   channels, and composed with `Coordinator`'s handlers.
