--------------------------------- MODULE Lanes ---------------------------------
(***************************************************************************)
(* The lanes of one session (src/src/session.rs, src/src/lib.rs): the two  *)
(* bounded queues a Handle fills, the bounded queue of events it drains,   *)
(* the ordinary and the urgent queue of the socket writer, the loop that   *)
(* polls controls before its select!, the watchdog, and how a session ends *)
(* when a queue is full, the writer fails, the peer falls silent or the    *)
(* host has had enough.  What handlers do beyond their lanes is in         *)
(* Coordinator and Playback; the response spoken here is one, with one     *)
(* audio part.  Queues are counted where nothing depends on what is in     *)
(* them: which command or frame it was is chosen when it is handled.       *)
(***************************************************************************)
EXTENDS Naturals

CONSTANTS
  Queue,      \* capacity: commands, events, ordinary frames
  Controls,   \* capacity: controls
  Priority,   \* capacity: urgent frames
  Backlog     \* bound: frames arrived and not read

ASSUME LanesAssumption ==
  /\ Queue \in Nat \ {0} /\ Controls \in Nat \ {0}
  /\ Priority \in Nat \ {0} /\ Backlog \in Nat \ {0}

VARIABLES
  commands,       \* how many commands wait in the ordinary lane
  controls,       \* how many controls wait in theirs
  events,         \* how many events the host has not taken
  receiving,      \* the host still holds the event receiver
  shutdown,       \* the shutdown token is cancelled
  ready,          \* the endpoint confirmed the session
  stopped,        \* the playback watch stops the response
  truncated,      \* the endpoint was told what was heard
  outgoing,       \* how many ordinary frames wait for the writer
  urgent,         \* how many urgent frames wait for the writer
  writer,         \* the writer task: what it does, and its error
  writer_joined,  \* the select! took the writer's result
  joins,          \* history: how often a finished JoinHandle was polled
  inbox,          \* how many frames arrived and were not read
  peer,           \* "open", or "gone": the stream only says so
  silence,        \* since a frame was read: 0, 1 half, 2 all of idle_timeout
  ping_sent,
  pc,             \* "head", "select", "tail", "over"
  outcome         \* how the loop ended, "none" while it runs

progress == <<stopped, truncated, pc, outcome>>
lanes == <<outgoing, urgent, events, progress>>
tokens == <<receiving, shutdown>>
watchdog == <<silence, ping_sent>>
join == <<writer_joined, joins>>
socket == <<inbox, peer>>
vars == <<lanes, commands, controls, tokens, ready, watchdog, join, writer, socket>>

ControlKinds == {"interrupt", "playback_stopped", "refused"}
FrameKinds == {"event", "cancelled", "session.updated", "ping", "pong", "junk"}
WriterKinds == {"idle", "writes", "returned", "finished", "aborted"}
Outcomes == {"none", "closed", "event queue", "write queue", "disconnected",
             "write timeout", "liveness timeout", "initialize timeout", "protocol"}

\* connect() has queued session.update.
Init ==
  /\ commands = 0 /\ controls = 0 /\ events = 0
  /\ receiving = TRUE /\ shutdown = FALSE
  /\ ready = FALSE /\ stopped = FALSE /\ truncated = FALSE
  /\ outgoing = 1 /\ urgent = 0
  /\ writer = [does |-> "idle", error |-> "none"]
  /\ writer_joined = FALSE /\ joins = 0
  /\ inbox = 0 /\ peer = "open"
  /\ silence = 0 /\ ping_sent = FALSE
  /\ pc = "head" /\ outcome = "none"

\* The tail of the loop looks at nothing but the writer, which alone goes on.
Running == pc \in {"head", "select"}

-----------------------------------------------------------------------------
(* The host: Handle::send, the event receiver, finish() and drop.          *)

\* A command that is not a control.
SendCommand ==
  /\ Running /\ commands < Queue
  /\ commands' = commands + 1
  /\ UNCHANGED <<lanes, controls, tokens, ready, watchdog, join, writer,
                 socket>>

SendControl ==
  /\ Running /\ controls < Controls
  /\ controls' = controls + 1
  /\ UNCHANGED <<lanes, commands, tokens, ready, watchdog, join, writer,
                 socket>>

TakeEvent ==
  /\ receiving /\ events > 0 /\ Running
  /\ events' = events - 1
  /\ UNCHANGED <<outgoing, urgent, progress, commands, controls, tokens, ready,
                 watchdog, join, writer, socket>>

DropEvents ==
  /\ receiving /\ Running
  /\ receiving' = FALSE /\ events' = 0
  /\ UNCHANGED <<outgoing, urgent, progress, commands, controls, shutdown,
                 ready, watchdog, join, writer, socket>>

\* finish(), or the Session is dropped.
Shutdown ==
  /\ ~shutdown /\ Running
  /\ shutdown' = TRUE
  /\ UNCHANGED <<lanes, commands, controls, receiving, ready, watchdog, join,
                 writer, socket>>

Host ==
  \/ SendCommand \/ SendControl \/ TakeEvent \/ DropEvents \/ Shutdown

-----------------------------------------------------------------------------
(* The peer and time.                                                      *)

FrameArrives ==
  /\ peer = "open" /\ inbox < Backlog /\ Running
  /\ inbox' = inbox + 1
  /\ UNCHANGED <<lanes, commands, controls, tokens, ready, watchdog, join,
                 writer, peer>>

PeerGone ==
  /\ peer = "open" /\ Running
  /\ peer' = "gone"
  /\ UNCHANGED <<lanes, commands, controls, tokens, ready, watchdog, join,
                 writer, inbox>>

\* Half of idle_timeout passes.
Time ==
  /\ Running /\ silence < 2
  /\ silence' = silence + 1
  /\ UNCHANGED <<lanes, commands, controls, tokens, ready, ping_sent, join,
                 writer, socket>>

-----------------------------------------------------------------------------
(* What handlers do with the lanes, one step after the other: the lanes    *)
(* they find, and the failure that ends the handler where it happens.      *)

Now == [outgoing |-> outgoing, urgent |-> urgent, events |-> events,
        stopped |-> stopped, truncated |-> truncated, failure |-> "none"]

\* The writer's future has returned, and dropped its queues.
QueuesDropped == writer.does \in {"returned", "finished"}

\* enqueue(): never waits.
Enqueue(lane, capacity, l) ==
  IF l.failure # "none" THEN l
  ELSE IF QueuesDropped THEN [l EXCEPT !.failure = "disconnected"]
  ELSE IF l[lane] >= capacity THEN [l EXCEPT !.failure = "write queue"]
  ELSE [l EXCEPT ![lane] = @ + 1]

Send(l) == Enqueue("outgoing", Queue, l)
SendUrgent(l) == Enqueue("urgent", Priority, l)

\* emit(): never waits.
Emit(l) ==
  IF l.failure # "none" THEN l
  ELSE IF ~receiving THEN [l EXCEPT !.failure = "closed"]
  ELSE IF l.events >= Queue THEN [l EXCEPT !.failure = "event queue"]
  ELSE [l EXCEPT !.events = @ + 1]

\* Slip: the host is told first, and a stop it cannot be told of is refused.
ClearPlaybackIfTold(l) ==
  IF l.failure # "none" \/ l.stopped THEN l
  ELSE IF Emit(l).failure = "event queue" THEN l
  ELSE [Emit(l) EXCEPT !.stopped = TRUE]

\* clear_playback(): the watch first, then the event, once.
ClearPlayback(l) ==
  IF l.failure # "none" \/ l.stopped THEN l
  ELSE Emit([l EXCEPT !.stopped = TRUE])

Truncate(l) ==
  IF l.truncated THEN l
  ELSE LET sent == SendUrgent(l)
       IN [sent EXCEPT !.truncated = sent.failure = "none"]

\* The handler of a control; close has none, and a refused one is any that the
\* session takes for a caller mistake.
Handled(kind) ==
  CASE kind = "interrupt" -> Truncate(ClearPlayback(SendUrgent(Now)))
    [] kind = "playback_stopped" -> Truncate(ClearPlayback(Now))
    [] kind = "refused" -> Emit(Now)

Ends(result) == pc' = "tail" /\ outcome' = result

\* The handler's lanes are the session's; a failure ends the loop.
Becomes(l) ==
  /\ outgoing' = l.outgoing /\ urgent' = l.urgent /\ events' = l.events
  /\ stopped' = l.stopped /\ truncated' = l.truncated
  /\ IF l.failure = "none" THEN pc' = "head" /\ UNCHANGED outcome
     ELSE Ends(l.failure)

Unmoved == UNCHANGED <<outgoing, urgent, events, stopped, truncated>>

-----------------------------------------------------------------------------
(* The loop: its head, then one arm of the select!.                        *)

Accept ==
  /\ controls > 0
  /\ controls' = controls - 1
  /\ \/ Unmoved /\ Ends("closed")
     \/ \E kind \in ControlKinds : Becomes(Handled(kind))
  /\ UNCHANGED <<commands, tokens, ready, watchdog, join, writer, socket>>

\* Slip: only the select! looks at the token.
PollHeadControlsFirst ==
  /\ pc = "head"
  /\ \/ Accept
     \/ /\ controls = 0
        /\ pc' = "select" /\ UNCHANGED outcome /\ Unmoved
        /\ UNCHANGED <<commands, controls, tokens, ready, watchdog, join,
                       writer, socket>>

\* The shutdown token, then a control that waits, then the select!.
PollHead ==
  /\ pc = "head"
  /\ \/ ~shutdown /\ Accept
     \/ /\ shutdown \/ controls = 0
        /\ IF shutdown THEN Ends("closed") ELSE pc' = "select" /\ UNCHANGED outcome
        /\ Unmoved
        /\ UNCHANGED <<commands, controls, tokens, ready, watchdog, join,
                       writer, socket>>

\* A control that came after the head looked.
ControlArm == pc = "select" /\ Accept

\* The token, or events.closed().
StopArm ==
  /\ pc = "select"
  /\ shutdown \/ ~receiving
  /\ Ends("closed") /\ Unmoved
  /\ UNCHANGED <<commands, controls, tokens, ready, watchdog, join, writer,
                 socket>>

\* Slip: the join is forgotten.
WriterArmUnmarked ==
  /\ pc = "select" /\ writer.does = "finished"
  /\ joins' = joins + 1
  /\ Ends(writer.error) /\ Unmoved
  /\ UNCHANGED <<commands, controls, tokens, ready, watchdog, writer_joined,
                 writer, socket>>

\* The writer has finished, with an error: the loop holds both its queues.
WriterArm ==
  /\ pc = "select" /\ writer.does = "finished"
  /\ writer_joined' = TRUE /\ joins' = joins + 1
  /\ Ends(writer.error) /\ Unmoved
  /\ UNCHANGED <<commands, controls, tokens, ready, watchdog, writer, socket>>

\* An ordinary command: it sends one frame, or it is refused.
CommandArm ==
  /\ pc = "select" /\ ready /\ commands > 0
  /\ commands' = commands - 1
  /\ Becomes(Send(Now)) \/ Becomes(Emit(Now))
  /\ UNCHANGED <<controls, tokens, ready, watchdog, join, writer, socket>>

\* frame(): whatever was read, the peer is there.
Read == silence' = 0 /\ ping_sent' = FALSE

\* What a frame does with the lanes: a text goes to the host, perhaps with a
\* request it lets the session send or after the news of a tool call it admits;
\* the end of a cancelled response stops it; a ping has its pong flushed.
Received(kind) ==
  CASE kind = "event" -> {Emit(Now), Emit(Send(Now)), Emit(Emit(Now))}
    [] kind = "cancelled" -> {Emit(ClearPlayback(Now))}
    [] kind = "session.updated" -> {Emit(Now)}
    [] kind = "ping" -> {SendUrgent(Now)}
    [] kind = "pong" -> {Now}
    [] kind = "junk" -> {[Now EXCEPT !.failure = "protocol"]}

FrameArm ==
  /\ pc = "select"
  /\ \/ /\ inbox > 0
        /\ inbox' = inbox - 1
        /\ \E kind \in FrameKinds : \E l \in Received(kind) :
             /\ ready' = (ready \/ kind = "session.updated")
             /\ Becomes(l)
     \/ /\ inbox = 0 /\ peer = "gone"
        /\ Ends("disconnected") /\ Unmoved
        /\ UNCHANGED <<ready, inbox>>
  /\ Read
  /\ UNCHANGED <<commands, controls, tokens, join, writer, peer>>

\* A tool task returned, which the host is told once its result is on its way.
ToolArm ==
  /\ pc = "select" /\ Becomes(Emit(Send(Now)))
  /\ UNCHANGED <<commands, controls, tokens, ready, watchdog, join, writer, socket>>

\* Slip: the watchdog counts its own ping as a sign of life.
PingedAsHeard == Becomes(SendUrgent(Now)) /\ Read

\* One ping in each silence.
Pinged ==
  /\ Becomes(SendUrgent(Now)) /\ ping_sent' = TRUE /\ UNCHANGED silence

\* check_deadlines(), the initialization deadline passed or not.
TickArm ==
  /\ pc = "select"
  /\ \/ /\ silence = 2
        /\ Ends("liveness timeout") /\ Unmoved /\ UNCHANGED <<watchdog>>
     \/ silence = 1 /\ ~ping_sent /\ Pinged
     \/ /\ silence < 2 /\ (silence = 1 => ping_sent)
        /\ \/ pc' = "head" /\ UNCHANGED outcome
           \/ ~ready /\ Ends("initialize timeout")
        /\ Unmoved /\ UNCHANGED <<watchdog>>
  /\ UNCHANGED <<commands, controls, tokens, ready, join, writer, socket>>

\* Slip: the writer is aborted whatever it had to say.
WriterHeardDeaf == FALSE

\* The loop ended on a closed queue whose writer has finished by now.
WriterHeard == writer.does = "finished" /\ outcome = "disconnected"

\* The tail of run(): the writer is joined or aborted.
TailStep ==
  /\ pc = "tail" /\ pc' = "over"
  /\ IF writer_joined THEN UNCHANGED <<outcome, joins, writer>>
     ELSE /\ joins' = joins + 1
          /\ outcome' = IF WriterHeard THEN writer.error ELSE outcome
          /\ writer' = IF writer.does = "finished" THEN writer
                       ELSE [writer EXCEPT !.does = "aborted"]
  /\ UNCHANGED <<outgoing, urgent, events, stopped, truncated, commands,
                 controls, tokens, ready, watchdog, writer_joined, socket>>

-----------------------------------------------------------------------------
(* The writer: write_frames().                                             *)

WriterTakes ==
  /\ writer.does = "idle"
  /\ \/ /\ urgent > 0
        /\ urgent' = urgent - 1 /\ UNCHANGED outgoing
     \/ /\ urgent = 0 /\ outgoing > 0
        /\ outgoing' = outgoing - 1 /\ UNCHANGED urgent
  /\ writer' = [writer EXCEPT !.does = "writes"]
  /\ UNCHANGED <<events, progress, commands, controls, tokens, ready, watchdog,
                 join, socket>>

WriterWrote ==
  /\ writer.does = "writes"
  /\ writer' = [writer EXCEPT !.does = "idle"]
  /\ UNCHANGED <<lanes, commands, controls, tokens, ready, watchdog, join,
                 socket>>

\* A write fails or times out: the future returns, and its queues go.
WriterFails(error) ==
  /\ writer.does = "writes"
  /\ writer' = [does |-> "returned", error |-> error]
  /\ outgoing' = 0 /\ urgent' = 0
  /\ UNCHANGED <<events, progress, commands, controls, tokens, ready, watchdog,
                 join, socket>>

\* Only then the runtime marks the task finished.
WriterFinishes ==
  /\ writer.does = "returned"
  /\ writer' = [writer EXCEPT !.does = "finished"]
  /\ UNCHANGED <<lanes, commands, controls, tokens, ready, watchdog, join,
                 socket>>

Writer ==
  \/ WriterTakes \/ WriterWrote \/ WriterFinishes
  \/ \E error \in {"disconnected", "write timeout"} : WriterFails(error)

-----------------------------------------------------------------------------
Select ==
  ControlArm \/ StopArm \/ WriterArm \/ CommandArm \/ FrameArm \/ ToolArm \/ TickArm

Loop == PollHead \/ Select \/ TailStep

Over == pc = "over" /\ UNCHANGED vars

Next ==
  \/ Host
  \/ FrameArrives \/ PeerGone \/ Time
  \/ Loop \/ Writer \/ Over

Spec == Init /\ [][Next]_vars

\* The loop keeps running and its ticks keep coming; select! draws among the
\* arms that are ready, so an arm ready again and again is taken; time passes
\* and the runtime marks tasks that returned.
Fairness ==
  /\ WF_vars(Loop) /\ SF_vars(TickArm) /\ SF_vars(StopArm) /\ SF_vars(WriterArm)
  /\ WF_vars(Time) /\ WF_vars(WriterFinishes)

FairSpec == Spec /\ Fairness

-----------------------------------------------------------------------------
(* Properties.                                                             *)

\* Every variable holds a value of its kind, and no lane more than its bound.
TypeOK ==
  /\ commands \in 0..Queue /\ events \in 0..Queue /\ outgoing \in 0..Queue
  /\ controls \in 0..Controls /\ urgent \in 0..Priority
  /\ inbox \in Nat /\ peer \in {"open", "gone"}
  /\ {receiving, shutdown, ready, stopped, truncated, writer_joined, ping_sent}
       \subseteq BOOLEAN
  /\ writer \in [does : WriterKinds, error : {"none", "disconnected", "write timeout"}]
  /\ joins \in Nat /\ silence \in 0..2
  /\ pc \in {"head", "select", "tail", "over"} /\ outcome \in Outcomes

\* The writer's JoinHandle panics if it is polled once more after it gave the
\* writer's result: whichever of the select! and the tail takes it, the other
\* does not.
JoinedOnce == joins <= 1

\* docs/protocol.md: a stop cancels and invalidates playback, then truncates.
\* However full the queues are and wherever the handler breaks off, the
\* endpoint is never told to forget what the watch still lets the host play.
CutOnlyWhenStopped == truncated => stopped

\* A session that failed because its writer did says why: the writer's own
\* error, unless the task was not marked finished yet when the tail looked,
\* and never a disconnection or a timeout that nothing brought about.
WriterErrorTold ==
  /\ pc = "over" /\ outcome = "disconnected" /\ writer.does = "finished"
       => writer.error = "disconnected"
  /\ outcome = "disconnected" => peer = "gone" \/ writer.error # "none"
  /\ outcome = "write timeout" => writer.error = "write timeout"

\* finish() and drop end the session, even if the host never stops sending
\* controls, which the loop polls before anything else it waits for.
ShutdownEnds == shutdown ~> pc = "over"

\* The loop comes back to its select!: the host does not keep controls
\* waiting for ever.
LoopSelects == []<>(pc \in {"select", "over"})

\* A session that nothing can reach any more ends: its socket cannot be written,
\* its host dropped the event receiver, or, docs/protocol.md, "A ping watchdog
\* detects silent half-open connections", no frame arrives.
DeadEndsEnd ==
  LoopSelects =>
    /\ (writer.does = "returned" \/ ~receiving) ~> pc = "over"
    /\ <>[](inbox = 0) => <>(pc = "over")
=============================================================================
