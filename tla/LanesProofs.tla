------------------------------ MODULE LanesProofs ------------------------------
(***************************************************************************)
(* Proofs about Lanes, for queues of every capacity.  The lanes a handler  *)
(* leaves are described by LaneOK; the rest is an induction over the steps *)
(* with an invariant that says where the loop is, who joined the writer,   *)
(* and what the writer knows of its own error.                             *)
(***************************************************************************)
EXTENDS Lanes, TLAPS

Failures ==
  {"none", "closed", "event queue", "write queue", "disconnected", "protocol"}

LaneRecords ==
  [outgoing : 0..Queue, urgent : 0..Priority, events : 0..Queue,
   stopped : BOOLEAN, truncated : BOOLEAN, failure : Failures]

\* What every handler's lanes are.
LaneOK(l) ==
  /\ l \in LaneRecords
  /\ l.truncated => l.stopped
  /\ l.failure = "disconnected" => QueuesDropped

\* The variables no handler's lanes are about.
RestOK ==
  /\ commands \in 0..Queue /\ controls \in 0..Controls
  /\ inbox \in Nat /\ peer \in {"open", "gone"}
  /\ receiving \in BOOLEAN /\ shutdown \in BOOLEAN /\ ready \in BOOLEAN
  /\ silence \in 0..2 /\ ping_sent \in BOOLEAN

LanesOK ==
  /\ outgoing \in 0..Queue /\ urgent \in 0..Priority /\ events \in 0..Queue
  /\ stopped \in BOOLEAN /\ truncated \in BOOLEAN

\* Who polled the writer's handle, by where the loop is.
JoinOK ==
  /\ joins \in Nat /\ writer_joined \in BOOLEAN
  /\ pc \in {"head", "select", "tail", "over"} /\ outcome \in Outcomes
  /\ Running => joins = 0 /\ ~writer_joined /\ outcome = "none"
  /\ pc = "tail" => joins = IF writer_joined THEN 1 ELSE 0
  /\ pc = "over" => joins = 1

\* The writer keeps the first error it had.
WriterOK ==
  /\ writer \in [does : WriterKinds, error : {"none", "disconnected", "write timeout"}]
  /\ writer.does \in {"idle", "writes"} => writer.error = "none"
  /\ writer.does \in {"returned", "finished"} => writer.error # "none"
  /\ writer_joined => writer.does = "finished" /\ outcome = writer.error
  /\ pc = "over" => writer.does \in {"finished", "aborted"}

IInv ==
  /\ RestOK /\ LanesOK /\ JoinOK /\ WriterOK
  /\ CutOnlyWhenStopped /\ WriterErrorTold

-----------------------------------------------------------------------------
LEMMA NowOK == ASSUME IInv PROVE LaneOK(Now) /\ Now.failure = "none"
  BY DEF IInv, LanesOK, CutOnlyWhenStopped, LaneOK, LaneRecords, Failures, Now

LEMMA SendOK ==
  ASSUME NEW l, LaneOK(l)
  PROVE  LaneOK(Send(l)) /\ Send(l).stopped = l.stopped
<1>1. l.outgoing \in 0..Queue /\ Queue \in Nat
  BY LanesAssumption DEF LaneOK, LaneRecords
<1>2. CASE l.failure # "none"
  BY <1>2 DEF Send, Enqueue
<1>3. CASE l.failure = "none" /\ QueuesDropped
  BY <1>3 DEF Send, Enqueue, LaneOK, LaneRecords, Failures
<1>4. CASE l.failure = "none" /\ ~QueuesDropped /\ l.outgoing >= Queue
  BY <1>4 DEF Send, Enqueue, LaneOK, LaneRecords, Failures
<1>5. CASE l.failure = "none" /\ ~QueuesDropped /\ ~(l.outgoing >= Queue)
  <2>1. l.outgoing + 1 \in 0..Queue
    BY <1>1, <1>5
  <2>2. Send(l) = [l EXCEPT !.outgoing = @ + 1]
    BY <1>5 DEF Send, Enqueue
  <2> QED BY <1>5, <2>1, <2>2 DEF LaneOK, LaneRecords
<1> QED BY <1>2, <1>3, <1>4, <1>5

LEMMA SendUrgentOK ==
  ASSUME NEW l, LaneOK(l)
  PROVE  /\ LaneOK(SendUrgent(l)) /\ SendUrgent(l).stopped = l.stopped
         /\ SendUrgent(l).failure = "none" => l.failure = "none"
<1>1. l.urgent \in 0..Priority /\ Priority \in Nat
  BY LanesAssumption DEF LaneOK, LaneRecords
<1>2. CASE l.failure # "none"
  BY <1>2 DEF SendUrgent, Enqueue
<1>3. CASE l.failure = "none" /\ QueuesDropped
  BY <1>3 DEF SendUrgent, Enqueue, LaneOK, LaneRecords, Failures
<1>4. CASE l.failure = "none" /\ ~QueuesDropped /\ l.urgent >= Priority
  BY <1>4 DEF SendUrgent, Enqueue, LaneOK, LaneRecords, Failures
<1>5. CASE l.failure = "none" /\ ~QueuesDropped /\ ~(l.urgent >= Priority)
  <2>1. l.urgent + 1 \in 0..Priority
    BY <1>1, <1>5
  <2>2. SendUrgent(l) = [l EXCEPT !.urgent = @ + 1]
    BY <1>5 DEF SendUrgent, Enqueue
  <2> QED BY <1>5, <2>1, <2>2 DEF LaneOK, LaneRecords
<1> QED BY <1>2, <1>3, <1>4, <1>5

LEMMA EmitOK ==
  ASSUME NEW l, LaneOK(l)
  PROVE  LaneOK(Emit(l)) /\ Emit(l).stopped = l.stopped
<1>1. l.events \in 0..Queue /\ Queue \in Nat
  BY LanesAssumption DEF LaneOK, LaneRecords
<1>2. CASE l.failure # "none"
  BY <1>2 DEF Emit
<1>3. CASE l.failure = "none" /\ (~receiving \/ l.events >= Queue)
  BY <1>3 DEF Emit, LaneOK, LaneRecords, Failures
<1>4. CASE l.failure = "none" /\ receiving /\ ~(l.events >= Queue)
  <2>1. l.events + 1 \in 0..Queue
    BY <1>1, <1>4
  <2>2. Emit(l) = [l EXCEPT !.events = @ + 1]
    BY <1>4 DEF Emit
  <2> QED BY <1>4, <2>1, <2>2 DEF LaneOK, LaneRecords
<1> QED BY <1>2, <1>3, <1>4

LEMMA ClearPlaybackOK ==
  ASSUME NEW l, LaneOK(l)
  PROVE  /\ LaneOK(ClearPlayback(l))
         /\ ClearPlayback(l).failure = "none" => ClearPlayback(l).stopped
<1> DEFINE quiet == [l EXCEPT !.stopped = TRUE]
<1>1. LaneOK(quiet) /\ quiet.stopped
  BY DEF LaneOK, LaneRecords
<1>2. LaneOK(Emit(quiet)) /\ Emit(quiet).stopped
  BY <1>1, EmitOK
<1> HIDE DEF quiet
<1>3. ClearPlayback(l) = IF l.failure # "none" \/ l.stopped THEN l ELSE Emit(quiet)
  BY DEF ClearPlayback, quiet
<1> QED BY <1>2, <1>3

\* The cut is marked only once the endpoint's frame is queued, behind the stop.
LEMMA TruncateOK ==
  ASSUME NEW l, LaneOK(l), l.failure = "none" => l.stopped
  PROVE  LaneOK(Truncate(l))
<1> DEFINE sent == SendUrgent(l)
<1>1. LaneOK(sent) /\ sent.stopped = l.stopped /\ (sent.failure = "none" => l.failure = "none")
  BY SendUrgentOK
<1>2. Truncate(l) = IF l.truncated THEN l
                    ELSE [sent EXCEPT !.truncated = sent.failure = "none"]
  BY DEF Truncate
<1> HIDE DEF sent
<1> QED BY <1>1, <1>2 DEF LaneOK, LaneRecords

LEMMA HandledOK ==
  ASSUME IInv, NEW kind \in ControlKinds
  PROVE  LaneOK(Handled(kind))
<1>1. LaneOK(Truncate(ClearPlayback(SendUrgent(Now))))
  BY NowOK, SendUrgentOK, ClearPlaybackOK, TruncateOK
<1>2. LaneOK(Truncate(ClearPlayback(Now)))
  BY NowOK, ClearPlaybackOK, TruncateOK
<1>3. LaneOK(Emit(Now))
  BY NowOK, EmitOK
<1> QED BY <1>1, <1>2, <1>3 DEF Handled, ControlKinds

LEMMA ReceivedOK ==
  ASSUME IInv, NEW kind \in FrameKinds, NEW l \in Received(kind)
  PROVE  LaneOK(l)
<1>1. LaneOK(Now) /\ LaneOK(Emit(Now)) /\ LaneOK(Emit(Send(Now)))
        /\ LaneOK(Emit(Emit(Now))) /\ LaneOK(Emit(ClearPlayback(Now)))
        /\ LaneOK(SendUrgent(Now))
  BY NowOK, EmitOK, SendOK, ClearPlaybackOK, SendUrgentOK
<1>2. LaneOK([Now EXCEPT !.failure = "protocol"])
  BY NowOK DEF LaneOK, LaneRecords, Failures
<1> QED BY <1>1, <1>2 DEF Received, FrameKinds

-----------------------------------------------------------------------------
(* The two ways a step of the loop leaves the ledgers.                     *)

\* A handler's lanes become the session's.
LEMMA BecomesOK ==
  ASSUME IInv, Running, NEW l, LaneOK(l), Becomes(l), RestOK',
         UNCHANGED <<join, writer, peer>>
  PROVE  IInv'
<1> USE DEF IInv, LanesOK, LaneOK, LaneRecords, Failures, Becomes, Running, Ends, join
<1>1. LanesOK'
  OBVIOUS
<1>2. JoinOK'
  BY DEF JoinOK, Outcomes
<1>3. WriterOK'
  BY DEF JoinOK, WriterOK
<1>4. CutOnlyWhenStopped'
  BY DEF CutOnlyWhenStopped
<1>5. WriterErrorTold'
  BY DEF WriterErrorTold, JoinOK, WriterOK, QueuesDropped
<1> QED BY <1>1, <1>2, <1>3, <1>4, <1>5

\* The loop ends, or comes to its select!, without touching the lanes.
LEMMA UnmovedOK ==
  ASSUME IInv, Running, Unmoved, RestOK', UNCHANGED <<join, writer>>,
         peer' = peer \/ peer' = "gone",
         \/ pc' \in {"head", "select"} /\ UNCHANGED outcome
         \/ \E result \in {"closed", "liveness timeout", "initialize timeout"} : Ends(result)
         \/ Ends("disconnected") /\ peer = "gone" /\ peer' = "gone"
  PROVE  IInv'
<1> USE DEF IInv, Unmoved, Running, Ends, join
<1>1. LanesOK' /\ CutOnlyWhenStopped'
  BY DEF LanesOK, CutOnlyWhenStopped
<1>2. JoinOK'
  BY DEF JoinOK, Outcomes
<1>3. WriterOK'
  BY DEF JoinOK, WriterOK
<1>4. WriterErrorTold'
  BY DEF WriterErrorTold, JoinOK, WriterOK
<1> QED BY <1>1, <1>2, <1>3, <1>4

LEMMA AcceptOK ==
  ASSUME IInv, Running, Accept
  PROVE  IInv'
<1>1. RestOK' /\ UNCHANGED <<join, writer, peer>>
  BY LanesAssumption DEF IInv, RestOK, Accept, tokens, watchdog, socket
<1>2. CASE Unmoved /\ Ends("closed")
  BY <1>1, <1>2, UnmovedOK DEF join
<1>3. ASSUME NEW kind \in ControlKinds, Becomes(Handled(kind))
      PROVE  IInv'
  BY <1>1, <1>3, HandledOK, BecomesOK
<1> QED BY <1>2, <1>3 DEF Accept

\* A step of the host, the peer or time: only the rest changes, or events go.
LEMMA RestStep ==
  ASSUME IInv, RestOK', events' \in 0..Queue,
         UNCHANGED <<outgoing, urgent, progress, join, writer>>,
         peer' = peer \/ peer' = "gone"
  PROVE  IInv'
<1> USE DEF IInv, progress, join
<1>1. LanesOK' /\ CutOnlyWhenStopped'
  BY DEF LanesOK, CutOnlyWhenStopped
<1>2. JoinOK'
  BY DEF JoinOK, Running
<1>3. WriterOK' /\ WriterErrorTold'
  BY DEF WriterOK, WriterErrorTold
<1> QED BY <1>1, <1>2, <1>3

-----------------------------------------------------------------------------
LEMMA HostStep == ASSUME IInv, Host PROVE IInv'
<1> USE LanesAssumption DEF IInv, RestOK, LanesOK, lanes, tokens, watchdog, socket
<1>1. CASE SendCommand
  BY <1>1, RestStep DEF SendCommand
<1>2. CASE SendControl
  BY <1>2, RestStep DEF SendControl
<1>3. CASE TakeEvent
  BY <1>3, RestStep DEF TakeEvent
<1>4. CASE DropEvents
  <2>1. events' \in 0..Queue
    BY <1>4 DEF DropEvents
  <2>2. receiving' \in BOOLEAN
    BY <1>4 DEF DropEvents
  <2> QED BY <1>4, <2>1, <2>2, RestStep DEF DropEvents
<1>5. CASE Shutdown
  BY <1>5, RestStep DEF Shutdown
<1> QED BY <1>1, <1>2, <1>3, <1>4, <1>5 DEF Host

LEMMA PeerStep == ASSUME IInv, FrameArrives \/ PeerGone \/ Time PROVE IInv'
<1> USE LanesAssumption DEF IInv, RestOK, LanesOK, lanes, tokens, watchdog, socket
<1>1. CASE FrameArrives
  BY <1>1, RestStep DEF FrameArrives
<1>2. CASE PeerGone
  BY <1>2, RestStep DEF PeerGone
<1>3. CASE Time
  BY <1>3, RestStep DEF Time
<1> QED BY <1>1, <1>2, <1>3

LEMMA HeadStep == ASSUME IInv, PollHead PROVE IInv'
<1>1. Running
  BY DEF PollHead, Running
<1>2. CASE ~shutdown /\ Accept
  BY <1>1, <1>2, AcceptOK
<1>3. CASE ~(~shutdown /\ Accept)
  <2>1. RestOK' /\ UNCHANGED <<join, writer, peer>> /\ Unmoved
    BY <1>3 DEF PollHead, IInv, RestOK, tokens, watchdog, socket
  <2>2. Ends("closed") \/ (pc' = "select" /\ UNCHANGED outcome)
    BY <1>3 DEF PollHead
  <2> QED BY <1>1, <2>1, <2>2, UnmovedOK DEF join
<1> QED BY <1>2, <1>3

LEMMA WriterArmStep == ASSUME IInv, WriterArm PROVE IInv'
<1> USE DEF IInv, WriterArm, Unmoved, Ends
<1>1. RestOK' /\ LanesOK' /\ CutOnlyWhenStopped'
  BY DEF RestOK, LanesOK, CutOnlyWhenStopped, tokens, watchdog, socket
<1>2. JoinOK'
  <2>1. joins' = 1
    BY DEF JoinOK, Running
  <2>2. outcome' \in Outcomes
    BY DEF WriterOK, Outcomes
  <2> QED BY <2>1, <2>2 DEF JoinOK, Running
<1>3. WriterOK'
  BY DEF WriterOK
<1>4. WriterErrorTold'
  BY DEF WriterErrorTold, WriterOK
<1> QED BY <1>1, <1>2, <1>3, <1>4

LEMMA FrameStep == ASSUME IInv, FrameArm PROVE IInv'
<1>1. Running
  BY DEF FrameArm, Running
<1>2. RestOK' /\ UNCHANGED <<join, writer, peer>>
  <2>1. inbox' \in Nat /\ silence' \in 0..2
    BY DEF FrameArm, Read, IInv, RestOK
  <2>2. ready' \in BOOLEAN /\ ping_sent' \in BOOLEAN
    BY DEF FrameArm, Read, IInv, RestOK
  <2> QED BY <2>1, <2>2 DEF FrameArm, IInv, RestOK, tokens
<1>3. CASE Ends("disconnected") /\ Unmoved /\ peer = "gone"
  BY <1>1, <1>2, <1>3, UnmovedOK DEF join
<1>4. ASSUME NEW kind \in FrameKinds, NEW l \in Received(kind), Becomes(l)
      PROVE  IInv'
  BY <1>1, <1>2, <1>4, ReceivedOK, BecomesOK
<1> QED BY <1>3, <1>4 DEF FrameArm

LEMMA TickStep == ASSUME IInv, TickArm PROVE IInv'
<1>1. Running
  BY DEF TickArm, Running
<1>2. RestOK' /\ UNCHANGED <<join, writer, peer>>
  BY DEF TickArm, Pinged, IInv, RestOK, tokens, watchdog, socket
<1>3. CASE Becomes(SendUrgent(Now))
  BY <1>1, <1>2, <1>3, NowOK, SendUrgentOK, BecomesOK
<1>4. CASE Unmoved /\ (\/ Ends("liveness timeout") \/ Ends("initialize timeout")
                       \/ pc' = "head" /\ UNCHANGED outcome)
  BY <1>1, <1>2, <1>4, UnmovedOK DEF join
<1> QED BY <1>3, <1>4 DEF TickArm, Pinged

LEMMA SelectStep == ASSUME IInv, Select PROVE IInv'
<1>1. CASE ControlArm
  BY <1>1, AcceptOK DEF ControlArm, Running
<1>2. CASE StopArm
  <2>1. RestOK' /\ Running /\ UNCHANGED <<join, writer, peer>>
    BY <1>2 DEF StopArm, IInv, RestOK, Running, tokens, watchdog, socket
  <2> QED BY <1>2, <2>1, UnmovedOK DEF StopArm, join
<1>3. CASE WriterArm
  BY <1>3, WriterArmStep
<1>4. CASE CommandArm
  <2>1. RestOK' /\ Running /\ UNCHANGED <<join, writer, peer>>
    BY <1>4, LanesAssumption
    DEF CommandArm, IInv, RestOK, Running, tokens, watchdog, socket
  <2>2. Becomes(Send(Now)) \/ Becomes(Emit(Now))
    BY <1>4 DEF CommandArm
  <2> QED BY <2>1, <2>2, NowOK, SendOK, EmitOK, BecomesOK
<1>5. CASE FrameArm
  BY <1>5, FrameStep
<1>6. CASE ToolArm
  <2>1. RestOK' /\ Running /\ UNCHANGED <<join, writer, peer>>
    BY <1>6 DEF ToolArm, IInv, RestOK, Running, tokens, watchdog, socket
  <2> QED BY <1>6, <2>1, NowOK, SendOK, EmitOK, BecomesOK DEF ToolArm
<1>7. CASE TickArm
  BY <1>7, TickStep
<1> QED BY <1>1, <1>2, <1>3, <1>4, <1>5, <1>6, <1>7 DEF Select

LEMMA TailIsLast == ASSUME IInv, TailStep PROVE IInv'
<1> USE DEF IInv, TailStep
<1>1. RestOK' /\ LanesOK' /\ CutOnlyWhenStopped'
  BY DEF RestOK, LanesOK, CutOnlyWhenStopped, tokens, watchdog, socket
<1>2. JoinOK'
  <2>1. CASE writer_joined
    BY <2>1 DEF JoinOK, Running
  <2>2. CASE ~writer_joined
    <3>1. joins' = 1
      BY <2>2 DEF JoinOK
    <3>2. outcome' \in Outcomes
      BY <2>2 DEF JoinOK, WriterOK, WriterHeard, Outcomes
    <3> QED BY <2>2, <3>1, <3>2 DEF JoinOK, Running
  <2> QED BY <2>1, <2>2
<1>3. WriterOK'
  <2>1. CASE writer_joined
    BY <2>1 DEF WriterOK
  <2>2. CASE ~writer_joined /\ writer.does = "finished"
    BY <2>2 DEF WriterOK, WriterHeard
  <2>3. CASE ~writer_joined /\ writer.does # "finished"
    BY <2>3 DEF WriterOK, WriterKinds
  <2> QED BY <2>1, <2>2, <2>3
<1>4. WriterErrorTold'
  <2>1. CASE writer_joined
    BY <2>1 DEF WriterOK, WriterErrorTold
  <2>2. CASE ~writer_joined /\ writer.does = "finished"
    BY <2>2 DEF WriterOK, WriterErrorTold, WriterHeard, socket
  <2>3. CASE ~writer_joined /\ writer.does # "finished"
    BY <2>3 DEF WriterOK, WriterErrorTold, WriterHeard, WriterKinds, socket
  <2> QED BY <2>1, <2>2, <2>3
<1> QED BY <1>1, <1>2, <1>3, <1>4

LEMMA WriterStep == ASSUME IInv, Writer PROVE IInv'
<1> USE DEF IInv
<1>1. RestOK'
  BY DEF Writer, WriterTakes, WriterWrote, WriterFinishes, WriterFails, RestOK,
         tokens, watchdog, socket
<1>2. UNCHANGED <<progress, events, join, peer>>
  BY DEF Writer, WriterTakes, WriterWrote, WriterFinishes, WriterFails, lanes, socket
<1>3. LanesOK' /\ CutOnlyWhenStopped'
  <2>1. outgoing' \in 0..Queue /\ urgent' \in 0..Priority
    <3> USE LanesAssumption DEF LanesOK
    <3>1. CASE WriterTakes
      BY <3>1 DEF WriterTakes
    <3>2. CASE WriterWrote \/ WriterFinishes
      BY <3>2 DEF WriterWrote, WriterFinishes, lanes
    <3>3. ASSUME NEW error, WriterFails(error)
          PROVE  outgoing' \in 0..Queue /\ urgent' \in 0..Priority
      BY <3>3 DEF WriterFails
    <3> QED BY <3>1, <3>2, <3>3 DEF Writer
  <2> QED BY <1>2, <2>1 DEF LanesOK, CutOnlyWhenStopped, progress
<1>4. JoinOK'
  BY <1>2 DEF JoinOK, Running, progress, join
<1>5. WriterOK' /\ WriterErrorTold'
  <2> USE DEF WriterOK, WriterKinds, WriterErrorTold, lanes, progress, join, socket
  <2>1. CASE WriterTakes
    BY <2>1 DEF WriterTakes
  <2>2. CASE WriterWrote
    BY <2>2 DEF WriterWrote
  <2>3. CASE WriterFinishes
    BY <2>3 DEF WriterFinishes
  <2>4. ASSUME NEW error \in {"disconnected", "write timeout"}, WriterFails(error)
        PROVE  WriterOK' /\ WriterErrorTold'
    BY <2>4 DEF WriterFails
  <2> QED BY <2>1, <2>2, <2>3, <2>4 DEF Writer
<1> QED BY <1>1, <1>3, <1>4, <1>5

-----------------------------------------------------------------------------
LEMMA Inductive == Spec => []IInv
<1>1. Init => IInv
  <2> SUFFICES ASSUME Init PROVE IInv
    OBVIOUS
  <2> USE DEF Init
  <2>1. RestOK /\ LanesOK
    <3>1. /\ {commands, events} \subseteq 0..Queue /\ outgoing \in 0..Queue
          /\ controls \in 0..Controls /\ urgent \in 0..Priority
          /\ silence \in 0..2 /\ inbox \in Nat
      BY LanesAssumption
    <3> QED BY <3>1 DEF RestOK, LanesOK
  <2>2. JoinOK
    BY DEF JoinOK, Running, Outcomes
  <2>3. WriterOK
    BY DEF WriterOK, WriterKinds
  <2>4. CutOnlyWhenStopped /\ WriterErrorTold
    BY DEF CutOnlyWhenStopped, WriterErrorTold
  <2> QED BY <2>1, <2>2, <2>3, <2>4 DEF IInv
<1>2. IInv /\ [Next]_vars => IInv'
  <2> SUFFICES ASSUME IInv, [Next]_vars PROVE IInv'
    OBVIOUS
  <2>1. CASE UNCHANGED vars
    <3> USE <2>1 DEF vars, lanes, progress, tokens, watchdog, join, socket, IInv
    <3>1. RestOK' /\ LanesOK'
      BY DEF RestOK, LanesOK
    <3>2. JoinOK'
      BY DEF JoinOK, Running
    <3>3. WriterOK'
      BY DEF WriterOK
    <3>4. CutOnlyWhenStopped' /\ WriterErrorTold'
      BY DEF CutOnlyWhenStopped, WriterErrorTold
    <3> QED BY <3>1, <3>2, <3>3, <3>4
  <2>2. CASE Loop
    BY <2>2, HeadStep, SelectStep, TailIsLast DEF Loop
  <2> QED
    BY <2>1, <2>2, HostStep, PeerStep, WriterStep DEF Next, Over
<1> QED BY <1>1, <1>2, PTL DEF Spec

\* No lane of the session ever holds more than its capacity, whatever it is, and
\* every variable keeps its kind.
THEOREM TypeCorrect == Spec => []TypeOK
<1>1. IInv => TypeOK
  BY DEF IInv, RestOK, LanesOK, JoinOK, WriterOK, TypeOK
<1> QED BY <1>1, Inductive, PTL

\* The writer's handle is never polled again after it gave the writer's result.
THEOREM WriterJoinedOnce == Spec => []JoinedOnce
<1>1. IInv => JoinedOnce
  BY DEF IInv, JoinOK, JoinedOnce, Running
<1> QED BY <1>1, Inductive, PTL

\* The endpoint never forgets what the watch still lets the host play, wherever
\* a full queue broke the handler off.
THEOREM StopsBeforeCut == Spec => []CutOnlyWhenStopped
<1>1. IInv => CutOnlyWhenStopped
  BY DEF IInv
<1> QED BY <1>1, Inductive, PTL

\* A session that failed because of its writer says why.
THEOREM ErrorTold == Spec => []WriterErrorTold
<1>1. IInv => WriterErrorTold
  BY DEF IInv
<1> QED BY <1>1, Inductive, PTL
=============================================================================
