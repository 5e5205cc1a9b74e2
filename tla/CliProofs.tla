------------------------------- MODULE CliProofs -------------------------------
(* Theorems about Cli, for queues of every capacity.                       *)
EXTENDS Cli, TLAPS

\* The user asked the program to end.
Asked == interrupted \/ input \in {"closed", "eof"}

\* What the control lane holds: a close is queued only by a reader that ended.
LaneInv ==
  /\ controls \in Seq({"control", "close"})
  /\ \A i \in 1 .. Len(controls) : controls[i] = "close" => input \in {"closed", "eof"}

\* How the session and main may stand to each other.
EndInv ==
  /\ session \in {"running", "returned", "published"}
  /\ outcome \in {"open", "closed", "failed"}
  /\ main \in {"select", "finish", "mcp", "drain", "exited"}
  /\ result \in {"none", "ok", "error"}
  /\ outcome = "open" <=> session = "running"
  /\ result = "none" <=> main = "select"
  /\ shutdown <=> main # "select"
  /\ main \in {"mcp", "drain", "exited"} => session = "published"
  /\ outcome = "closed" /\ result # "error" => Asked
  /\ result = "ok" => Asked \/ outcome = "failed"

CliInv == LaneInv /\ EndInv

LEMMA LaneStep == LaneInv /\ [Next]_vars => LaneInv'
<1> SUFFICES ASSUME LaneInv, [Next]_vars PROVE LaneInv'
  OBVIOUS
<1> USE DEF LaneInv, threads, queues, sessionVars, mainVars
<1>1. ASSUME NEW kind \in {"control", "close"},
             controls' = Append(controls, kind),
             kind = "close" => input' \in {"closed", "eof"},
             input \in {"closed", "eof"} => input' = input
      PROVE  LaneInv'
  BY <1>1
<1>2. CASE TakesControl
  <2>1. /\ controls' = Tail(controls) /\ input' = input /\ controls # <<>>
    BY <1>2 DEF TakesControl
  <2>2. /\ controls' \in Seq({"control", "close"})
        /\ \A i \in 1 .. Len(controls') :
             i + 1 \in 1 .. Len(controls) /\ controls'[i] = controls[i + 1]
    BY <2>1
  <2> QED  BY <2>1, <2>2
<1>3. ASSUME NEW kind \in {"ordinary", "control", "close"}, ReadCommand(kind)
      PROVE  LaneInv'
  <2>1. CASE controls' = Append(controls, kind) /\ kind # "ordinary"
    BY <1>1, <1>3, <2>1 DEF ReadCommand
  <2>2. CASE UNCHANGED controls
    BY <1>3, <2>2 DEF ReadCommand
  <2> QED  BY <1>3, <2>1, <2>2 DEF ReadCommand, Send
<1>4. CASE ReadEof
  <2>1. CASE controls' = Append(controls, "close")
    BY <1>1, <1>4, <2>1 DEF ReadEof
  <2>2. CASE UNCHANGED controls
    BY <1>4, <2>2 DEF ReadEof
  <2> QED  BY <1>4, <2>1, <2>2 DEF ReadEof, Send
<1>5. CASE UNCHANGED controls /\ (input \in {"closed", "eof"} => input' = input)
  BY <1>5
<1> QED
  BY <1>2, <1>3, <1>4, <1>5
  DEF Next, Input, Output, Session, Main, Exited, vars, ReadFails, WriteLine,
      WriteFails, WriteEnds, TakesCommand, Emits, SessionFails, SessionShutsDown,
      SessionPublishes, CtrlC, SeesIoError, ForwardsEvent, SeesEventsEnd, SeesStatus,
      Finishes, ShutsDownTools, Exits

LEMMA EndStep == LaneInv /\ EndInv /\ [Next]_vars => EndInv'
<1> SUFFICES ASSUME LaneInv, EndInv, [Next]_vars PROVE EndInv'
  OBVIOUS
<1> USE DEF EndInv, Asked, threads, queues, sessionVars, mainVars
<1>1. CASE Input
  BY <1>1 DEF Input, ReadCommand, ReadFails, ReadEof
<1>2. CASE Output
  BY <1>2 DEF Output, WriteLine, WriteFails, WriteEnds
<1>3. CASE TakesControl
  <2>1. controls # <<>> /\ Head(controls) = "close" => input \in {"closed", "eof"}
    BY DEF LaneInv
  <2> QED  BY <1>3, <2>1 DEF TakesControl, Returns
<1>4. CASE \/ TakesCommand \/ Emits \/ SessionFails
           \/ SessionShutsDown \/ SessionPublishes
  BY <1>4 DEF TakesCommand, Emits, SessionFails, SessionShutsDown, SessionPublishes,
     Returns
<1>5. CASE CtrlC \/ SeesIoError \/ ForwardsEvent
  BY <1>5 DEF CtrlC, SeesIoError, ForwardsEvent, Leaves
<1>6. CASE SeesEventsEnd \/ SeesStatus
  BY <1>6 DEF SeesEventsEnd, SeesStatus, Leaves
<1>7. CASE \/ Finishes \/ \E how \in {"ok", "error"} : ShutsDownTools(how)
           \/ Exits \/ Exited \/ UNCHANGED vars
  BY <1>7 DEF Finishes, ShutsDownTools, Exits, Exited, vars
<1> QED
  BY <1>1, <1>2, <1>3, <1>4, <1>5, <1>6, <1>7 DEF Next, Session, Main

LEMMA CliHolds == Spec => []CliInv
<1>1. Init => CliInv
  BY DEF Init, CliInv, LaneInv, EndInv
<1>2. CliInv /\ [Next]_vars => CliInv'
  BY LaneStep, EndStep DEF CliInv
<1> QED  BY <1>1, <1>2, PTL DEF Spec

\* The counts of the queues, and what the threads and main may hold.
CountInv ==
  /\ Len(controls) <= ControlQueue
  /\ commands \in 0 .. CommandQueue
  /\ events \in 0 .. EventQueue
  /\ output \in 0 .. OutputQueue

KindInv ==
  /\ input \in {"reading", "closed", "failed", "eof"}
  /\ writer \in {"writing", "failed", "written"}
  /\ io_error \in BOOLEAN
  /\ shutdown \in BOOLEAN
  /\ tools \in {"ok", "error"}
  /\ interrupted \in BOOLEAN

LEMMA CountStep == LaneInv /\ CountInv /\ [Next]_vars => CountInv'
<1> SUFFICES ASSUME LaneInv, CountInv, [Next]_vars PROVE CountInv'
  OBVIOUS
<1> USE QueuesAssumption DEF CountInv, threads, queues, sessionVars, mainVars
<1>1. ASSUME NEW kind \in {"ordinary", "control", "close"}, Admits(kind), Send(kind),
             UNCHANGED <<events, output>>
      PROVE  CountInv'
  BY <1>1 DEF Admits, Send, LaneInv
<1>2. CASE Input
  <2>1. CASE UNCHANGED queues
    BY <2>1
  <2>2. CASE \E kind \in {"ordinary", "control", "close"} :
               Admits(kind) /\ Send(kind) /\ UNCHANGED <<events, output>>
    BY <1>1, <2>2
  <2> QED  BY <1>2, <2>1, <2>2 DEF Input, ReadCommand, ReadFails, ReadEof
<1>3. CASE Output
  BY <1>3 DEF Output, WriteLine, WriteFails, WriteEnds
<1>4. CASE TakesControl
  <2>1. controls # <<>> /\ controls' = Tail(controls)
        /\ UNCHANGED <<commands, events, output>>
    BY <1>4 DEF TakesControl
  <2>2. Len(controls') <= Len(controls)
    BY <2>1 DEF LaneInv
  <2>3. Len(controls') \in Nat /\ Len(controls) \in Nat
    BY <2>1 DEF LaneInv
  <2> QED  BY <2>1, <2>2, <2>3
<1>5. CASE \/ TakesCommand \/ Emits \/ SessionFails
           \/ SessionShutsDown \/ SessionPublishes
  BY <1>5 DEF TakesCommand, Emits, SessionFails, SessionShutsDown, SessionPublishes
<1>6. CASE Main \/ Exited \/ UNCHANGED vars
  BY <1>6 DEF Main, CtrlC, SeesIoError, ForwardsEvent, SeesEventsEnd, SeesStatus,
     Finishes, ShutsDownTools, Exits, Exited, vars
<1> QED
  BY <1>2, <1>3, <1>4, <1>5, <1>6 DEF Next, Session

LEMMA KindStep == KindInv /\ [Next]_vars => KindInv'
<1> SUFFICES ASSUME KindInv, [Next]_vars PROVE KindInv'
  OBVIOUS
<1> USE DEF KindInv, threads, queues, sessionVars, mainVars
<1>1. CASE Input
  BY <1>1 DEF Input, ReadCommand, ReadFails, ReadEof
<1>2. CASE Output
  BY <1>2 DEF Output, WriteLine, WriteFails, WriteEnds
<1>3. CASE Session
  BY <1>3 DEF Session, TakesControl, TakesCommand, Emits, SessionFails,
     SessionShutsDown, SessionPublishes
<1>4. CASE CtrlC \/ SeesIoError \/ ForwardsEvent \/ SeesEventsEnd \/ SeesStatus
  BY <1>4 DEF CtrlC, SeesIoError, ForwardsEvent, SeesEventsEnd, SeesStatus, Leaves
<1>5. CASE \/ Finishes \/ \E how \in {"ok", "error"} : ShutsDownTools(how)
           \/ Exits \/ Exited \/ UNCHANGED vars
  BY <1>5 DEF Finishes, ShutsDownTools, Exits, Exited, vars
<1> QED
  BY <1>1, <1>2, <1>3, <1>4, <1>5 DEF Next, Main

\* Every variable holds a value of its kind, and no queue exceeds its capacity,
\* for queues of every capacity.
THEOREM TypeCorrect == Spec => []TypeOK
<1>1. Init => CliInv /\ CountInv /\ KindInv
  <2>1. Init => CliInv
    BY DEF Init, CliInv, LaneInv, EndInv
  <2>2. Init => CountInv
    BY QueuesAssumption DEF Init, CountInv
  <2>3. Init => KindInv
    BY DEF Init, KindInv
  <2> QED  BY <2>1, <2>2, <2>3
<1>2. CliInv /\ CountInv /\ KindInv /\ [Next]_vars => (CliInv /\ CountInv /\ KindInv)'
  BY LaneStep, EndStep, CountStep, KindStep DEF CliInv
<1>3. CliInv /\ CountInv /\ KindInv => TypeOK
  BY DEF CliInv, LaneInv, EndInv, CountInv, KindInv, TypeOK
<1> QED  BY <1>1, <1>2, <1>3, PTL DEF Spec

\* No exit leaves the session, and with it its tools, running.
THEOREM SessionFirst == Spec => []ExitsAfterSession
<1>1. CliInv => ExitsAfterSession
  BY DEF CliInv, EndInv, ExitsAfterSession
<1> QED  BY <1>1, CliHolds, PTL

\* A session that ends by itself is never reported as a success.
THEOREM NoAccidentalSuccess == Spec => []SuccessIntended
<1>1. CliInv => SuccessIntended
  BY DEF CliInv, EndInv, SuccessIntended, ExitCode, Asked
<1> QED  BY <1>1, CliHolds, PTL
=============================================================================
