---------------------------------- MODULE Cli ----------------------------------
(***************************************************************************)
(* The command line host, src/src/main.rs: a thread that reads commands    *)
(* from stdin, a thread that writes events to stdout, the select! loop of  *)
(* main and the order in which it winds down.  The session is the one of   *)
(* Coordinator.tla, reduced to its queues and its endings.                 *)
(***************************************************************************)
EXTENDS Naturals, Sequences

CONSTANTS
  ControlQueue,   \* capacity of the control lane
  CommandQueue,   \* Limits.queue, of commands ...
  EventQueue,     \* ... and of events
  OutputQueue     \* capacity of the queue to the stdout thread

ASSUME QueuesAssumption ==
  /\ ControlQueue \in Nat \ {0} /\ CommandQueue \in Nat \ {0}
  /\ EventQueue \in Nat \ {0} /\ OutputQueue \in Nat \ {0}

VARIABLES
  input,     \* the stdin thread: "reading", or why it ended
  writer,    \* the stdout thread: "writing", "failed" or "written"
  io_error,  \* an error of either thread waits to be seen
  controls,  \* the control lane: "control" and "close" commands
  commands,  \* how many ordinary commands are queued
  events,    \* how many events are queued
  output,    \* how many lines are queued for stdout
  session,   \* "running", "returned" from run(), "published" its status
  outcome,   \* how it ended: "open", "closed" or "failed"
  shutdown,  \* the session's cancellation token
  main,      \* "select", "finish", "mcp", "drain" or "exited"
  result,    \* what the loop of main returned: "none", "ok" or "error"
  tools,     \* what the MCP shutdown returned: "ok" or "error"
  interrupted \* history: Ctrl+C was pressed

threads == <<input, writer, io_error>>
queues == <<controls, commands, events, output>>
sessionVars == <<session, outcome, shutdown>>
mainVars == <<main, result, tools, interrupted>>
vars == <<threads, queues, sessionVars, mainVars>>

Init ==
  /\ input = "reading" /\ writer = "writing" /\ io_error = FALSE
  /\ controls = <<>> /\ commands = 0 /\ events = 0 /\ output = 0
  /\ session = "running" /\ outcome = "open" /\ shutdown = FALSE
  /\ main = "select" /\ result = "none" /\ tools = "ok"
  /\ interrupted = FALSE

-----------------------------------------------------------------------------
(* The stdin thread.                                                       *)

Alive == main # "exited"

\* Whether Handle::send() admits a command: its receiver lives in run().
Admits(kind) ==
  /\ session = "running"
  /\ IF kind = "ordinary" THEN commands < CommandQueue
     ELSE Len(controls) < ControlQueue

Send(kind) ==
  IF kind = "ordinary"
  THEN commands' = commands + 1 /\ UNCHANGED controls
  ELSE controls' = Append(controls, kind) /\ UNCHANGED commands

\* A line that parses as a command.
ReadCommand(kind) ==
  /\ Alive /\ input = "reading"
  /\ \/ /\ Admits(kind)
        /\ Send(kind)
        /\ input' = IF kind = "close" THEN "closed" ELSE input
        /\ UNCHANGED io_error
     \/ /\ ~Admits(kind)
        /\ io_error' = TRUE /\ input' = "failed"
        /\ UNCHANGED <<controls, commands>>
  /\ UNCHANGED <<writer, events, output, sessionVars, mainVars>>

\* A line too long, not a command or too large for one, or a failed read.
ReadFails ==
  /\ Alive /\ input = "reading"
  /\ io_error' = TRUE /\ input' = "failed"
  /\ UNCHANGED <<writer, queues, sessionVars, mainVars>>

\* End of input: close is sent, and a refusal ignored.
ReadEof ==
  /\ Alive /\ input = "reading"
  /\ input' = "eof"
  /\ IF Admits("close") THEN Send("close") ELSE UNCHANGED <<controls, commands>>
  /\ UNCHANGED <<writer, io_error, events, output, sessionVars, mainVars>>

-----------------------------------------------------------------------------
(* The stdout thread: each step may take for ever.                         *)

WriteLine ==
  /\ Alive /\ writer = "writing" /\ output > 0
  /\ output' = output - 1
  /\ UNCHANGED <<threads, controls, commands, events, sessionVars, mainVars>>

WriteFails ==
  /\ Alive /\ writer = "writing" /\ output > 0
  /\ writer' = "failed" /\ io_error' = TRUE
  /\ UNCHANGED <<input, queues, sessionVars, mainVars>>

\* The queue is dropped by main, and empty.
WriteEnds ==
  /\ main = "drain" /\ writer = "writing" /\ output = 0
  /\ writer' = "written"
  /\ UNCHANGED <<input, io_error, queues, sessionVars, mainVars>>

-----------------------------------------------------------------------------
(* The session, as the command line sees it.                               *)

Returns(how) == session' = "returned" /\ outcome' = how

TakesControl ==
  /\ session = "running" /\ ~shutdown /\ controls # <<>>
  /\ controls' = Tail(controls)
  /\ IF Head(controls) = "close" THEN Returns("closed")
     ELSE UNCHANGED <<session, outcome>>
  /\ UNCHANGED <<threads, commands, events, output, shutdown, mainVars>>

\* Ordinary commands wait for ready, which may never come.
TakesCommand ==
  /\ session = "running" /\ ~shutdown /\ commands > 0
  /\ commands' = commands - 1
  /\ UNCHANGED <<threads, controls, events, output, sessionVars, mainVars>>

\* An event for the host; a full queue ends the session.
Emits ==
  /\ session = "running" /\ ~shutdown
  /\ IF events < EventQueue
     THEN events' = events + 1 /\ UNCHANGED <<session, outcome>>
     ELSE Returns("failed") /\ UNCHANGED events
  /\ UNCHANGED <<threads, controls, commands, output, shutdown, mainVars>>

\* Any other failure: the endpoint, a deadline, a limit.
SessionFails ==
  /\ session = "running"
  /\ Returns("failed")
  /\ UNCHANGED <<threads, queues, shutdown, mainVars>>

SessionShutsDown ==
  /\ session = "running" /\ shutdown
  /\ Returns("closed")
  /\ UNCHANGED <<threads, queues, shutdown, mainVars>>

\* After terminal playback: the status watch.
SessionPublishes ==
  /\ session = "returned"
  /\ session' = "published"
  /\ UNCHANGED <<threads, queues, outcome, shutdown, mainVars>>

-----------------------------------------------------------------------------
(* main: the select! loop ...                                              *)

\* The loop returns; Session::finish() cancels the session's token.
Leaves(how) ==
  /\ result' = how /\ main' = "finish" /\ shutdown' = TRUE
  /\ UNCHANGED <<session, outcome, tools>>

CtrlC ==
  /\ main = "select"
  /\ interrupted' = TRUE
  /\ Leaves("ok")
  /\ UNCHANGED <<threads, queues>>

SeesIoError ==
  /\ main = "select" /\ io_error
  /\ io_error' = FALSE
  /\ Leaves("error")
  /\ UNCHANGED <<input, writer, queues, interrupted>>

\* An event becomes a line, if the stdout thread keeps up.
ForwardsEvent ==
  /\ main = "select" /\ events > 0
  /\ events' = events - 1
  /\ IF writer = "writing" /\ output < OutputQueue
     THEN output' = output + 1 /\ UNCHANGED <<sessionVars, mainVars>>
     ELSE Leaves("error") /\ UNCHANGED <<output, interrupted>>
  /\ UNCHANGED <<threads, controls, commands>>

\* run() has dropped its sender: this may come before the status.
SeesEventsEnd ==
  /\ main = "select" /\ events = 0 /\ session # "running"
  /\ Leaves("ok")
  /\ UNCHANGED <<threads, queues, interrupted>>

SeesStatus ==
  /\ main = "select" /\ session = "published"
  /\ Leaves(IF outcome = "failed" THEN "error" ELSE "ok")
  /\ UNCHANGED <<threads, queues, interrupted>>

(* ... and its wind-down.                                                  *)

Finishes ==
  /\ main = "finish" /\ session = "published"
  /\ main' = "mcp"
  /\ UNCHANGED <<threads, queues, sessionVars, result, tools, interrupted>>

\* shutdown() of the MCP tools is bounded by its own deadline; without tools
\* it is nothing.
ShutsDownTools(how) ==
  /\ main = "mcp"
  /\ main' = "drain" /\ tools' = how
  /\ UNCHANGED <<threads, queues, sessionVars, result, interrupted>>

\* Slip: the exit waits for a healthy and for a blocked pipe alike.
ExitsWhenWritten ==
  /\ main = "drain" /\ writer # "writing"
  /\ main' = "exited"
  /\ UNCHANGED <<threads, queues, sessionVars, result, tools, interrupted>>

\* The stdout thread is done, or its time is up.
Exits ==
  /\ main = "drain"
  /\ main' = "exited"
  /\ UNCHANGED <<threads, queues, sessionVars, result, tools, interrupted>>

\* Slip: what finish() returns is ignored.
ExitCodeOfLoop ==
  IF result = "error" \/ tools = "error" THEN "failure" ELSE "success"

\* The exit code: the loop's result, then finish(), then the tools.
ExitCode ==
  IF result = "error" \/ outcome = "failed" \/ tools = "error"
  THEN "failure" ELSE "success"

Exited == main = "exited" /\ UNCHANGED vars

-----------------------------------------------------------------------------
Input ==
  \/ \E kind \in {"ordinary", "control", "close"} : ReadCommand(kind)
  \/ ReadFails \/ ReadEof

Output == WriteLine \/ WriteFails \/ WriteEnds

Session ==
  \/ TakesControl \/ TakesCommand \/ Emits \/ SessionFails
  \/ SessionShutsDown \/ SessionPublishes

Main ==
  \/ CtrlC \/ SeesIoError \/ ForwardsEvent \/ SeesEventsEnd \/ SeesStatus
  \/ Finishes \/ \E how \in {"ok", "error"} : ShutsDownTools(how)
  \/ Exits

Next == Input \/ Output \/ Session \/ Main \/ Exited

Spec == Init /\ [][Next]_vars

\* The runtime polls the session and main, and their waits are bounded;
\* neither stdin nor stdout need ever make progress.
Fairness ==
  /\ WF_vars(TakesControl)
  /\ WF_vars(SessionShutsDown)
  /\ WF_vars(SessionPublishes)
  /\ WF_vars(SeesIoError)
  /\ WF_vars(SeesStatus)
  /\ WF_vars(Finishes)
  /\ WF_vars(\E how \in {"ok", "error"} : ShutsDownTools(how))
  /\ WF_vars(Exits)

FairSpec == Spec /\ Fairness

-----------------------------------------------------------------------------
(* Properties.                                                             *)

\* Every variable holds a value of its kind, and queues their capacity.
TypeOK ==
  /\ input \in {"reading", "closed", "failed", "eof"}
  /\ writer \in {"writing", "failed", "written"}
  /\ io_error \in BOOLEAN
  /\ controls \in Seq({"control", "close"}) /\ Len(controls) <= ControlQueue
  /\ commands \in 0 .. CommandQueue
  /\ events \in 0 .. EventQueue
  /\ output \in 0 .. OutputQueue
  /\ session \in {"running", "returned", "published"}
  /\ outcome \in {"open", "closed", "failed"}
  /\ shutdown \in BOOLEAN
  /\ main \in {"select", "finish", "mcp", "drain", "exited"}
  /\ result \in {"none", "ok", "error"}
  /\ tools \in {"ok", "error"}
  /\ interrupted \in BOOLEAN

\* The program succeeds only if its user ended it, by Ctrl+C, close or the
\* end of the input: a session that ends by itself is a failure, whichever arm
\* of the select! (the end of the events or the status) notices it first.
SuccessIntended ==
  main = "exited" /\ ExitCode = "success"
    => interrupted \/ input \in {"closed", "eof"}

\* The program ends after its session: no exit leaves tools of it running.
ExitsAfterSession == main \in {"mcp", "drain", "exited"} => session = "published"

\* The program ends once it decides to, with stdin open and stdout blocked; and
\* a close that was admitted or an error of either thread makes it decide to,
\* whatever else happens.
EndsWhenAsked ==
  main # "select" \/ input = "closed" \/ io_error ~> main = "exited"

\* src/src/main.rs:33, "EOF closes the session": the end of input ends the
\* program.
EofExits == input = "eof" ~> main = "exited"
=============================================================================
