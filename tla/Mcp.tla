---------------------------------- MODULE Mcp ----------------------------------
(***************************************************************************)
(* The owner of the local MCP servers and its executor (src/src/mcp.rs):   *)
(* connect() is McpCatalog; then the calls of the tool tasks, each a       *)
(* future that is polled, cancelled or dropped, and shutdown(), which      *)
(* cancels and drains them before it closes, kills and reaps the servers.  *)
(* The servers and the connection to each are outside the repository.      *)
(***************************************************************************)
EXTENDS McpCatalog

CONSTANT Calls    \* the executions of tool calls

VARIABLES
  at,         \* a call: "idle", "entered", "sending", "waiting", "dropping", "done"
  target,     \* a call: the server its route leads to, or None
  cancelled,  \* the calls whose cancellation token is cancelled
  outcome,    \* a call: what it told of its dispatch, "none" if it was refused
              \* or dropped, "abandoned" if it was dropped outside a runtime
  request,    \* a call: "none", "sent" to the server's queue, "answered"
  cleanup,    \* a call: its cancellation notice: "none", "pending", "over"
  shutdown,   \* the executor's shutdown token is cancelled
  server,     \* a server: its connection, "up" or "down"
  step,       \* a server, in shutdown(): "closes", "killed", "reaped", "failed"
  clock,      \* of shutdown(): 0, 1 past the grace, 2 past the deadline
  overran     \* history: the grace passed before the tracker was empty

callVars == <<at, target, cancelled, outcome, request, cleanup>>
ownerVars == <<shutdown, server, step, clock, overran>>
vars == <<catalogVars, callVars, ownerVars>>

States == {"idle", "entered", "sending", "waiting", "dropping", "done"}
Outcomes == {"none", "not_dispatched", "unknown", "answered", "transport",
             "abandoned"}

MInit ==
  /\ Init
  /\ at = [c \in Calls |-> "idle"] /\ target = [c \in Calls |-> None]
  /\ cancelled = {} /\ outcome = [c \in Calls |-> "none"]
  /\ request = [c \in Calls |-> "none"] /\ cleanup = [c \in Calls |-> "none"]
  /\ shutdown = FALSE
  /\ server = [s \in Servers |-> "up"] /\ step = [s \in Servers |-> "closes"]
  /\ clock = 0 /\ overran = FALSE

Connecting == Connect /\ UNCHANGED <<callVars, ownerVars>>

-----------------------------------------------------------------------------
(* A call: one action for each part of execute() between two looks at      *)
(* state that others share.                                                *)

Moves(c, state, result) ==
  /\ at' = [at EXCEPT ![c] = state]
  /\ outcome' = [outcome EXCEPT ![c] = result]
  /\ UNCHANGED <<catalogVars, target, cancelled, ownerVars>>

\* The future returns or is gone, and with it its token and its route.
Ends(c, result) ==
  /\ at' = [at EXCEPT ![c] = "done"]
  /\ outcome' = [outcome EXCEPT ![c] = result]
  /\ target' = [target EXCEPT ![c] = None] /\ cancelled' = cancelled \ {c}
  /\ UNCHANGED <<catalogVars, ownerVars>>

\* The executor may outlive its owner.  From here on the execution is tracked;
\* an unknown name, or arguments that are no object, end it.
Enter(c) ==
  /\ phase \notin {"connecting", "failed"} /\ at[c] = "idle"
  /\ \/ Ends(c, "none")
     \/ \E a \in Aliases :
          /\ routes[a] # None
          /\ at' = [at EXCEPT ![c] = "entered"]
          /\ target' = [target EXCEPT ![c] = routes[a][1]]
          /\ UNCHANGED <<catalogVars, cancelled, outcome, ownerVars>>
  /\ UNCHANGED <<request, cleanup>>

\* The biased select! looks at both tokens before it polls the send.
Stopped(c) == c \in cancelled \/ shutdown

Dispatch(c) ==
  /\ at[c] = "entered"
  /\ IF Stopped(c) THEN Ends(c, "not_dispatched")
     ELSE Moves(c, "sending", "none")
  /\ UNCHANGED <<request, cleanup>>

\* Slip: the send may suspend after the queue took the request.
AdmitSuspended(c) ==
  /\ at[c] = "sending" /\ server[target[c]] = "up"
  /\ request' = [request EXCEPT ![c] = "sent"]
  /\ Moves(c, "waiting", "none") \/ Moves(c, "entered", "none")
  /\ UNCHANGED cleanup

\* The queue takes the request, and with no await in between the guard owns it.
Admit(c) ==
  /\ at[c] = "sending" /\ server[target[c]] = "up"
  /\ request' = [request EXCEPT ![c] = "sent"]
  /\ Moves(c, "waiting", "none")
  /\ UNCHANGED cleanup

\* The queue is full, and the future is polled again; or it is closed.
Unsent(c) ==
  /\ at[c] = "sending"
  /\ \/ server[target[c]] = "up" /\ Moves(c, "entered", "none")
     \/ server[target[c]] = "down" /\ Ends(c, "transport")
  /\ UNCHANGED <<request, cleanup>>

\* Slip: the guard gives its handle away before it waits.
CancelsQuietly(c, result) ==
  Moves(c, "dropping", result) /\ UNCHANGED <<request, cleanup>>

\* The guard is dropped with its handle: a tracked task sends the cancellation.
Cancels(c, result) ==
  /\ cleanup' = [cleanup EXCEPT ![c] = "pending"]
  /\ Moves(c, "dropping", result)
  /\ UNCHANGED request

\* Slip: only the shutdown is looked at while the call waits.
GivesUpOnShutdown(c) ==
  at[c] = "waiting" /\ shutdown /\ Cancels(c, "unknown")

\* The tokens are looked at before the response.
GivesUp(c) ==
  at[c] = "waiting" /\ Stopped(c) /\ Cancels(c, "unknown")

Receives(c) ==
  /\ at[c] = "waiting" /\ ~Stopped(c)
  /\ \/ request[c] = "answered" /\ Moves(c, "dropping", "answered")
     \/ /\ request[c] = "sent" /\ server[target[c]] = "down"
        /\ Moves(c, "dropping", "transport")
  /\ UNCHANGED <<request, cleanup>>

\* The tracker's token is released after the guard's drop.
Releases(c) ==
  /\ at[c] = "dropping" /\ Ends(c, outcome[c])
  /\ UNCHANGED <<request, cleanup>>

\* The tool task drops the future: its timeout, or the session is over.  A
\* guard dropped with no runtime around cannot send anything.
Dropped(c) ==
  \/ /\ at[c] \in {"entered", "sending"} /\ Ends(c, "none")
     /\ UNCHANGED <<request, cleanup>>
  \/ at[c] = "waiting" /\ Cancels(c, "none")
  \/ /\ at[c] = "waiting" /\ Moves(c, "dropping", "abandoned")
     /\ UNCHANGED <<request, cleanup>>

Poll(c) ==
  \/ Dispatch(c) \/ Admit(c) \/ Unsent(c) \/ GivesUp(c) \/ Receives(c)
  \/ Releases(c)

\* The session cancels the call, while the call may still look.
Cancel(c) ==
  /\ at[c] \in {"entered", "sending", "waiting"} /\ c \notin cancelled
  /\ cancelled' = cancelled \cup {c}
  /\ UNCHANGED <<catalogVars, at, target, outcome, request, cleanup, ownerVars>>

\* The notice is sent, refused, or given up after shutdown_timeout.
CleansUp(c) ==
  /\ cleanup[c] = "pending"
  /\ cleanup' = [cleanup EXCEPT ![c] = "over"]
  /\ UNCHANGED <<catalogVars, at, target, cancelled, outcome, request, ownerVars>>

\* An answer to a call that no longer waits is dropped.
Answers(c) ==
  /\ at[c] = "waiting" /\ request[c] = "sent" /\ server[target[c]] = "up"
  /\ request' = [request EXCEPT ![c] = "answered"]
  /\ UNCHANGED <<catalogVars, at, target, cancelled, outcome, cleanup, ownerVars>>

Call(c) ==
  Enter(c) \/ Poll(c) \/ Dropped(c) \/ Cancel(c) \/ CleansUp(c) \/ Answers(c)

-----------------------------------------------------------------------------
(* The owner.                                                              *)

\* A server exits, or closes its end.
ServerDies(s) ==
  /\ phase # "connecting" /\ phase # "failed" /\ server[s] = "up"
  /\ server' = [server EXCEPT ![s] = "down"]
  /\ UNCHANGED <<catalogVars, callVars, shutdown, step, clock, overran>>

\* shutdown() starts: the calls are cancelled and the tracker is closed.
ShutDown ==
  /\ phase = "serving"
  /\ phase' = "draining" /\ shutdown' = TRUE
  /\ UNCHANGED <<started, discovery, selection, routes, catalog, running, callVars,
                 server, step, clock, overran>>

\* Slip: only the cancellation notices are tracked.
TrackedNotices == {c \in Calls : cleanup[c] = "pending"}

\* What the tracker counts: executions, and the cancellation notices.
Tracked ==
  {c \in Calls : at[c] \notin {"idle", "done"} \/ cleanup[c] = "pending"}

\* The tracker is empty, or the grace is over.
Drained ==
  /\ phase = "draining" /\ (Tracked = {} \/ clock > 0)
  /\ phase' = "closing" /\ overran' = (Tracked # {})
  /\ UNCHANGED <<started, discovery, selection, routes, catalog, running, callVars,
                 shutdown, server, step, clock>>

Closing(s, to) ==
  /\ phase = "closing"
  /\ step' = [step EXCEPT ![s] = to]
  /\ UNCHANGED <<phase, started, discovery, selection, routes, catalog, callVars,
                 shutdown, clock, overran>>

\* The service is closed and the leader awaited, each until the grace is over.
Awaited(s) == step[s] = "closes" /\ (server[s] = "down" \/ clock > 0)

\* Slip: a leader that exited by itself needs no kill.
KillsUnlessGone(s) ==
  /\ Awaited(s)
  /\ \/ /\ Closing(s, "killed")
        /\ running' = (IF server[s] = "down" THEN running ELSE running \ {s})
     \/ Closing(s, "failed") /\ UNCHANGED running
  /\ server' = [server EXCEPT ![s] = "down"]

\* The group is killed, whether or not its leader exited; or that fails.
Kills(s) ==
  /\ Awaited(s)
  /\ \/ Closing(s, "killed") /\ running' = running \ {s}
     \/ Closing(s, "failed") /\ UNCHANGED running
  /\ server' = [server EXCEPT ![s] = "down"]

Reaped(s) ==
  step[s] = "killed" /\ Closing(s, "reaped") /\ UNCHANGED <<running, server>>

\* Slip: the leader is awaited without a deadline.
ReapNeverFails(s) == FALSE

ReapFails(s) ==
  /\ step[s] = "killed" /\ clock = 2
  /\ Closing(s, "failed") /\ UNCHANGED <<running, server>>

Settled(s) == step[s] \in {"reaped", "failed"}

Unkilled == {s \in running : step[s] = "failed"}

\* What the owner holds is dropped, deadlines included: every process group is
\* killed, but for one that the system would not kill before.
DropOwner(to) ==
  /\ phase' = to /\ running' = Unkilled
  /\ server' = [s \in Servers |-> "down"]
  /\ clock' = 0 /\ overran' = FALSE
  /\ UNCHANGED <<started, discovery, selection, routes, catalog, callVars, shutdown,
                 step>>

Returns ==
  phase = "closing" /\ (\A s \in Servers : Settled(s)) /\ DropOwner("returned")

\* The host drops the owner, or the future of its shutdown().
HostDrops == phase \in {"serving", "draining", "closing"} /\ DropOwner("dropped")

Time ==
  /\ phase \in {"draining", "closing"} /\ clock < 2
  /\ clock' = clock + 1
  /\ UNCHANGED <<catalogVars, callVars, shutdown, server, step, overran>>

\* What the future of shutdown() does of itself; that a killed leader can be
\* reaped is up to the system.
ShutdownStep ==
  Drained \/ Returns \/ \E s \in Servers : Kills(s) \/ ReapFails(s)

Owner ==
  \/ ShutDown \/ ShutdownStep \/ HostDrops \/ Time
  \/ \E s \in Servers : ServerDies(s) \/ Reaped(s)

Idle == phase \in {"failed", "returned", "dropped"} /\ UNCHANGED vars

MNext == Connecting \/ (\E c \in Calls : Call(c)) \/ Owner \/ Idle

MSpec == MInit /\ [][MNext]_vars

\* The runtime polls what is ready, runs the notices and the shutdown, and time
\* passes.  Nothing is assumed of the servers, the host or connect().
Fairness ==
  /\ \A c \in Calls : WF_vars(Poll(c))
  /\ WF_vars(\E c \in Calls : CleansUp(c)) /\ WF_vars(ShutdownStep) /\ WF_vars(Time)

MFairSpec == MSpec /\ Fairness

-----------------------------------------------------------------------------
(* Properties.                                                             *)

\* Every variable holds a value of its kind, and what servers list stays within
\* the limits.
TypeOK ==
  /\ CatalogTypeOK
  /\ phase \in {"connecting", "failed", "serving", "draining", "closing",
                "returned", "dropped"}
  /\ at \in [Calls -> States] /\ outcome \in [Calls -> Outcomes]
  /\ target \in [Calls -> Servers \cup {None}] /\ cancelled \subseteq Calls
  /\ request \in [Calls -> {"none", "sent", "answered"}]
  /\ cleanup \in [Calls -> {"none", "pending", "over"}]
  /\ shutdown \in BOOLEAN /\ clock \in 0..2 /\ overran \in BOOLEAN
  /\ server \in [Servers -> {"up", "down"}]
  /\ step \in [Servers -> {"closes", "killed", "reaped", "failed"}]

\* A result that says the tool was not dispatched is true: its request was never
\* given to the server, whenever the cancellation or the shutdown came.
OutcomeTrue ==
  \A c \in Calls : outcome[c] = "not_dispatched" => request[c] = "none"

\* docs/mcp.md: "Explicit cancellation or dropping a pending executor future
\* requests MCP cancellation".  A request the server was given is answered, lost
\* with its connection, or cancelled, unless it was dropped outside a runtime.
DispatchSettled ==
  \A c \in Calls :
    at[c] = "done" /\ request[c] # "none" =>
      outcome[c] \in {"answered", "transport", "abandoned"} \/ cleanup[c] # "none"

\* docs/mcp.md: a shutdown "gives cancellation notifications and cooperative
\* process exit a bounded grace period".  Unless that period ran out, no server
\* is closed while a call may still send a request or has a notice to send,
\* whichever call came in while the tracker was looked at.
DrainedBeforeClose ==
  phase = "closing" /\ ~overran =>
    \A c \in Calls :
      at[c] \notin {"sending", "waiting", "dropping"} /\ cleanup[c] # "pending"

\* However the owner came to its end no process it started is left running, but
\* for one that shutdown() failed to kill; and a group that was killed is dead,
\* although its leader had exited before.
NothingRuns ==
  /\ phase \in {"failed", "returned", "dropped"} => running \subseteq Unkilled
  /\ \A s \in Servers : step[s] \in {"killed", "reaped"} => s \notin running

\* A shutdown comes to its end within its two deadlines, whatever servers and
\* calls do.
ShutdownReturns == phase = "draining" ~> phase \in {"returned", "dropped"}

\* A call that is cancelled, explicitly or by the shutdown, ends, although its
\* server never answers.
CancelledCallsEnd ==
  \A c \in Calls : c \in cancelled \/ (shutdown /\ at[c] # "idle") ~> at[c] = "done"
=============================================================================
