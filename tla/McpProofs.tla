------------------------------- MODULE McpProofs -------------------------------
(***************************************************************************)
(* Proofs about Mcp, for every set of servers, tools and calls, every      *)
(* selection, name mapping and limit.  Discovery, the calls and the owner  *)
(* share only a few variables: the invariant has a part for each, and each *)
(* step is shown to keep the parts it can disturb.                         *)
(***************************************************************************)
EXTENDS Mcp, TLAPS

\* What a call has of a request, by where it is.
CallsOK ==
  \A c \in Calls :
    /\ at[c] \in {"idle", "entered", "sending"} => request[c] = "none"
    /\ at[c] \notin {"dropping", "done"} => outcome[c] = "none" /\ cleanup[c] = "none"
    /\ at[c] \in {"dropping", "done"} /\ request[c] # "none" =>
         outcome[c] \in {"answered", "transport", "abandoned"} \/ cleanup[c] # "none"
    /\ outcome[c] = "not_dispatched" => request[c] = "none"

\* What runs, by what became of the owner.
OwnerOK ==
  /\ phase \in {"connecting", "failed", "serving", "draining", "closing",
                "returned", "dropped"}
  /\ phase \in {"draining", "closing"} => shutdown
  /\ phase \in {"connecting", "failed"} => \A s \in Servers : step[s] = "closes"
  /\ phase = "failed" => running = {}
  /\ phase \in {"returned", "dropped"} => running \subseteq Unkilled
  /\ \A s \in Servers : step[s] \in {"killed", "reaped"} => s \notin running

\* The kinds of the variables of calls, and of those of the owner.
CallTypeOK ==
  /\ at \in [Calls -> States] /\ outcome \in [Calls -> Outcomes]
  /\ target \in [Calls -> Servers \cup {None}] /\ cancelled \subseteq Calls
  /\ request \in [Calls -> {"none", "sent", "answered"}]
  /\ cleanup \in [Calls -> {"none", "pending", "over"}]

OwnerTypeOK ==
  /\ shutdown \in BOOLEAN /\ clock \in 0..2 /\ overran \in BOOLEAN
  /\ server \in [Servers -> {"up", "down"}]
  /\ step \in [Servers -> {"closes", "killed", "reaped", "failed"}]

IInv ==
  /\ CatalogTypeOK /\ RoutesAsAdvertised
  /\ CallTypeOK /\ CallsOK
  /\ OwnerTypeOK /\ OwnerOK /\ DrainedBeforeClose

-----------------------------------------------------------------------------
(* Discovery.                                                              *)

LEMMA CurrentOK == ASSUME CatalogTypeOK PROVE Current \in Servers
  BY McpCatalogAssumption DEF CatalogTypeOK, Current

LEMMA ListingsOK == Listings \subseteq Seq(Tools)
  BY McpCatalogAssumption DEF Listings

LEMMA ExposedOK ==
  ASSUME NEW all \in Seq(Tools) PROVE Exposed(all) \subseteq Tools
  BY DEF Exposed, Range

LEMMA PageStep ==
  ASSUME CatalogTypeOK, NEW tools \in Seq(Tools), NEW next \in Cursors \cup {None},
         Page(tools, next)
  PROVE  CatalogTypeOK'
<1>1. listed' \in Seq(Tools) /\ Len(listed') <= MaxListed
  BY McpCatalogAssumption DEF Page, Unlistable, CatalogTypeOK
<1>2. pages' \in 0..MaxPages - 1
  BY McpCatalogAssumption DEF Page, Unlistable, CatalogTypeOK
<1>3. cursors' \subseteq Cursors
  BY DEF Page, CatalogTypeOK
<1> QED BY <1>1, <1>2, <1>3 DEF Page, CatalogTypeOK

\* No alias is given twice: a new one has no route yet, and one tool.
LEMMA LastPageStep ==
  ASSUME CatalogTypeOK, RoutesAsAdvertised, NEW tools \in Seq(Tools), LastPage(tools)
  PROVE  CatalogTypeOK' /\ RoutesAsAdvertised'
<1> DEFINE all == listed \o tools
           Of(a) == {t \in Exposed(all) : AliasOf(t) = a}
           New == {[server |-> Current, tool |-> t, alias |-> AliasOf(t)] :
                     t \in Exposed(all)}
<1>1. all \in Seq(Tools) /\ Exposed(all) \subseteq Tools /\ Current \in Servers
  <2>1. all \in Seq(Tools)
    BY DEF CatalogTypeOK
  <2> QED BY <2>1, CurrentOK, ExposedOK
<1>2. ~AliasTaken(all)
  BY DEF LastPage, Unexposable
<1>3. /\ catalog' = catalog \cup New
      /\ routes' = [a \in Aliases |-> IF Of(a) = {} THEN routes[a]
                                      ELSE <<Current, CHOOSE t \in Of(a) : TRUE>>]
  BY DEF LastPage
<1>4. \A t \in Exposed(all) : AliasOf(t) \in Aliases
  BY <1>1, McpCatalogAssumption DEF AliasOf
<1>5. \A t \in Exposed(all) :
        /\ routes[AliasOf(t)] = None
        /\ Of(AliasOf(t)) = {t}
  BY <1>2 DEF AliasTaken
<1>6. \A a \in Aliases : Of(a) # {} => (CHOOSE t \in Of(a) : TRUE) \in Of(a)
  OBVIOUS
<1> HIDE DEF all, Of
<1>7. \A t \in Exposed(all) : routes'[AliasOf(t)] = <<Current, t>>
  <2> TAKE t \in Exposed(all)
  <2>1. (CHOOSE u \in {t} : TRUE) = t
    OBVIOUS
  <2>2. Of(AliasOf(t)) = {t} /\ AliasOf(t) \in Aliases
    BY <1>4, <1>5
  <2>3. routes'[AliasOf(t)] = <<Current, CHOOSE u \in {t} : TRUE>>
    BY <1>3, <2>2
  <2> QED BY <2>1, <2>3
<1>8. \A t : t \in Exposed(all) <=> \E a \in Aliases : t \in Of(a)
  BY <1>4 DEF Of
<1>9. \A a \in Aliases : routes[a] # None => routes'[a] = routes[a]
  <2> SUFFICES ASSUME NEW a \in Aliases, routes[a] # None PROVE Of(a) = {}
    BY <1>3
  <2> QED BY <1>5 DEF Of
<1>10. routes' \in [Aliases -> Servers \X Tools \cup {None}]
  <2> SUFFICES ASSUME NEW a \in Aliases
               PROVE  (IF Of(a) = {} THEN routes[a]
                       ELSE <<Current, CHOOSE t \in Of(a) : TRUE>>)
                        \in Servers \X Tools \cup {None}
    BY <1>3
  <2>1. CASE Of(a) = {}
    BY <2>1 DEF CatalogTypeOK
  <2>2. CASE Of(a) # {}
    <3>1. (CHOOSE t \in Of(a) : TRUE) \in Tools
      BY <1>1, <1>6, <2>2 DEF Of
    <3> QED BY <1>1, <2>2, <3>1
  <2> QED BY <2>1, <2>2
<1>11. New \subseteq Entries
  BY <1>1, <1>4 DEF Entries
<1>12. CatalogTypeOK'
  <2>1. started' \in DOMAIN Order /\ stage' \in {"launch", "initialize", "list"}
    BY McpCatalogAssumption DEF LastPage, CatalogTypeOK
  <2>2. running' \subseteq Servers
    BY DEF LastPage, DropStarted, CatalogTypeOK
  <2>3. /\ listed' \in Seq(Tools) /\ Len(listed') <= MaxListed
        /\ cursors' \subseteq Cursors /\ pages' \in 0..MaxPages - 1
    BY McpCatalogAssumption DEF LastPage
  <2>4. selection' \in [Servers -> Selections]
    BY DEF LastPage, CatalogTypeOK
  <2> QED
    BY <1>3, <1>10, <1>11, <2>1, <2>2, <2>3, <2>4 DEF CatalogTypeOK
<1>13. \A e \in catalog' : routes'[e.alias] = <<e.server, e.tool>>
  <2>1. ASSUME NEW e \in catalog PROVE routes'[e.alias] = <<e.server, e.tool>>
    <3>1. e.alias \in Aliases /\ <<e.server, e.tool>> \in Servers \X Tools
      BY DEF CatalogTypeOK, Entries
    <3>2. routes[e.alias] = <<e.server, e.tool>>
      BY DEF RoutesAsAdvertised
    <3>3. routes[e.alias] # None
      BY <3>1, <3>2, McpCatalogAssumption
    <3> QED BY <1>9, <3>1, <3>2, <3>3
  <2>2. ASSUME NEW e \in New PROVE routes'[e.alias] = <<e.server, e.tool>>
    <3>1. PICK t \in Exposed(all) :
            e = [server |-> Current, tool |-> t, alias |-> AliasOf(t)]
      OBVIOUS
    <3> QED BY <1>7, <3>1
  <2> QED BY <1>3, <2>1, <2>2
<1>14. ASSUME NEW a \in Aliases, routes'[a] # None
       PROVE  \E e \in catalog' : e.alias = a /\ routes'[a] = <<e.server, e.tool>>
  <2>1. CASE Of(a) = {}
    <3>1. routes'[a] = routes[a]
      BY <1>3, <2>1
    <3>2. PICK e \in catalog : e.alias = a /\ routes[a] = <<e.server, e.tool>>
      BY <1>14, <3>1 DEF RoutesAsAdvertised
    <3> QED BY <1>3, <3>1, <3>2
  <2>2. CASE Of(a) # {}
    <3>1. PICK t \in Exposed(all) : AliasOf(t) = a
      BY <2>2 DEF Of
    <3> DEFINE e == [server |-> Current, tool |-> t, alias |-> AliasOf(t)]
    <3>2. e \in catalog'
      BY <1>3
    <3>3. e.alias = a /\ routes'[a] = <<e.server, e.tool>>
      BY <1>7, <3>1
    <3> QED BY <3>2, <3>3
  <2> QED BY <2>1, <2>2
<1> QED BY <1>12, <1>13, <1>14 DEF RoutesAsAdvertised

\* What connect() does to the processes and to what became of the owner.
LEMMA ConnectEffect ==
  ASSUME CatalogTypeOK, Connect
  PROVE  /\ phase = "connecting"
         /\ phase' \in {"connecting", "failed", "serving"}
         /\ phase' = "failed" => running' = {}
<1>1. ASSUME Fails PROVE phase' = "failed" /\ running' = {}
  BY <1>1 DEF Fails, DropStarted
<1>2. CASE Lists
  <2>1. phase = "connecting"
    BY <1>2 DEF Lists
  <2>2. PICK tools \in Listings :
          \/ LastPage(tools)
          \/ \E next \in Cursors \cup {None} : Page(tools, next) \/ PageRefused(tools, next)
    BY <1>2 DEF Lists
  <2>3. CASE LastPage(tools)
    BY <2>1, <2>3 DEF LastPage, DropStarted
  <2>4. ASSUME NEW next \in Cursors \cup {None}, Page(tools, next) \/ PageRefused(tools, next)
        PROVE  /\ phase' \in {"connecting", "failed"}
               /\ phase' = "failed" => running' = {}
    BY <1>1, <2>1, <2>4 DEF Page, PageRefused
  <2> QED BY <2>1, <2>2, <2>3, <2>4
<1> QED BY <1>1, <1>2 DEF Connect, StartupFails, Launch, Initialize

LEMMA ConnectKeepsCatalog ==
  ASSUME CatalogTypeOK, RoutesAsAdvertised, Connect
  PROVE  CatalogTypeOK' /\ RoutesAsAdvertised'
<1>1. ASSUME Fails PROVE CatalogTypeOK' /\ RoutesAsAdvertised'
  BY <1>1 DEF Fails, DropStarted, discovery, CatalogTypeOK, RoutesAsAdvertised
<1>2. CASE StartupFails
  BY <1>1, <1>2 DEF StartupFails
<1>3. CASE Launch
  BY <1>3, CurrentOK DEF Launch, CatalogTypeOK, RoutesAsAdvertised
<1>4. CASE Initialize
  BY <1>4 DEF Initialize, CatalogTypeOK, RoutesAsAdvertised
<1>5. CASE Lists
  <2>1. PICK tools \in Listings :
          \/ LastPage(tools)
          \/ \E next \in Cursors \cup {None} : Page(tools, next) \/ PageRefused(tools, next)
    BY <1>5 DEF Lists
  <2>2. tools \in Seq(Tools)
    BY ListingsOK
  <2>3. ASSUME NEW next \in Cursors \cup {None}, Page(tools, next)
        PROVE  CatalogTypeOK' /\ RoutesAsAdvertised'
    BY <2>2, <2>3, PageStep DEF Page, RoutesAsAdvertised
  <2> QED BY <1>1, <2>1, <2>2, <2>3, LastPageStep DEF PageRefused
<1> QED BY <1>2, <1>3, <1>4, <1>5 DEF Connect

LEMMA ConnectingStep == ASSUME IInv, Connecting PROVE IInv'
<1> USE DEF Connecting, IInv
<1>1. CatalogTypeOK' /\ RoutesAsAdvertised'
  BY ConnectKeepsCatalog
<1>2. CallTypeOK' /\ CallsOK' /\ OwnerTypeOK'
  BY DEF CallTypeOK, CallsOK, OwnerTypeOK, callVars, ownerVars
<1>3. UNCHANGED <<step, shutdown>> /\ \A s \in Servers : step[s] = "closes"
  BY ConnectEffect DEF OwnerOK, ownerVars
<1>4. OwnerOK'
  BY <1>3, ConnectEffect DEF OwnerOK
<1>5. DrainedBeforeClose'
  BY ConnectEffect DEF DrainedBeforeClose
<1> QED BY <1>1, <1>2, <1>4, <1>5

-----------------------------------------------------------------------------
(* Calls.                                                                  *)

\* A step of one call changes what is said of that call alone.
LEMMA CallKeeps ==
  ASSUME IInv, NEW c \in Calls, UNCHANGED <<catalogVars, ownerVars>>, CallTypeOK',
         \A d \in Calls \ {c} :
           /\ at'[d] = at[d] /\ outcome'[d] = outcome[d]
           /\ request'[d] = request[d] /\ cleanup'[d] = cleanup[d],
         at'[c] \in {"idle", "entered", "sending"} => request'[c] = "none",
         at'[c] \notin {"dropping", "done"} => outcome'[c] = "none" /\ cleanup'[c] = "none",
         at'[c] \in {"dropping", "done"} /\ request'[c] # "none" =>
           outcome'[c] \in {"answered", "transport", "abandoned"} \/ cleanup'[c] # "none",
         outcome'[c] = "not_dispatched" => request'[c] = "none",
         at'[c] \in {"sending", "waiting", "dropping"} =>
           at[c] \in {"sending", "waiting", "dropping"} \/ ~shutdown,
         cleanup'[c] = "pending" => cleanup[c] = "pending" \/ at[c] = "waiting"
  PROVE  IInv'
<1> USE DEF IInv
<1>1. CatalogTypeOK' /\ RoutesAsAdvertised'
  BY DEF catalogVars, discovery, CatalogTypeOK, RoutesAsAdvertised
<1>2. OwnerTypeOK'
  BY DEF ownerVars, OwnerTypeOK
<1>3. OwnerOK'
  BY DEF catalogVars, ownerVars, OwnerOK, Unkilled
<1>4. CallsOK'
  BY DEF CallsOK
<1>5. DrainedBeforeClose'
  <2> SUFFICES ASSUME phase = "closing", ~overran, NEW d \in Calls
               PROVE  at'[d] \notin {"sending", "waiting", "dropping"} /\ cleanup'[d] # "pending"
    BY DEF DrainedBeforeClose, catalogVars, ownerVars
  <2>1. shutdown /\ at[d] \notin {"sending", "waiting", "dropping"} /\ cleanup[d] # "pending"
    BY DEF DrainedBeforeClose, OwnerOK
  <2> QED BY <2>1
<1> QED BY <1>1, <1>2, <1>3, <1>4, <1>5

LEMMA EnterStep == ASSUME IInv, NEW c \in Calls, Enter(c) PROVE IInv'
<1> USE DEF IInv, Enter, CallTypeOK, States, Outcomes
<1>1. UNCHANGED <<catalogVars, ownerVars, request, cleanup>>
  BY DEF Ends
<1>2. request[c] = "none" /\ cleanup[c] = "none" /\ outcome[c] = "none"
  BY DEF CallsOK
<1>3. CASE Ends(c, "none")
  BY <1>1, <1>2, <1>3, CallKeeps DEF Ends
<1>4. ASSUME NEW a \in Aliases, routes[a] # None,
             at' = [at EXCEPT ![c] = "entered"],
             target' = [target EXCEPT ![c] = routes[a][1]],
             UNCHANGED <<cancelled, outcome>>
      PROVE  IInv'
  <2>1. routes[a][1] \in Servers
    BY <1>4 DEF CatalogTypeOK
  <2> QED BY <1>1, <1>2, <1>4, <2>1, CallKeeps
<1> QED BY <1>3, <1>4

LEMMA PollStep == ASSUME IInv, NEW c \in Calls, Poll(c) PROVE IInv'
<1> USE DEF IInv, CallTypeOK, States, Outcomes
<1>1. CASE Dispatch(c)
  <2>1. request[c] = "none" /\ cleanup[c] = "none" /\ outcome[c] = "none"
    BY <1>1 DEF CallsOK, Dispatch
  <2>2. CASE Stopped(c)
    BY <1>1, <2>1, <2>2, CallKeeps DEF Dispatch, Ends
  <2>3. CASE ~Stopped(c)
    BY <1>1, <2>1, <2>3, CallKeeps DEF Dispatch, Moves, Stopped
  <2> QED BY <2>2, <2>3
<1>2. CASE Admit(c)
  BY <1>2, CallKeeps DEF CallsOK, Admit, Moves
<1>3. CASE Unsent(c)
  BY <1>3, CallKeeps DEF CallsOK, Unsent, Moves, Ends
<1>4. CASE GivesUp(c)
  BY <1>4, CallKeeps DEF CallsOK, GivesUp, Cancels, Moves
<1>5. CASE Receives(c)
  BY <1>5, CallKeeps DEF CallsOK, Receives, Moves
<1>6. CASE Releases(c)
  BY <1>6, CallKeeps DEF CallsOK, Releases, Ends
<1> QED BY <1>1, <1>2, <1>3, <1>4, <1>5, <1>6 DEF Poll

LEMMA DroppedStep == ASSUME IInv, NEW c \in Calls, Dropped(c) PROVE IInv'
<1> USE DEF IInv, CallTypeOK, CallsOK, States, Outcomes
<1>1. CASE at[c] \in {"entered", "sending"} /\ Ends(c, "none") /\ UNCHANGED <<request, cleanup>>
  BY <1>1, CallKeeps DEF Ends
<1>2. CASE at[c] = "waiting" /\ Cancels(c, "none")
  BY <1>2, CallKeeps DEF Cancels, Moves
<1>3. CASE at[c] = "waiting" /\ Moves(c, "dropping", "abandoned") /\ UNCHANGED <<request, cleanup>>
  BY <1>3, CallKeeps DEF Moves
<1> QED BY <1>1, <1>2, <1>3 DEF Dropped

LEMMA CallStep == ASSUME IInv, NEW c \in Calls, Call(c) PROVE IInv'
<1> USE DEF IInv, CallTypeOK, CallsOK, States, Outcomes
<1>1. CASE Cancel(c)
  BY <1>1, CallKeeps DEF Cancel
<1>2. CASE CleansUp(c)
  BY <1>2, CallKeeps DEF CleansUp
<1>3. CASE Answers(c)
  BY <1>3, CallKeeps DEF Answers
<1> QED BY <1>1, <1>2, <1>3, EnterStep, PollStep, DroppedStep DEF Call

-----------------------------------------------------------------------------
(* The owner.                                                              *)

\* The steps of the owner leave the catalog and the calls alone.
LEMMA OwnerKeeps ==
  ASSUME IInv, UNCHANGED <<started, discovery, selection, routes, catalog, callVars>>,
         running' \subseteq running
  PROVE  CatalogTypeOK' /\ RoutesAsAdvertised' /\ CallTypeOK' /\ CallsOK'
<1> USE DEF IInv
<1>1. CatalogTypeOK' /\ RoutesAsAdvertised'
  BY DEF discovery, CatalogTypeOK, RoutesAsAdvertised
<1>2. CallTypeOK' /\ CallsOK'
  BY DEF callVars, CallTypeOK, CallsOK
<1> QED BY <1>1, <1>2

LEMMA ShutDownStep == ASSUME IInv, ShutDown PROVE IInv'
<1> USE DEF IInv, ShutDown
<1>1. OwnerTypeOK'
  BY DEF OwnerTypeOK
<1>2. OwnerOK' /\ DrainedBeforeClose'
  BY DEF OwnerOK, DrainedBeforeClose
<1> QED BY <1>1, <1>2, OwnerKeeps

\* With the tracker empty no call has anything left to do before the close.
LEMMA DrainedStep == ASSUME IInv, Drained PROVE IInv'
<1> USE DEF IInv, Drained
<1>1. OwnerTypeOK'
  BY DEF OwnerTypeOK
<1>2. OwnerOK'
  BY DEF OwnerOK
<1>3. DrainedBeforeClose'
  <2> SUFFICES ASSUME Tracked = {}, NEW c \in Calls
               PROVE  at[c] \notin {"sending", "waiting", "dropping"} /\ cleanup[c] # "pending"
    BY DEF DrainedBeforeClose, callVars
  <2> QED BY DEF Tracked
<1> QED BY <1>1, <1>2, <1>3, OwnerKeeps

LEMMA ClosingStep ==
  ASSUME IInv, NEW s \in Servers, Kills(s) \/ Reaped(s) \/ ReapFails(s)
  PROVE  IInv'
<1> USE DEF IInv
<1>1. PICK to \in {"killed", "reaped", "failed"} :
        /\ Closing(s, to)
        /\ running' \subseteq running
        /\ to \in {"killed", "reaped"} => s \notin running'
  BY DEF Kills, Reaped, ReapFails, OwnerOK
<1>2. OwnerTypeOK'
  BY <1>1 DEF OwnerTypeOK, Closing, Kills, Reaped, ReapFails
<1>3. OwnerOK'
  BY <1>1 DEF OwnerOK, OwnerTypeOK, Closing
<1>4. DrainedBeforeClose'
  BY <1>1 DEF DrainedBeforeClose, Closing, callVars
<1> QED BY <1>1, <1>2, <1>3, <1>4, OwnerKeeps DEF Closing

LEMMA DropOwnerStep ==
  ASSUME IInv, phase \in {"serving", "draining", "closing"},
         NEW to \in {"returned", "dropped"}, DropOwner(to)
  PROVE  IInv'
<1> USE DEF IInv, DropOwner
<1>1. running' \subseteq running
  BY DEF Unkilled
<1>2. OwnerTypeOK'
  <2>1. clock' \in 0..2
    OBVIOUS
  <2> QED BY <2>1 DEF OwnerTypeOK
<1>3. OwnerOK'
  BY <1>1 DEF OwnerOK, Unkilled
<1>4. DrainedBeforeClose'
  BY DEF DrainedBeforeClose
<1> QED BY <1>1, <1>2, <1>3, <1>4, OwnerKeeps

LEMMA OwnerStep == ASSUME IInv, Owner PROVE IInv'
<1>1. CASE HostDrops
  BY <1>1, DropOwnerStep DEF HostDrops
<1>2. CASE Returns
  BY <1>2, DropOwnerStep DEF Returns
<1>3. CASE Time
  <2> USE <1>3 DEF IInv, Time
  <2>1. OwnerTypeOK'
    BY DEF OwnerTypeOK
  <2>2. OwnerOK' /\ DrainedBeforeClose'
    BY DEF OwnerOK, Unkilled, DrainedBeforeClose, catalogVars, callVars
  <2> QED BY <2>1, <2>2, OwnerKeeps DEF catalogVars
<1>4. ASSUME NEW s \in Servers, ServerDies(s)
      PROVE  IInv'
  <2> USE <1>4 DEF IInv, ServerDies
  <2>1. OwnerTypeOK'
    BY DEF OwnerTypeOK
  <2>2. OwnerOK' /\ DrainedBeforeClose'
    BY DEF OwnerOK, Unkilled, DrainedBeforeClose, catalogVars, callVars
  <2> QED BY <2>1, <2>2, OwnerKeeps DEF catalogVars
<1> QED
  BY <1>1, <1>2, <1>3, <1>4, ShutDownStep, DrainedStep, ClosingStep
  DEF Owner, ShutdownStep

-----------------------------------------------------------------------------
LEMMA Inductive == MSpec => []IInv
<1>1. MInit => IInv
  <2> SUFFICES ASSUME MInit PROVE IInv
    OBVIOUS
  <2> USE DEF MInit, Init
  <2>1. CatalogTypeOK
    BY McpCatalogAssumption DEF CatalogTypeOK
  <2>2. RoutesAsAdvertised
    BY DEF RoutesAsAdvertised
  <2>3. CallTypeOK /\ CallsOK
    BY DEF CallTypeOK, CallsOK, States, Outcomes
  <2>4. OwnerTypeOK
    <3>1. clock \in 0..2
      OBVIOUS
    <3> QED BY <3>1 DEF OwnerTypeOK
  <2>5. OwnerOK /\ DrainedBeforeClose
    BY DEF OwnerOK, DrainedBeforeClose
  <2> QED BY <2>1, <2>2, <2>3, <2>4, <2>5 DEF IInv
<1>2. IInv /\ [MNext]_vars => IInv'
  <2> SUFFICES ASSUME IInv, [MNext]_vars PROVE IInv'
    OBVIOUS
  <2>1. CASE UNCHANGED vars
    <3> USE <2>1 DEF vars, catalogVars, discovery, callVars, ownerVars, IInv
    <3>1. CatalogTypeOK' /\ RoutesAsAdvertised' /\ CallTypeOK' /\ CallsOK'
      BY OwnerKeeps
    <3>2. OwnerTypeOK'
      BY DEF OwnerTypeOK
    <3>3. OwnerOK' /\ DrainedBeforeClose'
      BY DEF OwnerOK, Unkilled, DrainedBeforeClose
    <3> QED BY <3>1, <3>2, <3>3
  <2> QED
    BY <2>1, ConnectingStep, CallStep, OwnerStep DEF MNext, Idle
<1> QED BY <1>1, <1>2, PTL DEF MSpec

\* Every variable keeps its kind, and what is listed its limit, whatever servers
\* send.
THEOREM TypeCorrect == MSpec => []TypeOK
<1>1. IInv => TypeOK
  BY DEF IInv, CallTypeOK, OwnerTypeOK, OwnerOK, TypeOK
<1> QED BY <1>1, Inductive, PTL

\* A call of an advertised alias reaches the tool it was advertised for, for
\* every name mapping, injective or not.
THEOREM RoutesTrue == MSpec => []RoutesAsAdvertised
<1>1. IInv => RoutesAsAdvertised
  BY DEF IInv
<1> QED BY <1>1, Inductive, PTL

\* No process survives a connect() that failed.
THEOREM StartsAllOrNothing == MSpec => []AllOrNothing
<1>1. IInv => AllOrNothing
  BY DEF IInv, OwnerOK, AllOrNothing
<1> QED BY <1>1, Inductive, PTL

\* "not_dispatched" is never said of a request the server was given.
THEOREM OutcomesTrue == MSpec => []OutcomeTrue
<1>1. IInv => OutcomeTrue
  BY DEF IInv, CallsOK, OutcomeTrue
<1> QED BY <1>1, Inductive, PTL

\* Every request that was given to a server is answered, lost or cancelled.
THEOREM RequestsSettled == MSpec => []DispatchSettled
<1>1. IInv => DispatchSettled
  BY DEF IInv, CallsOK, DispatchSettled
<1> QED BY <1>1, Inductive, PTL

\* No server is closed under a call unless the grace ran out.
THEOREM ClosesDrained == MSpec => []DrainedBeforeClose
<1>1. IInv => DrainedBeforeClose
  BY DEF IInv
<1> QED BY <1>1, Inductive, PTL

\* No process outlives its owner, but for one that could not be killed.
THEOREM NothingLeftRunning == MSpec => []NothingRuns
<1>1. IInv => NothingRuns
  BY DEF IInv, OwnerOK, NothingRuns
<1> QED BY <1>1, Inductive, PTL
=============================================================================
