------------------------------ MODULE McpCatalog ------------------------------
(***************************************************************************)
(* Mcp::connect() (src/src/mcp.rs): local servers are launched one after   *)
(* the other, initialized and asked for their tools page by page; the      *)
(* tools the configuration selects get an alias each, and a failure        *)
(* anywhere, a timeout, or a host that gives up drops every server started *)
(* so far.  The servers are outside the repository and answer as they      *)
(* like.  An alias is whatever the name mapping gives; that two tools get  *)
(* the same one is the catalog's business, not assumed away.               *)
(***************************************************************************)
EXTENDS Naturals, Sequences, FiniteSets, Functions

CONSTANTS
  Servers,       \* names that pass the name check
  Order,         \* the servers in the order of the configuration map
  Tools,         \* original tool names
  TaskOnly,      \* <<server, tool>>: requires task execution
  Misshapen,     \* <<server, tool>>: the registry refuses its definition
  Aliases,
  Alias,         \* the name mapping of alias(): server, tool -> alias
  Cursors,       \* page cursors
  Selections,    \* what a configuration selects: sets of tools, or Everything
  MaxPages,      \* limits.pages_per_server
  MaxListed,     \* limits.tools_per_server
  MaxTools,      \* MAX_TOOLS
  Everything,    \* model value: a server without a tools list
  None           \* model value: no cursor, no route

ASSUME McpCatalogAssumption ==
  /\ Order \in Seq(Servers) /\ Servers = Range(Order) /\ Order # << >>
  /\ TaskOnly \cup Misshapen \subseteq Servers \X Tools
  /\ Alias \in [Servers \X Tools -> Aliases]
  /\ MaxPages \in Nat \ {0} /\ MaxListed \in Nat \ {0} /\ MaxTools \in Nat
  /\ None \notin Cursors /\ None \notin Servers \X Tools
  /\ Selections \subseteq SUBSET Tools \cup {Everything}

VARIABLES
  phase,      \* "connecting", "serving", "failed", and what Mcp adds to these
  started,    \* how many servers are launched, the last one being set up
  stage,      \* of the last one: "launch", "initialize", "list"
  selection,  \* what the configuration selects of each server
  listed,     \* the tools the last one listed so far, in order
  cursors,    \* the cursors it gave
  pages,      \* how many pages it gave
  routes,     \* alias -> its server and tool, or None
  catalog,    \* entries: server, tool and alias
  running     \* the servers whose process the host has not killed

discovery == <<stage, listed, cursors, pages>>
catalogVars == <<phase, started, discovery, selection, routes, catalog, running>>

Current == Order[started]
AliasOf(t) == Alias[<<Current, t>>]

Init ==
  /\ phase = "connecting" /\ started = 1 /\ stage = "launch"
  /\ selection \in [Servers -> Selections]
  /\ listed = << >> /\ cursors = {} /\ pages = 0
  /\ routes = [a \in Aliases |-> None]
  /\ catalog = {}
  /\ running = {}

-----------------------------------------------------------------------------
\* A startup failure drops all servers: each process is killed.
DropStarted ==
  /\ phase' = "failed"
  /\ running' = {}

\* connect_server() fails, or the startup timeout passes, or the name, the
\* transport or the launch of the server is refused, or the host drops the
\* connect() future.
Fails ==
  /\ DropStarted
  /\ UNCHANGED <<started, discovery, selection, routes, catalog>>

StartupFails == phase = "connecting" /\ Fails

\* connect_server(): spawn, initialize, and then the pages.
Launch ==
  /\ phase = "connecting" /\ stage = "launch"
  /\ stage' = "initialize"
  /\ running' = running \cup {Current}
  /\ UNCHANGED <<phase, started, listed, cursors, pages, selection, routes, catalog>>

Initialize ==
  /\ phase = "connecting" /\ stage = "initialize"
  /\ stage' = "list"
  /\ UNCHANGED <<phase, started, listed, cursors, pages, selection, routes, catalog,
                 running>>

\* Slip: a limit is checked one too late.
UnlistableOneOver(tools, next) ==
  \/ Len(listed) + Len(tools) > MaxListed + 1
  \/ next \in cursors
  \/ next # None /\ pages + 1 >= MaxPages

\* What ends the discovery: too much, a cursor given before, one page too many.
Unlistable(tools, next) ==
  \/ Len(listed) + Len(tools) > MaxListed
  \/ next \in cursors
  \/ next # None /\ pages + 1 >= MaxPages

\* A page that another one follows.
Page(tools, next) ==
  /\ next # None /\ ~Unlistable(tools, next)
  /\ listed' = listed \o tools
  /\ cursors' = cursors \cup {next} /\ pages' = pages + 1
  /\ UNCHANGED <<phase, started, stage, selection, routes, catalog, running>>

Exposed(all) ==
  {t \in Range(all) :
     selection[Current] = Everything \/ t \in selection[Current]}

\* Slip: an alias is looked for among those of the same server.
AliasTakenHere(all) ==
  \E t \in Exposed(all), u \in Exposed(all) :
    t # u /\ AliasOf(u) = AliasOf(t)

AliasTaken(all) ==
  \E t \in Exposed(all) :
    \/ routes[AliasOf(t)] # None
    \/ \E u \in Exposed(all) \ {t} : AliasOf(u) = AliasOf(t)

\* A selected tool the server did not list.
Missing(all) ==
  selection[Current] # Everything /\ ~(selection[Current] \subseteq Range(all))

\* A name twice, a tool that requires task execution, an alias twice, too many
\* tools, or too few.
Unexposable(all) ==
  \/ Cardinality(Range(all)) < Len(all)
  \/ \E t \in Exposed(all) : <<Current, t>> \in TaskOnly
  \/ AliasTaken(all)
  \/ Cardinality(catalog) + Cardinality(Exposed(all)) > MaxTools
  \/ Missing(all)

\* registry(): what the owner advertises must also pass the session's checks.
Registrable(entries) == \A e \in entries : <<e.server, e.tool>> \notin Misshapen

\* The last page: the tools are exposed, and the next server is launched; after
\* the last server the registry is tried, and its refusal drops them all.
LastPage(tools) ==
  LET all == listed \o tools
      Of(a) == {t \in Exposed(all) : AliasOf(t) = a}
  IN /\ ~Unlistable(tools, None) /\ ~Unexposable(all)
     /\ catalog' = catalog \cup {[server |-> Current, tool |-> t,
                                  alias |-> AliasOf(t)] : t \in Exposed(all)}
     /\ routes' = [a \in Aliases |-> IF Of(a) = {} THEN routes[a]
                                     ELSE <<Current, CHOOSE t \in Of(a) : TRUE>>]
     /\ listed' = << >> /\ cursors' = {} /\ pages' = 0
     /\ UNCHANGED selection
     /\ IF started < Len(Order)
        THEN /\ started' = started + 1 /\ stage' = "launch"
             /\ UNCHANGED <<phase, running>>
        ELSE /\ UNCHANGED <<started, stage>>
             /\ IF Registrable(catalog') THEN phase' = "serving" /\ UNCHANGED running
                ELSE DropStarted

\* A page, or the tools found in all, that connect() does not take.
PageRefused(tools, next) ==
  /\ Unlistable(tools, next) \/ (next = None /\ Unexposable(listed \o tools))
  /\ Fails

Listings == UNION {[1..n -> Tools] : n \in 0..MaxListed + 1}

Lists ==
  /\ phase = "connecting" /\ stage = "list"
  /\ \E tools \in Listings :
       \/ LastPage(tools)
       \/ \E next \in Cursors \cup {None} :
            Page(tools, next) \/ PageRefused(tools, next)

Connect == StartupFails \/ Launch \/ Initialize \/ Lists

-----------------------------------------------------------------------------
(* Properties.                                                             *)

Entries == [server : Servers, tool : Tools, alias : Aliases]

\* Every variable holds a value of its kind, within the limits.
CatalogTypeOK ==
  /\ started \in DOMAIN Order /\ stage \in {"launch", "initialize", "list"}
  /\ selection \in [Servers -> Selections]
  /\ listed \in Seq(Tools) /\ Len(listed) <= MaxListed
  /\ cursors \subseteq Cursors /\ pages \in 0..MaxPages - 1
  /\ routes \in [Aliases -> Servers \X Tools \cup {None}]
  /\ catalog \subseteq Entries /\ running \subseteq Servers

\* docs/mcp.md: "calls route by an explicit map to the original name".  A call
\* of an advertised alias reaches the very tool the alias was advertised for,
\* and nothing that is not advertised has a route, although two servers, or two
\* tools of one, may map to the same alias.
RoutesAsAdvertised ==
  /\ \A e \in catalog : routes[e.alias] = <<e.server, e.tool>>
  /\ \A a \in Aliases :
       routes[a] # None =>
         \E e \in catalog : e.alias = a /\ routes[a] = <<e.server, e.tool>>

\* "A startup failure drops all servers started by this call": when connect()
\* fails, whichever server it was at, no process is left running.
AllOrNothing == phase = "failed" => running = {}
=============================================================================
