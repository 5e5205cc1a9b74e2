-------------------------------- MODULE Player --------------------------------
(***************************************************************************)
(* The host of the soak example (src/examples/soak/main.rs, player.rs)     *)
(* composed with the audio ledger of the session: server events reach the  *)
(* host through its event queue, its reports of what was heard reach the   *)
(* session through the control lane and its Frankie positions through the  *)
(* ordinary one, which controls overtake.  The player renders one frame a  *)
(* tick.  The session runs on another thread, and may change the watch     *)
(* after a tick looked at it.  The turn modelled runs no tools and takes no *)
(* speech; metrics, transcripts and the microphone frames are left out.    *)
(***************************************************************************)
EXTENDS Playback, Functions

CONSTANTS
  Rate,          \* samples a second
  Frame,         \* bytes a tick renders
  FirstOf,       \* part -> the part of index 0 of its item
  Opening,       \* the parts in the order the endpoint opens them
  MaxQueued,     \* the player's limit, in bytes
  MaxHeld,       \* and in parts
  MaxBytes,      \* bound: bytes of a part
  MaxEvents,     \* bound: events the host has not taken
  MaxControls,   \* capacity: controls
  MaxCommands    \* capacity: commands

ASSUME PlayerAssumption ==
  /\ IsFiniteSet(Parts)
  /\ Rate \in Nat \ {0} /\ Frame \in Nat \ {0} /\ Frame % 2 = 0
  /\ MaxQueued \in Nat /\ MaxHeld \in Nat
  /\ FirstOf \in [Parts -> FirstParts] /\ Opening \in Seq(Parts)
  /\ MaxEvents \in Nat /\ MaxControls \in Nat \ {0} /\ MaxCommands \in Nat \ {0}

VARIABLES
  host,        \* "running", "ticking", "settled", "failed"
  allowed,     \* in a tick: the responses the watch allowed when it looked
  player,      \* part -> what the player has of it
  order,       \* its parts, in the order they came
  bytes,       \* how much it has queued
  pending,     \* the items whose truncation the host waits for, by their first parts
  known,       \* the responses it was told of
  finished,    \* those it was told ended
  cleared,     \* those it was to stop
  late,        \* history: those a new part of which came after that
  overlapped,  \* the turn's own interruption was made
  overrun,     \* history: ticks that rendered what the watch no longer allowed
  events,      \* from the session to the host
  controls,    \* from the host: interrupt and playback_stopped
  commands,    \* from the host: Frankie positions
  confirming,  \* the parts whose truncation the endpoint has not confirmed
  spoken       \* the parts whose audio the endpoint said is complete

hostVars ==
  <<host, player, order, bytes, pending, cleared, late, known, finished,
    overlapped, allowed, overrun>>
laneVars == <<events, controls, commands, confirming, spoken>>
playerVars == <<vars, hostVars, laneVars>>

\* What the player keeps of a part, before it holds any of it.
NoTrack ==
  [response |-> None, queued |-> 0, played |-> 0, done |-> FALSE,
   response_done |-> FALSE, stopped |-> FALSE, notified |-> FALSE]

PInit ==
  /\ Init
  /\ host = "running"
  /\ player = [p \in Parts |-> NoTrack] /\ order = << >> /\ bytes = 0
  /\ pending = {} /\ cleared = {} /\ late = {}
  /\ known = {} /\ finished = {} /\ overlapped = FALSE
  /\ allowed = {} /\ overrun = [r \in Responses |-> 0]
  /\ events = << >> /\ controls = << >> /\ commands = << >>
  /\ confirming = {} /\ spoken = {}

-----------------------------------------------------------------------------
(* The player.  The host's handlers go through several of its operations   *)
(* at once: they map what the host holds to what it holds then.            *)

Held == [player |-> player, order |-> order, bytes |-> bytes, pending |-> pending,
         cleared |-> cleared, late |-> late, controls |-> controls,
         commands |-> commands, failed |-> FALSE]

Failed(h) == [h EXCEPT !.failed = TRUE]

\* Player::add().
Add(h, r, p, n) ==
  LET fresh == p \notin Range(h.order)
      track == IF fresh THEN [NoTrack EXCEPT !.response = r] ELSE h.player[p]
  IN IF \/ n % 2 # 0 \/ h.bytes + n > MaxQueued
        \/ fresh /\ Len(h.order) >= MaxHeld
        \/ track.response # r \/ track.done
     THEN Failed(h)
     ELSE [h EXCEPT
             !.order = IF fresh THEN Append(@, p) ELSE @,
             !.late = IF fresh /\ r \in h.cleared THEN @ \cup {r} ELSE @,
             !.bytes = IF track.stopped THEN @ ELSE @ + n,
             !.player[p] = IF track.stopped THEN track
                           ELSE [track EXCEPT !.queued = @ + n]]

\* The parts the player holds of the responses R.
Of(h, R) == {p \in Parts : h.player[p].response \in R}

\* Player::done() and part_done().
Done(h, r) ==
  [h EXCEPT !.player = [p \in Parts |->
     IF p \in Of(h, {r})
     THEN [h.player[p] EXCEPT !.done = TRUE, !.response_done = TRUE]
     ELSE h.player[p]]]

PartDone(h, p) ==
  IF h.player[p].response = None THEN h ELSE [h EXCEPT !.player[p].done = TRUE]

Unstopped(h) == {p \in Range(h.order) : ~h.player[p].stopped}

IsActive(h, p) ==
  p \in Unstopped(h) /\ (h.player[p].queued > 0 \/ ~h.player[p].done)

\* Slip: the frame that comes next counts as heard.
HeardAhead(h, r) ==
  [p \in Of(h, {r}) |->
     ((h.player[p].played + Frame \div 2) * 1000) \div Rate]

Millis(samples) == (samples * 1000) \div Rate

\* Player::heard(): every part of r, stopped before or not.
Heard(h, r) == [p \in Of(h, {r}) |-> Millis(h.player[p].played)]

\* How many there are in all, when f says how many of each.
Total(f) == Cardinality(UNION {{x} \X (1..f[x]) : x \in DOMAIN f})

\* Slip: what a stop throws away stays counted.
ClearUncounted(h, R) ==
  [h EXCEPT !.player = [p \in Parts |->
     IF p \in Of(h, R)
     THEN [h.player[p] EXCEPT !.queued = 0, !.stopped = TRUE] ELSE h.player[p]]]

\* Player::clear(), for each of the responses R.
Clear(h, R) ==
  [h EXCEPT
     !.bytes = @ - Total([p \in Of(h, R) \cap Unstopped(h) |-> h.player[p].queued]),
     !.player = [p \in Parts |->
        IF p \in Of(h, R)
        THEN [h.player[p] EXCEPT !.queued = 0, !.stopped = TRUE] ELSE h.player[p]]]

\* TurnRun::stop(), of one response after the other: the player first, then the
\* report, which fails once the lane takes no more.
StopAll(h, rs) ==
  LET room == IF open THEN MaxControls - Len(h.controls) ELSE 0
      sent == {i \in DOMAIN rs : i <= room}
      quiet == {rs[i] : i \in {j \in DOMAIN rs : j <= room + 1}}
  IN [Clear(h, quiet) EXCEPT
        !.cleared = @ \cup quiet,
        !.pending = @ \cup {FirstOf[p] : p \in Of(h, quiet)},
        !.controls = @ \o [i \in sent |->
                              [response |-> rs[i], heard |-> Heard(h, rs[i])]],
        !.failed = sent # DOMAIN rs]

\* The same of one response, which reports nothing if it stopped nothing.
Stopped(h, r, explicit) ==
  IF ~explicit /\ Of(h, {r}) \cap Unstopped(h) = {}
  THEN [h EXCEPT !.cleared = @ \cup {r}]
  ELSE StopAll(h, <<r>>)

\* PlaybackState::allows(), as the host finds it in the watch.
Allows(r) == open /\ ~responses[r].cancelled

\* The members of S, each once, in the order of their places.
Sorted(S, place) ==
  {s \in [1..Cardinality(S) -> S] :
     /\ Range(s) = S
     /\ \A i, j \in DOMAIN s : i < j => place[s[i]] < place[s[j]]}

\* Player::invalidated(): the responses of unstopped parts that the watch did
\* not allow, as the player comes to them.
Invalidated(h) ==
  LET ids == {h.player[p].response :
                p \in {q \in Unstopped(h) : h.player[q].response \notin allowed}}
      playing(r) == Of(h, {r}) \cap Unstopped(h)
  IN Sorted(ids, [r \in ids |-> CHOOSE i \in DOMAIN h.order :
                    /\ h.order[i] \in playing(r)
                    /\ \A j \in 1..i - 1 : h.order[j] \notin playing(r)])

\* What Player::render() takes of the i-th part: it comes to it if the unstopped
\* ones before are complete and leave room in the frame.
Before(h, i) ==
  Total([j \in {j \in 1..i - 1 : ~h.player[h.order[j]].stopped} |->
           h.player[h.order[j]].queued])

Taken(h, i) ==
  LET p == h.order[i]
  IN IF h.player[p].stopped \/ Before(h, i) >= Frame
        \/ \E j \in 1..i - 1 :
             ~h.player[h.order[j]].stopped /\ ~h.player[h.order[j]].done
     THEN 0
     ELSE IF h.player[p].queued < Frame - Before(h, i) THEN h.player[p].queued
     ELSE Frame - Before(h, i)

Place(h, p) == CHOOSE i \in DOMAIN h.order : h.order[i] = p

TakenOf(h) == [p \in Range(h.order) |-> Taken(h, Place(h, p))]

Render(h) ==
  [h EXCEPT
     !.bytes = @ - Total(TakenOf(h)),
     !.player = [p \in Parts |->
        IF p \in Range(h.order)
        THEN [h.player[p] EXCEPT !.queued = @ - TakenOf(h)[p],
                                 !.played = @ + TakenOf(h)[p] \div 2]
        ELSE h.player[p]]]

\* Player::feedback(): the parts it speaks of, finished or by their position.
IsFinished(h, p) == h.player[p].response_done /\ h.player[p].queued = 0

Told(h, position) ==
  LET parts == {p \in Unstopped(h) : ~h.player[p].notified
                                      /\ (IsFinished(h, p) \/ position)}
  IN Sorted(parts, [p \in parts |-> Place(h, p)])

\* The commands made of it, the last of which the lane may not take.
Feedback(h, told) ==
  LET room == IF open THEN MaxCommands - Len(h.commands) ELSE 0
      sent == {i \in DOMAIN told : i <= room}
  IN [h EXCEPT
        !.commands = @ \o [i \in sent |->
           [response |-> h.player[told[i]].response, part |-> FirstOf[told[i]],
            end |-> Millis(h.player[told[i]].played)]],
        !.player = [p \in Parts |->
           IF p \in Range(told)
           THEN [h.player[p] EXCEPT !.notified = IsFinished(h, p)]
           ELSE h.player[p]],
        !.failed = sent # DOMAIN told]

-----------------------------------------------------------------------------
(* The host's turn: run_turn().                                            *)

HostBecomes(h) ==
  /\ player' = h.player /\ order' = h.order /\ bytes' = h.bytes
  /\ pending' = h.pending /\ cleared' = h.cleared /\ late' = h.late
  /\ controls' = h.controls /\ commands' = h.commands
  /\ host' = IF h.failed THEN "failed" ELSE "running"

\* event(): what the next event of the session makes the host do.
Handled(e) ==
  CASE e.type = "delta" -> Add(Held, e.response, e.part, e.bytes)
    [] e.type = "audio.done" -> PartDone(Held, e.part)
    [] e.type = "response.done" -> Done(Held, e.response)
    [] e.type = "clear" -> Stopped(Held, e.response, FALSE)
    [] e.type = "truncated" -> [Held EXCEPT !.pending = @ \ {FirstOf[e.part]}]
    [] e.type = "rejected" -> Failed(Held)
    [] OTHER -> Held

TakesEvent ==
  /\ host = "running" /\ events # << >>
  /\ events' = Tail(events)
  /\ LET e == Head(events)
     IN /\ \E h \in {Handled(e)} : HostBecomes(h)
        /\ known' = IF e.type \in {"created", "response.done"}
                    THEN known \cup {e.response} ELSE known
        /\ finished' = IF e.type = "created" THEN finished \ {e.response}
                       ELSE IF e.type = "response.done" THEN finished \cup {e.response}
                       ELSE finished
  /\ UNCHANGED <<vars, overlapped, allowed, overrun, confirming, spoken>>

\* maybe_start_overlap(): once a turn, a response that plays is interrupted.
Overlap(h) ==
  {Stopped(h, h.player[h.order[i]].response, TRUE) :
     i \in {first \in DOMAIN h.order :
             /\ IsActive(h, h.order[first])
             /\ \A j \in 1..first - 1 : ~IsActive(h, h.order[j])}}

\* Slip: the watch is honored after the frame.
ObeyedLate(interrupts, position) ==
  \E rendered \in {Render(Held)} : \E told \in Told(rendered, position) :
    \E h \in {Feedback(rendered, told)} : \E stops \in Invalidated(h) :
      HostBecomes(IF h.failed THEN h ELSE StopAll(h, stops))

\* Without another stop: the frame, then the positions.
Rendered(h, position) ==
  \E rendered \in {Render(h)} : \E told \in Told(rendered, position) :
    HostBecomes(Feedback(rendered, told))

\* The watch first, then the turn's interruption, the frame and the positions.
Obeyed(interrupts, position) ==
  \E stops \in Invalidated(Held) : \E quiet \in {StopAll(Held, stops)} :
    IF quiet.failed THEN HostBecomes(quiet)
    ELSE \E stopped \in IF interrupts THEN Overlap(quiet) ELSE {quiet} :
           IF stopped.failed THEN HostBecomes(stopped)
           ELSE Rendered(stopped, position)

\* tick() borrows the watch, once.
TickLooks ==
  /\ host = "running" /\ host' = "ticking"
  /\ allowed' = {r \in Responses : Allows(r)}
  /\ UNCHANGED <<vars, player, order, bytes, pending, cleared, late, known, finished,
                 overlapped, overrun, laneVars>>

\* The responses a step renders of.
Sounds == {player[p].response : p \in {q \in Parts : player'[q].played > player[q].played}}

\* The rest of tick(), with the turn's interruption or without, while the session
\* goes on; of which it sees how much the lanes take, at one moment of it.
Tick(interrupts, position) ==
  /\ host = "ticking" /\ (interrupts => ~overlapped)
  /\ Obeyed(interrupts, position)
  /\ overlapped' = (overlapped \/ interrupts)
  /\ allowed' = {}
  /\ overrun' = [r \in Responses |->
       IF r \in Sounds /\ ~Allows(r) THEN overrun[r] + 1 ELSE overrun[r]]
  /\ UNCHANGED <<vars, known, finished, events, confirming, spoken>>

\* Slip: a turn does not wait for its truncations.
SettlesUnconfirmed ==
  /\ host = "running"
  /\ known # {} /\ known \subseteq finished
  /\ (\A p \in Parts : ~IsActive(Held, p)) /\ bytes = 0
  /\ host' = "settled"
  /\ UNCHANGED <<vars, player, order, bytes, pending, cleared, late, known, finished,
                 overlapped, allowed, overrun, laneVars>>

\* settled(): every response ended, nothing plays, every stop took effect.
Settles ==
  /\ host = "running"
  /\ known # {} /\ known \subseteq finished
  /\ \A p \in Parts : ~IsActive(Held, p)
  /\ bytes = 0 /\ pending = {}
  /\ host' = "settled"
  /\ UNCHANGED <<vars, player, order, bytes, pending, cleared, late, known, finished,
                 overlapped, allowed, overrun, laneVars>>

\* The status says that the session is over.
SeesEnd ==
  /\ host = "running" /\ ~open
  /\ host' = "failed"
  /\ UNCHANGED <<vars, player, order, bytes, pending, cleared, late, known, finished,
                 overlapped, allowed, overrun, laneVars>>

Turn ==
  \/ SeesEnd \/ TakesEvent \/ Settles \/ TickLooks
  \/ \E interrupts, position \in BOOLEAN : Tick(interrupts, position)

-----------------------------------------------------------------------------
(* The session, with the endpoint behind it: a handler and what it emits.  *)

Emits(es) ==
  /\ Len(events) + Len(es) <= MaxEvents
  /\ events' = events \o es
  /\ UNCHANGED hostVars

Clears(r) == 
  IF responses[r].cancelled THEN << >>
  ELSE <<[type |-> "clear", response |-> r]>>

\* The endpoint speaks one response after the other.
Created(r) ==
  /\ frankie_feedback
  /\ \A q \in Responses : responses[q].created => responses[q].done
  /\ ResponseCreated(r, None)
  /\ Emits(<<[type |-> "created", response |-> r]>>)
  /\ UNCHANGED <<controls, commands, confirming, spoken>>

\* The endpoint speaks of what it created and has not completed; an item of
\* several parts is of one response.
Delta(r, p, n) ==
  /\ \E i \in DOMAIN Opening :
       Opening[i] = p /\ \A j \in 1..i - 1 : Opening[j] \in Listed
  /\ \A q \in Listed : FirstOf[q] = FirstOf[p] => audio[q].response = r
  /\ responses[r].created /\ p \notin spoken /\ audio[p].bytes + n <= MaxBytes
  /\ AudioDelta(r, p, n)
  /\ Emits(IF open' THEN <<[type |-> "delta", response |-> r, part |-> p, bytes |-> n]>>
           ELSE << >>)
  /\ UNCHANGED <<controls, commands, confirming, spoken>>

AudioDone(p) ==
  /\ open /\ p \in Listed \ spoken /\ ~Muted(audio[p].response)
  /\ spoken' = spoken \cup {p}
  /\ Emits(<<[type |-> "audio.done", part |-> p]>>)
  /\ UNCHANGED <<vars, controls, commands, confirming>>

Ended(r, cancelled) ==
  /\ responses[r].created /\ ~responses[r].done
  /\ ResponseDone(r, cancelled)
  /\ Emits((IF cancelled THEN Clears(r) ELSE << >>)
           \o <<[type |-> "response.done", response |-> r]>>)
  /\ UNCHANGED <<controls, commands, confirming, spoken>>

\* frankie.playback.clear is passed on; the endpoint sends it for what plays.
FrankieClear(r) ==
  /\ open /\ responses[r].created /\ ~responses[r].cancelled
  /\ ~\E i \in DOMAIN events : events[i].type = "clear" /\ events[i].response = r
  /\ Emits(<<[type |-> "clear", response |-> r]>>)
  /\ UNCHANGED <<vars, controls, commands, confirming, spoken>>

Confirmed(p) ==
  /\ open /\ p \in confirming
  /\ confirming' = confirming \ {p}
  /\ Emits(<<[type |-> "truncated", part |-> p]>>)
  /\ UNCHANGED <<vars, controls, commands, spoken>>

Rejected == Emits(<<[type |-> "rejected"]>>) /\ UNCHANGED <<vars, confirming>>

\* A control, whether or not a command waits too.
TakesControl ==
  /\ open /\ controls # << >>
  /\ controls' = Tail(controls)
  /\ LET c == Head(controls)
     IN \/ /\ StopSpeech(c.response, c.heard)
           /\ Emits(Clears(c.response))
           /\ confirming' = confirming
                \cup {p \in Parts : audio'[p].truncated /\ ~audio[p].truncated}
        \/ ~ValidHeard(c.response, c.heard) /\ Rejected
  /\ UNCHANGED <<commands, spoken>>

TakesCommand ==
  /\ open /\ commands # << >>
  /\ commands' = Tail(commands)
  /\ LET c == Head(commands)
     IN \/ /\ FrankiePosition(c.response, c.part, c.end)
           /\ Emits(<< >>) /\ UNCHANGED confirming
        \/ ~ValidHeard(c.response, [q \in {c.part} |-> c.end]) /\ Rejected
  /\ UNCHANGED <<controls, spoken>>

Ready ==
  /\ ~frankie_feedback /\ SessionUpdated(None, TRUE)
  /\ UNCHANGED <<hostVars, laneVars>>

\* The model ends with the turn.
Session ==
  /\ host \in {"running", "ticking"}
  /\ \/ Ready \/ TakesControl \/ TakesCommand
     \/ Stop /\ UNCHANGED <<hostVars, laneVars>>
     \/ \E r \in Responses :
          \/ Created(r) \/ FrankieClear(r)
          \/ \E cancelled \in BOOLEAN : Ended(r, cancelled)
          \/ \E p \in Parts, n \in Chunks : Delta(r, p, n)
     \/ \E p \in Parts : AudioDone(p) \/ Confirmed(p)

Idle == host \in {"settled", "failed"} /\ UNCHANGED playerVars

PNext == Turn \/ Session \/ Idle

PSpec == PInit /\ [][PNext]_playerVars

-----------------------------------------------------------------------------
(* Properties.                                                             *)

\* The player's count of queued bytes, which its limit is checked against and a
\* turn's end waits for, is what its parts really have queued, through stops,
\* late audio and rendering.
BytesCounted ==
  bytes = Total([p \in Parts |-> player[p].queued]) /\ bytes <= MaxQueued

\* Across the queues in both directions, the session never takes more of a part
\* for heard than was rendered: of that part, or, as a Frankie position names the
\* item only and moves its first part, of some part of the item.
HeardRendered ==
  \A p \in Parts : \E q \in Parts :
    (q = p \/ FirstOf[q] = p) /\ audio[p].heard <= Millis(player[q].played)

\* docs/protocol.md: a host must check "allows(response_id) immediately before
\* rendering queued frames".  The watch may change between the look and the frame,
\* but once it does not allow a response, at most the frame of a tick that had
\* looked before is rendered of it, whatever stops, audio and clears follow.
StopsWithinAFrame == \A r \in Responses : overrun[r] <= 1

\* A turn ends only when the endpoint was told to forget of every stopped part
\* what was not rendered, and nothing else: it was cut where the player stopped
\* it.  Only if a new part came after the stop it may have been rendered further.
SettledCut ==
  host = "settled" /\ CanTruncate =>
    \A p \in Range(order) :
      player[p].stopped =>
        /\ audio[p].truncated
        /\ \/ audio[p].heard = Millis(player[p].played)
           \/ player[p].response \in late

\* src/examples/soak/main.rs:394, "Stops local playback of `response`": once it
\* was to stop a response, the host renders no more of it.
StopsPlayback ==
  [][\A p \in Parts :
       player'[p].played > player[p].played =>
         player[p].response \notin cleared]_playerVars
=============================================================================
