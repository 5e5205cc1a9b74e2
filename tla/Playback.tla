------------------------------- MODULE Playback -------------------------------
(***************************************************************************)
(* The audio ledger of the session: what the host was given of each        *)
(* response, in which format, how much of it was heard, and what the       *)
(* endpoint was told to forget.  The session's half of the playback        *)
(* contract of docs/protocol.md.                                           *)
(*                                                                         *)
(* This module lets server events and host commands arrive in any order;   *)
(* PlaybackEndpoint.tla adds an endpoint that sends them in a sensible     *)
(* one.  When a response may be requested or runs tools is in              *)
(* Coordinator.tla.                                                        *)
(***************************************************************************)
EXTENDS Naturals, FiniteSets, Sequences

CONSTANTS
  Responses,
  Parts,               \* (item id, content index) pairs
  FirstParts,          \* those of content index 0
  Formats,
  ConfiguredFormat,    \* Capabilities.output_audio as configured
  Chunks,              \* decoded sizes of audio deltas
  Positions,           \* positions a host may report, in milliseconds
  MaxParts,            \* Limits.audio_parts
  MaxCount,            \* u64::MAX
  CanTruncate,         \* Capabilities.truncate
  FrankieExtensions,   \* Config.frankie_extensions
  None

FormatRecords ==
  [kind : {"pcm16"}, sample_rate : Nat \ {0}] \cup [kind : {"g711"}]

ASSUME FormatsAssumption ==
  Formats \subseteq FormatRecords /\ ConfiguredFormat \in Formats
ASSUME AudioAssumption ==
  Chunks \subseteq Nat /\ Positions \subseteq Nat /\ MaxCount \in Nat
ASSUME PartsAssumption == FirstParts \subseteq Parts
ASSUME AbsentAssumption == None \notin Responses \cup Formats

VARIABLES
  responses,         \* the response ledger
  audio,             \* the part ledger; unlisted parts hold NoPart
  output_audio,      \* the session's output format
  format_requested,
  frankie_feedback,  \* the endpoint advertises playback feedback
  open,              \* the session still runs
  truncations,       \* history: the truncations sent for each part
  reported           \* history: responses whose stop the host reported

vars == <<responses, audio, output_audio, format_requested, frankie_feedback,
          open, truncations, reported>>

ResponseRecords ==
  [listed : BOOLEAN, created : BOOLEAN, done : BOOLEAN, cancelled : BOOLEAN,
   format : Formats \cup {None}]

PartRecords ==
  [response : Responses \cup {None}, format : Formats \cup {None},
   bytes : Nat, heard : Nat, truncated : BOOLEAN]

NoPart == [response |-> None, format |-> None, bytes |-> 0, heard |-> 0,
           truncated |-> FALSE]

Init ==
  /\ responses = [r \in Responses |->
       [listed |-> FALSE, created |-> FALSE, done |-> FALSE, cancelled |-> FALSE,
        format |-> None]]
  /\ audio = [p \in Parts |-> NoPart]
  /\ output_audio = ConfiguredFormat
  /\ format_requested = FALSE
  /\ frankie_feedback = FALSE
  /\ open = TRUE
  /\ truncations = [p \in Parts |-> <<>>]
  /\ reported = {}

-----------------------------------------------------------------------------
(* Server events.                                                          *)

Saturated(n) == IF n > MaxCount THEN MaxCount ELSE n

\* How long the bytes of a part play, in whole milliseconds.
Duration(format, bytes) ==
  IF format.kind = "pcm16"
  THEN Saturated(bytes * 1000) \div (2 * format.sample_rate)
  ELSE bytes \div 8

\* The session's format once an update reports one, or none.
Updated(report) == IF report = None THEN output_audio ELSE report

\* session.updated.
SessionUpdated(report, feedback) ==
  /\ open
  /\ output_audio' = Updated(report)
  /\ frankie_feedback' = feedback
  /\ UNCHANGED <<responses, audio, format_requested, open, truncations, reported>>

\* Slip: a response that does not report its format has the session's.
InheritedFormat(report) == IF report # None THEN report ELSE output_audio

\* The format of a response created now: the reported one, or the session's
\* while no request has named another.
CreatedFormat(report) ==
  IF report # None THEN report
  ELSE IF format_requested THEN None ELSE output_audio

\* response.created, the first for r; a repetition changes nothing.
ResponseCreated(r, report) ==
  /\ open /\ ~responses[r].created
  /\ responses' = [responses EXCEPT ![r].listed = TRUE, ![r].created = TRUE,
                                    ![r].format = CreatedFormat(report)]
  /\ UNCHANGED <<audio, output_audio, format_requested, frankie_feedback, open,
                 truncations, reported>>

\* Slip: only an ended response is silent.
MutedWhenDone(r) == responses[r].done

\* Media of stopped and of ended responses is dropped unread.
Muted(r) == responses[r].cancelled \/ responses[r].done

\* The format audio of r is measured in; None if it cannot be known.
Measure(r) ==
  IF responses[r].format # None THEN responses[r].format
  ELSE IF format_requested THEN None ELSE output_audio

Listed == {p \in Parts : audio[p] # NoPart}

\* The ledger's entry for p once a delta of r has found or made it.
Entry(r, p) ==
  IF p \in Listed THEN audio[p]
  ELSE [NoPart EXCEPT !.response = r, !.format = Measure(r)]

\* What ends the session instead of being counted.
Unaccountable(r, p, n) ==
  \/ Measure(r) = None
  \/ p \notin Listed /\ Cardinality(Listed) >= MaxParts
  \/ Entry(r, p).response # r \/ Entry(r, p).format # Measure(r)
  \/ Entry(r, p).bytes + n > MaxCount

\* response.output_audio.delta: n more bytes of part p of response r.
AudioDelta(r, p, n) ==
  /\ open /\ ~Muted(r)
  /\ responses' = [responses EXCEPT ![r].listed = TRUE]
  /\ \/ /\ ~Unaccountable(r, p, n)
        /\ audio' = [audio EXCEPT ![p] = [Entry(r, p) EXCEPT !.bytes = @ + n]]
        /\ UNCHANGED open
     \/ /\ Unaccountable(r, p, n)
        /\ open' = FALSE
        /\ UNCHANGED audio
  /\ UNCHANGED <<output_audio, format_requested, frankie_feedback, truncations,
                 reported>>

\* response.done, first or repeated; a cancelled one stops playback, but what
\* was heard of it is still the host's to say.
ResponseDone(r, cancelled) ==
  /\ open
  /\ responses' = [responses EXCEPT ![r].listed = TRUE, ![r].done = TRUE,
                                    ![r].cancelled = @ \/ cancelled]
  /\ UNCHANGED <<audio, output_audio, format_requested, frankie_feedback, open,
                 truncations, reported>>

-----------------------------------------------------------------------------
(* Host commands.  A command that does not validate changes nothing.       *)

\* respond: asks for a response, perhaps in a format of its own.
Respond(format) ==
  /\ open
  /\ format_requested' = (format_requested \/ format # None)
  /\ UNCHANGED <<responses, audio, output_audio, frankie_feedback, open,
                 truncations, reported>>

\* Slip: a position is checked against the bytes, not their duration.
ValidAgainstBytes(r, heard) ==
  /\ responses[r].listed
  /\ \A p \in DOMAIN heard :
       /\ audio[p].response = r
       /\ heard[p] >= audio[p].heard
       /\ heard[p] <= audio[p].bytes
       /\ audio[p].truncated => heard[p] = audio[p].heard

\* Slip: a truncated part may still be reported as heard further.
ValidPastTruncation(r, heard) ==
  /\ responses[r].listed
  /\ \A p \in DOMAIN heard :
       /\ audio[p].response = r
       /\ heard[p] >= audio[p].heard
       /\ heard[p] <= Duration(audio[p].format, audio[p].bytes)

\* validate_heard(): positions of parts of r that lie within what arrived and
\* neither regress nor move once the endpoint was told.
ValidHeard(r, heard) ==
  /\ responses[r].listed
  /\ \A p \in DOMAIN heard :
       /\ audio[p].response = r
       /\ heard[p] >= audio[p].heard
       /\ heard[p] <= Duration(audio[p].format, audio[p].bytes)
       /\ audio[p].truncated => heard[p] = audio[p].heard

\* The part ledger once the positions are recorded.
WithHeard(heard) ==
  [p \in Parts |-> IF p \in DOMAIN heard
                   THEN [audio[p] EXCEPT !.heard = heard[p]] ELSE audio[p]]

\* truncate(): every part of r is cut, once, at its heard position.
Truncate(r, heard) ==
  LET cut == {p \in Parts :
                CanTruncate /\ audio[p].response = r /\ ~audio[p].truncated}
  IN /\ audio' = [p \in Parts |->
          IF p \in cut THEN [WithHeard(heard)[p] EXCEPT !.truncated = TRUE]
          ELSE WithHeard(heard)[p]]
     /\ truncations' = [p \in Parts |->
          IF p \in cut THEN Append(truncations[p], WithHeard(heard)[p].heard)
          ELSE truncations[p]]

\* interrupt and playback_stopped, which differ in the response.cancel frame
\* that only an interrupt of a live response sends.
StopSpeech(r, heard) ==
  /\ open /\ ValidHeard(r, heard)
  /\ responses' = [responses EXCEPT ![r].cancelled = TRUE]
  /\ Truncate(r, heard)
  /\ reported' = reported \cup {r}
  /\ UNCHANGED <<output_audio, format_requested, frankie_feedback, open>>

\* frankie.playback.position and .finished: progress of a first part.
FrankiePosition(r, p, end) ==
  /\ open /\ FrankieExtensions /\ frankie_feedback
  /\ p \in FirstParts
  /\ ValidHeard(r, [q \in {p} |-> end])
  /\ audio' = WithHeard([q \in {p} |-> end])
  /\ UNCHANGED <<responses, output_audio, format_requested, frankie_feedback, open,
                 truncations, reported>>

\* Every other ending of the session.
Stop ==
  /\ open /\ open' = FALSE
  /\ UNCHANGED <<responses, audio, output_audio, format_requested,
                 frankie_feedback, truncations, reported>>

Over == ~open /\ UNCHANGED vars

-----------------------------------------------------------------------------
\* The positions one command may carry: each part at most once.
Heards == UNION {[named -> Positions] : named \in SUBSET Parts}

Server ==
  \/ \E report \in Formats \cup {None}, feedback \in BOOLEAN :
       SessionUpdated(report, feedback)
  \/ \E r \in Responses, report \in Formats \cup {None} : ResponseCreated(r, report)
  \/ \E r \in Responses, p \in Parts, n \in Chunks : AudioDelta(r, p, n)
  \/ \E r \in Responses, cancelled \in BOOLEAN : ResponseDone(r, cancelled)

Host ==
  \/ \E format \in Formats \cup {None} : Respond(format)
  \/ \E r \in Responses, heard \in Heards : StopSpeech(r, heard)
  \/ \E r \in Responses, p \in Parts, end \in Positions : FrankiePosition(r, p, end)

Next == Server \/ Host \/ Stop \/ Over

Spec == Init /\ [][Next]_vars

-----------------------------------------------------------------------------
(* Properties.                                                             *)

\* Every variable holds a value of its kind.
TypeOK ==
  /\ responses \in [Responses -> ResponseRecords]
  /\ audio \in [Parts -> PartRecords]
  /\ output_audio \in Formats
  /\ format_requested \in BOOLEAN
  /\ frankie_feedback \in BOOLEAN
  /\ open \in BOOLEAN
  /\ truncations \in [Parts -> Seq(Nat)]
  /\ reported \in SUBSET Responses

\* docs/protocol.md: "The harness truncates each audio part at its heard
\* position".  It does so once: whatever is reported before or after, by
\* either way of reporting, the endpoint forgets exactly what the ledger says
\* was not heard.
TruncatedAtHeard ==
  \A p \in Parts :
    truncations[p] = IF audio[p].truncated THEN <<audio[p].heard>> ELSE <<>>

\* After the host's stop of a response the endpoint keeps nothing unheard of
\* it: no part escapes by arriving around the stop.
NoPartEscapes ==
  CanTruncate =>
    \A p \in Parts : audio[p].response \in reported => audio[p].truncated

\* Nothing counts as heard that did not arrive: positions stay within the
\* duration of the bytes, however coarse it is.
HeardWithinReceived ==
  \A p \in Listed : audio[p].heard <= Duration(audio[p].format, audio[p].bytes)

\* docs/protocol.md: media of stopped or ended responses is dropped.  The
\* ledger of such a response does not grow.
SilentOnceMuted ==
  [][\A p \in Parts :
       audio'[p].bytes # audio[p].bytes =>
         LET r == audio'[p].response
         IN ~responses[r].cancelled /\ ~responses[r].done]_vars

\* docs/protocol.md:27, "Omitted parts are treated as unheard": a stop that
\* does not name a part cuts it at 0.
OmittedPartsUnheard ==
  [][\A r \in Responses :
       StopSpeech(r, << >>) =>
         \A p \in Parts :
           truncations'[p] # truncations[p] => truncations'[p] = <<0>>]_vars
=============================================================================
