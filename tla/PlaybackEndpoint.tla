--------------------------- MODULE PlaybackEndpoint ---------------------------
(***************************************************************************)
(* Playback composed with an endpoint: it fixes the format of a response   *)
(* when it creates it, answers requests in order or creates responses of   *)
(* its own (voice activity), may or may not report formats, and its events *)
(* reach the session in order, some time later.  The endpoint is outside   *)
(* the repository; it is what src/src/session.rs assumes of one.           *)
(***************************************************************************)
EXTENDS Playback

CONSTANTS
  MaxWire,    \* bound: events in flight
  MaxAsked    \* bound: requests not yet answered

VARIABLES
  endpoint_format,  \* the session's output format, as the endpoint has it
  actual,           \* the format of each response it created, or None
  ended,            \* the responses it ended
  asked,            \* formats of the requests it has not answered, in order
  wire              \* its events the session has not read, in order

endpointVars == <<endpoint_format, actual, ended, asked, wire>>
allVars == <<vars, endpointVars>>

EInit ==
  /\ Init
  /\ endpoint_format = ConfiguredFormat
  /\ actual = [r \in Responses |-> None]
  /\ ended = {}
  /\ asked = <<>>
  /\ wire = <<>>

-----------------------------------------------------------------------------
(* The endpoint.                                                           *)

Sends(event) ==
  /\ open /\ Len(wire) < MaxWire
  /\ wire' = Append(wire, event)
  /\ UNCHANGED vars

\* It takes up a new session format and says so.
EndpointUpdates(format, feedback) ==
  /\ Sends([type |-> "session.updated", format |-> format, feedback |-> feedback])
  /\ endpoint_format' = format
  /\ UNCHANGED <<actual, ended, asked>>

\* It creates r, for its first request or of its own, and reports the format
\* or not.
EndpointCreates(r, reports) ==
  /\ actual[r] = None
  /\ \E format \in Formats :
       /\ \/ format = endpoint_format /\ UNCHANGED asked
          \/ /\ asked # <<>> /\ asked' = Tail(asked)
             /\ format = IF Head(asked) = None THEN endpoint_format ELSE Head(asked)
       /\ actual' = [actual EXCEPT ![r] = format]
       /\ Sends([type |-> "response.created", response |-> r,
                 report |-> IF reports THEN format ELSE None])
  /\ UNCHANGED <<endpoint_format, ended>>

EndpointSpeaks(r, p, n) ==
  /\ actual[r] # None /\ r \notin ended
  /\ Sends([type |-> "response.output_audio.delta", response |-> r, part |-> p,
            bytes |-> n])
  /\ UNCHANGED <<endpoint_format, actual, ended, asked>>

EndpointEnds(r, cancelled) ==
  /\ actual[r] # None /\ r \notin ended
  /\ ended' = ended \cup {r}
  /\ Sends([type |-> "response.done", response |-> r, cancelled |-> cancelled])
  /\ UNCHANGED <<endpoint_format, actual, asked>>

Endpoint ==
  \/ \E format \in Formats, feedback \in BOOLEAN : EndpointUpdates(format, feedback)
  \/ \E r \in Responses, reports \in BOOLEAN : EndpointCreates(r, reports)
  \/ \E r \in Responses, p \in Parts, n \in Chunks : EndpointSpeaks(r, p, n)
  \/ \E r \in Responses, cancelled \in BOOLEAN : EndpointEnds(r, cancelled)

-----------------------------------------------------------------------------
(* The session reads the wire, and the host acts.                          *)

\* The handler of the next event; a muted delta is read and dropped.
SessionReads ==
  /\ wire # <<>>
  /\ wire' = Tail(wire)
  /\ LET event == Head(wire)
     IN \/ /\ event.type = "session.updated"
           /\ SessionUpdated(event.format, event.feedback)
        \/ /\ event.type = "response.created"
           /\ ResponseCreated(event.response, event.report)
        \/ /\ event.type = "response.output_audio.delta"
           /\ AudioDelta(event.response, event.part, event.bytes)
        \/ /\ event.type = "response.output_audio.delta"
           /\ open /\ Muted(event.response) /\ UNCHANGED vars
        \/ /\ event.type = "response.done"
           /\ ResponseDone(event.response, event.cancelled)
  /\ UNCHANGED <<endpoint_format, actual, ended, asked>>

HostAsks(format) ==
  /\ Respond(format)
  /\ Len(asked) < MaxAsked /\ asked' = Append(asked, format)
  /\ UNCHANGED <<endpoint_format, actual, ended, wire>>

HostPlays(r, p, end) == FrankiePosition(r, p, end) /\ UNCHANGED endpointVars

HostStops(r, heard) == StopSpeech(r, heard) /\ UNCHANGED endpointVars

ENext ==
  \/ Endpoint
  \/ SessionReads
  \/ \E format \in Formats \cup {None} : HostAsks(format)
  \/ \E r \in Responses, heard \in Heards : HostStops(r, heard)
  \/ \E r \in Responses, p \in Parts, end \in Positions : HostPlays(r, p, end)
  \/ Stop /\ UNCHANGED endpointVars
  \/ Over /\ UNCHANGED endpointVars

ESpec == EInit /\ [][ENext]_allVars

\* docs/protocol.md: rather "than mismeasure playback" the session ends.  A
\* creation names no request, yet no part is measured in a format other than
\* the one its response was created in.
MeasuredTruly ==
  \A p \in Listed : audio[p].format = actual[audio[p].response]
=============================================================================
