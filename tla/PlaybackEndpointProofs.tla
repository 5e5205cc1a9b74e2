------------------------ MODULE PlaybackEndpointProofs ------------------------
(* Theorems about PlaybackEndpoint, for every bound on its wire and on its  *)
(* unanswered requests.                                                     *)
EXTENDS PlaybackEndpoint, PlaybackProofs

\* What is on the wire.
Events ==
  [type : {"session.updated"}, format : Formats, feedback : BOOLEAN]
  \cup [type : {"response.created"}, response : Responses,
        report : Formats \cup {None}]
  \cup [type : {"response.output_audio.delta"}, response : Responses,
        part : Parts, bytes : Chunks]
  \cup [type : {"response.done"}, response : Responses, cancelled : BOOLEAN]

EndpointTypeOK ==
  /\ endpoint_format \in Formats
  /\ actual \in [Responses -> Formats \cup {None}]
  /\ asked \in Seq(Formats \cup {None})
  /\ wire \in Seq(Events)

Updates(i) == wire[i].type = "session.updated"
Creates(i) == wire[i].type = "response.created"
Speaks(i) == wire[i].type = "response.output_audio.delta"

\* The format the session will have once it has read the events before the
\* i-th: that of the last update among them, or the one it has now.
Reaches(i, format) ==
  /\ (\A j \in 1 .. i - 1 : ~Updates(j)) => format = output_audio
  /\ \A j \in 1 .. i - 1 :
       Updates(j) /\ (\A k \in j + 1 .. i - 1 : ~Updates(k)) => format = wire[j].format

\* While no request has named a format, none of those unanswered does.
AskedInv == ~format_requested => \A i \in 1 .. Len(asked) : asked[i] = None

\* The session catches up with the endpoint's format by reading the wire.
FormatInv == Reaches(Len(wire) + 1, endpoint_format)

\* A creation on the wire is the only one of its response, which the session
\* does not know yet, and reports the format of the response, or leaves it to
\* the one the session will have, if that can be known.
CreationInv ==
  \A i \in 1 .. Len(wire) : Creates(i) =>
    LET r == wire[i].response
    IN /\ ~responses[r].created
       /\ \A j \in 1 .. Len(wire) : Creates(j) /\ wire[j].response = r => j = i
       /\ actual[r] # None
       /\ wire[i].report # None => wire[i].report = actual[r]
       /\ wire[i].report = None /\ ~format_requested => Reaches(i, actual[r])

\* Audio follows the creation of its response.
AudioInv ==
  \A i \in 1 .. Len(wire) : Speaks(i) =>
    \/ responses[wire[i].response].created
    \/ \E j \in 1 .. i - 1 : Creates(j) /\ wire[j].response = wire[i].response

\* The session knows the format of a response truly or not at all.
\* A response the endpoint created was, or is about to be, read.
KnownInv ==
  \A r \in Responses :
    /\ responses[r].created =>
         /\ actual[r] # None
         /\ responses[r].format \in {None, actual[r]}
         /\ responses[r].format = None => format_requested
    /\ actual[r] # None =>
         \/ responses[r].created
         \/ \E i \in 1 .. Len(wire) : Creates(i) /\ wire[i].response = r

MeasureInv ==
  \A p \in Parts :
    audio[p] # NoPart =>
      /\ audio[p].response \in Responses
      /\ audio[p].format = actual[audio[p].response]
      /\ actual[audio[p].response] # None

EndpointInv ==
  /\ EndpointTypeOK
  /\ AskedInv /\ FormatInv /\ CreationInv /\ AudioInv /\ KnownInv /\ MeasureInv
-----------------------------------------------------------------------------
\* What a step does to the wire.
LEMMA Delivered ==
  ASSUME EndpointTypeOK, SessionReads
  PROVE  /\ Len(wire) \in Nat /\ 1 \in 1 .. Len(wire)
         /\ wire' \in Seq(Events)
         /\ Len(wire') = Len(wire) - 1
         /\ \A i \in 1 .. Len(wire') : i + 1 \in 1 .. Len(wire) /\ wire'[i] = wire[i + 1]
         /\ wire[1] = Head(wire) /\ wire[1] \in Events
<1>1. wire \in Seq(Events) /\ wire # <<>> /\ wire' = Tail(wire)
  BY DEF EndpointTypeOK, SessionReads
<1> QED  BY <1>1

LEMMA Sent ==
  ASSUME EndpointTypeOK, NEW e \in Events, Sends(e)
  PROVE  /\ Len(wire) \in Nat
         /\ wire' \in Seq(Events)
         /\ Len(wire') = Len(wire) + 1
         /\ wire'[Len(wire) + 1] = e
         /\ \A i \in 1 .. Len(wire) : wire'[i] = wire[i]
         /\ UNCHANGED vars
<1>1. wire \in Seq(Events) /\ wire' = Append(wire, e) /\ UNCHANGED vars
  BY DEF EndpointTypeOK, Sends
<1> QED  BY <1>1

\* The event a handler reads, by its kind.
LEMMA EventRead ==
  ASSUME EndpointTypeOK, SessionReads
  PROVE  /\ UNCHANGED <<endpoint_format, actual, ended, asked>>
         /\ \/ /\ Updates(1) /\ wire[1].format \in Formats
               /\ wire[1].feedback \in BOOLEAN
               /\ SessionUpdated(wire[1].format, wire[1].feedback)
            \/ /\ Creates(1) /\ wire[1].response \in Responses
               /\ wire[1].report \in Formats \cup {None}
               /\ ResponseCreated(wire[1].response, wire[1].report)
            \/ /\ Speaks(1) /\ wire[1].response \in Responses
               /\ wire[1].part \in Parts /\ wire[1].bytes \in Chunks
               /\ AudioDelta(wire[1].response, wire[1].part, wire[1].bytes)
            \/ /\ Speaks(1) /\ UNCHANGED vars
            \/ /\ wire[1].type = "response.done" /\ wire[1].response \in Responses
               /\ wire[1].cancelled \in BOOLEAN
               /\ ResponseDone(wire[1].response, wire[1].cancelled)
<1>1. wire[1] = Head(wire) /\ wire[1] \in Events
  BY Delivered
<1>2. /\ Updates(1) => wire[1].format \in Formats /\ wire[1].feedback \in BOOLEAN
      /\ Creates(1) => /\ wire[1].response \in Responses
                       /\ wire[1].report \in Formats \cup {None}
      /\ Speaks(1) => /\ wire[1].response \in Responses
                      /\ wire[1].part \in Parts /\ wire[1].bytes \in Chunks
      /\ wire[1].type = "response.done" =>
           wire[1].response \in Responses /\ wire[1].cancelled \in BOOLEAN
  BY <1>1 DEF Events, Updates, Creates, Speaks
<1> QED  BY <1>1, <1>2 DEF SessionReads, Updates, Creates, Speaks

\* Each step of the composition is a step of Playback or leaves it alone.
LEMMA StepsRefine == EndpointTypeOK /\ [ENext]_allVars => [Next]_vars
<1> SUFFICES ASSUME EndpointTypeOK, [ENext]_allVars PROVE [Next]_vars
  OBVIOUS
<1>1. CASE UNCHANGED allVars
  BY <1>1 DEF allVars
<1>2. CASE Endpoint
  BY <1>2 DEF Endpoint, EndpointUpdates, EndpointCreates, EndpointSpeaks, EndpointEnds,
     Sends
<1>3. CASE \/ \E format \in Formats \cup {None} : HostAsks(format)
           \/ \E r \in Responses, heard \in Heards : HostStops(r, heard)
           \/ \E r \in Responses, p \in Parts, end \in Positions : HostPlays(r, p, end)
           \/ Stop \/ Over
  BY <1>3 DEF HostAsks, HostStops, HostPlays, Next, Host
<1>4. CASE SessionReads
  <2>1. Server \/ UNCHANGED vars
    BY <1>4, EventRead DEF Server
  <2> QED  BY <2>1 DEF Next
<1> QED  BY <1>1, <1>2, <1>3, <1>4 DEF ENext

LEMMA EndpointKeepsType == EndpointTypeOK /\ [ENext]_allVars => EndpointTypeOK'
<1> SUFFICES ASSUME EndpointTypeOK, [ENext]_allVars PROVE EndpointTypeOK'
  OBVIOUS
<1>1. CASE UNCHANGED endpointVars
  BY <1>1 DEF EndpointTypeOK, endpointVars
<1>2. CASE SessionReads
  BY <1>2, Delivered DEF EndpointTypeOK, SessionReads
<1>3. ASSUME NEW format \in Formats \cup {None}, HostAsks(format)
      PROVE  EndpointTypeOK'
  BY <1>3 DEF EndpointTypeOK, HostAsks
<1>4. ASSUME NEW format \in Formats, NEW feedback \in BOOLEAN,
             EndpointUpdates(format, feedback)
      PROVE  EndpointTypeOK'
  <2>1. [type |-> "session.updated", format |-> format, feedback |-> feedback] \in Events
    BY DEF Events
  <2> QED  BY <1>4, <2>1, Sent DEF EndpointTypeOK, EndpointUpdates
<1>5. ASSUME NEW r \in Responses, NEW reports \in BOOLEAN, EndpointCreates(r, reports)
      PROVE  EndpointTypeOK'
  <2>1. PICK format \in Formats :
          /\ \/ format = endpoint_format /\ UNCHANGED asked
             \/ /\ asked # <<>> /\ asked' = Tail(asked)
                /\ format = IF Head(asked) = None THEN endpoint_format ELSE Head(asked)
          /\ actual' = [actual EXCEPT ![r] = format]
          /\ Sends([type |-> "response.created", response |-> r,
                    report |-> IF reports THEN format ELSE None])
    BY <1>5 DEF EndpointCreates
  <2>2. [type |-> "response.created", response |-> r,
         report |-> IF reports THEN format ELSE None] \in Events
    BY DEF Events
  <2>3. asked' \in Seq(Formats \cup {None})
    <3>1. asked \in Seq(Formats \cup {None})
      BY DEF EndpointTypeOK
    <3>2. \/ asked' = asked
          \/ asked # <<>> /\ asked' = Tail(asked)
      BY <2>1
    <3> QED  BY <3>1, <3>2
  <2> QED  BY <1>5, <2>1, <2>2, <2>3, Sent DEF EndpointTypeOK, EndpointCreates
<1>6. ASSUME NEW r \in Responses, NEW p \in Parts, NEW n \in Chunks, EndpointSpeaks(r, p, n)
      PROVE  EndpointTypeOK'
  <2>1. [type |-> "response.output_audio.delta", response |-> r, part |-> p,
         bytes |-> n] \in Events
    BY DEF Events
  <2> QED  BY <1>6, <2>1, Sent DEF EndpointTypeOK, EndpointSpeaks
<1>7. ASSUME NEW r \in Responses, NEW cancelled \in BOOLEAN, EndpointEnds(r, cancelled)
      PROVE  EndpointTypeOK'
  <2>1. [type |-> "response.done", response |-> r, cancelled |-> cancelled] \in Events
    BY DEF Events
  <2> QED  BY <1>7, <2>1, Sent DEF EndpointTypeOK, EndpointEnds
<1> QED
  BY <1>1, <1>2, <1>3, <1>4, <1>5, <1>6, <1>7
  DEF ENext, Endpoint, HostPlays, HostStops, allVars

\* Composing Playback with an endpoint adds no behaviour to it: all that is proved
\* of Playback holds of the composition.
THEOREM CompositionPlays == ESpec => Spec
<1>1. EInit => Init /\ EndpointTypeOK
  BY FormatsAssumption DEF EInit, EndpointTypeOK
<1>2. EndpointTypeOK /\ [ENext]_allVars => EndpointTypeOK' /\ [Next]_vars
  BY StepsRefine, EndpointKeepsType
<1> QED  BY <1>1, <1>2, PTL DEF ESpec, Spec

-----------------------------------------------------------------------------
\* What the session's handlers do to the formats it knows.
LEMMA ReadEffects ==
  ASSUME TypeOK, EndpointTypeOK, SessionReads
  PROVE  /\ UNCHANGED format_requested
         /\ output_audio' = IF Updates(1) THEN wire[1].format ELSE output_audio
         /\ \A r \in Responses :
              IF Creates(1) /\ wire[1].response = r
              THEN /\ responses'[r].created
                   /\ responses'[r].format = CreatedFormat(wire[1].report)
              ELSE /\ responses'[r].created = responses[r].created
                   /\ responses'[r].format = responses[r].format
<1> USE DEF TypeOK
<1>1. CASE /\ Updates(1) /\ wire[1].format \in Formats
           /\ SessionUpdated(wire[1].format, wire[1].feedback)
  BY <1>1, AbsentAssumption DEF SessionUpdated, Updated, Updates, Creates
<1>2. CASE /\ Creates(1) /\ wire[1].response \in Responses
           /\ ResponseCreated(wire[1].response, wire[1].report)
  BY <1>2 DEF ResponseCreated, Updates, Creates, ResponseRecords
<1>3. CASE /\ Speaks(1) /\ wire[1].response \in Responses
           /\ AudioDelta(wire[1].response, wire[1].part, wire[1].bytes)
  BY <1>3 DEF AudioDelta, Updates, Creates, Speaks, ResponseRecords
<1>4. CASE Speaks(1) /\ UNCHANGED vars
  BY <1>4 DEF vars, Updates, Creates, Speaks
<1>5. CASE /\ wire[1].type = "response.done" /\ wire[1].response \in Responses
           /\ ResponseDone(wire[1].response, wire[1].cancelled)
  BY <1>5 DEF ResponseDone, Updates, Creates, ResponseRecords
<1> QED  BY <1>1, <1>2, <1>3, <1>4, <1>5, EventRead

LEMMA ReachesAfterSend ==
  ASSUME EndpointTypeOK, NEW e \in Events, Sends(e),
         NEW i \in 1 .. Len(wire) + 1, NEW format, Reaches(i, format)
  PROVE  Reaches(i, format)'
<1>1. \A j \in 1 .. i - 1 : wire'[j] = wire[j] /\ (Updates(j)' <=> Updates(j))
  BY Sent DEF Updates
<1>2. UNCHANGED output_audio
  BY Sent DEF vars
<1>3. ASSUME NEW j \in 1 .. i - 1, Updates(j)',
             \A k \in j + 1 .. i - 1 : ~Updates(k)'
      PROVE  format = wire'[j].format
  <2>1. Updates(j) /\ \A k \in j + 1 .. i - 1 : ~Updates(k)
    BY <1>1, <1>3, Sent
  <2> QED  BY <1>1, <2>1 DEF Reaches
<1> QED  BY <1>1, <1>2, <1>3 DEF Reaches

LEMMA ReachesAfterRead ==
  ASSUME TypeOK, EndpointTypeOK, SessionReads,
         NEW i \in 1 .. Len(wire), NEW format, Reaches(i + 1, format)
  PROVE  Reaches(i, format)'
<1>1. \A j \in 1 .. i - 1 : /\ j + 1 \in 1 .. Len(wire)
                            /\ wire'[j] = wire[j + 1]
                            /\ Updates(j)' <=> Updates(j + 1)
  BY Delivered DEF Updates
<1>2. ASSUME \A j \in 1 .. i - 1 : ~Updates(j)'
      PROVE  format = output_audio'
  <2>1. \A j \in 2 .. i : j - 1 \in 1 .. i - 1 /\ (j - 1) + 1 = j
    OBVIOUS
  <2>2. \A j \in 2 .. i : ~Updates(j)
    BY <1>1, <1>2, <2>1
  <2>3. CASE Updates(1)
    <3>1. 1 \in 1 .. (i + 1) - 1 /\ \A k \in 1 + 1 .. (i + 1) - 1 : ~Updates(k)
      BY <2>2
    <3>2. format = wire[1].format
      BY <2>3, <3>1 DEF Reaches
    <3> QED  BY <2>3, <3>2, ReadEffects
  <2>4. CASE ~Updates(1)
    <3>1. \A j \in 1 .. (i + 1) - 1 : ~Updates(j)
      BY <2>2, <2>4
    <3> QED  BY <2>4, <3>1, ReadEffects DEF Reaches
  <2> QED  BY <2>3, <2>4
<1>3. ASSUME NEW j \in 1 .. i - 1, Updates(j)',
             \A k \in j + 1 .. i - 1 : ~Updates(k)'
      PROVE  format = wire'[j].format
  <2>1. \A k \in (j + 1) + 1 .. (i + 1) - 1 :
          k - 1 \in j + 1 .. i - 1 /\ k - 1 \in 1 .. i - 1 /\ (k - 1) + 1 = k
    OBVIOUS
  <2>2. \A k \in (j + 1) + 1 .. (i + 1) - 1 : ~Updates(k)
    BY <1>1, <1>3, <2>1
  <2>3. j + 1 \in 1 .. (i + 1) - 1 /\ Updates(j + 1)
    BY <1>1, <1>3
  <2>4. format = wire[j + 1].format
    BY <2>2, <2>3 DEF Reaches
  <2> QED  BY <1>1, <2>4
<1> QED  BY <1>2, <1>3 DEF Reaches

-----------------------------------------------------------------------------
\* The commands of the host, and endings: the wire and the formats stay.
HostMoves ==
  \/ \E format \in Formats \cup {None} : HostAsks(format)
  \/ \E r \in Responses, heard \in Heards : HostStops(r, heard)
  \/ \E r \in Responses, p \in Parts, end \in Positions : HostPlays(r, p, end)
  \/ Stop /\ UNCHANGED endpointVars
  \/ Over /\ UNCHANGED endpointVars
  \/ UNCHANGED allVars

LEMMA HostEffects ==
  ASSUME TypeOK, HostMoves
  PROVE  /\ UNCHANGED <<wire, actual, endpoint_format, output_audio>>
         /\ format_requested => format_requested'
         /\ \A r \in Responses : /\ responses'[r].created = responses[r].created
                                 /\ responses'[r].format = responses[r].format
         /\ \A p \in Parts : \/ audio'[p] = audio[p]
                             \/ /\ audio[p] # NoPart
                                /\ audio'[p].response = audio[p].response
                                /\ audio'[p].format = audio[p].format
<1> USE DEF endpointVars, TypeOK
<1>1. ASSUME NEW format \in Formats \cup {None}, HostAsks(format)
      PROVE  /\ UNCHANGED <<wire, actual, endpoint_format, output_audio, responses, audio>>
             /\ format_requested => format_requested'
  BY <1>1 DEF HostAsks, Respond
<1>2. ASSUME NEW heard \in AnyHeards, NEW r \in Responses, ValidHeard(r, heard),
             NEW p \in Parts, p \in DOMAIN heard
      PROVE  audio[p] # NoPart
  BY <1>2, AbsentAssumption DEF ValidHeard, NoPart
<1>3. ASSUME NEW heard \in AnyHeards, NEW p \in Parts
      PROVE  /\ p \notin DOMAIN heard => WithHeard(heard)[p] = audio[p]
             /\ WithHeard(heard)[p].response = audio[p].response
             /\ WithHeard(heard)[p].format = audio[p].format
             /\ WithHeard(heard) \in [Parts -> PartRecords]
  <2>1. WithHeard(heard) \in [Parts -> PartRecords]
    BY WithHeardFacts
  <2> QED  BY <2>1 DEF WithHeard, PartRecords
<1>4. ASSUME NEW r \in Responses, NEW heard \in AnyHeards, HostStops(r, heard)
      PROVE  /\ UNCHANGED <<wire, actual, endpoint_format, output_audio, format_requested>>
             /\ \A q \in Responses : /\ responses'[q].created = responses[q].created
                                     /\ responses'[q].format = responses[q].format
             /\ \A p \in Parts : \/ audio'[p] = audio[p]
                                 \/ /\ audio[p] # NoPart
                                    /\ audio'[p].response = audio[p].response
                                    /\ audio'[p].format = audio[p].format
  <2>1. /\ UNCHANGED <<wire, actual, endpoint_format, output_audio, format_requested>>
        /\ responses' = [responses EXCEPT ![r].cancelled = TRUE]
        /\ ValidHeard(r, heard) /\ Truncate(r, heard)
    BY <1>4 DEF HostStops, StopSpeech
  <2>2. \A q \in Responses : /\ responses'[q].created = responses[q].created
                             /\ responses'[q].format = responses[q].format
    BY <2>1 DEF ResponseRecords
  <2>3. ASSUME NEW p \in Parts
        PROVE  \/ audio'[p] = audio[p]
               \/ /\ audio[p] # NoPart
                  /\ audio'[p].response = audio[p].response
                  /\ audio'[p].format = audio[p].format
    <3>1. \/ audio'[p] = WithHeard(heard)[p]
          \/ /\ audio[p].response = r
             /\ audio'[p] = [WithHeard(heard)[p] EXCEPT !.truncated = TRUE]
      BY <2>1 DEF Truncate
    <3>2. audio'[p].response = audio[p].response /\ audio'[p].format = audio[p].format
      BY <1>3, <3>1 DEF PartRecords
    <3>3. audio[p].response = r => audio[p] # NoPart
      BY AbsentAssumption DEF NoPart
    <3> QED  BY <1>2, <1>3, <2>1, <3>1, <3>2, <3>3
  <2> QED  BY <2>1, <2>2, <2>3
<1>5. ASSUME NEW r \in Responses, NEW p \in Parts, NEW end \in Positions,
             HostPlays(r, p, end)
      PROVE  /\ UNCHANGED <<wire, actual, endpoint_format, output_audio, responses,
                            format_requested>>
             /\ \A q \in Parts : \/ audio'[q] = audio[q]
                                 \/ /\ audio[q] # NoPart
                                    /\ audio'[q].response = audio[q].response
                                    /\ audio'[q].format = audio[q].format
  <2>1. /\ UNCHANGED <<wire, actual, endpoint_format, output_audio, responses,
                       format_requested>>
        /\ ValidHeard(r, [q \in {p} |-> end]) /\ audio' = WithHeard([q \in {p} |-> end])
    BY <1>5 DEF HostPlays, FrankiePosition
  <2>2. [q \in {p} |-> end] \in AnyHeards
    BY OnePosition, AudioAssumption
  <2> QED  BY <1>2, <1>3, <2>1, <2>2
<1>6. CASE \/ (Stop \/ Over) /\ UNCHANGED endpointVars
           \/ UNCHANGED allVars
  BY <1>6 DEF Stop, Over, vars, allVars
<1> QED  BY <1>1, <1>4, <1>5, <1>6, PositionsAreAny DEF HostMoves

LEMMA HostStep ==
  ASSUME TypeOK, EndpointInv, HostMoves
  PROVE  FormatInv' /\ CreationInv' /\ AudioInv' /\ KnownInv' /\ MeasureInv'
<1> USE HostEffects DEF EndpointInv, Reaches, Updates, Creates, Speaks
<1>1. FormatInv'
  BY DEF FormatInv
<1>2. CreationInv'
  <2> SUFFICES ASSUME NEW i \in 1 .. Len(wire), Creates(i)
               PROVE  /\ ~responses'[wire[i].response].created
                      /\ \A j \in 1 .. Len(wire) :
                           Creates(j) /\ wire[j].response = wire[i].response => j = i
                      /\ actual[wire[i].response] # None
                      /\ wire[i].report # None => wire[i].report = actual[wire[i].response]
                      /\ wire[i].report = None /\ ~format_requested'
                           => Reaches(i, actual[wire[i].response])'
    BY DEF CreationInv
  <2>1. wire[i].response \in Responses
    BY DEF EndpointTypeOK, Events
  <2> QED  BY <2>1 DEF CreationInv
<1>3. AudioInv'
  <2>1. \A i \in 1 .. Len(wire) : Speaks(i) => wire[i].response \in Responses
    BY DEF EndpointTypeOK, Events
  <2> QED  BY <2>1 DEF AudioInv
<1>4. KnownInv'
  BY DEF KnownInv
<1>5. MeasureInv'
  BY DEF MeasureInv
<1> QED  BY <1>1, <1>2, <1>3, <1>4, <1>5

-----------------------------------------------------------------------------
\* A handler of the session reads the next event.
LEMMA ReadStep ==
  ASSUME TypeOK, EndpointInv, SessionReads
  PROVE  FormatInv' /\ CreationInv' /\ AudioInv' /\ KnownInv' /\ MeasureInv'
<1> USE DEF EndpointInv
<1>1. UNCHANGED <<endpoint_format, actual, asked>>
  BY EventRead
<1>2. /\ Len(wire) \in Nat /\ 1 \in 1 .. Len(wire) /\ Len(wire') = Len(wire) - 1
      /\ \A i \in 1 .. Len(wire') : i + 1 \in 1 .. Len(wire) /\ wire'[i] = wire[i + 1]
      /\ \A i \in 1 .. Len(wire) : i # 1 =>
           i - 1 \in 1 .. Len(wire') /\ wire'[i - 1] = wire[i]
  BY Delivered
<1>3. \A i \in 1 .. Len(wire) :
        /\ Creates(i) => wire[i].response \in Responses
        /\ Speaks(i) => wire[i].response \in Responses
  BY DEF EndpointTypeOK, Events, Creates, Speaks
<1>4. FormatInv'
  <2> SUFFICES ASSUME NEW format, format = endpoint_format,
                      NEW n \in 1 .. Len(wire), n = Len(wire)
               PROVE  Reaches(n, format)'
    <3>1. Len(wire) \in 1 .. Len(wire) /\ Len(wire') + 1 = Len(wire)
      BY <1>2
    <3> QED  BY <1>1, <3>1 DEF FormatInv, Reaches
  <2>1. Reaches(n + 1, format)
    BY DEF FormatInv
  <2> QED  BY <2>1, ReachesAfterRead
<1>5. CreationInv'
  <2> SUFFICES ASSUME NEW i \in 1 .. Len(wire'), wire'[i].type = "response.created",
                      NEW r \in Responses, r = wire'[i].response,
                      NEW format, format = actual[r]
               PROVE  /\ ~responses'[r].created
                      /\ \A j \in 1 .. Len(wire') :
                           wire'[j].type = "response.created" /\ wire'[j].response = r
                             => j = i
                      /\ actual[r] # None
                      /\ wire'[i].report # None => wire'[i].report = actual[r]
                      /\ wire'[i].report = None /\ ~format_requested'
                           => Reaches(i, format)'
    <3>1. ASSUME NEW k \in 1 .. Len(wire'), Creates(k)'
          PROVE  wire'[k].response \in Responses
      <4>1. k + 1 \in 1 .. Len(wire) /\ wire'[k] = wire[k + 1]
        BY <1>2
      <4>2. Creates(k + 1)
        BY <3>1, <4>1 DEF Creates
      <4> QED  BY <1>3, <4>1, <4>2
    <3> QED  BY <1>1, <3>1 DEF CreationInv, Creates, Reaches
  <2>1. i + 1 \in 1 .. Len(wire) /\ wire'[i] = wire[i + 1] /\ Creates(i + 1) /\ i \in Nat
    BY <1>2 DEF Creates
  <2>2. /\ ~responses[r].created
        /\ \A j \in 1 .. Len(wire) : Creates(j) /\ wire[j].response = r => j = i + 1
        /\ actual[r] # None
        /\ wire[i + 1].report # None => wire[i + 1].report = actual[r]
        /\ wire[i + 1].report = None /\ ~format_requested => Reaches(i + 1, actual[r])
    BY <2>1 DEF CreationInv
  <2>3. ~responses'[r].created
    <3>1. ~(Creates(1) /\ wire[1].response = r)
      BY <1>2, <2>1, <2>2
    <3> QED  BY <2>2, <3>1, ReadEffects
  <2>4. \A j \in 1 .. Len(wire') :
          wire'[j].type = "response.created" /\ wire'[j].response = r => j = i
    BY <1>2, <2>1, <2>2 DEF Creates
  <2>5. i \in 1 .. Len(wire)
    BY <1>2
  <2>6. Reaches(i + 1, format) => Reaches(i, format)'
    BY <2>5, ReachesAfterRead
  <2> QED  BY <2>1, <2>2, <2>3, <2>4, <2>6, ReadEffects
<1>6. AudioInv'
  <2> SUFFICES ASSUME NEW i \in 1 .. Len(wire'), Speaks(i)'
               PROVE  \/ responses'[wire'[i].response].created
                      \/ \E j \in 1 .. i - 1 : /\ Creates(j)'
                                               /\ wire'[j].response = wire'[i].response
    BY DEF AudioInv
  <2> DEFINE r == wire'[i].response
  <2>1. /\ i + 1 \in 1 .. Len(wire) /\ wire'[i] = wire[i + 1] /\ Speaks(i + 1)
        /\ r \in Responses
    BY <1>2, <1>3 DEF Speaks
  <2>2. \/ responses[r].created
        \/ \E j \in 1 .. (i + 1) - 1 : Creates(j) /\ wire[j].response = r
    BY <2>1 DEF AudioInv
  <2>3. CASE responses[r].created
    BY <2>1, <2>3, ReadEffects
  <2>4. ASSUME NEW j \in 1 .. (i + 1) - 1, Creates(j), wire[j].response = r
        PROVE  \/ responses'[r].created
               \/ \E k \in 1 .. i - 1 : Creates(k)' /\ wire'[k].response = r
    <3>1. CASE j = 1
      BY <2>1, <2>4, <3>1, ReadEffects
    <3>2. CASE j # 1
      <4>1. j - 1 \in 1 .. i - 1 /\ wire'[j - 1] = wire[j]
        BY <1>2, <3>2
      <4>2. Creates(j - 1)' /\ wire'[j - 1].response = r
        BY <2>4, <4>1 DEF Creates
      <4> QED  BY <4>1, <4>2
    <3> QED  BY <3>1, <3>2
  <2> QED  BY <2>2, <2>3, <2>4
<1>7. KnownInv'
  <2> SUFFICES ASSUME NEW r \in Responses
               PROVE  /\ responses'[r].created =>
                           /\ actual[r] # None
                           /\ responses'[r].format \in {None, actual[r]}
                           /\ responses'[r].format = None => format_requested'
                      /\ actual[r] # None =>
                           \/ responses'[r].created
                           \/ \E i \in 1 .. Len(wire') :
                                Creates(i)' /\ wire'[i].response = r
    BY <1>1 DEF KnownInv
  <2>1. CASE Creates(1) /\ wire[1].response = r
    <3>1. /\ actual[r] # None
          /\ wire[1].report # None => wire[1].report = actual[r]
          /\ wire[1].report = None /\ ~format_requested => Reaches(1, actual[r])
      BY <1>2, <2>1 DEF CreationInv
    <3>2. Reaches(1, actual[r]) => actual[r] = output_audio
      BY DEF Reaches
    <3>3. responses'[r].created /\ responses'[r].format = CreatedFormat(wire[1].report)
      BY <2>1, ReadEffects
    <3>4. UNCHANGED format_requested
      BY ReadEffects
    <3>5. \/ responses'[r].format = actual[r]
          \/ responses'[r].format = None /\ format_requested
      BY <3>1, <3>2, <3>3 DEF CreatedFormat
    <3> QED  BY <3>1, <3>3, <3>4, <3>5
  <2>2. CASE ~(Creates(1) /\ wire[1].response = r)
    <3>1. /\ responses'[r].created = responses[r].created
          /\ responses'[r].format = responses[r].format
          /\ UNCHANGED format_requested
      BY <2>2, ReadEffects
    <3>2. ASSUME NEW i \in 1 .. Len(wire), Creates(i), wire[i].response = r
          PROVE  \E j \in 1 .. Len(wire') : Creates(j)' /\ wire'[j].response = r
      <4>1. i # 1
        BY <2>2, <3>2
      <4>2. i - 1 \in 1 .. Len(wire') /\ wire'[i - 1] = wire[i]
        BY <1>2, <4>1
      <4> QED  BY <3>2, <4>2 DEF Creates
    <3> QED  BY <3>1, <3>2 DEF KnownInv
  <2> QED  BY <2>1, <2>2
<1>8. MeasureInv'
  <2>1. CASE UNCHANGED audio
    BY <1>1, <2>1 DEF MeasureInv
  <2>2. ASSUME Speaks(1), NEW r \in Responses, r = wire[1].response,
               NEW p \in Parts, NEW n \in Chunks, AudioDelta(r, p, n),
               ~Unaccountable(r, p, n),
               audio' = [audio EXCEPT ![p] = [Entry(r, p) EXCEPT !.bytes = @ + n]]
        PROVE  MeasureInv'
    <3>1. ~(\E j \in 1 .. 1 - 1 : Creates(j) /\ wire[j].response = r)
      OBVIOUS
    <3>2. responses[r].created
      BY <1>2, <2>2, <3>1 DEF AudioInv
    <3>3. Measure(r) # None /\ Entry(r, p).response = r /\ Entry(r, p).format = Measure(r)
      BY <2>2 DEF Unaccountable
    <3>4. responses[r].format \in {None, actual[r]} /\ actual[r] # None
          /\ (responses[r].format = None => format_requested)
      BY <3>2 DEF KnownInv
    <3>5. Measure(r) = actual[r]
      BY <3>3, <3>4 DEF Measure
    <3>6. Entry(r, p) \in PartRecords /\ n \in Nat
      BY EntryType, AudioAssumption
    <3>7. /\ [Entry(r, p) EXCEPT !.bytes = @ + n].response = r
          /\ [Entry(r, p) EXCEPT !.bytes = @ + n].format = actual[r]
      BY <3>3, <3>5, <3>6 DEF PartRecords
    <3> QED  BY <1>1, <2>2, <3>4, <3>7 DEF MeasureInv, TypeOK
  <2>3. \/ UNCHANGED audio
        \/ /\ Speaks(1)
           /\ AudioDelta(wire[1].response, wire[1].part, wire[1].bytes)
           /\ wire[1].response \in Responses
           /\ wire[1].part \in Parts /\ wire[1].bytes \in Chunks
    BY EventRead DEF SessionUpdated, ResponseCreated, ResponseDone, vars
  <2> QED  BY <2>1, <2>2, <2>3 DEF AudioDelta
<1> QED  BY <1>4, <1>5, <1>6, <1>7, <1>8

-----------------------------------------------------------------------------
\* A creation on the wire still leaves the format to the one the session will have.
LEMMA SendKeepsReach ==
  ASSUME EndpointInv, NEW e \in Events, Sends(e),
         NEW i \in 1 .. Len(wire), NEW format, Creates(i),
         format = actual[wire[i].response],
         wire[i].report = None, ~format_requested
  PROVE  Reaches(i, format)'
<1>1. Reaches(i, format)
  BY DEF EndpointInv, CreationInv
<1>2. i \in 1 .. Len(wire) + 1
  BY DEF EndpointInv, EndpointTypeOK
<1> QED  BY <1>1, <1>2, ReachesAfterSend DEF EndpointInv

\* The endpoint sends an event.  What it does to the session is nothing, so the
\* events already on the wire keep their place.
LEMMA SendKeeps ==
  ASSUME TypeOK, EndpointInv, NEW e \in Events, Sends(e),
         \A r \in Responses : actual[r] # None => actual'[r] = actual[r],
         e.type = "response.created" => actual[e.response] = None
  PROVE  /\ \A i \in 1 .. Len(wire) : Creates(i) =>
              /\ ~responses[wire[i].response].created
              /\ \A j \in 1 .. Len(wire') :
                   wire'[j].type = "response.created"
                     /\ wire'[j].response = wire[i].response => j = i
              /\ actual'[wire[i].response] = actual[wire[i].response]
              /\ actual[wire[i].response] # None
              /\ wire[i].report # None => wire[i].report = actual[wire[i].response]
         /\ MeasureInv'
         /\ e.type # "response.output_audio.delta" => AudioInv'
<1> USE DEF EndpointInv
<1>1. /\ Len(wire) \in Nat /\ Len(wire') = Len(wire) + 1
      /\ wire'[Len(wire) + 1] = e
      /\ \A i \in 1 .. Len(wire) : wire'[i] = wire[i]
      /\ UNCHANGED vars
  BY Sent
<1>2. ASSUME NEW i \in 1 .. Len(wire), Creates(i)
      PROVE  /\ ~responses[wire[i].response].created
             /\ \A j \in 1 .. Len(wire') :
                  wire'[j].type = "response.created"
                    /\ wire'[j].response = wire[i].response => j = i
             /\ actual'[wire[i].response] = actual[wire[i].response]
             /\ actual[wire[i].response] # None
             /\ wire[i].report # None => wire[i].report = actual[wire[i].response]
  <2>1. wire[i].response \in Responses
    BY <1>2 DEF EndpointTypeOK, Events, Creates
  <2>2. ASSUME NEW j \in 1 .. Len(wire'), wire'[j].type = "response.created",
               wire'[j].response = wire[i].response
        PROVE  j = i
    <3>1. CASE j = Len(wire) + 1
      BY <1>1, <1>2, <2>2, <3>1 DEF CreationInv
    <3>2. CASE j # Len(wire) + 1
      <4>1. j \in 1 .. Len(wire) /\ Creates(j) /\ wire[j].response = wire[i].response
        BY <1>1, <2>2, <3>2 DEF Creates
      <4> QED  BY <1>2, <4>1 DEF CreationInv
    <3> QED  BY <3>1, <3>2
  <2> QED  BY <1>2, <2>1, <2>2 DEF CreationInv
<1>3. MeasureInv'
  BY <1>1 DEF MeasureInv, vars
<1>4. ASSUME e.type # "response.output_audio.delta" PROVE AudioInv'
  <2> SUFFICES ASSUME NEW i \in 1 .. Len(wire'), Speaks(i)'
               PROVE  \/ responses[wire'[i].response].created
                      \/ \E j \in 1 .. i - 1 : /\ Creates(j)'
                                               /\ wire'[j].response = wire'[i].response
    BY <1>1 DEF AudioInv, vars
  <2>1. i \in 1 .. Len(wire) /\ Speaks(i) /\ wire'[i] = wire[i]
    BY <1>1, <1>4 DEF Speaks
  <2>2. \A j \in 1 .. i - 1 : wire'[j] = wire[j] /\ (Creates(j)' <=> Creates(j))
    BY <1>1, <2>1 DEF Creates
  <2> QED  BY <2>1, <2>2 DEF AudioInv
<1> QED  BY <1>2, <1>3, <1>4

\* An event that creates nothing keeps what is known of the responses.
LEMMA SendCreatesNothing ==
  ASSUME TypeOK, EndpointInv, NEW e \in Events, Sends(e), UNCHANGED actual,
         e.type # "response.created"
  PROVE  CreationInv' /\ KnownInv'
<1> USE DEF EndpointInv
<1>1. /\ Len(wire) \in Nat /\ Len(wire') = Len(wire) + 1
      /\ wire'[Len(wire) + 1] = e
      /\ \A i \in 1 .. Len(wire) : wire'[i] = wire[i]
      /\ UNCHANGED vars
  BY Sent
<1>2. CreationInv'
  <2> SUFFICES ASSUME NEW i \in 1 .. Len(wire'), wire'[i].type = "response.created",
                      NEW r, r = wire'[i].response, NEW format, format = actual[r]
               PROVE  /\ ~responses[r].created
                      /\ \A j \in 1 .. Len(wire') :
                           wire'[j].type = "response.created" /\ wire'[j].response = r
                             => j = i
                      /\ actual[r] # None
                      /\ wire'[i].report # None => wire'[i].report = actual[r]
                      /\ wire'[i].report = None /\ ~format_requested
                           => Reaches(i, format)'
    BY <1>1 DEF CreationInv, Creates, Reaches, vars
  <2>1. i \in 1 .. Len(wire) /\ wire'[i] = wire[i] /\ Creates(i)
    BY <1>1 DEF Creates
  <2>2. ASSUME wire'[i].report = None, ~format_requested PROVE Reaches(i, format)'
    BY <2>1, <2>2, SendKeepsReach
  <2> QED  BY <2>1, <2>2, SendKeeps
<1>3. KnownInv'
  <2>1. \A i \in 1 .. Len(wire) : /\ i \in 1 .. Len(wire') /\ wire'[i] = wire[i]
                                  /\ Creates(i)' <=> Creates(i)
    BY <1>1 DEF Creates
  <2> QED  BY <1>1, <2>1 DEF KnownInv, vars
<1> QED  BY <1>2, <1>3

\* An event that updates no format keeps where the session's is heading.
LEMMA SendUpdatesNothing ==
  ASSUME TypeOK, EndpointInv, NEW e \in Events, Sends(e), UNCHANGED endpoint_format,
         e.type # "session.updated"
  PROVE  FormatInv'
<1>1. /\ Len(wire) \in Nat /\ Len(wire') = Len(wire) + 1
      /\ wire'[Len(wire) + 1] = e
      /\ \A i \in 1 .. Len(wire) : wire'[i] = wire[i]
      /\ UNCHANGED vars
  BY Sent DEF EndpointInv
<1> SUFFICES ASSUME NEW n \in Nat, n = Len(wire), NEW format, format = endpoint_format
             PROVE  Reaches(n + 2, format)'
  BY <1>1 DEF FormatInv, Reaches
<1>2. Reaches(n + 1, format)'
  <2>1. Reaches(n + 1, format) /\ n + 1 \in 1 .. Len(wire) + 1
    BY DEF EndpointInv, FormatInv
  <2> QED  BY <2>1, ReachesAfterSend DEF EndpointInv
<1>3. ~Updates(n + 1)'
  BY <1>1 DEF Updates
<1>4. \A j \in 1 .. (n + 2) - 1 : j = n + 1 \/ j \in 1 .. (n + 1) - 1
  OBVIOUS
<1>5. ASSUME \A j \in 1 .. (n + 2) - 1 : ~Updates(j)'
      PROVE  format = output_audio'
  BY <1>2, <1>5 DEF Reaches
<1>6. ASSUME NEW j \in 1 .. (n + 2) - 1, Updates(j)',
             \A k \in j + 1 .. (n + 2) - 1 : ~Updates(k)'
      PROVE  format = wire'[j].format
  <2>1. j \in 1 .. (n + 1) - 1
    BY <1>3, <1>4, <1>6
  <2>2. \A k \in j + 1 .. (n + 1) - 1 : ~Updates(k)'
    BY <1>6
  <2> QED  BY <1>2, <1>6, <2>1, <2>2 DEF Reaches
<1> QED  BY <1>5, <1>6 DEF Reaches

LEMMA UpdateStep ==
  ASSUME TypeOK, EndpointInv, NEW format \in Formats, NEW feedback \in BOOLEAN,
         EndpointUpdates(format, feedback)
  PROVE  FormatInv' /\ CreationInv' /\ AudioInv' /\ KnownInv' /\ MeasureInv'
<1> DEFINE e == [type |-> "session.updated", format |-> format, feedback |-> feedback]
<1>1. e \in Events /\ Sends(e) /\ UNCHANGED actual /\ endpoint_format' = format
  BY DEF EndpointUpdates, Events
<1>2. CreationInv' /\ KnownInv'
  BY <1>1, SendCreatesNothing
<1>3. AudioInv' /\ MeasureInv'
  BY <1>1, SendKeeps
<1>4. FormatInv'
  <2>1. /\ Len(wire) \in Nat /\ Len(wire') = Len(wire) + 1
        /\ wire'[Len(wire) + 1] = e
    BY <1>1, Sent DEF EndpointInv
  <2> SUFFICES ASSUME NEW n \in Nat, n = Len(wire)
               PROVE  Reaches(n + 2, format)'
    BY <1>1, <2>1 DEF FormatInv, Reaches
  <2>2. n + 1 \in 1 .. (n + 2) - 1 /\ Updates(n + 1)' /\ wire'[n + 1].format = format
    BY <2>1 DEF Updates
  <2>3. ASSUME NEW j \in 1 .. (n + 2) - 1,
               \A k \in j + 1 .. (n + 2) - 1 : ~Updates(k)'
        PROVE  j = n + 1
    <3>1. n + 1 \notin j + 1 .. (n + 2) - 1
      BY <2>2, <2>3
    <3> QED  BY <3>1
  <2> QED  BY <2>2, <2>3 DEF Reaches
<1> QED  BY <1>2, <1>3, <1>4

LEMMA EndStep ==
  ASSUME TypeOK, EndpointInv, NEW r \in Responses, NEW cancelled \in BOOLEAN,
         EndpointEnds(r, cancelled)
  PROVE  FormatInv' /\ CreationInv' /\ AudioInv' /\ KnownInv' /\ MeasureInv'
<1> DEFINE e == [type |-> "response.done", response |-> r, cancelled |-> cancelled]
<1>1. e \in Events /\ Sends(e) /\ UNCHANGED <<actual, endpoint_format>>
  BY DEF EndpointEnds, Events
<1> QED  BY <1>1, SendKeeps, SendCreatesNothing, SendUpdatesNothing

LEMMA SpeakStep ==
  ASSUME TypeOK, EndpointInv, NEW r \in Responses, NEW p \in Parts, NEW n \in Chunks,
         EndpointSpeaks(r, p, n)
  PROVE  FormatInv' /\ CreationInv' /\ AudioInv' /\ KnownInv' /\ MeasureInv'
<1> DEFINE e == [type |-> "response.output_audio.delta", response |-> r, part |-> p,
                 bytes |-> n]
<1>1. /\ e \in Events /\ Sends(e) /\ UNCHANGED <<actual, endpoint_format>>
      /\ actual[r] # None
  BY DEF EndpointSpeaks, Events
<1>2. FormatInv' /\ CreationInv' /\ KnownInv' /\ MeasureInv'
  BY <1>1, SendKeeps, SendCreatesNothing, SendUpdatesNothing
<1>3. AudioInv'
  <2>1. /\ Len(wire) \in Nat /\ Len(wire') = Len(wire) + 1
        /\ wire'[Len(wire) + 1] = e
        /\ \A i \in 1 .. Len(wire) : wire'[i] = wire[i]
        /\ UNCHANGED vars
    BY <1>1, Sent DEF EndpointInv
  <2> SUFFICES ASSUME NEW i \in 1 .. Len(wire'), Speaks(i)'
               PROVE  \/ responses[wire'[i].response].created
                      \/ \E j \in 1 .. i - 1 : /\ Creates(j)'
                                               /\ wire'[j].response = wire'[i].response
    BY <2>1 DEF AudioInv, vars
  <2>2. CASE i = Len(wire) + 1
    <3>1. \/ responses[r].created
          \/ \E j \in 1 .. Len(wire) : Creates(j) /\ wire[j].response = r
      BY <1>1 DEF EndpointInv, KnownInv
    <3> QED  BY <2>1, <2>2, <3>1 DEF Creates
  <2>3. CASE i \in 1 .. Len(wire)
    <3>1. \/ responses[wire[i].response].created
          \/ \E j \in 1 .. i - 1 : Creates(j) /\ wire[j].response = wire[i].response
      BY <2>1, <2>3 DEF EndpointInv, AudioInv, Speaks
    <3> QED  BY <2>1, <2>3, <3>1 DEF Creates
  <2> QED  BY <2>1, <2>2, <2>3
<1> QED  BY <1>2, <1>3

LEMMA CreateStep ==
  ASSUME TypeOK, EndpointInv, NEW r \in Responses, NEW reports \in BOOLEAN,
         EndpointCreates(r, reports)
  PROVE  FormatInv' /\ CreationInv' /\ AudioInv' /\ KnownInv' /\ MeasureInv'
<1> USE DEF EndpointInv
<1>1. PICK format \in Formats :
        /\ \/ format = endpoint_format /\ UNCHANGED asked
           \/ /\ asked # <<>> /\ asked' = Tail(asked)
              /\ format = IF Head(asked) = None THEN endpoint_format ELSE Head(asked)
        /\ actual' = [actual EXCEPT ![r] = format]
        /\ Sends([type |-> "response.created", response |-> r,
                  report |-> IF reports THEN format ELSE None])
  BY DEF EndpointCreates
<1> DEFINE e == [type |-> "response.created", response |-> r,
                 report |-> IF reports THEN format ELSE None]
<1>2. /\ e \in Events /\ e.type = "response.created" /\ e.response = r
      /\ e.report \in {None, format} /\ Sends(e)
  BY <1>1 DEF Events
<1> HIDE DEF e
<1>3. actual[r] = None /\ format # None /\ UNCHANGED endpoint_format
  BY AbsentAssumption DEF EndpointCreates
<1>4. /\ actual'[r] = format
      /\ \A q \in Responses : actual[q] # None => actual'[q] = actual[q]
      /\ \A q \in Responses : q # r => actual'[q] = actual[q]
  BY <1>1, <1>3 DEF EndpointTypeOK
<1>5. /\ Len(wire) \in Nat /\ Len(wire') = Len(wire) + 1
      /\ wire'[Len(wire) + 1] = e
      /\ \A i \in 1 .. Len(wire) : wire'[i] = wire[i]
      /\ UNCHANGED vars
  BY <1>2, Sent
<1>6. FormatInv' /\ AudioInv' /\ MeasureInv'
  BY <1>2, <1>3, <1>4, SendKeeps, SendUpdatesNothing
<1>7. ~format_requested => format = endpoint_format
  <2>1. ASSUME asked # <<>>, ~format_requested PROVE Head(asked) = None
    <3>1. 1 \in 1 .. Len(asked) /\ Head(asked) = asked[1]
      BY <2>1 DEF EndpointTypeOK
    <3> QED  BY <2>1, <3>1 DEF AskedInv
  <2> QED  BY <1>1, <2>1
<1>8. ~responses[r].created
  BY <1>3 DEF KnownInv
<1>9. CreationInv'
  <2> SUFFICES ASSUME NEW i \in 1 .. Len(wire'), wire'[i].type = "response.created",
                      NEW q, q = wire'[i].response, NEW known, known = actual'[q]
               PROVE  /\ ~responses[q].created
                      /\ \A j \in 1 .. Len(wire') :
                           wire'[j].type = "response.created" /\ wire'[j].response = q
                             => j = i
                      /\ known # None
                      /\ wire'[i].report # None => wire'[i].report = known
                      /\ wire'[i].report = None /\ ~format_requested
                           => Reaches(i, known)'
    BY <1>5 DEF CreationInv, Creates, Reaches, vars
  <2>1. CASE i \in 1 .. Len(wire)
    <3>1. wire'[i] = wire[i] /\ Creates(i) /\ q = wire[i].response
      BY <1>5, <2>1 DEF Creates
    <3>2. known = actual[q]
      BY <1>2, <1>3, <1>4, <2>1, <3>1, SendKeeps
    <3>3. ASSUME wire'[i].report = None, ~format_requested PROVE Reaches(i, known)'
      BY <1>2, <2>1, <3>1, <3>2, <3>3, SendKeepsReach
    <3> QED  BY <1>2, <1>3, <1>4, <2>1, <3>1, <3>2, <3>3, SendKeeps
  <2>2. CASE i = Len(wire) + 1
    <3>1. q = r /\ known = format /\ wire'[i] = e
      BY <1>2, <1>4, <1>5, <2>2
    <3>2. ASSUME NEW j \in 1 .. Len(wire'), wire'[j].type = "response.created",
                 wire'[j].response = r
          PROVE  j = i
      <4>1. ASSUME j \in 1 .. Len(wire) PROVE FALSE
        BY <1>3, <1>5, <3>2, <4>1 DEF CreationInv, Creates
      <4> QED  BY <1>5, <2>2, <4>1
    <3>3. ASSUME ~format_requested PROVE Reaches(i, known)'
      <4>1. Reaches(i, known) /\ i \in 1 .. Len(wire) + 1
        BY <1>5, <1>7, <2>2, <3>1, <3>3 DEF FormatInv
      <4> QED  BY <1>2, <4>1, ReachesAfterSend
    <3> QED  BY <1>2, <1>3, <1>8, <3>1, <3>2, <3>3
  <2> QED  BY <1>5, <2>1, <2>2
<1>10. KnownInv'
  <2> SUFFICES ASSUME NEW q \in Responses
               PROVE  /\ responses[q].created =>
                           /\ actual'[q] # None
                           /\ responses[q].format \in {None, actual'[q]}
                           /\ responses[q].format = None => format_requested
                      /\ actual'[q] # None =>
                           \/ responses[q].created
                           \/ \E i \in 1 .. Len(wire') :
                                Creates(i)' /\ wire'[i].response = q
    BY <1>5 DEF KnownInv, vars
  <2>1. CASE q = r
    <3>1. /\ Len(wire) + 1 \in 1 .. Len(wire')
          /\ wire'[Len(wire) + 1].type = "response.created"
          /\ wire'[Len(wire) + 1].response = r
      BY <1>2, <1>5
    <3> QED  BY <1>8, <2>1, <3>1 DEF Creates
  <2>2. CASE q # r
    <3>1. actual'[q] = actual[q]
      BY <1>4, <2>2
    <3>2. \A i \in 1 .. Len(wire) : /\ i \in 1 .. Len(wire') /\ wire'[i] = wire[i]
                                    /\ Creates(i)' <=> Creates(i)
      BY <1>5 DEF Creates
    <3> QED  BY <3>1, <3>2 DEF KnownInv
  <2> QED  BY <2>1, <2>2
<1> QED  BY <1>6, <1>9, <1>10

LEMMA AskedStep == EndpointTypeOK /\ AskedInv /\ [ENext]_allVars => AskedInv'
<1> SUFFICES ASSUME EndpointTypeOK, AskedInv, [ENext]_allVars PROVE AskedInv'
  OBVIOUS
<1>1. asked \in Seq(Formats \cup {None})
  BY DEF EndpointTypeOK
<1>2. CASE UNCHANGED <<asked, format_requested>>
  BY <1>2 DEF AskedInv
<1>3. ASSUME NEW format \in Formats \cup {None}, HostAsks(format)
      PROVE  AskedInv'
  <2>1. /\ asked' = Append(asked, format)
        /\ format_requested' = (format_requested \/ format # None)
    BY <1>3 DEF HostAsks, Respond
  <2>2. CASE format # None
    <3>1. format_requested'
      BY <2>1, <2>2
    <3> QED  BY <3>1 DEF AskedInv
  <2>3. CASE format = None
    <3>1. format_requested' <=> format_requested
      BY <2>1, <2>3
    <3>2. (\A i \in 1 .. Len(asked) : asked[i] = None)
            => \A i \in 1 .. Len(asked') : asked'[i] = None
      BY <1>1, <2>1, <2>3
    <3> QED  BY <3>1, <3>2 DEF AskedInv
  <2> QED  BY <2>2, <2>3
<1>4. ASSUME NEW r \in Responses, NEW reports \in BOOLEAN, EndpointCreates(r, reports)
      PROVE  AskedInv'
  <2>1. UNCHANGED format_requested
    BY <1>4 DEF EndpointCreates, Sends, vars
  <2>2. \/ UNCHANGED asked
        \/ asked # <<>> /\ asked' = Tail(asked)
    BY <1>4 DEF EndpointCreates
  <2>3. (\A i \in 1 .. Len(asked) : asked[i] = None)
          => \A i \in 1 .. Len(asked') : asked'[i] = None
    BY <1>1, <2>2
  <2> QED  BY <2>1, <2>3 DEF AskedInv
<1>5. ASSUME SessionReads PROVE UNCHANGED <<asked, format_requested>>
  BY <1>5, EventRead DEF SessionUpdated, ResponseCreated, AudioDelta, ResponseDone, vars
<1> QED
  BY <1>2, <1>3, <1>4, <1>5
  DEF ENext, Endpoint, EndpointUpdates, EndpointSpeaks, EndpointEnds, Sends, HostPlays,
      HostStops, FrankiePosition, StopSpeech, Stop, Over, allVars, vars, endpointVars

\* No part is measured in a format other than the one its response was created in,
\* however many updates, requests and creations cross on the wire.
THEOREM AlwaysMeasuredTruly == ESpec => []MeasuredTruly
<1>1. ESpec => []TypeOK
  BY CompositionPlays, TypeCorrect, PTL
<1>2. EInit => EndpointInv
  BY FormatsAssumption
  DEF EInit, Init, EndpointInv, EndpointTypeOK, AskedInv, FormatInv, CreationInv,
      AudioInv, KnownInv, MeasureInv, Reaches
<1>3. TypeOK /\ EndpointInv /\ [ENext]_allVars => EndpointInv'
  <2> SUFFICES ASSUME TypeOK, EndpointInv, [ENext]_allVars PROVE EndpointInv'
    OBVIOUS
  <2>1. EndpointTypeOK' /\ AskedInv'
    BY EndpointKeepsType, AskedStep DEF EndpointInv
  <2>2. CASE HostMoves
    BY <2>1, <2>2, HostStep DEF EndpointInv
  <2>3. CASE SessionReads
    BY <2>1, <2>3, ReadStep DEF EndpointInv
  <2>4. CASE Endpoint
    <3>1. FormatInv' /\ CreationInv' /\ AudioInv' /\ KnownInv' /\ MeasureInv'
      BY <2>4, UpdateStep, CreateStep, SpeakStep, EndStep DEF Endpoint
    <3> QED  BY <2>1, <3>1 DEF EndpointInv
  <2> QED  BY <2>2, <2>3, <2>4 DEF ENext, HostMoves
<1>4. EndpointInv => MeasuredTruly
  BY DEF EndpointInv, MeasureInv, MeasuredTruly, Listed
<1> QED  BY <1>1, <1>2, <1>3, <1>4, PTL DEF ESpec
=============================================================================
