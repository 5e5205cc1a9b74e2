---------------------------- MODULE PlaybackProofs ----------------------------
(* Theorems about Playback, for every set of responses, parts and formats. *)
EXTENDS Playback, TLAPS

-----------------------------------------------------------------------------
(* The lemmas are about a host that may report any positions: Positions    *)
(* only bounds what TLC tries, and a composition has a host of its own.    *)
AnyHeards == UNION {[named -> Nat] : named \in SUBSET Parts}

AnyHost ==
  \/ \E format \in Formats \cup {None} : Respond(format)
  \/ \E r \in Responses, heard \in AnyHeards : StopSpeech(r, heard)
  \/ \E r \in Responses, p \in Parts, end \in Nat : FrankiePosition(r, p, end)

AnyNext == Server \/ AnyHost \/ Stop \/ Over

AnySpec == Init /\ [][AnyNext]_vars

LEMMA PositionsAreAny == Heards \subseteq AnyHeards
<1> SUFFICES ASSUME NEW named \in SUBSET Parts, NEW heard \in [named -> Positions]
             PROVE  heard \in [named -> Nat]
  BY DEF Heards, AnyHeards
<1> QED  BY AudioAssumption

LEMMA SpecPlays == Spec => AnySpec
<1>1. Next => AnyNext
  BY PositionsAreAny, AudioAssumption DEF Next, Host, AnyNext, AnyHost
<1> QED  BY <1>1, PTL DEF Spec, AnySpec

-----------------------------------------------------------------------------

\* The updates of a part keep it a part.
LEMMA PartUpdates ==
  ASSUME NEW x \in PartRecords, NEW n \in Nat
  PROVE  /\ [x EXCEPT !.bytes = @ + n] \in PartRecords
         /\ [x EXCEPT !.heard = n] \in PartRecords
         /\ [x EXCEPT !.heard = n].truncated = x.truncated
         /\ [x EXCEPT !.heard = n].response = x.response
         /\ [x EXCEPT !.heard = n].heard = n
         /\ [x EXCEPT !.truncated = TRUE] \in PartRecords
         /\ [x EXCEPT !.truncated = TRUE].truncated
         /\ [x EXCEPT !.truncated = TRUE].heard = x.heard
         /\ [x EXCEPT !.truncated = TRUE].response = x.response
<1>1. [x EXCEPT !.bytes = @ + n] \in PartRecords
  <2>1. x.bytes + n \in Nat
    BY DEF PartRecords
  <2> QED  BY <2>1 DEF PartRecords
<1>2. /\ [x EXCEPT !.heard = n] \in PartRecords
      /\ [x EXCEPT !.heard = n].truncated = x.truncated
      /\ [x EXCEPT !.heard = n].response = x.response
      /\ [x EXCEPT !.heard = n].heard = n
  BY DEF PartRecords
<1>3. /\ [x EXCEPT !.truncated = TRUE] \in PartRecords
      /\ [x EXCEPT !.truncated = TRUE].truncated
      /\ [x EXCEPT !.truncated = TRUE].heard = x.heard
      /\ [x EXCEPT !.truncated = TRUE].response = x.response
  BY DEF PartRecords
<1> QED  BY <1>1, <1>2, <1>3

LEMMA DoneUpdate ==
  ASSUME NEW x \in ResponseRecords, NEW cancelled \in BOOLEAN
  PROVE  [x EXCEPT !.listed = TRUE, !.done = TRUE, !.cancelled = @ \/ cancelled]
           \in ResponseRecords
BY DEF ResponseRecords

LEMMA EntryType ==
  ASSUME TypeOK, NEW r \in Responses, NEW p \in Parts
  PROVE  /\ Entry(r, p) \in PartRecords
         /\ p \notin Listed => ~Entry(r, p).truncated /\ Entry(r, p).heard = 0
<1>1. Measure(r) \in Formats \cup {None}
  BY DEF Measure, TypeOK, ResponseRecords
<1> QED  BY <1>1 DEF Entry, Listed, TypeOK, PartRecords, NoPart

LEMMA WithHeardFacts ==
  ASSUME TypeOK, NEW heard \in AnyHeards
  PROVE  /\ WithHeard(heard) \in [Parts -> PartRecords]
         /\ \A p \in Parts :
              /\ WithHeard(heard)[p].response = audio[p].response
              /\ WithHeard(heard)[p].truncated = audio[p].truncated
              /\ WithHeard(heard)[p].heard =
                   IF p \in DOMAIN heard THEN heard[p] ELSE audio[p].heard
<1>1. \A p \in DOMAIN heard : heard[p] \in Nat
  BY DEF AnyHeards
<1>2. \A p \in Parts : p \in DOMAIN heard =>
        /\ [audio[p] EXCEPT !.heard = heard[p]] \in PartRecords
        /\ [audio[p] EXCEPT !.heard = heard[p]].response = audio[p].response
        /\ [audio[p] EXCEPT !.heard = heard[p]].truncated = audio[p].truncated
        /\ [audio[p] EXCEPT !.heard = heard[p]].heard = heard[p]
  BY <1>1, PartUpdates DEF TypeOK
<1> QED  BY <1>2 DEF WithHeard, TypeOK

\* What truncate() does to each part.
LEMMA TruncateFacts ==
  ASSUME TypeOK, NEW r, NEW heard \in AnyHeards, Truncate(r, heard)
  PROVE  /\ audio' \in [Parts -> PartRecords]
         /\ truncations' \in [Parts -> Seq(Nat)]
         /\ \A p \in Parts :
              /\ audio'[p].response = audio[p].response
              /\ audio'[p].heard = WithHeard(heard)[p].heard
              /\ audio[p].truncated => audio'[p].truncated
              /\ CanTruncate /\ audio[p].response = r => audio'[p].truncated
              /\ IF audio'[p].truncated /\ ~audio[p].truncated
                 THEN truncations'[p] = Append(truncations[p], audio'[p].heard)
                 ELSE truncations'[p] = truncations[p]
<1> DEFINE cut == {p \in Parts :
                     CanTruncate /\ audio[p].response = r /\ ~audio[p].truncated}
           w == WithHeard(heard)
<1>1. /\ w \in [Parts -> PartRecords]
      /\ \A p \in Parts : /\ w[p].response = audio[p].response
                          /\ w[p].truncated = audio[p].truncated
  BY WithHeardFacts
<1>2. /\ audio' = [p \in Parts |-> IF p \in cut
                                   THEN [w[p] EXCEPT !.truncated = TRUE] ELSE w[p]]
      /\ truncations' = [p \in Parts |-> IF p \in cut
                                         THEN Append(truncations[p], w[p].heard)
                                         ELSE truncations[p]]
  BY DEF Truncate
<1>3. \A p \in Parts : /\ [w[p] EXCEPT !.truncated = TRUE] \in PartRecords
                       /\ [w[p] EXCEPT !.truncated = TRUE].truncated
                       /\ [w[p] EXCEPT !.truncated = TRUE].heard = w[p].heard
                       /\ [w[p] EXCEPT !.truncated = TRUE].response = w[p].response
                       /\ w[p].heard \in Nat
  BY <1>1 DEF PartRecords
<1> HIDE DEF w
<1>4. /\ audio' \in [Parts -> PartRecords]
      /\ truncations' \in [Parts -> Seq(Nat)]
  BY <1>1, <1>2, <1>3 DEF TypeOK
<1>5. ASSUME NEW p \in Parts
      PROVE  /\ audio'[p].response = audio[p].response
             /\ audio'[p].heard = w[p].heard
             /\ audio[p].truncated => audio'[p].truncated
             /\ CanTruncate /\ audio[p].response = r => audio'[p].truncated
             /\ IF audio'[p].truncated /\ ~audio[p].truncated
                THEN truncations'[p] = Append(truncations[p], audio'[p].heard)
                ELSE truncations'[p] = truncations[p]
  <2>1. CASE p \in cut
    BY <1>1, <1>2, <1>3, <2>1
  <2>2. CASE p \notin cut
    BY <1>1, <1>2, <2>2
  <2> QED  BY <2>1, <2>2
<1> QED  BY <1>4, <1>5 DEF w

\* One position, as a Frankie command reports it.
LEMMA OnePosition ==
  ASSUME NEW p \in Parts, NEW end \in Nat
  PROVE  [q \in {p} |-> end] \in AnyHeards
<1>1. [q \in {p} |-> end] \in [{p} -> Nat] /\ {p} \in SUBSET Parts
  OBVIOUS
<1> QED  BY <1>1 DEF AnyHeards

-----------------------------------------------------------------------------
\* Type correctness.
LEMMA TypeStep == TypeOK /\ [AnyNext]_vars => TypeOK'
<1> SUFFICES ASSUME TypeOK, [AnyNext]_vars PROVE TypeOK'
  OBVIOUS
<1>1. ASSUME NEW report \in Formats \cup {None}, NEW feedback \in BOOLEAN,
             SessionUpdated(report, feedback)
      PROVE  TypeOK'
  BY <1>1 DEF SessionUpdated, Updated, TypeOK
<1>2. ASSUME NEW r \in Responses, NEW report \in Formats \cup {None},
             ResponseCreated(r, report)
      PROVE  TypeOK'
  <2>1. CreatedFormat(report) \in Formats \cup {None}
    BY DEF CreatedFormat, TypeOK
  <2>2. responses' \in [Responses -> ResponseRecords]
    BY <1>2, <2>1 DEF ResponseCreated, TypeOK, ResponseRecords
  <2> QED  BY <1>2, <2>2 DEF ResponseCreated, TypeOK
<1>3. ASSUME NEW r \in Responses, NEW p \in Parts, NEW n \in Chunks,
             AudioDelta(r, p, n)
      PROVE  TypeOK'
  <2>1. responses' \in [Responses -> ResponseRecords]
    BY <1>3 DEF AudioDelta, TypeOK, ResponseRecords
  <2>2. [Entry(r, p) EXCEPT !.bytes = @ + n] \in PartRecords
    BY EntryType, PartUpdates, AudioAssumption
  <2> QED  BY <1>3, <2>1, <2>2 DEF AudioDelta, TypeOK
<1>4. ASSUME NEW r \in Responses, NEW cancelled \in BOOLEAN,
             ResponseDone(r, cancelled)
      PROVE  TypeOK'
  <2>1. responses' = [responses EXCEPT ![r] =
          [responses[r] EXCEPT !.listed = TRUE, !.done = TRUE,
                               !.cancelled = @ \/ cancelled]]
    BY <1>4 DEF ResponseDone, TypeOK
  <2>2. responses' \in [Responses -> ResponseRecords]
    BY <2>1, DoneUpdate DEF TypeOK
  <2> QED  BY <1>4, <2>2 DEF ResponseDone, TypeOK
<1>5. ASSUME NEW format \in Formats \cup {None}, Respond(format)
      PROVE  TypeOK'
  BY <1>5 DEF Respond, TypeOK
<1>6. ASSUME NEW r \in Responses, NEW heard \in AnyHeards, StopSpeech(r, heard)
      PROVE  TypeOK'
  <2>1. responses' \in [Responses -> ResponseRecords]
    BY <1>6 DEF StopSpeech, TypeOK, ResponseRecords
  <2> QED  BY <1>6, <2>1, TruncateFacts DEF StopSpeech, TypeOK
<1>7. ASSUME NEW r \in Responses, NEW p \in Parts, NEW end \in Nat,
             FrankiePosition(r, p, end)
      PROVE  TypeOK'
  <2>1. audio' \in [Parts -> PartRecords]
    BY <1>7, OnePosition, WithHeardFacts DEF FrankiePosition
  <2> QED  BY <1>7, <2>1 DEF FrankiePosition, TypeOK
<1>8. CASE Stop \/ Over \/ UNCHANGED vars
  BY <1>8 DEF Stop, Over, vars, TypeOK
<1> QED
  BY <1>1, <1>2, <1>3, <1>4, <1>5, <1>6, <1>7, <1>8 DEF AnyNext, AnyHost, Server

LEMMA TypeStart == Init => TypeOK
<1> SUFFICES ASSUME Init PROVE TypeOK
  OBVIOUS
<1>1. NoPart \in PartRecords
  BY DEF NoPart, PartRecords
<1>2. /\ responses \in [Responses -> ResponseRecords]
      /\ audio \in [Parts -> PartRecords]
  BY <1>1 DEF Init, ResponseRecords
<1>3. truncations \in [Parts -> Seq(Nat)]
  BY DEF Init
<1> QED  BY <1>2, <1>3, FormatsAssumption DEF Init, TypeOK

LEMMA AnyTypeCorrect == AnySpec => []TypeOK
<1> QED  BY TypeStart, TypeStep, PTL DEF AnySpec

\* Every variable holds a value of its kind.
THEOREM TypeCorrect == Spec => []TypeOK
<1> QED  BY AnyTypeCorrect, SpecPlays

-----------------------------------------------------------------------------
\* A response whose stop the host reported is muted from then on: no step can
\* give it another part.
PlaybackInv ==
  /\ TruncatedAtHeard /\ NoPartEscapes
  /\ \A r \in reported : responses[r].cancelled

LEMMA PlaybackStep == TypeOK /\ PlaybackInv /\ [AnyNext]_vars => PlaybackInv'
<1> SUFFICES ASSUME TypeOK, PlaybackInv, [AnyNext]_vars PROVE PlaybackInv'
  OBVIOUS
<1>1. ASSUME NEW report \in Formats \cup {None}, NEW feedback \in BOOLEAN,
             SessionUpdated(report, feedback)
      PROVE  PlaybackInv'
  BY <1>1 DEF SessionUpdated, PlaybackInv, TruncatedAtHeard, NoPartEscapes
<1>2. ASSUME NEW r \in Responses, NEW report \in Formats \cup {None},
             ResponseCreated(r, report)
      PROVE  PlaybackInv'
  BY <1>2 DEF ResponseCreated, PlaybackInv, TruncatedAtHeard, NoPartEscapes, TypeOK,
     ResponseRecords
<1>3. ASSUME NEW r \in Responses, NEW p \in Parts, NEW n \in Chunks,
             AudioDelta(r, p, n)
      PROVE  PlaybackInv'
  <2>1. \A q \in reported' : responses'[q].cancelled
    BY <1>3 DEF AudioDelta, PlaybackInv, TypeOK, ResponseRecords
  <2>2. CASE UNCHANGED audio
    BY <1>3, <2>1, <2>2
    DEF AudioDelta, PlaybackInv, TruncatedAtHeard, NoPartEscapes
  <2>3. CASE /\ ~Unaccountable(r, p, n)
             /\ audio' = [audio EXCEPT ![p] = [Entry(r, p) EXCEPT !.bytes = @ + n]]
    <3>1. Entry(r, p) \in PartRecords /\ n \in Nat /\ Entry(r, p).response = r
      BY <2>3, EntryType, AudioAssumption DEF Unaccountable
    <3>2. /\ audio'[p].response = r
          /\ audio'[p].heard = Entry(r, p).heard
          /\ audio'[p].truncated = Entry(r, p).truncated
          /\ \A q \in Parts \ {p} : audio'[q] = audio[q]
      BY <2>3, <3>1 DEF TypeOK, PartRecords
    <3>3. audio'[p].heard = audio[p].heard /\ audio'[p].truncated = audio[p].truncated
      BY <3>2 DEF Entry, Listed, NoPart
    <3>4. r \notin reported
      BY <1>3 DEF AudioDelta, Muted, PlaybackInv
    <3>5. TruncatedAtHeard'
      BY <1>3, <3>2, <3>3 DEF AudioDelta, PlaybackInv, TruncatedAtHeard
    <3>6. NoPartEscapes'
      BY <1>3, <3>2, <3>4 DEF AudioDelta, PlaybackInv, NoPartEscapes
    <3> QED  BY <2>1, <3>5, <3>6 DEF PlaybackInv
  <2> QED  BY <1>3, <2>2, <2>3 DEF AudioDelta
<1>4. ASSUME NEW r \in Responses, NEW cancelled \in BOOLEAN,
             ResponseDone(r, cancelled)
      PROVE  PlaybackInv'
  <2>1. \A q \in reported' : responses'[q].cancelled
    BY <1>4 DEF ResponseDone, PlaybackInv, TypeOK, ResponseRecords
  <2> QED
    BY <1>4, <2>1 DEF ResponseDone, PlaybackInv, TruncatedAtHeard, NoPartEscapes
<1>5. ASSUME NEW format \in Formats \cup {None}, Respond(format)
      PROVE  PlaybackInv'
  BY <1>5 DEF Respond, PlaybackInv, TruncatedAtHeard, NoPartEscapes
<1>6. ASSUME NEW r \in Responses, NEW heard \in AnyHeards, StopSpeech(r, heard)
      PROVE  PlaybackInv'
  <2>1. \A q \in reported' : responses'[q].cancelled
    BY <1>6 DEF StopSpeech, PlaybackInv, TypeOK, ResponseRecords
  <2>2. Truncate(r, heard) /\ ValidHeard(r, heard) /\ reported' = reported \cup {r}
    BY <1>6 DEF StopSpeech
  <2>3. TruncatedAtHeard'
    <3> SUFFICES ASSUME NEW p \in Parts PROVE TruncatedAtHeard!(p)'
      BY DEF TruncatedAtHeard
    <3>1. CASE audio[p].truncated
      <4>1. WithHeard(heard)[p].heard = audio[p].heard
        BY <2>2, <3>1, WithHeardFacts DEF ValidHeard
      <4> QED
        BY <2>2, <3>1, <4>1, TruncateFacts DEF PlaybackInv, TruncatedAtHeard
    <3>2. CASE ~audio[p].truncated
      <4>1. truncations[p] = <<>>
        BY <3>2 DEF PlaybackInv, TruncatedAtHeard
      <4>2. truncations'[p] = IF audio'[p].truncated
                              THEN Append(<<>>, audio'[p].heard) ELSE <<>>
        BY <2>2, <3>2, <4>1, TruncateFacts
      <4> QED  BY <4>2
    <3> QED  BY <3>1, <3>2
  <2>4. NoPartEscapes'
    BY <2>2, TruncateFacts DEF PlaybackInv, NoPartEscapes
  <2> QED  BY <2>1, <2>3, <2>4 DEF PlaybackInv
<1>7. ASSUME NEW r \in Responses, NEW p \in Parts, NEW end \in Nat,
             FrankiePosition(r, p, end)
      PROVE  PlaybackInv'
  <2> DEFINE heard == [q \in {p} |-> end]
  <2>1. heard \in AnyHeards /\ audio' = WithHeard(heard) /\ ValidHeard(r, heard)
    BY <1>7, OnePosition DEF FrankiePosition
  <2> HIDE DEF heard
  <2>2. \A q \in Parts :
          /\ audio'[q].response = audio[q].response
          /\ audio'[q].truncated = audio[q].truncated
          /\ audio[q].truncated => audio'[q].heard = audio[q].heard
    BY <2>1, WithHeardFacts DEF ValidHeard
  <2> QED
    BY <1>7, <2>2 DEF FrankiePosition, PlaybackInv, TruncatedAtHeard, NoPartEscapes
<1>8. CASE Stop \/ Over \/ UNCHANGED vars
  BY <1>8 DEF Stop, Over, vars, PlaybackInv, TruncatedAtHeard, NoPartEscapes
<1> QED
  BY <1>1, <1>2, <1>3, <1>4, <1>5, <1>6, <1>7, <1>8 DEF AnyNext, AnyHost, Server

LEMMA PlaybackHolds == AnySpec => []PlaybackInv
<1>1. Init => PlaybackInv
  BY DEF Init, PlaybackInv, TruncatedAtHeard, NoPartEscapes, NoPart
<1> QED  BY <1>1, PlaybackStep, AnyTypeCorrect, PTL DEF AnySpec

\* The endpoint is told once what was not heard, and it stays so.
THEOREM TruncationFinal == Spec => []TruncatedAtHeard
<1> QED  BY PlaybackHolds, SpecPlays, PTL DEF PlaybackInv

\* No part of a stopped response escapes truncation.
THEOREM EveryPartTruncated == Spec => []NoPartEscapes
<1> QED  BY PlaybackHolds, SpecPlays, PTL DEF PlaybackInv
\* Media of a stopped or ended response leaves the ledger as it is.
THEOREM MutedIsSilent == Spec => SilentOnceMuted
<1> DEFINE Silent ==
      \A p \in Parts : audio'[p].bytes # audio[p].bytes =>
        LET r == audio'[p].response
        IN ~responses[r].cancelled /\ ~responses[r].done
<1>1. TypeOK /\ [AnyNext]_vars => [Silent]_vars
  <2> SUFFICES ASSUME TypeOK, [AnyNext]_vars PROVE Silent \/ UNCHANGED vars
    OBVIOUS
  <2>1. ASSUME NEW r \in Responses, NEW p \in Parts, NEW n \in Chunks,
               AudioDelta(r, p, n)
        PROVE  Silent
    <3>1. CASE UNCHANGED audio
      BY <3>1
    <3>2. CASE /\ ~Unaccountable(r, p, n)
               /\ audio' = [audio EXCEPT ![p] = [Entry(r, p) EXCEPT !.bytes = @ + n]]
      <4>1. Entry(r, p) \in PartRecords /\ Entry(r, p).response = r
        BY <3>2, EntryType DEF Unaccountable
      <4>2. audio'[p].response = r /\ \A q \in Parts \ {p} : audio'[q] = audio[q]
        BY <3>2, <4>1 DEF TypeOK, PartRecords
      <4>3. ~responses[r].cancelled /\ ~responses[r].done
        BY <2>1 DEF AudioDelta, Muted
      <4> QED  BY <4>2, <4>3
    <3> QED  BY <2>1, <3>1, <3>2 DEF AudioDelta
  <2>2. ASSUME NEW r \in Responses, NEW heard \in AnyHeards, StopSpeech(r, heard)
        PROVE  Silent
    <3>1. ASSUME NEW p \in Parts PROVE audio'[p].bytes = audio[p].bytes
      <4>1. WithHeard(heard)[p].bytes = audio[p].bytes /\ WithHeard(heard) \in [Parts -> PartRecords]
        BY WithHeardFacts DEF WithHeard, TypeOK, PartRecords
      <4>2. audio'[p] \in {WithHeard(heard)[p], [WithHeard(heard)[p] EXCEPT !.truncated = TRUE]}
        BY <2>2 DEF StopSpeech, Truncate
      <4> QED  BY <4>1, <4>2 DEF PartRecords
    <3> QED  BY <3>1
  <2>3. ASSUME NEW r \in Responses, NEW p \in Parts, NEW end \in Nat,
               FrankiePosition(r, p, end)
        PROVE  Silent
    <3>1. ASSUME NEW q \in Parts PROVE audio'[q].bytes = audio[q].bytes
      BY <2>3 DEF FrankiePosition, WithHeard, TypeOK, PartRecords
    <3> QED  BY <3>1
  <2>4. CASE UNCHANGED audio
    BY <2>4
  <2> QED
    BY <2>1, <2>2, <2>3, <2>4
    DEF AnyNext, AnyHost, Server, SessionUpdated, ResponseCreated, ResponseDone, Respond,
        Stop, Over, vars
<1> QED  BY <1>1, AnyTypeCorrect, SpecPlays, PTL DEF AnySpec, SilentOnceMuted

-----------------------------------------------------------------------------
(* Durations.                                                              *)

\* Whole quotients grow with their dividend.
LEMMA DivMonotone ==
  ASSUME NEW a \in Nat, NEW b \in Nat, NEW d \in Nat \ {0}, a <= b
  PROVE  a \div d <= b \div d
<1> DEFINE q == a \div d
           s == b \div d
<1>1. /\ q \in Nat /\ s \in Nat
      /\ d * q <= a /\ b < d * s + d
  OBVIOUS
<1> HIDE DEF q, s
<1>2. CASE s < q
  <2>1. s + 1 <= q
    BY <1>1, <1>2
  <2>2. d * (s + 1) <= d * q
    BY <1>1, <2>1
  <2>3. d * (s + 1) = d * s + d
    BY <1>1
  <2> QED  BY <1>1, <2>2, <2>3
<1> QED  BY <1>1, <1>2 DEF q, s

\* More bytes of a part never play shorter, saturated or not.
LEMMA DurationMonotone ==
  ASSUME NEW format \in FormatRecords, NEW bytes \in Nat, NEW n \in Nat
  PROVE  /\ Duration(format, bytes) \in Nat
         /\ Duration(format, bytes) <= Duration(format, bytes + n)
<1>1. CASE format.kind = "pcm16"
  <2>1. format.sample_rate \in Nat \ {0}
    BY <1>1 DEF FormatRecords
  <2>2. /\ Saturated(bytes * 1000) \in Nat /\ Saturated((bytes + n) * 1000) \in Nat
        /\ Saturated(bytes * 1000) <= Saturated((bytes + n) * 1000)
    BY AudioAssumption DEF Saturated
  <2>3. 2 * format.sample_rate \in Nat \ {0}
    BY <2>1
  <2>4. Saturated(bytes * 1000) \div (2 * format.sample_rate) \in Nat
    BY <2>2, <2>3
  <2> QED  BY <1>1, <2>2, <2>3, <2>4, DivMonotone DEF Duration
<1>2. CASE format.kind # "pcm16"
  BY <1>2 DEF Duration
<1> QED  BY <1>1, <1>2
\* What holds of an entry of the ledger; it is of no absent part.
Sound(x) ==
  /\ x.response \in Responses /\ x.format \in Formats
  /\ x.heard <= Duration(x.format, x.bytes)

HeardInv == \A p \in Parts : audio[p] = NoPart \/ Sound(audio[p])

\* Recording valid positions keeps every entry sound.
LEMMA WithHeardSound ==
  ASSUME TypeOK, HeardInv, NEW r \in Responses, NEW heard \in AnyHeards,
         ValidHeard(r, heard), NEW p \in Parts
  PROVE  WithHeard(heard)[p] = NoPart \/ Sound(WithHeard(heard)[p])
<1>1. CASE p \notin DOMAIN heard
  BY <1>1 DEF WithHeard, HeardInv
<1>2. CASE p \in DOMAIN heard
  <2>1. /\ audio[p].response = r
        /\ heard[p] <= Duration(audio[p].format, audio[p].bytes)
    BY <1>2 DEF ValidHeard
  <2>2. Sound(audio[p])
    BY <2>1, AbsentAssumption DEF HeardInv, NoPart
  <2>3. WithHeard(heard)[p] = [audio[p] EXCEPT !.heard = heard[p]]
    BY <1>2 DEF WithHeard
  <2>4. /\ WithHeard(heard)[p].response = audio[p].response
        /\ WithHeard(heard)[p].format = audio[p].format
        /\ WithHeard(heard)[p].bytes = audio[p].bytes
        /\ WithHeard(heard)[p].heard = heard[p]
    BY <2>3 DEF TypeOK, PartRecords
  <2> QED  BY <2>1, <2>2, <2>4 DEF Sound
<1> QED  BY <1>1, <1>2

LEMMA HeardStep == TypeOK /\ HeardInv /\ [AnyNext]_vars => HeardInv'
<1> SUFFICES ASSUME TypeOK, HeardInv, [AnyNext]_vars PROVE HeardInv'
  OBVIOUS
<1>1. CASE UNCHANGED audio
  BY <1>1 DEF HeardInv, Sound
<1>2. ASSUME NEW r \in Responses, NEW p \in Parts, NEW n \in Chunks,
             AudioDelta(r, p, n), ~(UNCHANGED audio)
      PROVE  HeardInv'
  <2> DEFINE x == Entry(r, p)
  <2>1. /\ ~Unaccountable(r, p, n) /\ n \in Nat
        /\ audio' = [audio EXCEPT ![p] = [x EXCEPT !.bytes = @ + n]]
    BY <1>2, AudioAssumption DEF AudioDelta
  <2>2. /\ x \in PartRecords /\ x.response = r
        /\ x.format = Measure(r) /\ Measure(r) # None
    BY <2>1, EntryType DEF Unaccountable
  <2>3. x.format \in Formats
    BY <2>2 DEF PartRecords
  <2>4. x.heard <= Duration(x.format, x.bytes)
    <3>1. CASE p \in Listed
      BY <3>1 DEF Entry, Listed, HeardInv, Sound
    <3>2. CASE p \notin Listed
      <4>1. x.heard = 0 /\ Duration(x.format, x.bytes) \in Nat
        BY <2>2, <2>3, <3>2, EntryType, DurationMonotone, FormatsAssumption
        DEF PartRecords
      <4> QED  BY <4>1
    <3> QED  BY <3>1, <3>2
  <2> HIDE DEF x
  <2>5. /\ audio'[p].response = r /\ audio'[p].format = x.format
        /\ audio'[p].bytes = x.bytes + n /\ audio'[p].heard = x.heard
    BY <2>1, <2>2 DEF TypeOK, PartRecords
  <2>6. /\ Duration(x.format, x.bytes) <= Duration(x.format, x.bytes + n)
        /\ Duration(x.format, x.bytes) \in Nat /\ Duration(x.format, x.bytes + n) \in Nat
        /\ x.heard \in Nat
    <3>1. x.bytes \in Nat /\ x.bytes + n \in Nat /\ x.format \in FormatRecords /\ x.heard \in Nat
      BY <2>1, <2>2, <2>3, FormatsAssumption DEF PartRecords
    <3> QED  BY <2>1, <3>1, DurationMonotone
  <2>7. Sound(audio'[p])
    BY <2>3, <2>4, <2>5, <2>6 DEF Sound
  <2>8. \A q \in Parts \ {p} : audio'[q] = audio[q]
    BY <2>1 DEF TypeOK
  <2> QED  BY <2>7, <2>8 DEF HeardInv, Sound
<1>3. ASSUME NEW r \in Responses, NEW heard \in AnyHeards, StopSpeech(r, heard)
      PROVE  HeardInv'
  <2> SUFFICES ASSUME NEW p \in Parts PROVE audio'[p] = NoPart \/ Sound(audio'[p])
    BY DEF HeardInv, Sound
  <2> DEFINE w == WithHeard(heard)[p]
  <2>1. w = NoPart \/ Sound(w)
    BY <1>3, WithHeardSound DEF StopSpeech
  <2>2. w \in PartRecords
    BY WithHeardFacts
  <2>3. \/ audio'[p] = w
        \/ /\ audio'[p] = [w EXCEPT !.truncated = TRUE] /\ audio[p].response = r
           /\ w.response = audio[p].response
    BY <1>3, WithHeardFacts DEF StopSpeech, Truncate
  <2> HIDE DEF w
  <2>4. CASE audio'[p] = [w EXCEPT !.truncated = TRUE] /\ w.response = r
    <3>1. Sound(w)
      BY <2>1, <2>4, AbsentAssumption DEF NoPart
    <3>2. /\ audio'[p].response = w.response /\ audio'[p].format = w.format
          /\ audio'[p].bytes = w.bytes /\ audio'[p].heard = w.heard
      BY <2>2, <2>4 DEF PartRecords
    <3> QED  BY <3>1, <3>2 DEF Sound
  <2> QED  BY <2>1, <2>3, <2>4
<1>4. ASSUME NEW r \in Responses, NEW p \in Parts, NEW end \in Nat,
             FrankiePosition(r, p, end)
      PROVE  HeardInv'
  <2>1. \A q \in Parts : audio'[q] = NoPart \/ Sound(audio'[q])
    BY <1>4, OnePosition, WithHeardSound DEF FrankiePosition
  <2> QED  BY <2>1 DEF HeardInv, Sound
<1> QED
  BY <1>1, <1>2, <1>3, <1>4
  DEF AnyNext, AnyHost, Server, SessionUpdated, ResponseCreated, ResponseDone, Respond,
      Stop, Over, vars

LEMMA HeardHolds == AnySpec => []HeardWithinReceived
<1>1. Init => HeardInv
  BY DEF Init, HeardInv
<1>2. HeardInv => HeardWithinReceived
  BY DEF HeardInv, Sound, HeardWithinReceived, Listed
<1> QED  BY <1>1, <1>2, HeardStep, AnyTypeCorrect, PTL DEF AnySpec

\* No host can report, by any command, more than arrived.
THEOREM HeardNeverExceedsReceived == Spec => []HeardWithinReceived
<1> QED  BY HeardHolds, SpecPlays, PTL
=============================================================================
