----------------------------- MODULE PlayerProofs -----------------------------
(* Theorems about the soak host and its player (Player.tla), for every set of *)
(* responses and parts, every rate, frame and limit, and any order of events, *)
(* controls and positions in the queues between the host and the session.     *)
EXTENDS Player, PlaybackProofs, FiniteSetTheorems

-----------------------------------------------------------------------------
(* Counting.                                                               *)

\* The things counted: the first f[x] of every x.
Counts(f) == UNION {{x} \X (1..f[x]) : x \in DOMAIN f}

LEMMA CountsOf ==
  ASSUME NEW S, NEW f \in [S -> Nat]
  PROVE  /\ Total(f) = Cardinality(Counts(f))
         /\ \A c : c \in Counts(f) <=>
              \E x \in S, i \in Nat : c = <<x, i>> /\ 1 <= i /\ i <= f[x]
<1>1. Total(f) = Cardinality(Counts(f))
  BY DEF Total, Counts
<1>2. ASSUME NEW c
      PROVE  c \in Counts(f) <=>
               \E x \in S, i \in Nat : c = <<x, i>> /\ 1 <= i /\ i <= f[x]
  <2>1. c \in Counts(f) <=> \E x \in S : c \in {x} \X (1..f[x])
    BY DEF Counts
  <2>2. ASSUME NEW x \in S
        PROVE  c \in {x} \X (1..f[x]) <=>
                 \E i \in Nat : c = <<x, i>> /\ 1 <= i /\ i <= f[x]
    <3>1. f[x] \in Nat
      OBVIOUS
    <3> QED  BY <3>1
  <2> QED  BY <2>1, <2>2
<1> QED  BY <1>1, <1>2

LEMMA TotalType ==
  ASSUME NEW S, IsFiniteSet(S), NEW f \in [S -> Nat]
  PROVE  IsFiniteSet(Counts(f)) /\ Total(f) \in Nat
<1> DEFINE C == {{x} \X (1..f[x]) : x \in S}
           g == [x \in S |-> {x} \X (1..f[x])]
<1>1. g \in Surjection(S, C)
  BY DEF Surjection
<1>2. IsFiniteSet(C)
  BY <1>1, FS_Surjection
<1>3. ASSUME NEW c \in C PROVE IsFiniteSet(c)
  <2>1. PICK x \in S : c = {x} \X (1..f[x])
    OBVIOUS
  <2>2. f[x] \in Int
    OBVIOUS
  <2>3. IsFiniteSet({x})
    BY FS_Singleton
  <2>4. IsFiniteSet(1..f[x])
    BY <2>2, FS_Interval
  <2> QED  BY <2>1, <2>3, <2>4, FS_Product
<1> HIDE DEF C
<1>4. IsFiniteSet(UNION C)
  BY <1>2, <1>3, FS_UNION
<1> QED  BY <1>4, CountsOf, FS_CardinalityType DEF Counts, C

\* Of f there is rest, once g is taken from those in T.
Leaves(S, f, T, g, rest) ==
  /\ IsFiniteSet(S) /\ T \subseteq S
  /\ f \in [S -> Nat] /\ g \in [T -> Nat] /\ rest \in [S -> Nat]
  /\ \A x \in S : rest[x] = IF x \in T THEN f[x] - g[x] ELSE f[x]

\* What is taken from some of them is taken from the total.
LEMMA TotalTaken ==
  ASSUME NEW S, NEW f, NEW T, NEW g, NEW rest, Leaves(S, f, T, g, rest)
  PROVE  /\ Total(rest) = Total(f) - Total(g)
         /\ Total(rest) \in Nat /\ Total(g) \in Nat /\ Total(f) \in Nat
<1> DEFINE top == Counts(f) \ Counts(rest)
           shift == [c \in Counts(g) |-> <<c[1], c[2] + rest[c[1]]>>]
<1> USE DEF Leaves
<1>1. rest \in [S -> Nat] /\ IsFiniteSet(S) /\ T \subseteq S /\ f \in [S -> Nat]
      /\ g \in [T -> Nat]
  OBVIOUS
<1>2. \A x \in S : rest[x] <= f[x] /\ rest[x] \in Nat /\ f[x] \in Nat
  OBVIOUS
<1>3. \A x \in T : rest[x] = f[x] - g[x] /\ g[x] \in Nat
  OBVIOUS
<1>4. \A x \in S \ T : rest[x] = f[x]
  OBVIOUS
<1>5. IsFiniteSet(T)
  BY FS_Subset
<1>6. Counts(rest) \subseteq Counts(f)
  <2> SUFFICES ASSUME NEW c \in Counts(rest) PROVE c \in Counts(f)
    OBVIOUS
  <2>1. PICK x \in S, i \in Nat : c = <<x, i>> /\ 1 <= i /\ i <= rest[x]
    BY <1>1, CountsOf
  <2>2. i <= f[x]
    BY <1>2, <2>1
  <2> QED  BY <2>1, <2>2, CountsOf
<1>7. \A c : c \in top <=>
        \E x \in T, i \in Nat : c = <<x, i>> /\ rest[x] + 1 <= i /\ i <= f[x]
  <2> TAKE c
  <2>1. ASSUME c \in top
        PROVE  \E x \in T, i \in Nat : c = <<x, i>> /\ rest[x] + 1 <= i /\ i <= f[x]
    <3>1. PICK x \in S, i \in Nat : c = <<x, i>> /\ 1 <= i /\ i <= f[x]
      BY <2>1, CountsOf
    <3>2. ~(i <= rest[x])
      BY <1>1, <2>1, <3>1, CountsOf
    <3>3. x \in T
      BY <1>4, <3>1, <3>2
    <3>4. rest[x] + 1 <= i
      BY <1>2, <3>2
    <3> QED  BY <3>1, <3>3, <3>4
  <2>2. ASSUME NEW x \in T, NEW i \in Nat, c = <<x, i>>, rest[x] + 1 <= i, i <= f[x]
        PROVE  c \in top
    <3>1. rest[x] \in Nat /\ x \in S
      BY <1>2
    <3>2. 1 <= i /\ ~(i <= rest[x])
      BY <2>2, <3>1
    <3>3. c \in Counts(f)
      BY <2>2, <3>1, <3>2, CountsOf
    <3>4. c \notin Counts(rest)
      <4> SUFFICES ASSUME c \in Counts(rest) PROVE FALSE
        OBVIOUS
      <4>1. PICK y \in S, j \in Nat : c = <<y, j>> /\ j <= rest[y]
        BY <1>1, CountsOf
      <4>2. y = x /\ j = i
        BY <2>2, <4>1
      <4> QED  BY <3>2, <4>1, <4>2
    <3> QED  BY <3>3, <3>4
  <2> QED  BY <2>1, <2>2
<1>8. shift \in Bijection(Counts(g), top)
  <2>1. ASSUME NEW c \in Counts(g)
        PROVE  \E x \in T, i \in Nat :
                 /\ c = <<x, i>> /\ 1 <= i /\ i <= g[x]
                 /\ shift[c] = <<x, i + rest[x]>> /\ shift[c] \in top
    <3>1. PICK x \in T, i \in Nat : c = <<x, i>> /\ 1 <= i /\ i <= g[x]
      BY CountsOf
    <3>2. shift[c] = <<x, i + rest[x]>>
      BY <3>1
    <3>3. i + rest[x] \in Nat /\ rest[x] + 1 <= i + rest[x] /\ i + rest[x] <= f[x]
      BY <1>2, <1>3, <3>1
    <3>4. shift[c] \in top
      BY <1>7, <3>2, <3>3
    <3> QED  BY <3>1, <3>2, <3>4
  <2>2. ASSUME NEW c \in Counts(g), NEW d \in Counts(g), shift[c] = shift[d]
        PROVE  c = d
    <3>1. PICK x \in T, i \in Nat : c = <<x, i>> /\ shift[c] = <<x, i + rest[x]>>
      BY <2>1
    <3>2. PICK y \in T, j \in Nat : d = <<y, j>> /\ shift[d] = <<y, j + rest[y]>>
      BY <2>1
    <3>3. x = y /\ i + rest[x] = j + rest[y]
      BY <2>2, <3>1, <3>2
    <3>4. i = j
      BY <1>2, <3>3
    <3> QED  BY <3>1, <3>2, <3>3, <3>4
  <2>3. ASSUME NEW t \in top PROVE \E c \in Counts(g) : shift[c] = t
    <3>1. PICK x \in T, i \in Nat : t = <<x, i>> /\ rest[x] + 1 <= i /\ i <= f[x]
      BY <1>7
    <3>2. /\ i - rest[x] \in Nat /\ 1 <= i - rest[x] /\ i - rest[x] <= g[x]
          /\ (i - rest[x]) + rest[x] = i
      BY <1>2, <1>3, <3>1
    <3>3. <<x, i - rest[x]>> \in Counts(g)
      BY <3>2, CountsOf
    <3>4. shift[<<x, i - rest[x]>>] = <<x, (i - rest[x]) + rest[x]>>
      BY <3>3
    <3> QED  BY <3>1, <3>2, <3>3, <3>4
  <2>4. shift \in [Counts(g) -> top]
    BY <2>1
  <2> HIDE DEF shift, top
  <2> QED  BY <2>2, <2>3, <2>4 DEF Bijection, Injection, Surjection, IsInjective
<1>9. IsFiniteSet(Counts(g)) /\ IsFiniteSet(Counts(f))
  BY <1>5, TotalType
<1>10. Cardinality(top) = Cardinality(Counts(g))
  BY <1>8, <1>9, FS_Bijection DEF ExistsBijection
<1>11. Cardinality(top) = Cardinality(Counts(f)) - Cardinality(Counts(rest))
  <2>1. Counts(f) \cap Counts(rest) = Counts(rest)
    BY <1>6
  <2> QED  BY <1>9, <2>1, FS_Difference
<1>12. /\ Total(f) = Cardinality(Counts(f)) /\ Total(g) = Cardinality(Counts(g))
       /\ Total(rest) = Cardinality(Counts(rest))
  BY <1>1, CountsOf
<1>13. Total(f) \in Nat /\ Total(g) \in Nat /\ Total(rest) \in Nat
  BY <1>1, <1>5, TotalType
<1> QED  BY <1>1, <1>10, <1>11, <1>12, <1>13

\* n more of one of them are n more in all.
LEMMA TotalAdded ==
  ASSUME NEW S, IsFiniteSet(S), NEW f \in [S -> Nat], NEW p \in S, NEW n \in Nat
  PROVE  Total([f EXCEPT ![p] = @ + n]) = Total(f) + n
<1> DEFINE more == [f EXCEPT ![p] = @ + n]
           g == [x \in {p} |-> n]
           pair == [i \in 1..n |-> <<p, i>>]
<1>1. Leaves(S, more, {p}, g, f) /\ g \in [{p} -> Nat]
  BY DEF Leaves
<1>2. Total(f) = Total(more) - Total(g) /\ Total(g) \in Nat /\ Total(more) \in Nat
  <2> HIDE DEF more, g
  <2> QED  BY <1>1, TotalTaken
<1>3. Total(g) = n
  <2>1. \A c : c \in Counts(g) <=> \E i \in Nat : c = <<p, i>> /\ 1 <= i /\ i <= n
    BY <1>1, CountsOf
  <2>2. pair \in Bijection(1..n, Counts(g))
    <3>1. pair \in [1..n -> Counts(g)]
      BY <2>1
    <3>2. \A i, j \in 1..n : pair[i] = pair[j] => i = j
      OBVIOUS
    <3>3. \A c \in Counts(g) : \E i \in 1..n : pair[i] = c
      BY <2>1
    <3> HIDE DEF pair, g
    <3> QED  BY <3>1, <3>2, <3>3 DEF Bijection, Injection, Surjection, IsInjective
  <2>3. Cardinality(Counts(g)) = n
    BY <2>2, FS_CountingElements DEF ExistsBijection
  <2> QED  BY <1>1, <2>3, CountsOf
<1> QED  BY <1>2, <1>3

\* Nothing of any of them is nothing in all.
LEMMA TotalNothing ==
  ASSUME NEW S, NEW f \in [S -> Nat], \A x \in S : f[x] = 0
  PROVE  Total(f) = 0
<1>1. Counts(f) = {}
  BY CountsOf
<1> QED  BY <1>1, CountsOf, FS_EmptySet

-----------------------------------------------------------------------------
(* Queues.                                                                 *)

LEMMA RangeOfConcat ==
  ASSUME NEW S, NEW s \in Seq(S), NEW t \in Seq(S)
  PROVE  /\ s \o t \in Seq(S)
         /\ Range(s \o t) \subseteq Range(s) \cup Range(t)
<1>1. /\ s \o t \in Seq(S) /\ Len(s \o t) = Len(s) + Len(t)
      /\ DOMAIN (s \o t) = 1..Len(s \o t)
      /\ \A i \in 1..Len(s \o t) :
           (s \o t)[i] = IF i <= Len(s) THEN s[i] ELSE t[i - Len(s)]
  OBVIOUS
<1>2. ASSUME NEW x \in Range(s \o t) PROVE x \in Range(s) \cup Range(t)
  <2>1. PICK i \in 1..Len(s \o t) : x = (s \o t)[i]
    BY <1>1 DEF Range
  <2>2. CASE i <= Len(s)
    <3>1. i \in DOMAIN s /\ x = s[i]
      BY <1>1, <2>1, <2>2
    <3> QED  BY <3>1 DEF Range
  <2>3. CASE ~(i <= Len(s))
    <3>1. i - Len(s) \in DOMAIN t /\ x = t[i - Len(s)]
      BY <1>1, <2>1, <2>3
    <3> QED  BY <3>1 DEF Range
  <2> QED  BY <2>2, <2>3
<1> QED  BY <1>1, <1>2

LEMMA RangeOfAppend ==
  ASSUME NEW S, NEW s \in Seq(S), NEW x \in S
  PROVE  /\ Append(s, x) \in Seq(S)
         /\ Range(Append(s, x)) = Range(s) \cup {x}
<1>1. /\ Append(s, x) \in Seq(S) /\ DOMAIN Append(s, x) = 1..Len(s) + 1
      /\ DOMAIN s = 1..Len(s) /\ Len(s) \in Nat
      /\ \A i \in 1..Len(s) : Append(s, x)[i] = s[i]
      /\ Append(s, x)[Len(s) + 1] = x
  OBVIOUS
<1>2. ASSUME NEW y \in Range(s) PROVE y \in Range(Append(s, x))
  <2>1. PICK i \in 1..Len(s) : y = s[i]
    BY <1>1 DEF Range
  <2>2. i \in DOMAIN Append(s, x) /\ y = Append(s, x)[i]
    BY <1>1, <2>1
  <2> QED  BY <2>2 DEF Range
<1>3. x \in Range(Append(s, x))
  <2>1. Len(s) + 1 \in DOMAIN Append(s, x)
    BY <1>1
  <2> QED  BY <1>1, <2>1 DEF Range
<1>4. ASSUME NEW y \in Range(Append(s, x)) PROVE y \in Range(s) \cup {x}
  <2>1. PICK i \in 1..Len(s) + 1 : y = Append(s, x)[i]
    BY <1>1 DEF Range
  <2>2. CASE i = Len(s) + 1
    BY <1>1, <2>1, <2>2
  <2>3. CASE i # Len(s) + 1
    <3>1. i \in DOMAIN s /\ y = s[i]
      BY <1>1, <2>1, <2>3
    <3> QED  BY <3>1 DEF Range
  <2> QED  BY <2>2, <2>3
<1> QED  BY <1>1, <1>2, <1>3, <1>4

LEMMA RangeOfTail ==
  ASSUME NEW S, NEW s \in Seq(S), s # << >>
  PROVE  /\ Tail(s) \in Seq(S) /\ Head(s) \in S /\ Head(s) \in Range(s)
         /\ Range(Tail(s)) \subseteq Range(s)
<1>1. /\ Tail(s) \in Seq(S) /\ Len(Tail(s)) = Len(s) - 1 /\ Len(s) \in Nat \ {0}
      /\ DOMAIN s = 1..Len(s) /\ DOMAIN Tail(s) = 1..Len(Tail(s))
      /\ Head(s) = s[1] /\ Head(s) \in S
      /\ \A i \in 1..Len(Tail(s)) : Tail(s)[i] = s[i + 1]
  OBVIOUS
<1>2. 1 \in DOMAIN s
  BY <1>1
<1>3. ASSUME NEW y \in Range(Tail(s)) PROVE y \in Range(s)
  <2>1. PICK i \in 1..Len(Tail(s)) : y = Tail(s)[i]
    BY <1>1 DEF Range
  <2>2. i + 1 \in DOMAIN s /\ y = s[i + 1]
    BY <1>1, <2>1
  <2> QED  BY <2>2 DEF Range
<1> QED  BY <1>1, <1>2, <1>3 DEF Range

\* The first of some more are a sequence of them.
LEMMA FirstFew ==
  ASSUME NEW k \in Nat, NEW room \in Int
  PROVE  \E m \in Nat : {i \in 1..k : i <= room} = 1..m
<1>1. CASE room <= 0
  <2>1. {i \in 1..k : i <= room} = 1..0
    BY <1>1
  <2> QED  BY <2>1
<1>2. CASE room > 0 /\ room <= k
  <2>1. {i \in 1..k : i <= room} = 1..room
    BY <1>2
  <2> QED  BY <1>2, <2>1
<1>3. CASE room > k
  <2>1. {i \in 1..k : i <= room} = 1..k
    BY <1>3
  <2> QED  BY <2>1
<1> QED  BY <1>1, <1>2, <1>3

-----------------------------------------------------------------------------
(* What the host holds.                                                    *)

TrackRecords ==
  [response : Responses \cup {None}, queued : Nat, played : Nat, done : BOOLEAN,
   response_done : BOOLEAN, stopped : BOOLEAN, notified : BOOLEAN]

ControlRecords == [response : Responses, heard : AnyHeards]

CommandRecords == [response : Responses, part : FirstParts, end : Nat]

HostStates ==
  [player : [Parts -> TrackRecords], order : Seq(Parts), bytes : Int,
   pending : SUBSET FirstParts, cleared : SUBSET Responses, late : SUBSET Responses,
   controls : Seq(ControlRecords), commands : Seq(CommandRecords), failed : BOOLEAN]

\* The player holds the parts it has an order of, each of the response the ledger
\* has it of, and has nothing queued of the stopped ones.
TracksKept(h) ==
  \A p \in Parts :
    /\ p \in Range(h.order) <=> h.player[p].response # None
    /\ h.player[p].response \in {None, audio[p].response}
    /\ h.player[p].response = None => h.player[p] = NoTrack
    /\ h.player[p].stopped => h.player[p].queued = 0

Queue(tracks) == [p \in Parts |-> tracks[p].queued]

Counted(h) == h.bytes = Total(Queue(h.player)) /\ h.bytes <= MaxQueued

\* A report in the control lane is true when it is taken: what it names was
\* stopped where it says, and what it does not name came after a stop.
ControlTrue(h, c) ==
  /\ c.response \in h.cleared
  /\ \A p \in Parts :
       IF p \in DOMAIN c.heard
       THEN /\ h.player[p].response = c.response /\ h.player[p].stopped
            /\ c.heard[p] = Millis(h.player[p].played)
       ELSE h.player[p].response = c.response => c.response \in h.late

\* A position on its way was reached in some part of its item.
CommandTrue(h, c) ==
  \E q \in Parts : FirstOf[q] = c.part /\ c.end <= Millis(h.player[q].played)

\* A part that was cut stopped there, or came after the stop.
CutTrue(h, p) ==
  audio[p].truncated =>
    /\ audio[p].response \in h.cleared
    /\ h.player[p].response # None =>
         \/ h.player[p].stopped /\ audio[p].heard = Millis(h.player[p].played)
         \/ h.player[p].response \in h.late

\* A stopped part waits for its truncation until it is cut.
StopAwaited(h, p) ==
  h.player[p].stopped => FirstOf[p] \in h.pending \/ audio[p].truncated

\* What counts as heard was rendered, of the part or of one whose item it leads.
HeardBelow(h, p) ==
  \E q \in Parts :
    (q = p \/ FirstOf[q] = p) /\ audio[p].heard <= Millis(h.player[q].played)

HostInv(h) ==
  /\ TracksKept(h) /\ Counted(h)
  /\ \A c \in Range(h.controls) : ControlTrue(h, c)
  /\ \A c \in Range(h.commands) : CommandTrue(h, c)
  /\ \A p \in Parts : CutTrue(h, p) /\ StopAwaited(h, p) /\ HeardBelow(h, p)

\* What every operation of the host does to what it holds: it forgets nothing,
\* moves no stopped part, and notes the late parts.
Grows(h, k) ==
  /\ h.cleared \subseteq k.cleared /\ h.late \subseteq k.late
  /\ \A p \in Parts :
       /\ h.player[p].response # None => k.player[p].response = h.player[p].response
       /\ h.player[p].stopped =>
            k.player[p].stopped /\ k.player[p].played = h.player[p].played
       /\ h.player[p].played <= k.player[p].played
       /\ h.player[p].response = None /\ k.player[p].response \in h.cleared =>
            k.player[p].response \in k.late

LEMMA MillisMonotone ==
  ASSUME NEW a \in Nat, NEW b \in Nat, a <= b
  PROVE  Millis(a) \in Nat /\ Millis(b) \in Nat /\ Millis(a) <= Millis(b)
<1>1. a * 1000 \in Nat /\ b * 1000 \in Nat /\ a * 1000 <= b * 1000
  OBVIOUS
<1>2. Rate \in Nat \ {0}
  BY PlayerAssumption
<1>3. (a * 1000) \div Rate \in Nat /\ (b * 1000) \div Rate \in Nat
  BY <1>1, <1>2
<1> QED  BY <1>1, <1>2, <1>3, DivMonotone DEF Millis

\* What is true of what the host holds stays true as it grows.
LEMMA GrowthKeeps ==
  ASSUME NEW h \in HostStates, NEW k \in HostStates, Grows(h, k), HostInv(h), TypeOK,
         TracksKept(k), Counted(k),
         \A c \in Range(k.controls) : c \in Range(h.controls) \/ ControlTrue(k, c),
         \A c \in Range(k.commands) : c \in Range(h.commands) \/ CommandTrue(k, c),
         \A p \in Parts : StopAwaited(k, p)
  PROVE  HostInv(k)
<1>1. \A p \in Parts : /\ h.player[p] \in TrackRecords /\ k.player[p] \in TrackRecords
                       /\ h.player[p].played \in Nat /\ k.player[p].played \in Nat
                       /\ audio[p].heard \in Nat
                       /\ audio[p].response \in Responses \cup {None}
  BY DEF HostStates, TrackRecords, TypeOK, PartRecords
<1>2. ASSUME NEW c \in Range(h.controls) PROVE ControlTrue(k, c)
  <2>1. c \in ControlRecords /\ c.response \in Responses /\ c.response # None
    <3>1. h.controls \in Seq(ControlRecords)
      BY DEF HostStates
    <3>2. c \in ControlRecords
      BY <3>1 DEF Range
    <3> QED  BY <3>2, AbsentAssumption DEF ControlRecords
  <2>2. ControlTrue(h, c)
    BY DEF HostInv
  <2>3. c.response \in k.cleared
    BY <2>2 DEF ControlTrue, Grows
  <2>4. ASSUME NEW p \in Parts, p \in DOMAIN c.heard
        PROVE  /\ k.player[p].response = c.response /\ k.player[p].stopped
               /\ c.heard[p] = Millis(k.player[p].played)
    BY <2>1, <2>2, <2>4 DEF ControlTrue, Grows
  <2>5. ASSUME NEW p \in Parts, p \notin DOMAIN c.heard, k.player[p].response = c.response
        PROVE  c.response \in k.late
    BY <2>1, <2>2, <2>5 DEF ControlTrue, Grows
  <2> QED  BY <2>3, <2>4, <2>5 DEF ControlTrue
<1>3. ASSUME NEW c \in Range(h.commands) PROVE CommandTrue(k, c)
  <2>1. c.end \in Nat
    <3>1. h.commands \in Seq(CommandRecords)
      BY DEF HostStates
    <3>2. c \in CommandRecords
      BY <3>1 DEF Range
    <3> QED  BY <3>2 DEF CommandRecords
  <2>2. PICK q \in Parts : FirstOf[q] = c.part /\ c.end <= Millis(h.player[q].played)
    BY DEF HostInv, CommandTrue
  <2>3. /\ Millis(h.player[q].played) <= Millis(k.player[q].played)
        /\ Millis(h.player[q].played) \in Nat /\ Millis(k.player[q].played) \in Nat
    BY <1>1, MillisMonotone DEF Grows
  <2>4. c.end <= Millis(k.player[q].played)
    BY <2>1, <2>2, <2>3
  <2> QED  BY <2>2, <2>4 DEF CommandTrue
<1>4. ASSUME NEW p \in Parts PROVE CutTrue(k, p)
  <2> SUFFICES ASSUME audio[p].truncated
               PROVE  /\ audio[p].response \in k.cleared
                      /\ k.player[p].response # None =>
                           \/ /\ k.player[p].stopped
                              /\ audio[p].heard = Millis(k.player[p].played)
                           \/ k.player[p].response \in k.late
    BY DEF CutTrue
  <2>1. CutTrue(h, p)
    BY DEF HostInv
  <2>2. k.player[p].response \in {None, audio[p].response}
    BY DEF TracksKept
  <2> QED  BY <2>1, <2>2 DEF CutTrue, Grows
<1>5. ASSUME NEW p \in Parts PROVE HeardBelow(k, p)
  <2>1. PICK q \in Parts :
          (q = p \/ FirstOf[q] = p) /\ audio[p].heard <= Millis(h.player[q].played)
    BY DEF HostInv, HeardBelow
  <2>2. /\ Millis(h.player[q].played) <= Millis(k.player[q].played)
        /\ Millis(h.player[q].played) \in Nat /\ Millis(k.player[q].played) \in Nat
    BY <1>1, MillisMonotone DEF Grows
  <2>3. audio[p].heard <= Millis(k.player[q].played)
    BY <1>1, <2>1, <2>2
  <2> QED  BY <2>1, <2>3 DEF HeardBelow
<1> QED  BY <1>2, <1>3, <1>4, <1>5 DEF HostInv

\* Marking parts the player holds as complete or told moves nothing.
Marks(h, k) ==
  /\ k.order = h.order /\ k.bytes = h.bytes /\ k.pending = h.pending
  /\ k.cleared = h.cleared /\ k.late = h.late
  /\ \A p \in Parts :
       /\ k.player[p].response = h.player[p].response
       /\ k.player[p].queued = h.player[p].queued
       /\ k.player[p].played = h.player[p].played
       /\ k.player[p].stopped = h.player[p].stopped
       /\ h.player[p].response = None => k.player[p] = h.player[p]

LEMMA MarksKeep ==
  ASSUME NEW h \in HostStates, NEW k \in HostStates, Marks(h, k), HostInv(h), TypeOK,
         k.controls = h.controls,
         \A c \in Range(k.commands) : c \in Range(h.commands) \/ CommandTrue(k, c)
  PROVE  HostInv(k)
<1>1. \A p \in Parts : h.player[p].played \in Nat
  BY DEF HostStates, TrackRecords
<1>2. Grows(h, k)
  <2>1. \A p \in Parts : h.player[p].response = None => None \notin h.cleared
    BY AbsentAssumption DEF HostStates
  <2> QED  BY <1>1, <2>1 DEF Grows, Marks
<1>3. TracksKept(k)
  BY DEF HostInv, TracksKept, Marks
<1>4. Counted(k)
  <2>1. Queue(k.player) = Queue(h.player)
    BY DEF Queue, Marks
  <2> QED  BY <2>1 DEF HostInv, Counted, Marks
<1>5. \A p \in Parts : StopAwaited(k, p)
  BY DEF HostInv, StopAwaited, Marks
<1> QED  BY <1>2, <1>3, <1>4, <1>5, GrowthKeeps

\* Nothing was rendered in between.
Silent(h, k) == \A p \in Parts : k.player[p].played = h.player[p].played

LEMMA FailedKeeps ==
  ASSUME NEW h \in HostStates, HostInv(h), TypeOK
  PROVE  Failed(h) \in HostStates /\ HostInv(Failed(h)) /\ Silent(h, Failed(h))
<1>1. Failed(h) \in HostStates
  BY DEF Failed, HostStates
<1>2. /\ Failed(h).player = h.player /\ Failed(h).order = h.order
      /\ Failed(h).bytes = h.bytes /\ Failed(h).pending = h.pending
      /\ Failed(h).cleared = h.cleared /\ Failed(h).late = h.late
      /\ Failed(h).controls = h.controls /\ Failed(h).commands = h.commands
  BY DEF Failed, HostStates
<1> QED  BY <1>1, <1>2, MarksKeep DEF Marks, Silent

LEMMA DoneKeeps ==
  ASSUME NEW h \in HostStates, HostInv(h), TypeOK, NEW r \in Responses
  PROVE  Done(h, r) \in HostStates /\ HostInv(Done(h, r)) /\ Silent(h, Done(h, r))
<1> DEFINE k == Done(h, r)
           f == [p \in Parts |->
                   IF p \in Of(h, {r})
                   THEN [h.player[p] EXCEPT !.done = TRUE, !.response_done = TRUE]
                   ELSE h.player[p]]
<1>1. \A p \in Parts : h.player[p] \in TrackRecords
  BY DEF HostStates
<1>2. \A p \in Parts :
        /\ f[p] \in TrackRecords /\ f[p].response = h.player[p].response
        /\ f[p].queued = h.player[p].queued /\ f[p].played = h.player[p].played
        /\ f[p].stopped = h.player[p].stopped
        /\ h.player[p].response = None => f[p] = h.player[p]
  BY <1>1, AbsentAssumption DEF TrackRecords, Of
<1>3. f \in [Parts -> TrackRecords] /\ k = [h EXCEPT !.player = f]
  BY <1>2 DEF Done
<1> HIDE DEF f, k
<1>4. /\ k \in HostStates /\ k.player = f /\ k.order = h.order
      /\ k.bytes = h.bytes /\ k.pending = h.pending
      /\ k.cleared = h.cleared /\ k.late = h.late
      /\ k.controls = h.controls /\ k.commands = h.commands
  BY <1>3 DEF HostStates
<1>5. Marks(h, k)
  BY <1>2, <1>4 DEF Marks
<1>6. Silent(h, k)
  BY <1>2, <1>4 DEF Silent
<1> QED  BY <1>4, <1>5, <1>6, MarksKeep DEF k

LEMMA PartDoneKeeps ==
  ASSUME NEW h \in HostStates, HostInv(h), TypeOK, NEW q \in Parts
  PROVE  /\ PartDone(h, q) \in HostStates /\ HostInv(PartDone(h, q))
         /\ Silent(h, PartDone(h, q))
<1>1. CASE h.player[q].response = None
  BY <1>1 DEF PartDone, Silent
<1>2. CASE h.player[q].response # None
  <2> DEFINE k == PartDone(h, q)
             f == [h.player EXCEPT ![q].done = TRUE]
  <2>1. \A p \in Parts : h.player[p] \in TrackRecords
    BY DEF HostStates
  <2>2. h.player \in [Parts -> TrackRecords]
    BY DEF HostStates
  <2>3. \A p \in Parts :
          /\ f[p] \in TrackRecords /\ f[p].response = h.player[p].response
          /\ f[p].queued = h.player[p].queued /\ f[p].played = h.player[p].played
          /\ f[p].stopped = h.player[p].stopped
          /\ p # q => f[p] = h.player[p]
    BY <2>1, <2>2 DEF TrackRecords
  <2>4. f \in [Parts -> TrackRecords] /\ k = [h EXCEPT !.player = f]
    BY <1>2, <2>2, <2>3 DEF PartDone
  <2> HIDE DEF f, k
  <2>5. /\ k \in HostStates /\ k.player = f /\ k.order = h.order
        /\ k.bytes = h.bytes /\ k.pending = h.pending
        /\ k.cleared = h.cleared /\ k.late = h.late
        /\ k.controls = h.controls /\ k.commands = h.commands
    BY <2>4 DEF HostStates
  <2>6. Marks(h, k)
    BY <1>2, <2>3, <2>5 DEF Marks
  <2>7. Silent(h, k)
    BY <2>3, <2>5 DEF Silent
  <2> QED  BY <2>5, <2>6, <2>7, MarksKeep DEF k
<1> QED  BY <1>1, <1>2

LEMMA FreshTrack ==
  ASSUME NEW r \in Responses
  PROVE  /\ [NoTrack EXCEPT !.response = r] \in TrackRecords
         /\ [NoTrack EXCEPT !.response = r].response = r
         /\ [NoTrack EXCEPT !.response = r].queued = 0
         /\ [NoTrack EXCEPT !.response = r].played = 0
         /\ ~[NoTrack EXCEPT !.response = r].stopped
BY DEF NoTrack, TrackRecords

\* Audio of a part the ledger has of the same response.
LEMMA AddKeeps ==
  ASSUME NEW h \in HostStates, HostInv(h), TypeOK,
         NEW r \in Responses, NEW p \in Parts, NEW n \in Nat, audio[p].response = r
  PROVE  /\ Add(h, r, p, n) \in HostStates /\ HostInv(Add(h, r, p, n))
         /\ Silent(h, Add(h, r, p, n))
<1> DEFINE fresh == p \notin Range(h.order)
           track == IF fresh THEN [NoTrack EXCEPT !.response = r] ELSE h.player[p]
           heard == IF track.stopped THEN track ELSE [track EXCEPT !.queued = @ + n]
           k == [h EXCEPT
                  !.order = IF fresh THEN Append(@, p) ELSE @,
                  !.late = IF fresh /\ r \in h.cleared THEN @ \cup {r} ELSE @,
                  !.bytes = IF track.stopped THEN @ ELSE @ + n,
                  !.player[p] = heard]
<1>1. CASE \/ n % 2 # 0 \/ h.bytes + n > MaxQueued
           \/ fresh /\ Len(h.order) >= MaxHeld
           \/ track.response # r \/ track.done
  <2>1. Add(h, r, p, n) = Failed(h)
    BY <1>1 DEF Add
  <2> QED  BY <2>1, FailedKeeps
<1>2. CASE ~(\/ n % 2 # 0 \/ h.bytes + n > MaxQueued
             \/ fresh /\ Len(h.order) >= MaxHeld
             \/ track.response # r \/ track.done)
  <2>1. Add(h, r, p, n) = k
    BY <1>2 DEF Add
  <2>2. track.response = r /\ h.bytes + n <= MaxQueued
    BY <1>2, PlayerAssumption DEF HostStates
  <2>3. /\ h.player \in [Parts -> TrackRecords] /\ h.order \in Seq(Parts) /\ h.bytes \in Int
        /\ h.late \subseteq Responses /\ h.cleared \subseteq Responses
    BY DEF HostStates
  <2>4. fresh => h.player[p] = NoTrack
    BY DEF HostInv, TracksKept
  <2>5. /\ track \in TrackRecords /\ track.queued = h.player[p].queued
        /\ track.played = h.player[p].played /\ track.stopped = h.player[p].stopped
        /\ ~fresh => h.player[p].response = r
        /\ fresh => h.player[p].response = None /\ ~track.stopped
    <3>1. CASE fresh
      <4>1. h.player[p] = NoTrack /\ track = [NoTrack EXCEPT !.response = r]
        BY <2>4, <3>1
      <4>2. /\ track \in TrackRecords /\ track.queued = 0 /\ track.played = 0
            /\ ~track.stopped
        BY <4>1, FreshTrack
      <4> QED  BY <3>1, <4>1, <4>2 DEF NoTrack
    <3>2. CASE ~fresh
      BY <2>2, <2>3, <3>2
    <3> QED  BY <3>1, <3>2
  <2> HIDE DEF track, fresh
  <2>6. /\ heard \in TrackRecords /\ heard.response = r
        /\ heard.queued = IF track.stopped THEN h.player[p].queued
                          ELSE h.player[p].queued + n
        /\ heard.played = h.player[p].played /\ heard.stopped = h.player[p].stopped
    BY <2>2, <2>5 DEF TrackRecords
  <2> HIDE DEF heard
  <2>7. /\ k \in HostStates
        /\ k.player = [h.player EXCEPT ![p] = heard]
        /\ k.order = IF fresh THEN Append(h.order, p) ELSE h.order
        /\ k.late = IF fresh /\ r \in h.cleared THEN h.late \cup {r} ELSE h.late
        /\ k.bytes = IF track.stopped THEN h.bytes ELSE h.bytes + n
        /\ k.pending = h.pending /\ k.cleared = h.cleared
        /\ k.controls = h.controls /\ k.commands = h.commands
    <3>1. /\ [h.player EXCEPT ![p] = heard] \in [Parts -> TrackRecords]
          /\ (IF fresh THEN Append(h.order, p) ELSE h.order) \in Seq(Parts)
          /\ (IF track.stopped THEN h.bytes ELSE h.bytes + n) \in Int
          /\ (IF fresh /\ r \in h.cleared THEN h.late \cup {r} ELSE h.late)
               \in SUBSET Responses
      BY <2>3, <2>6
    <3>2. k = [h EXCEPT
                 !.order = IF fresh THEN Append(h.order, p) ELSE h.order,
                 !.late = IF fresh /\ r \in h.cleared THEN h.late \cup {r} ELSE h.late,
                 !.bytes = IF track.stopped THEN h.bytes ELSE h.bytes + n,
                 !.player = [h.player EXCEPT ![p] = heard]]
      BY DEF HostStates
    <3> HIDE DEF k
    <3> QED  BY <3>1, <3>2 DEF HostStates
  <2> HIDE DEF k
  <2>8. /\ k.player[p] = heard
        /\ \A q \in Parts : q # p => k.player[q] = h.player[q]
    BY <2>3, <2>7
  <2>9. Range(k.order) = Range(h.order) \cup {p}
    <3>1. CASE fresh
      BY <2>3, <2>7, <3>1, RangeOfAppend
    <3>2. CASE ~fresh
      BY <2>7, <3>2 DEF fresh
    <3> QED  BY <3>1, <3>2
  <2>10. r # None
    BY AbsentAssumption
  <2>11. Grows(h, k)
    <3>1. \A q \in Parts : h.player[q].played \in Nat
      BY <2>3 DEF TrackRecords
    <3>2. \A q \in Parts : h.player[q].response = None => None \notin h.cleared
      BY <2>3, AbsentAssumption
    <3> QED  BY <2>5, <2>6, <2>7, <2>8, <3>1, <3>2 DEF Grows
  <2>12. TracksKept(k)
    <3>1. track.stopped => h.player[p].queued = 0
      BY <2>5 DEF HostInv, TracksKept
    <3>2. /\ heard.response \in {None, audio[p].response}
          /\ heard.response # None
          /\ heard.stopped => heard.queued = 0
      BY <2>5, <2>6, <2>10, <3>1
    <3> QED  BY <2>8, <2>9, <3>2 DEF HostInv, TracksKept
  <2>13. Counted(k)
    <3> DEFINE f == Queue(h.player)
    <3>1. f \in [Parts -> Nat]
      BY <2>3 DEF Queue, TrackRecords
    <3>2. h.bytes = Total(f) /\ h.bytes <= MaxQueued
      BY DEF HostInv, Counted
    <3>3. CASE track.stopped
      <4>1. Queue(k.player) = f
        BY <2>6, <2>8, <3>3 DEF Queue
      <4> QED  BY <2>7, <3>2, <3>3, <4>1 DEF Counted
    <3>4. CASE ~track.stopped
      <4>1. Queue(k.player) = [f EXCEPT ![p] = @ + n]
        BY <2>6, <2>8, <3>1, <3>4 DEF Queue
      <4>2. Total([f EXCEPT ![p] = @ + n]) = Total(f) + n
        <5>1. IsFiniteSet(Parts)
          BY PlayerAssumption
        <5> HIDE DEF f
        <5> QED  BY <3>1, <5>1, TotalAdded
      <4> QED  BY <2>2, <2>7, <3>2, <3>4, <4>1, <4>2 DEF Counted
    <3> QED  BY <3>3, <3>4
  <2>14. \A q \in Parts : StopAwaited(k, q)
    BY <2>6, <2>7, <2>8 DEF HostInv, StopAwaited
  <2>15. Silent(h, k)
    BY <2>6, <2>8 DEF Silent
  <2> QED  BY <2>1, <2>7, <2>11, <2>12, <2>13, <2>14, <2>15, GrowthKeeps
<1> QED  BY <1>1, <1>2

\* What a stop of R leaves of the parts, and what it throws away.
Quieted(h, R) ==
  [p \in Parts |-> IF p \in Of(h, R)
                   THEN [h.player[p] EXCEPT !.queued = 0, !.stopped = TRUE]
                   ELSE h.player[p]]

Gone(h, R) == [p \in Of(h, R) \cap Unstopped(h) |-> h.player[p].queued]

LEMMA ClearFacts ==
  ASSUME NEW h \in HostStates, HostInv(h), NEW R, R \subseteq Responses
  PROVE  /\ Clear(h, R) = [h EXCEPT !.bytes = @ - Total(Gone(h, R)),
                                    !.player = Quieted(h, R)]
         /\ Quieted(h, R) \in [Parts -> TrackRecords] /\ Total(Gone(h, R)) \in Nat
         /\ \A p \in Parts :
              /\ Quieted(h, R)[p].response = h.player[p].response
              /\ Quieted(h, R)[p].played = h.player[p].played
              /\ p \in Of(h, R) => Quieted(h, R)[p].stopped /\ Quieted(h, R)[p].queued = 0
              /\ p \notin Of(h, R) => Quieted(h, R)[p] = h.player[p]
              /\ h.player[p].stopped => Quieted(h, R)[p].stopped
         /\ h.bytes - Total(Gone(h, R)) = Total(Queue(Quieted(h, R)))
         /\ h.bytes - Total(Gone(h, R)) <= MaxQueued
<1> DEFINE quieted == Quieted(h, R)
           gone == Gone(h, R)
           T == Of(h, R) \cap Unstopped(h)
<1>1. h.player \in [Parts -> TrackRecords]
  BY DEF HostStates
<1>2. None \notin R
  BY AbsentAssumption
<1>3. /\ quieted \in [Parts -> TrackRecords]
      /\ \A p \in Parts :
           /\ quieted[p].response = h.player[p].response
           /\ quieted[p].played = h.player[p].played
           /\ p \in Of(h, R) => quieted[p].stopped /\ quieted[p].queued = 0
           /\ p \notin Of(h, R) => quieted[p] = h.player[p]
           /\ h.player[p].stopped => quieted[p].stopped
  BY <1>1 DEF Quieted, TrackRecords
<1>4. /\ T \subseteq Parts /\ gone \in [T -> Nat]
      /\ \A p \in T : gone[p] = h.player[p].queued
  BY <1>1 DEF Gone, Of, TrackRecords
<1>5. Clear(h, R) = [h EXCEPT !.bytes = @ - Total(gone), !.player = quieted]
  BY DEF Clear, Quieted, Gone
<1>6. ASSUME NEW p \in Parts
      PROVE  quieted[p].queued = IF p \in T THEN h.player[p].queued - gone[p]
                                 ELSE h.player[p].queued
  <2>1. CASE p \in T
    <3>1. quieted[p].queued = 0 /\ h.player[p].queued \in Nat
          /\ gone[p] = h.player[p].queued
      BY <1>1, <1>3, <1>4, <2>1 DEF TrackRecords
    <3> QED  BY <2>1, <3>1
  <2>2. CASE p \in Of(h, R) /\ p \notin T
    <3>1. h.player[p].stopped
      BY <1>2, <2>2 DEF Of, Unstopped, HostInv, TracksKept
    <3> QED  BY <1>3, <2>2, <3>1 DEF HostInv, TracksKept
  <2>3. CASE p \notin Of(h, R)
    BY <1>3, <2>3
  <2> QED  BY <2>1, <2>2, <2>3
<1> HIDE DEF quieted, gone, T
<1>7. Leaves(Parts, Queue(h.player), T, gone, Queue(quieted))
  <2>1. /\ Queue(h.player) \in [Parts -> Nat] /\ Queue(quieted) \in [Parts -> Nat]
        /\ \A p \in Parts : /\ Queue(h.player)[p] = h.player[p].queued
                           /\ Queue(quieted)[p] = quieted[p].queued
    BY <1>1, <1>3 DEF Queue, TrackRecords
  <2> QED  BY <1>4, <1>6, <2>1, PlayerAssumption DEF Leaves
<1>8. /\ Total(gone) \in Nat /\ Total(Queue(h.player)) \in Nat
      /\ Total(Queue(quieted)) = Total(Queue(h.player)) - Total(gone)
  BY <1>7, TotalTaken
<1>9. h.bytes = Total(Queue(h.player)) /\ h.bytes <= MaxQueued /\ MaxQueued \in Nat
  BY PlayerAssumption DEF HostInv, Counted
<1>10. /\ h.bytes - Total(gone) = Total(Queue(quieted))
       /\ h.bytes - Total(gone) <= MaxQueued
  BY <1>8, <1>9
<1> QED  BY <1>3, <1>5, <1>8, <1>10 DEF quieted, gone

\* Stops, each with the report of where it stopped the parts of its response.
LEMMA StopAllKeeps ==
  ASSUME NEW h \in HostStates, HostInv(h), TypeOK, NEW rs \in Seq(Responses)
  PROVE  LET k == StopAll(h, rs)
         IN /\ k \in HostStates /\ HostInv(k) /\ k.order = h.order
            /\ \A p \in Parts :
                 /\ k.player[p].response = h.player[p].response
                 /\ k.player[p].played = h.player[p].played
                 /\ h.player[p].stopped => k.player[p].stopped
                 /\ ~k.failed /\ h.player[p].response \in Range(rs) =>
                      k.player[p].stopped
<1> DEFINE room == IF open THEN MaxControls - Len(h.controls) ELSE 0
           sent == {i \in DOMAIN rs : i <= room}
           quiet == {rs[i] : i \in {j \in DOMAIN rs : j <= room + 1}}
           quieted == Quieted(h, quiet)
           gone == Gone(h, quiet)
           awaited == {FirstOf[p] : p \in Of(h, quiet)}
           reports == [i \in sent |-> [response |-> rs[i], heard |-> Heard(h, rs[i])]]
           k == StopAll(h, rs)
<1>1. k = [Clear(h, quiet) EXCEPT
             !.cleared = @ \cup quiet, !.pending = @ \cup awaited,
             !.controls = @ \o reports, !.failed = sent # DOMAIN rs]
  BY DEF StopAll
<1>2. /\ h.player \in [Parts -> TrackRecords] /\ h.order \in Seq(Parts) /\ h.bytes \in Int
      /\ h.late \subseteq Responses /\ h.cleared \subseteq Responses
      /\ h.pending \subseteq FirstParts /\ h.controls \in Seq(ControlRecords)
  BY DEF HostStates
<1>3. room \in Int
  BY <1>2, PlayerAssumption
<1>4. DOMAIN rs = 1..Len(rs) /\ Len(rs) \in Nat /\ \A i \in DOMAIN rs : rs[i] \in Responses
  OBVIOUS
<1> HIDE DEF room
<1>5. quiet \subseteq Responses /\ None \notin quiet
  BY <1>4, AbsentAssumption
<1>6. \A i \in sent : rs[i] \in quiet
  BY <1>3, <1>4
<1>7. sent = DOMAIN rs => Range(rs) \subseteq quiet
  BY <1>6 DEF Range
<1>8. PICK m \in Nat : sent = 1..m
  BY <1>3, <1>4, FirstFew
<1> HIDE DEF quiet, sent
<1>9. /\ quieted \in [Parts -> TrackRecords] /\ Total(gone) \in Nat
      /\ Clear(h, quiet) = [h EXCEPT !.bytes = @ - Total(gone), !.player = quieted]
      /\ \A p \in Parts :
           /\ quieted[p].response = h.player[p].response
           /\ quieted[p].played = h.player[p].played
           /\ p \in Of(h, quiet) => quieted[p].stopped /\ quieted[p].queued = 0
           /\ p \notin Of(h, quiet) => quieted[p] = h.player[p]
           /\ h.player[p].stopped => quieted[p].stopped
  BY <1>5, ClearFacts
<1>10. /\ h.bytes - Total(gone) = Total(Queue(quieted))
       /\ h.bytes - Total(gone) <= MaxQueued
  BY <1>5, ClearFacts
<1> HIDE DEF quieted, gone
<1>11. awaited \subseteq FirstParts /\ \A p \in Of(h, quiet) : FirstOf[p] \in awaited
  BY PlayerAssumption DEF Of
<1>12. /\ reports \in Seq(ControlRecords)
       /\ \A c \in Range(reports) : \E i \in sent :
            c = [response |-> rs[i], heard |-> Heard(h, rs[i])]
  <2>1. ASSUME NEW i \in sent
        PROVE  [response |-> rs[i], heard |-> Heard(h, rs[i])] \in ControlRecords
    <3>1. rs[i] \in Responses
      BY <1>5, <1>6
    <3>2. Heard(h, rs[i]) \in AnyHeards
      <4>1. ASSUME NEW p \in Of(h, {rs[i]}) PROVE Millis(h.player[p].played) \in Nat
        <5>1. h.player[p].played \in Nat /\ h.player[p].played <= h.player[p].played
          BY <1>2 DEF Of, TrackRecords
        <5> QED  BY <5>1, MillisMonotone
      <4>2. /\ Heard(h, rs[i]) \in [Of(h, {rs[i]}) -> Nat]
            /\ Of(h, {rs[i]}) \in SUBSET Parts
        BY <4>1 DEF Heard, Of
      <4> QED  BY <4>2 DEF AnyHeards
    <3> QED  BY <3>1, <3>2 DEF ControlRecords
  <2>2. reports \in [1..m -> ControlRecords]
    BY <1>8, <2>1
  <2>3. reports \in Seq(ControlRecords)
    BY <2>2
  <2> QED  BY <2>3 DEF Range
<1> HIDE DEF reports, awaited
<1>13. /\ k \in HostStates /\ k.player = quieted /\ k.order = h.order /\ k.late = h.late
       /\ k.bytes = h.bytes - Total(gone) /\ k.cleared = h.cleared \cup quiet
       /\ k.pending = h.pending \cup awaited /\ k.controls = h.controls \o reports
       /\ k.commands = h.commands /\ k.failed = (sent # DOMAIN rs)
  <2>1. /\ h.bytes - Total(gone) \in Int /\ h.cleared \cup quiet \in SUBSET Responses
        /\ h.pending \cup awaited \in SUBSET FirstParts
        /\ h.controls \o reports \in Seq(ControlRecords)
        /\ (sent # DOMAIN rs) \in BOOLEAN
    BY <1>2, <1>5, <1>9, <1>11, <1>12
  <2> HIDE DEF k
  <2> QED  BY <1>1, <1>9, <2>1 DEF HostStates
<1> HIDE DEF k
<1>14. Grows(h, k)
  <2>1. \A p \in Parts : h.player[p].played \in Nat
    BY <1>2 DEF TrackRecords
  <2>2. None \notin h.cleared
    BY <1>2, AbsentAssumption
  <2> QED  BY <1>9, <1>13, <2>1, <2>2 DEF Grows
<1>15. TracksKept(k)
  <2>1. \A p \in Parts : h.player[p].response = None => quieted[p] = h.player[p]
    BY <1>5, <1>9 DEF Of
  <2> QED  BY <1>9, <1>13, <2>1 DEF HostInv, TracksKept
<1>16. Counted(k)
  BY <1>10, <1>13 DEF Counted
<1>17. ASSUME NEW c \in Range(k.controls)
       PROVE  c \in Range(h.controls) \/ ControlTrue(k, c)
  <2>1. c \in Range(h.controls) \/ c \in Range(reports)
    BY <1>2, <1>12, <1>13, RangeOfConcat
  <2>2. CASE c \in Range(reports)
    <3>1. PICK i \in sent : c = [response |-> rs[i], heard |-> Heard(h, rs[i])]
      BY <1>12, <2>2
    <3>2. /\ c.response = rs[i] /\ c.response \in quiet
          /\ DOMAIN c.heard = Of(h, {c.response})
          /\ \A p \in DOMAIN c.heard : c.heard[p] = Millis(h.player[p].played)
      BY <1>6, <3>1 DEF Heard
    <3>3. \A p \in Parts :
            p \in DOMAIN c.heard <=> h.player[p].response = c.response
      BY <3>2 DEF Of
    <3>4. \A p \in DOMAIN c.heard : p \in Of(h, quiet)
      BY <3>2 DEF Of
    <3>5. c.response \in k.cleared
      BY <1>13, <3>2
    <3>6. ASSUME NEW p \in Parts, p \in DOMAIN c.heard
          PROVE  /\ k.player[p].response = c.response /\ k.player[p].stopped
                 /\ c.heard[p] = Millis(k.player[p].played)
      <4>1. h.player[p].response = c.response /\ p \in Of(h, quiet)
        BY <3>3, <3>4, <3>6
      <4> QED  BY <1>9, <1>13, <3>2, <3>6, <4>1
    <3>7. ASSUME NEW p \in Parts, p \notin DOMAIN c.heard
          PROVE  k.player[p].response # c.response
      BY <1>9, <1>13, <3>3, <3>7
    <3> QED  BY <3>5, <3>6, <3>7 DEF ControlTrue
  <2> QED  BY <2>1, <2>2
<1>18. \A p \in Parts : StopAwaited(k, p)
  BY <1>9, <1>11, <1>13 DEF HostInv, StopAwaited
<1>19. HostInv(k)
  BY <1>13, <1>14, <1>15, <1>16, <1>17, <1>18, GrowthKeeps
<1>20. \A p \in Parts : ~k.failed /\ h.player[p].response \in Range(rs) =>
                          k.player[p].stopped
  BY <1>7, <1>9, <1>13 DEF Of
<1> QED  BY <1>9, <1>13, <1>19, <1>20 DEF k

\* The host's stop of one response, or its note that there was nothing to stop.
LEMMA StoppedKeeps ==
  ASSUME NEW h \in HostStates, HostInv(h), TypeOK, NEW r \in Responses, NEW explicit
  PROVE  LET k == Stopped(h, r, explicit)
         IN /\ k \in HostStates /\ HostInv(k) /\ k.order = h.order
            /\ \A p \in Parts :
                 /\ k.player[p].response = h.player[p].response
                 /\ k.player[p].played = h.player[p].played
                 /\ h.player[p].stopped => k.player[p].stopped
<1> DEFINE k == Stopped(h, r, explicit)
<1>1. CASE ~explicit /\ Of(h, {r}) \cap Unstopped(h) = {}
  <2>1. k = [h EXCEPT !.cleared = @ \cup {r}]
    BY <1>1 DEF Stopped
  <2> HIDE DEF k
  <2>2. /\ k \in HostStates /\ k.player = h.player /\ k.order = h.order
        /\ k.bytes = h.bytes /\ k.pending = h.pending /\ k.late = h.late
        /\ k.controls = h.controls /\ k.commands = h.commands
        /\ k.cleared = h.cleared \cup {r}
    BY <2>1 DEF HostStates
  <2>3. Grows(h, k)
    <3>1. \A p \in Parts : h.player[p].played \in Nat
      BY DEF HostStates, TrackRecords
    <3>2. None \notin h.cleared
      BY AbsentAssumption DEF HostStates
    <3> QED  BY <2>2, <3>1, <3>2 DEF Grows
  <2>4. TracksKept(k) /\ Counted(k) /\ \A p \in Parts : StopAwaited(k, p)
    BY <2>2 DEF HostInv, TracksKept, Counted, StopAwaited
  <2>5. HostInv(k)
    BY <2>2, <2>3, <2>4, GrowthKeeps
  <2> QED  BY <2>2, <2>5 DEF k
<1>2. CASE ~(~explicit /\ Of(h, {r}) \cap Unstopped(h) = {})
  <2> DEFINE one == <<r>>
             s == StopAll(h, one)
  <2>1. k = s
    BY <1>2 DEF Stopped
  <2>2. one \in Seq(Responses)
    OBVIOUS
  <2> HIDE DEF one
  <2>3. /\ s \in HostStates /\ HostInv(s) /\ s.order = h.order
        /\ \A p \in Parts :
             /\ s.player[p].response = h.player[p].response
             /\ s.player[p].played = h.player[p].played
             /\ h.player[p].stopped => s.player[p].stopped
    BY <2>2, StopAllKeeps
  <2> HIDE DEF k, s
  <2>4. /\ k \in HostStates /\ HostInv(k) /\ k.order = h.order
        /\ \A p \in Parts :
             /\ k.player[p].response = h.player[p].response
             /\ k.player[p].played = h.player[p].played
             /\ h.player[p].stopped => k.player[p].stopped
    BY <2>1, <2>3
  <2> QED  BY <2>4 DEF k
<1> QED  BY <1>1, <1>2

\* The endpoint confirmed a truncation of an item all of which is cut.
LEMMA ConfirmedKeeps ==
  ASSUME NEW h \in HostStates, HostInv(h), TypeOK, NEW item,
         \A p \in Parts : FirstOf[p] = item /\ audio[p].response # None =>
                            audio[p].truncated
  PROVE  LET k == [h EXCEPT !.pending = @ \ {item}]
         IN k \in HostStates /\ HostInv(k) /\ Silent(h, k)
<1> DEFINE k == [h EXCEPT !.pending = @ \ {item}]
<1>1. /\ k \in HostStates /\ k.player = h.player /\ k.order = h.order
      /\ k.bytes = h.bytes /\ k.pending = h.pending \ {item} /\ k.late = h.late
      /\ k.controls = h.controls /\ k.commands = h.commands /\ k.cleared = h.cleared
  BY DEF HostStates
<1> HIDE DEF k
<1>2. Grows(h, k)
  <2>1. \A p \in Parts : h.player[p].played \in Nat
    BY DEF HostStates, TrackRecords
  <2>2. None \notin h.cleared
    BY AbsentAssumption DEF HostStates
  <2> QED  BY <1>1, <2>1, <2>2 DEF Grows
<1>3. TracksKept(k) /\ Counted(k)
  BY <1>1 DEF HostInv, TracksKept, Counted
<1>4. ASSUME NEW p \in Parts PROVE StopAwaited(k, p)
  <2>1. h.player[p].stopped => h.player[p].response # None
    BY DEF HostInv, TracksKept, NoTrack
  <2>2. h.player[p].response # None => audio[p].response # None
    BY DEF HostInv, TracksKept
  <2> QED  BY <1>1, <2>1, <2>2 DEF HostInv, StopAwaited
<1>5. HostInv(k)
  BY <1>1, <1>2, <1>3, <1>4, GrowthKeeps
<1> QED  BY <1>1, <1>5 DEF k, Silent

LEMMA TakenFacts ==
  ASSUME NEW h \in HostStates, NEW i \in DOMAIN h.order
  PROVE  /\ Taken(h, i) \in Nat /\ Taken(h, i) <= h.player[h.order[i]].queued
         /\ h.player[h.order[i]].stopped => Taken(h, i) = 0
<1> DEFINE J == {j \in 1..i - 1 : ~h.player[h.order[j]].stopped}
           f == [j \in J |-> h.player[h.order[j]].queued]
<1>1. /\ h.order \in Seq(Parts) /\ i \in 1..Len(h.order) /\ Len(h.order) \in Nat
      /\ \A j \in 1..Len(h.order) : h.player[h.order[j]].queued \in Nat
  BY DEF HostStates, TrackRecords
<1>2. IsFiniteSet(J)
  <2>1. i - 1 \in Int
    BY <1>1
  <2>2. IsFiniteSet(1..i - 1)
    BY <2>1, FS_Interval
  <2>3. J \in SUBSET (1..i - 1)
    OBVIOUS
  <2> HIDE DEF J
  <2> QED  BY <2>2, <2>3, FS_Subset
<1>3. f \in [J -> Nat]
  BY <1>1
<1>4. Before(h, i) = Total(f)
  BY DEF Before
<1>5. Before(h, i) \in Nat
  <2> HIDE DEF f, J
  <2> QED  BY <1>2, <1>3, <1>4, TotalType
<1>6. Frame \in Nat /\ h.player[h.order[i]].queued \in Nat
  BY <1>1, PlayerAssumption
<1> QED  BY <1>5, <1>6 DEF Taken

\* A frame of audio.
LEMMA RenderKeeps ==
  ASSUME NEW h \in HostStates, HostInv(h), TypeOK
  PROVE  LET k == Render(h)
         IN /\ k \in HostStates /\ HostInv(k) /\ k.order = h.order
            /\ \A p \in Parts :
                 /\ k.player[p].response = h.player[p].response
                 /\ k.player[p].stopped = h.player[p].stopped
                 /\ k.player[p].played > h.player[p].played => p \in Unstopped(h)
<1> DEFINE taken == TakenOf(h)
           f == [p \in Parts |->
                   IF p \in Range(h.order)
                   THEN [h.player[p] EXCEPT !.queued = @ - taken[p],
                                            !.played = @ + taken[p] \div 2]
                   ELSE h.player[p]]
           k == Render(h)
<1>1. /\ h.player \in [Parts -> TrackRecords] /\ h.order \in Seq(Parts) /\ h.bytes \in Int
      /\ Range(h.order) \subseteq Parts
  BY DEF HostStates, Range
<1>2. ASSUME NEW p \in Range(h.order)
      PROVE  /\ taken[p] \in Nat /\ taken[p] <= h.player[p].queued
             /\ h.player[p].stopped => taken[p] = 0
  <2>1. \E i \in DOMAIN h.order : h.order[i] = p
    BY DEF Range
  <2>2. Place(h, p) \in DOMAIN h.order /\ h.order[Place(h, p)] = p
    BY <2>1 DEF Place
  <2>3. taken[p] = Taken(h, Place(h, p))
    BY DEF TakenOf
  <2> QED  BY <2>2, <2>3, TakenFacts
<1>3. taken \in [Range(h.order) -> Nat]
  BY <1>2 DEF TakenOf
<1> HIDE DEF taken
<1>4. ASSUME NEW p \in Parts
      PROVE  /\ f[p] \in TrackRecords /\ f[p].response = h.player[p].response
             /\ f[p].stopped = h.player[p].stopped
             /\ f[p].queued = IF p \in Range(h.order) THEN h.player[p].queued - taken[p]
                              ELSE h.player[p].queued
             /\ h.player[p].played <= f[p].played
             /\ h.player[p].stopped => f[p].played = h.player[p].played
             /\ p \notin Range(h.order) => f[p] = h.player[p]
  <2>1. h.player[p] \in TrackRecords /\ h.player[p].queued \in Nat
        /\ h.player[p].played \in Nat
    BY <1>1 DEF TrackRecords
  <2>2. CASE p \in Range(h.order)
    <3> DEFINE q == h.player[p].queued - taken[p]
               s == h.player[p].played + taken[p] \div 2
    <3>1. /\ q \in Nat /\ s \in Nat /\ h.player[p].played <= s
          /\ h.player[p].stopped => s = h.player[p].played
      BY <1>2, <2>1, <2>2
    <3>2. f[p] = [h.player[p] EXCEPT !.queued = q, !.played = s]
      BY <2>1, <2>2 DEF TrackRecords
    <3> HIDE DEF q, s, f
    <3>3. /\ f[p] \in TrackRecords /\ f[p].response = h.player[p].response
          /\ f[p].stopped = h.player[p].stopped /\ f[p].queued = q /\ f[p].played = s
      BY <2>1, <3>1, <3>2 DEF TrackRecords
    <3> QED  BY <2>2, <3>1, <3>3 DEF q
  <2>3. CASE p \notin Range(h.order)
    BY <2>1, <2>3
  <2> QED  BY <2>2, <2>3
<1>5. f \in [Parts -> TrackRecords] /\ k = [h EXCEPT !.bytes = @ - Total(taken), !.player = f]
  BY <1>4 DEF Render, taken
<1> HIDE DEF f, k
<1>6. Leaves(Parts, Queue(h.player), Range(h.order), taken, Queue(f))
  <2>1. /\ Queue(h.player) \in [Parts -> Nat] /\ Queue(f) \in [Parts -> Nat]
        /\ \A p \in Parts : /\ Queue(h.player)[p] = h.player[p].queued
                           /\ Queue(f)[p] = f[p].queued
    BY <1>1, <1>5 DEF Queue, TrackRecords
  <2> QED  BY <1>1, <1>3, <1>4, <2>1, PlayerAssumption DEF Leaves
<1>7. /\ Total(taken) \in Nat /\ Total(Queue(h.player)) \in Nat
      /\ Total(Queue(f)) = Total(Queue(h.player)) - Total(taken)
  BY <1>6, TotalTaken
<1>8. /\ k \in HostStates /\ k.player = f /\ k.order = h.order /\ k.late = h.late
      /\ k.bytes = h.bytes - Total(taken) /\ k.cleared = h.cleared
      /\ k.pending = h.pending /\ k.controls = h.controls /\ k.commands = h.commands
  <2>1. h.bytes - Total(taken) \in Int
    BY <1>1, <1>7
  <2> QED  BY <1>5, <2>1 DEF HostStates
<1>9. Grows(h, k)
  <2>1. None \notin h.cleared
    BY AbsentAssumption DEF HostStates
  <2> QED  BY <1>4, <1>8, <2>1 DEF Grows
<1>10. TracksKept(k)
  <2> SUFFICES ASSUME NEW p \in Parts
               PROVE  /\ p \in Range(h.order) <=> f[p].response # None
                      /\ f[p].response \in {None, audio[p].response}
                      /\ f[p].response = None => f[p] = NoTrack
                      /\ f[p].stopped => f[p].queued = 0
    BY <1>8 DEF TracksKept
  <2>1. /\ p \in Range(h.order) <=> h.player[p].response # None
        /\ h.player[p].response \in {None, audio[p].response}
        /\ h.player[p].response = None => h.player[p] = NoTrack
        /\ h.player[p].stopped => h.player[p].queued = 0
    BY DEF HostInv, TracksKept
  <2>2. h.player[p].stopped => f[p].queued = 0
    BY <1>2, <1>4, <2>1
  <2> QED  BY <1>4, <2>1, <2>2
<1>11. Counted(k)
  <2>1. h.bytes = Total(Queue(h.player)) /\ h.bytes <= MaxQueued /\ MaxQueued \in Nat
    BY PlayerAssumption DEF HostInv, Counted
  <2> QED  BY <1>7, <1>8, <2>1 DEF Counted
<1>12. \A p \in Parts : StopAwaited(k, p)
  BY <1>4, <1>8 DEF HostInv, StopAwaited
<1>13. HostInv(k)
  BY <1>8, <1>9, <1>10, <1>11, <1>12, GrowthKeeps
<1>14. ASSUME NEW p \in Parts, k.player[p].played > h.player[p].played
       PROVE  p \in Unstopped(h)
  <2>1. h.player[p].played \in Nat
    BY <1>1 DEF TrackRecords
  <2>2. p \in Range(h.order) /\ ~h.player[p].stopped
    BY <1>4, <1>8, <1>14, <2>1
  <2> QED  BY <2>2 DEF Unstopped
<1> QED  BY <1>4, <1>8, <1>13, <1>14 DEF k

\* The parts told of are marked, and the positions sent were reached.
LEMMA FeedbackKeeps ==
  ASSUME NEW h \in HostStates, HostInv(h), TypeOK,
         NEW told \in Seq(Parts), Range(told) \subseteq Range(h.order)
  PROVE  LET k == Feedback(h, told)
         IN /\ k \in HostStates /\ HostInv(k)
            /\ Silent(h, k)
<1> DEFINE room == IF open THEN MaxCommands - Len(h.commands) ELSE 0
           sent == {i \in DOMAIN told : i <= room}
           position(i) ==
             [response |-> h.player[told[i]].response, part |-> FirstOf[told[i]],
              end |-> Millis(h.player[told[i]].played)]
           positions == [i \in sent |-> position(i)]
           f == [p \in Parts |->
                   IF p \in Range(told)
                   THEN [h.player[p] EXCEPT !.notified = IsFinished(h, p)]
                   ELSE h.player[p]]
           k == Feedback(h, told)
<1>1. k = [h EXCEPT !.commands = @ \o positions, !.player = f,
                    !.failed = sent # DOMAIN told]
  BY DEF Feedback
<1>2. /\ h.player \in [Parts -> TrackRecords] /\ h.order \in Seq(Parts)
      /\ h.commands \in Seq(CommandRecords)
      /\ \A p \in Parts : /\ h.player[p] \in TrackRecords
                          /\ h.player[p].played \in Nat
                          /\ h.player[p].response \in Responses \cup {None}
                          /\ h.player[p].queued \in Nat
                          /\ h.player[p].response_done \in BOOLEAN
  BY DEF HostStates, TrackRecords
<1>3. room \in Int
  BY <1>2, PlayerAssumption
<1>4. /\ DOMAIN told = 1..Len(told) /\ Len(told) \in Nat
      /\ \A i \in DOMAIN told : told[i] \in Parts /\ told[i] \in Range(told)
  BY DEF Range
<1> HIDE DEF room
<1>5. PICK m \in Nat : sent = 1..m
  BY <1>3, <1>4, FirstFew
<1>6. \A i \in sent : i \in DOMAIN told
  OBVIOUS
<1> HIDE DEF sent
<1>7. \A p \in Range(told) : p \in Parts /\ h.player[p].response # None
  BY <1>4 DEF HostInv, TracksKept, Range
<1>8. \A p \in Parts : IsFinished(h, p) \in BOOLEAN
  BY DEF IsFinished
<1>9. \A p \in Parts :
        /\ f[p] \in TrackRecords /\ f[p].response = h.player[p].response
        /\ f[p].queued = h.player[p].queued /\ f[p].played = h.player[p].played
        /\ f[p].stopped = h.player[p].stopped
        /\ h.player[p].response = None => f[p] = h.player[p]
  BY <1>2, <1>7, <1>8 DEF TrackRecords
<1>10. f \in [Parts -> TrackRecords]
  BY <1>9
<1> HIDE DEF f
<1>11. /\ positions \in Seq(CommandRecords)
       /\ \A c \in Range(positions) : \E q \in Parts :
            c.part = FirstOf[q] /\ c.end = Millis(h.player[q].played)
  <2>1. ASSUME NEW i \in sent
        PROVE  /\ position(i) \in CommandRecords
               /\ position(i).part = FirstOf[told[i]]
               /\ position(i).end = Millis(h.player[told[i]].played)
               /\ told[i] \in Parts
    <3>1. told[i] \in Parts /\ told[i] \in Range(told)
      BY <1>4, <1>6
    <3>2. h.player[told[i]].response \in Responses
      BY <1>2, <1>7, <3>1
    <3>3. FirstOf[told[i]] \in FirstParts
      BY <3>1, PlayerAssumption
    <3>4. Millis(h.player[told[i]].played) \in Nat
      <4>1. h.player[told[i]].played \in Nat
            /\ h.player[told[i]].played <= h.player[told[i]].played
        BY <1>2, <3>1
      <4> QED  BY <4>1, MillisMonotone
    <3> QED  BY <3>1, <3>2, <3>3, <3>4 DEF CommandRecords
  <2>2. positions \in [1..m -> CommandRecords]
    BY <1>5, <2>1
  <2>3. positions \in Seq(CommandRecords)
    BY <2>2
  <2>4. ASSUME NEW c \in Range(positions)
        PROVE  \E q \in Parts : c.part = FirstOf[q] /\ c.end = Millis(h.player[q].played)
    <3>1. PICK i \in sent : c = position(i)
      BY DEF Range
    <3> QED  BY <2>1, <3>1
  <2> QED  BY <2>3, <2>4
<1> HIDE DEF positions
<1>12. /\ k \in HostStates /\ k.player = f /\ k.order = h.order
       /\ k.bytes = h.bytes /\ k.pending = h.pending
       /\ k.cleared = h.cleared /\ k.late = h.late
       /\ k.controls = h.controls /\ k.commands = h.commands \o positions
  <2>1. /\ h.commands \o positions \in Seq(CommandRecords)
        /\ (sent # DOMAIN told) \in BOOLEAN
    BY <1>2, <1>11
  <2> HIDE DEF k
  <2> QED  BY <1>1, <1>10, <2>1 DEF HostStates
<1> HIDE DEF k
<1>13. Marks(h, k)
  BY <1>9, <1>12 DEF Marks
<1>14. ASSUME NEW c \in Range(k.commands)
       PROVE  c \in Range(h.commands) \/ CommandTrue(k, c)
  <2>1. c \in Range(h.commands) \/ c \in Range(positions)
    BY <1>2, <1>11, <1>12, RangeOfConcat
  <2>2. CASE c \in Range(positions)
    <3>1. PICK q \in Parts : c.part = FirstOf[q] /\ c.end = Millis(h.player[q].played)
      BY <1>11, <2>2
    <3>2. k.player[q].played = h.player[q].played /\ h.player[q].played \in Nat
      BY <1>2, <1>9, <1>12
    <3>3. Millis(h.player[q].played) \in Nat
      BY <3>2, MillisMonotone
    <3>4. c.end <= Millis(k.player[q].played)
      BY <3>1, <3>2, <3>3
    <3> QED  BY <3>1, <3>4 DEF CommandTrue
  <2> QED  BY <2>1, <2>2
<1>15. HostInv(k)
  BY <1>12, <1>13, <1>14, MarksKeep
<1>16. Silent(h, k)
  BY <1>9, <1>12 DEF Silent
<1> QED  BY <1>12, <1>15, <1>16 DEF k

LEMMA SortedFacts ==
  ASSUME NEW S, IsFiniteSet(S), NEW place, NEW s \in Sorted(S, place)
  PROVE  s \in Seq(S) /\ Range(s) = S
<1>1. Cardinality(S) \in Nat
  BY FS_CardinalityType
<1>2. s \in [1..Cardinality(S) -> S] /\ Range(s) = S
  BY DEF Sorted
<1>3. s \in Seq(S)
  BY <1>1, <1>2
<1> QED  BY <1>2, <1>3

\* The player speaks of unstopped parts it holds.
LEMMA ToldFacts ==
  ASSUME NEW h \in HostStates, NEW position, NEW told \in Told(h, position)
  PROVE  told \in Seq(Parts) /\ Range(told) \subseteq Range(h.order)
<1> DEFINE parts == {p \in Unstopped(h) : ~h.player[p].notified
                                           /\ (IsFinished(h, p) \/ position)}
<1>1. /\ told \in Sorted(parts, [p \in parts |-> Place(h, p)])
      /\ parts \subseteq Range(h.order) /\ parts \subseteq Parts
  BY DEF Told, Unstopped, HostStates, Range
<1>2. IsFiniteSet(Parts)
  BY PlayerAssumption
<1> HIDE DEF parts
<1>3. IsFiniteSet(parts)
  BY <1>1, <1>2, FS_Subset
<1>4. told \in Seq(parts) /\ Range(told) = parts
  BY <1>1, <1>3, SortedFacts
<1> QED  BY <1>1, <1>4

\* It comes to every response it plays that the watch did not allow.
LEMMA InvalidatedFacts ==
  ASSUME NEW h \in HostStates, TracksKept(h), NEW stops \in Invalidated(h)
  PROVE  /\ stops \in Seq(Responses)
         /\ \A p \in Unstopped(h) :
              /\ p \in Parts
              /\ h.player[p].response \in allowed \cup Range(stops)
<1> DEFINE barred == {q \in Unstopped(h) : h.player[q].response \notin allowed}
           ids == {h.player[p].response : p \in barred}
           g == [p \in barred |-> h.player[p].response]
<1>1. barred \subseteq Parts /\ Unstopped(h) \subseteq Parts
  BY DEF Unstopped, HostStates, Range
<1>2. \A p \in Unstopped(h) : h.player[p].response \in Responses
  BY <1>1 DEF TracksKept, Unstopped, HostStates, TrackRecords
<1>3. ids \subseteq Responses
  BY <1>2
<1>4. IsFiniteSet(Parts)
  BY PlayerAssumption
<1>5. g \in Surjection(barred, ids)
  BY DEF Surjection
<1>6. \E place : stops \in Sorted(ids, place)
  BY DEF Invalidated
<1>7. \A p \in Unstopped(h) :
        h.player[p].response \in allowed \cup ids
  OBVIOUS
<1> HIDE DEF barred, ids, g
<1>8. IsFiniteSet(barred)
  BY <1>1, <1>4, FS_Subset
<1>9. IsFiniteSet(ids)
  BY <1>5, <1>8, FS_Surjection
<1>10. stops \in Seq(ids) /\ Range(stops) = ids
  BY <1>6, <1>9, SortedFacts
<1> QED  BY <1>1, <1>3, <1>7, <1>10

-----------------------------------------------------------------------------
(* The turn.                                                               *)

LEMMA OverlapKeeps ==
  ASSUME NEW h \in HostStates, HostInv(h), TypeOK, NEW k \in Overlap(h)
  PROVE  /\ k \in HostStates /\ HostInv(k) /\ k.order = h.order
         /\ \A p \in Parts :
              /\ k.player[p].response = h.player[p].response
              /\ k.player[p].played = h.player[p].played
              /\ h.player[p].stopped => k.player[p].stopped
<1>1. PICK i \in DOMAIN h.order :
        k = Stopped(h, h.player[h.order[i]].response, TRUE)
  BY DEF Overlap
<1>2. h.order[i] \in Parts /\ h.order[i] \in Range(h.order)
  BY DEF HostStates, Range
<1>3. h.player[h.order[i]].response \in Responses
  BY <1>2 DEF HostInv, TracksKept, HostStates, TrackRecords
<1> DEFINE r == h.player[h.order[i]].response
           s == Stopped(h, r, TRUE)
<1>4. r \in Responses /\ k = s
  BY <1>1, <1>3
<1> HIDE DEF r
<1>5. /\ s \in HostStates /\ HostInv(s) /\ s.order = h.order
      /\ \A p \in Parts :
           /\ s.player[p].response = h.player[p].response
           /\ s.player[p].played = h.player[p].played
           /\ h.player[p].stopped => s.player[p].stopped
  BY <1>4, StoppedKeeps
<1> HIDE DEF s
<1> QED  BY <1>4, <1>5

\* A frame and the positions after it: what grows was playing.
LEMMA RenderedKeeps ==
  ASSUME NEW h \in HostStates, HostInv(h), TypeOK, NEW position,
         NEW told \in Told(Render(h), position)
  PROVE  LET k == Feedback(Render(h), told)
         IN /\ k \in HostStates /\ HostInv(k)
            /\ \A p \in Parts :
                 k.player[p].played > h.player[p].played => p \in Unstopped(h)
<1> DEFINE s == Render(h)
           k == Feedback(s, told)
<1>1. /\ s \in HostStates /\ HostInv(s)
      /\ \A p \in Parts : s.player[p].played > h.player[p].played => p \in Unstopped(h)
  BY RenderKeeps
<1>2. told \in Told(s, position)
  OBVIOUS
<1> HIDE DEF s
<1>3. told \in Seq(Parts) /\ Range(told) \subseteq Range(s.order)
  BY <1>1, <1>2, ToldFacts
<1>4. k \in HostStates /\ HostInv(k) /\ Silent(s, k)
  BY <1>1, <1>3, FeedbackKeeps
<1> HIDE DEF k
<1>5. \A p \in Parts : k.player[p].played > h.player[p].played => p \in Unstopped(h)
  BY <1>1, <1>4 DEF Silent
<1> QED  BY <1>4, <1>5 DEF k, s

\* A tick renders only what the watch allowed when it looked.
LEMMA TickKeeps ==
  ASSUME NEW interrupts, NEW position, Obeyed(interrupts, position),
         Held \in HostStates, HostInv(Held), TypeOK
  PROVE  \E k \in HostStates :
           /\ HostBecomes(k) /\ HostInv(k)
           /\ \A p \in Parts :
                k.player[p].played > player[p].played => player[p].response \in allowed
<1> DEFINE Fine(k) ==
             /\ k \in HostStates /\ HostBecomes(k) /\ HostInv(k)
             /\ \A p \in Parts :
                  k.player[p].played > player[p].played => player[p].response \in allowed
<1>1. /\ Held.player = player /\ Held.order = order
      /\ \A p \in Parts : player[p].played \in Nat
  BY DEF Held, HostStates, TrackRecords
<1>2. PICK stops \in Invalidated(Held) :
        LET quiet == StopAll(Held, stops)
        IN IF quiet.failed THEN HostBecomes(quiet)
           ELSE \E stopped \in IF interrupts THEN Overlap(quiet) ELSE {quiet} :
                  IF stopped.failed THEN HostBecomes(stopped)
                  ELSE Rendered(stopped, position)
  BY DEF Obeyed
<1>3. TracksKept(Held)
  BY DEF HostInv
<1>4. /\ stops \in Seq(Responses)
      /\ \A p \in Unstopped(Held) :
           player[p].response \in allowed \cup Range(stops)
  BY <1>1, <1>3, InvalidatedFacts
<1> DEFINE quiet == StopAll(Held, stops)
<1>5. /\ quiet \in HostStates /\ HostInv(quiet) /\ quiet.order = order
      /\ \A p \in Parts :
           /\ quiet.player[p].response = player[p].response
           /\ quiet.player[p].played = player[p].played
           /\ player[p].stopped => quiet.player[p].stopped
           /\ ~quiet.failed /\ player[p].response \in Range(stops) =>
                quiet.player[p].stopped
  BY <1>1, <1>4, StopAllKeeps
<1>6. IF quiet.failed THEN HostBecomes(quiet)
      ELSE \E stopped \in IF interrupts THEN Overlap(quiet) ELSE {quiet} :
             IF stopped.failed THEN HostBecomes(stopped)
             ELSE Rendered(stopped, position)
  BY <1>2
<1> HIDE DEF quiet
<1>7. CASE quiet.failed
  <2>1. Fine(quiet)
    BY <1>1, <1>5, <1>6, <1>7
  <2> QED  BY <2>1
<1>8. CASE ~quiet.failed
  <2>1. PICK stopped \in IF interrupts THEN Overlap(quiet) ELSE {quiet} :
          IF stopped.failed THEN HostBecomes(stopped) ELSE Rendered(stopped, position)
    BY <1>6, <1>8
  <2>2. /\ stopped \in HostStates /\ HostInv(stopped) /\ stopped.order = order
        /\ \A p \in Parts :
             /\ stopped.player[p].response = player[p].response
             /\ stopped.player[p].played = player[p].played
             /\ quiet.player[p].stopped => stopped.player[p].stopped
    <3>1. CASE interrupts
      <4>1. stopped \in Overlap(quiet)
        BY <2>1, <3>1
      <4> QED  BY <1>5, <4>1, OverlapKeeps
    <3>2. CASE ~interrupts
      BY <1>5, <2>1, <3>2
    <3> QED  BY <3>1, <3>2
  <2>3. CASE stopped.failed
    <3>1. Fine(stopped)
      BY <1>1, <2>1, <2>2, <2>3
    <3> QED  BY <3>1
  <2>4. CASE ~stopped.failed
    <3>1. PICK told \in Told(Render(stopped), position) :
            HostBecomes(Feedback(Render(stopped), told))
      BY <2>1, <2>4 DEF Rendered
    <3> DEFINE k == Feedback(Render(stopped), told)
    <3>2. /\ k \in HostStates /\ HostInv(k)
          /\ \A p \in Parts :
               k.player[p].played > stopped.player[p].played => p \in Unstopped(stopped)
      BY <2>2, <3>1, RenderedKeeps
    <3>3. HostBecomes(k)
      BY <3>1
    <3> HIDE DEF k
    <3>4. ASSUME NEW p \in Parts, k.player[p].played > player[p].played
          PROVE  player[p].response \in allowed
      <4>1. p \in Unstopped(stopped)
        BY <2>2, <3>2, <3>4
      <4>2. p \in Range(order) /\ ~quiet.player[p].stopped
        BY <2>2, <4>1 DEF Unstopped
      <4>3. p \in Unstopped(Held) /\ player[p].response \notin Range(stops)
        BY <1>1, <1>5, <1>8, <4>2 DEF Unstopped
      <4> QED  BY <1>4, <4>3
    <3>5. Fine(k)
      BY <3>2, <3>3, <3>4
    <3> QED  BY <3>5
  <2> QED  BY <2>3, <2>4
<1> QED  BY <1>7, <1>8

-----------------------------------------------------------------------------
(* The invariant.                                                          *)

EventRecords ==
  [type : {"created", "response.done", "clear"}, response : Responses]
    \cup [type : {"delta"}, response : Responses, part : Parts, bytes : Nat]
    \cup [type : {"audio.done", "truncated"}, part : Parts]
    \cup [type : {"rejected"}]

PTypeOK ==
  /\ TypeOK /\ Held \in HostStates
  /\ host \in {"running", "ticking", "settled", "failed"}
  /\ known \subseteq Responses /\ finished \subseteq Responses
  /\ overlapped \in BOOLEAN
  /\ allowed \subseteq Responses /\ overrun \in [Responses -> Nat]
  /\ events \in Seq(EventRecords)
  /\ confirming \subseteq Parts /\ spoken \subseteq Parts

\* All the ledger has of the item of p is cut.
ItemCut(p) ==
  /\ audio[p].truncated
  /\ \A q \in Parts : FirstOf[q] = FirstOf[p] /\ audio[q].response # None =>
                        audio[q].truncated

\* The parts of an item are of one response, which is muted before any of it is
\* cut; then the item is cut as a whole, and the confirmation that goes to the
\* host says so.  An audio event names the response the ledger has the part of.
LedgerInv ==
  /\ \A p, q \in Parts :
       /\ audio[p].response # None /\ audio[q].response # None
       /\ FirstOf[p] = FirstOf[q]
       => audio[p].response = audio[q].response
  /\ \A p \in Parts :
       audio[p].truncated =>
         audio[p].response # None /\ responses[audio[p].response].cancelled
  /\ \A p \in confirming : ItemCut(p)
  /\ \A e \in Range(events) :
       /\ e.type = "truncated" => ItemCut(e.part)
       /\ e.type = "delta" => audio[e.part].response = e.response

PlayerInv ==
  HostInv(Held) /\ LedgerInv /\ (host = "settled" => pending = {})

LEMMA HeldFields ==
  /\ Held.player = player /\ Held.order = order /\ Held.bytes = bytes
  /\ Held.pending = pending /\ Held.cleared = cleared /\ Held.late = late
  /\ Held.controls = controls /\ Held.commands = commands
BY DEF Held

\* What the host comes to hold, while the ledger stays as it is.
LEMMA BecomesHeld ==
  ASSUME NEW h \in HostStates, HostInv(h), HostBecomes(h), UNCHANGED audio
  PROVE  /\ Held' \in HostStates /\ HostInv(Held)'
         /\ \A p \in Parts : player'[p].played = h.player[p].played
<1>1. /\ Held'.player = h.player /\ Held'.order = h.order /\ Held'.bytes = h.bytes
      /\ Held'.pending = h.pending /\ Held'.cleared = h.cleared /\ Held'.late = h.late
      /\ Held'.controls = h.controls /\ Held'.commands = h.commands
  BY DEF HostBecomes, Held
<1>2. Held' \in HostStates
  BY DEF Held, HostBecomes, HostStates
<1>3. TracksKept(Held)' /\ Counted(Held)'
  BY <1>1 DEF HostInv, TracksKept, Counted
<1>4. /\ \A c \in Range(Held'.controls) : ControlTrue(Held', c)
      /\ \A c \in Range(Held'.commands) : CommandTrue(Held', c)
  BY <1>1 DEF HostInv, ControlTrue, CommandTrue
<1>5. \A p \in Parts : CutTrue(Held, p)' /\ StopAwaited(Held, p)' /\ HeardBelow(Held, p)'
  BY <1>1 DEF HostInv, CutTrue, StopAwaited, HeardBelow
<1>6. HostInv(Held)'
  BY <1>3, <1>4, <1>5 DEF HostInv, ControlTrue, CommandTrue
<1>7. player' = h.player
  BY DEF HostBecomes
<1> QED  BY <1>2, <1>6, <1>7

\* An event renders nothing and leaves the invariant.
LEMMA HandledKeeps ==
  ASSUME PTypeOK, PlayerInv, NEW e \in EventRecords, e \in Range(events)
  PROVE  Handled(e) \in HostStates /\ HostInv(Handled(e)) /\ Silent(Held, Handled(e))
<1> DEFINE Fine(k) == k \in HostStates /\ HostInv(k) /\ Silent(Held, k)
<1>1. TypeOK /\ Held \in HostStates /\ HostInv(Held)
  BY DEF PTypeOK, PlayerInv
<1> DEFINE h == Held
<1> HIDE DEF h
<1>2. TypeOK /\ h \in HostStates /\ HostInv(h)
  BY <1>1 DEF h
<1>3. CASE e.type = "delta"
  <2>1. e.response \in Responses /\ e.part \in Parts /\ e.bytes \in Nat
    BY <1>3 DEF EventRecords
  <2>2. audio[e.part].response = e.response
    BY <1>3 DEF PlayerInv, LedgerInv
  <2>3. LET k == Add(h, e.response, e.part, e.bytes)
        IN k \in HostStates /\ HostInv(k) /\ Silent(h, k)
    BY <1>2, <2>1, <2>2, AddKeeps
  <2> QED  BY <1>3, <2>3 DEF Handled, h
<1>4. CASE e.type = "audio.done"
  <2>1. e.part \in Parts
    BY <1>4 DEF EventRecords
  <2>2. LET k == PartDone(h, e.part)
        IN k \in HostStates /\ HostInv(k) /\ Silent(h, k)
    BY <1>2, <2>1, PartDoneKeeps
  <2> QED  BY <1>4, <2>2 DEF Handled, h
<1>5. CASE e.type = "response.done"
  <2>1. e.response \in Responses
    BY <1>5 DEF EventRecords
  <2>2. LET k == Done(h, e.response)
        IN k \in HostStates /\ HostInv(k) /\ Silent(h, k)
    BY <1>2, <2>1, DoneKeeps
  <2> QED  BY <1>5, <2>2 DEF Handled, h
<1>6. CASE e.type = "clear"
  <2>1. e.response \in Responses
    BY <1>6 DEF EventRecords
  <2> DEFINE r == e.response
             k == Stopped(h, r, FALSE)
  <2> HIDE DEF r
  <2>2. r \in Responses
    BY <2>1 DEF r
  <2>3. /\ k \in HostStates /\ HostInv(k)
        /\ \A p \in Parts : k.player[p].played = h.player[p].played
    BY <1>2, <2>2, StoppedKeeps
  <2>4. Handled(e) = k
    BY <1>6 DEF Handled, h, r
  <2> HIDE DEF k
  <2>5. k \in HostStates /\ HostInv(k) /\ Silent(h, k)
    BY <2>3 DEF Silent
  <2> QED  BY <2>4, <2>5 DEF h
<1>7. CASE e.type = "truncated"
  <2>1. e.part \in Parts
    BY <1>7 DEF EventRecords
  <2> DEFINE item == FirstOf[e.part]
             k == [h EXCEPT !.pending = @ \ {item}]
  <2>2. \A p \in Parts : FirstOf[p] = item /\ audio[p].response # None =>
                           audio[p].truncated
    BY <1>7, <2>1 DEF PlayerInv, LedgerInv, ItemCut
  <2> HIDE DEF item
  <2>3. k \in HostStates /\ HostInv(k) /\ Silent(h, k)
    BY <1>2, <2>2, ConfirmedKeeps
  <2>4. Handled(e) = k
    BY <1>7 DEF Handled, h, item
  <2> HIDE DEF k
  <2> QED  BY <2>3, <2>4 DEF h
<1>8. CASE e.type = "rejected"
  <2>1. LET k == Failed(h) IN k \in HostStates /\ HostInv(k) /\ Silent(h, k)
    BY <1>2, FailedKeeps
  <2> QED  BY <1>8, <2>1 DEF Handled, h
<1>9. CASE e.type = "created"
  <2>1. Handled(e) = Held
    BY <1>9 DEF Handled
  <2> QED  BY <1>1, <2>1 DEF Silent
<1>10. e.type \in {"created", "response.done", "clear", "delta", "audio.done",
                   "truncated", "rejected"}
  BY DEF EventRecords
<1> QED  BY <1>3, <1>4, <1>5, <1>6, <1>7, <1>8, <1>9, <1>10

\* The host's steps.
LEMMA TurnStep ==
  ASSUME PTypeOK, PlayerInv, Turn
  PROVE  /\ PTypeOK' /\ PlayerInv'
         /\ \A p \in Parts :
              player'[p].played > player[p].played => player[p].response \in allowed
<1>1. /\ TypeOK /\ Held \in HostStates /\ HostInv(Held) /\ LedgerInv
      /\ events \in Seq(EventRecords)
      /\ \A p \in Parts : player[p].played \in Nat
  BY HeldFields DEF PTypeOK, PlayerInv, HostStates, TrackRecords
<1>2. ASSUME UNCHANGED <<vars, confirming>>, Range(events') \subseteq Range(events)
      PROVE  TypeOK' /\ LedgerInv'
  BY <1>1, <1>2 DEF vars, TypeOK, LedgerInv, ItemCut
<1>3. CASE TakesEvent
  <2> DEFINE e == Head(events)
             k == Handled(e)
  <2>1. /\ e \in EventRecords /\ e \in Range(events) /\ events' \in Seq(EventRecords)
        /\ Range(events') \subseteq Range(events)
    BY <1>1, <1>3, RangeOfTail DEF TakesEvent
  <2>2. HostBecomes(k) /\ UNCHANGED <<vars, confirming, spoken, overlapped, allowed, overrun>>
        /\ host = "running"
    BY <1>3 DEF TakesEvent
  <2>3. known' \subseteq Responses /\ finished' \subseteq Responses
    <3>1. e.type \in {"created", "response.done"} => e.response \in Responses
      BY <2>1 DEF EventRecords
    <3> QED  BY <1>3, <3>1 DEF TakesEvent, PTypeOK
  <2> HIDE DEF e
  <2>4. k \in HostStates /\ HostInv(k) /\ Silent(Held, k)
    BY <2>1, HandledKeeps
  <2> HIDE DEF k
  <2>5. /\ Held' \in HostStates /\ HostInv(Held)'
        /\ \A p \in Parts : player'[p].played = k.player[p].played
    BY <2>2, <2>4, BecomesHeld DEF vars
  <2>6. TypeOK' /\ LedgerInv'
    BY <1>2, <2>1, <2>2
  <2>7. host' \in {"running", "failed"}
    BY <2>2 DEF HostBecomes
  <2>8. PTypeOK' /\ PlayerInv'
    BY <2>1, <2>2, <2>3, <2>5, <2>6, <2>7 DEF PTypeOK, PlayerInv
  <2>9. \A p \in Parts : ~(player'[p].played > player[p].played)
    BY <1>1, <2>4, <2>5, HeldFields DEF Silent
  <2> QED  BY <2>8, <2>9
<1>4. ASSUME NEW interrupts \in BOOLEAN, NEW position \in BOOLEAN,
             Tick(interrupts, position)
      PROVE  /\ PTypeOK' /\ PlayerInv'
             /\ \A p \in Parts :
                  player'[p].played > player[p].played => player[p].response \in allowed
  <2>1. Obeyed(interrupts, position) /\ UNCHANGED <<vars, known, finished, events,
                                                    confirming, spoken>>
        /\ host = "ticking" /\ overlapped' \in BOOLEAN /\ allowed' = {}
        /\ overrun' \in [Responses -> Nat]
    BY <1>4 DEF Tick, PTypeOK
  <2>2. PICK k \in HostStates :
          /\ HostBecomes(k) /\ HostInv(k)
          /\ \A p \in Parts :
               k.player[p].played > player[p].played => player[p].response \in allowed
    BY <1>1, <2>1, TickKeeps
  <2>3. /\ Held' \in HostStates /\ HostInv(Held)'
        /\ \A p \in Parts : player'[p].played = k.player[p].played
    BY <2>1, <2>2, BecomesHeld DEF vars
  <2>4. TypeOK' /\ LedgerInv'
    BY <1>2, <2>1
  <2>5. host' \in {"running", "failed"}
    BY <2>1, <2>2 DEF HostBecomes
  <2>6. PTypeOK' /\ PlayerInv'
    BY <2>1, <2>3, <2>4, <2>5 DEF PTypeOK, PlayerInv
  <2> QED  BY <2>2, <2>3, <2>6
<1>5. CASE Settles \/ SeesEnd \/ TickLooks
  <2>1. /\ UNCHANGED <<vars, player, order, bytes, pending, cleared, late, known,
                       finished, overlapped, overrun, laneVars>>
        /\ host' \in {"settled", "failed", "ticking"}
        /\ host' = "settled" => pending = {}
        /\ allowed' = allowed \/ allowed' \subseteq Responses
    BY <1>5 DEF Settles, SeesEnd, TickLooks
  <2>2. UNCHANGED Held
    BY <2>1 DEF Held, laneVars
  <2>3. HostInv(Held)'
    BY <1>1, <2>1, <2>2
    DEF vars, HostInv, TracksKept, Counted, ControlTrue, CommandTrue, CutTrue,
        StopAwaited, HeardBelow
  <2>4. TypeOK' /\ LedgerInv'
    BY <1>2, <2>1 DEF laneVars
  <2>5. PTypeOK' /\ PlayerInv'
    BY <1>1, <2>1, <2>2, <2>3, <2>4 DEF PTypeOK, PlayerInv, laneVars
  <2>6. \A p \in Parts : ~(player'[p].played > player[p].played)
    BY <1>1, <2>1
  <2> QED  BY <2>5, <2>6
<1> QED  BY <1>3, <1>4, <1>5 DEF Turn

-----------------------------------------------------------------------------
(* The session's steps are those of a session whose host reports anything. *)

LEMMA TakenControl ==
  ASSUME PTypeOK, controls # << >>
  PROVE  /\ Head(controls) \in ControlRecords /\ Head(controls) \in Range(controls)
         /\ Head(controls).response \in Responses /\ Head(controls).heard \in AnyHeards
         /\ Tail(controls) \in Seq(ControlRecords)
         /\ Range(Tail(controls)) \subseteq Range(controls)
<1>1. controls \in Seq(ControlRecords)
  BY HeldFields DEF PTypeOK, HostStates
<1>2. /\ Head(controls) \in ControlRecords /\ Head(controls) \in Range(controls)
      /\ Tail(controls) \in Seq(ControlRecords)
      /\ Range(Tail(controls)) \subseteq Range(controls)
  BY <1>1, RangeOfTail
<1> QED  BY <1>2 DEF ControlRecords

LEMMA TakenCommand ==
  ASSUME PTypeOK, commands # << >>
  PROVE  /\ Head(commands) \in CommandRecords /\ Head(commands) \in Range(commands)
         /\ Head(commands).response \in Responses /\ Head(commands).part \in Parts
         /\ Head(commands).part \in FirstParts /\ Head(commands).end \in Nat
         /\ Tail(commands) \in Seq(CommandRecords)
         /\ Range(Tail(commands)) \subseteq Range(commands)
<1>1. commands \in Seq(CommandRecords)
  BY HeldFields DEF PTypeOK, HostStates
<1>2. /\ Head(commands) \in CommandRecords /\ Head(commands) \in Range(commands)
      /\ Tail(commands) \in Seq(CommandRecords)
      /\ Range(Tail(commands)) \subseteq Range(commands)
  BY <1>1, RangeOfTail
<1> QED  BY <1>2, PartsAssumption DEF CommandRecords

LEMMA SessionPlays ==
  ASSUME PTypeOK, Session
  PROVE  AnyNext \/ UNCHANGED vars
<1>1. CASE Ready
  BY <1>1 DEF Ready, AnyNext, Server
<1>2. CASE TakesControl
  <2>1. Head(controls).response \in Responses /\ Head(controls).heard \in AnyHeards
    BY <1>2, TakenControl DEF TakesControl
  <2> QED  BY <1>2, <2>1 DEF TakesControl, AnyNext, AnyHost, Rejected
<1>3. CASE TakesCommand
  <2>1. /\ Head(commands).response \in Responses /\ Head(commands).part \in Parts
        /\ Head(commands).end \in Nat
    BY <1>3, TakenCommand DEF TakesCommand
  <2> QED  BY <1>3, <2>1 DEF TakesCommand, AnyNext, AnyHost, Rejected
<1>4. CASE Stop
  BY <1>4 DEF AnyNext
<1>5. ASSUME NEW r \in Responses, Created(r) \/ FrankieClear(r)
      PROVE  AnyNext \/ UNCHANGED vars
  BY <1>5 DEF Created, FrankieClear, AnyNext, Server
<1>6. ASSUME NEW r \in Responses, NEW cancelled \in BOOLEAN, Ended(r, cancelled)
      PROVE  AnyNext
  BY <1>6 DEF Ended, AnyNext, Server
<1>7. ASSUME NEW r \in Responses, NEW p \in Parts, NEW n \in Chunks, Delta(r, p, n)
      PROVE  AnyNext
  BY <1>7 DEF Delta, AnyNext, Server
<1>8. ASSUME NEW p \in Parts, AudioDone(p) \/ Confirmed(p)
      PROVE  UNCHANGED vars
  BY <1>8 DEF AudioDone, Confirmed
<1> QED  BY <1>1, <1>2, <1>3, <1>4, <1>5, <1>6, <1>7, <1>8 DEF Session

LEMMA StepPlays == PTypeOK /\ [PNext]_playerVars => [AnyNext]_vars
<1>1. Turn => UNCHANGED vars
  BY DEF Turn, SeesEnd, TakesEvent, Settles, TickLooks, Tick
<1>2. Idle \/ UNCHANGED playerVars => UNCHANGED vars
  BY DEF Idle, playerVars
<1> QED  BY <1>1, <1>2, SessionPlays DEF PNext

\* What the session does to the ledger keeps what the host holds true, if it
\* takes reports and positions, cuts parts where the host stopped them and takes
\* nothing for heard that was not rendered.
LEMMA LedgerMoves ==
  ASSUME TypeOK, TypeOK', Held \in HostStates, Held' \in HostStates, HostInv(Held),
         UNCHANGED hostVars,
         Range(controls') \subseteq Range(controls),
         Range(commands') \subseteq Range(commands),
         \A p \in Parts :
           /\ player[p].response # None => audio'[p].response = audio[p].response
           /\ audio[p].truncated => audio'[p].truncated
           /\ CutTrue(Held, p)' /\ HeardBelow(Held, p)'
  PROVE  HostInv(Held)'
<1>1. /\ Held'.player = player /\ Held'.order = order /\ Held'.bytes = bytes
      /\ Held'.pending = pending /\ Held'.cleared = cleared /\ Held'.late = late
      /\ Held'.controls = controls' /\ Held'.commands = commands'
  BY DEF hostVars, Held
<1>2. TracksKept(Held)'
  BY <1>1, HeldFields DEF HostInv, TracksKept
<1>3. Counted(Held)'
  BY <1>1, HeldFields DEF HostInv, Counted
<1>4. ASSUME NEW c \in Range(controls') PROVE ControlTrue(Held', c)
  <2>1. ControlTrue(Held, c)
    BY HeldFields DEF HostInv
  <2> QED  BY <1>1, <2>1, HeldFields DEF ControlTrue
<1>5. ASSUME NEW c \in Range(commands') PROVE CommandTrue(Held', c)
  <2>1. CommandTrue(Held, c)
    BY HeldFields DEF HostInv
  <2> QED  BY <1>1, <2>1, HeldFields DEF CommandTrue
<1>6. \A p \in Parts : StopAwaited(Held, p)'
  BY <1>1, HeldFields DEF HostInv, StopAwaited
<1> QED  BY <1>1, <1>2, <1>3, <1>4, <1>5, <1>6 DEF HostInv, ControlTrue, CommandTrue

\* The same of a step that leaves the positions and the cuts alone.
LEMMA NothingCut ==
  ASSUME TypeOK, TypeOK', Held \in HostStates, Held' \in HostStates, HostInv(Held),
         UNCHANGED hostVars,
         Range(controls') \subseteq Range(controls),
         Range(commands') \subseteq Range(commands),
         \A p \in Parts :
           /\ audio[p].response # None => audio'[p].response = audio[p].response
           /\ audio[p].truncated => audio[p].response # None
           /\ audio'[p].truncated = audio[p].truncated
           /\ audio'[p].heard = audio[p].heard
  PROVE  HostInv(Held)'
<1>1. /\ Held'.player = player /\ Held'.order = order /\ Held'.bytes = bytes
      /\ Held'.pending = pending /\ Held'.cleared = cleared /\ Held'.late = late
  BY DEF hostVars, Held
<1>2. ASSUME NEW p \in Parts
      PROVE  /\ player[p].response # None => audio'[p].response = audio[p].response
             /\ audio[p].truncated => audio'[p].truncated
             /\ CutTrue(Held, p)' /\ HeardBelow(Held, p)'
  <2>1. player[p].response # None => audio'[p].response = audio[p].response
    BY HeldFields DEF HostInv, TracksKept
  <2>2. CutTrue(Held, p)'
    BY <1>1, HeldFields DEF HostInv, CutTrue
  <2>3. HeardBelow(Held, p)'
    BY <1>1, HeldFields DEF HostInv, HeardBelow
  <2> QED  BY <2>1, <2>2, <2>3
<1> QED  BY <1>2, LedgerMoves

LEMMA SingleEvent ==
  ASSUME NEW e \in EventRecords
  PROVE  <<e>> \in Seq(EventRecords) /\ Range(<<e>>) = {e}
BY DEF Range

LEMMA NoEvent == << >> \in Seq(EventRecords) /\ Range(<< >>) = {}
BY DEF Range

\* The types of the host's state after a step of the session.
LEMMA EmitsType ==
  ASSUME PTypeOK, TypeOK', NEW es \in Seq(EventRecords), Emits(es),
         controls' \in Seq(ControlRecords), commands' \in Seq(CommandRecords),
         confirming' \subseteq Parts, spoken' \subseteq Parts
  PROVE  /\ PTypeOK' /\ Range(events') \subseteq Range(events) \cup Range(es)
<1>1. /\ events' = events \o es /\ UNCHANGED hostVars /\ events \in Seq(EventRecords)
      /\ Held \in HostStates
  BY DEF Emits, PTypeOK
<1>2. events' \in Seq(EventRecords) /\ Range(events') \subseteq Range(events) \cup Range(es)
  BY <1>1, RangeOfConcat
<1>3. Held' \in HostStates
  BY <1>1 DEF hostVars, Held, HostStates
<1>4. /\ host' \in {"running", "ticking", "settled", "failed"}
      /\ known' \subseteq Responses /\ finished' \subseteq Responses
      /\ overlapped' \in BOOLEAN
      /\ allowed' \subseteq Responses /\ overrun' \in [Responses -> Nat]
  BY <1>1 DEF hostVars, PTypeOK
<1> QED  BY <1>2, <1>3, <1>4 DEF PTypeOK

LEMMA LaneTypes ==
  ASSUME PTypeOK
  PROVE  controls \in Seq(ControlRecords) /\ commands \in Seq(CommandRecords)
BY HeldFields DEF PTypeOK, HostStates

\* The ledger's invariant, in a step that lists no part and cuts none.
LEMMA LedgerStays ==
  ASSUME LedgerInv, TypeOK,
         \A p \in Parts : /\ audio'[p].response = audio[p].response
                          /\ audio'[p].truncated = audio[p].truncated,
         \A r \in Responses : responses[r].cancelled => responses'[r].cancelled,
         confirming' \subseteq confirming, confirming \subseteq Parts,
         events \in Seq(EventRecords),
         \A e \in Range(events') :
           \/ e \in Range(events)
           \/ e.type \notin {"truncated", "delta"}
           \/ e.type = "truncated" /\ e.part \in confirming
  PROVE  LedgerInv'
<1>1. \A e \in Range(events) :
        e \in EventRecords /\ (e.type \in {"truncated", "delta"} => e.part \in Parts)
  <2>1. \A e \in Range(events) : e \in EventRecords
    BY DEF Range
  <2>2. \A e \in EventRecords : e.type \in {"truncated", "delta"} => e.part \in Parts
    BY DEF EventRecords
  <2> QED  BY <2>1, <2>2
<1>2. ASSUME NEW p \in Parts, ItemCut(p) PROVE ItemCut(p)'
  BY <1>2 DEF ItemCut
<1>3. \A p, q \in Parts :
        audio'[p].response # None /\ audio'[q].response # None /\ FirstOf[p] = FirstOf[q]
          => audio'[p].response = audio'[q].response
  BY DEF LedgerInv
<1>4. ASSUME NEW p \in Parts, audio'[p].truncated
      PROVE  audio'[p].response # None /\ responses'[audio'[p].response].cancelled
  <2>1. audio[p].response # None /\ responses[audio[p].response].cancelled
    BY <1>4 DEF LedgerInv
  <2>2. audio[p].response \in Responses
    BY <2>1 DEF TypeOK, PartRecords
  <2> QED  BY <2>1, <2>2
<1>5. \A p \in confirming' : ItemCut(p)'
  BY <1>2 DEF LedgerInv
<1>6. ASSUME NEW e \in Range(events')
      PROVE  /\ e.type = "truncated" => ItemCut(e.part)'
             /\ e.type = "delta" => audio'[e.part].response = e.response
  <2>1. CASE e \in Range(events)
    BY <1>1, <1>2, <2>1 DEF LedgerInv
  <2>2. CASE e.type = "truncated" /\ e.part \in confirming
    BY <1>2, <2>2 DEF LedgerInv
  <2> QED  BY <2>1, <2>2
<1> QED  BY <1>3, <1>4, <1>5, <1>6 DEF LedgerInv, ItemCut

\* The steps that leave the part ledger alone.
LEMMA QuietStep ==
  ASSUME PTypeOK, PlayerInv, TypeOK', UNCHANGED <<audio, controls, commands>>,
         NEW es \in Seq(EventRecords), Emits(es), host # "settled",
         \A r \in Responses : responses[r].cancelled => responses'[r].cancelled,
         confirming' \subseteq confirming, spoken' \subseteq Parts,
         \A e \in Range(es) :
           \/ e.type \notin {"truncated", "delta"}
           \/ e.type = "truncated" /\ e.part \in confirming
  PROVE  PTypeOK' /\ PlayerInv' /\ UNCHANGED player
<1>1. /\ TypeOK /\ Held \in HostStates /\ HostInv(Held) /\ LedgerInv
      /\ events \in Seq(EventRecords) /\ confirming \subseteq Parts
      /\ controls \in Seq(ControlRecords) /\ commands \in Seq(CommandRecords)
  BY LaneTypes DEF PTypeOK, PlayerInv
<1>2. UNCHANGED hostVars
  BY DEF Emits
<1>3. PTypeOK' /\ Range(events') \subseteq Range(events) \cup Range(es)
  BY <1>1, EmitsType
<1>4. HostInv(Held)'
  <2>1. \A p \in Parts : audio[p].truncated => audio[p].response # None
    BY <1>1 DEF LedgerInv
  <2>2. TypeOK' /\ Held' \in HostStates
    BY <1>3 DEF PTypeOK
  <2> QED  BY <1>1, <1>2, <2>1, <2>2, NothingCut
<1>5. LedgerInv'
  BY <1>1, <1>3, LedgerStays
<1> QED  BY <1>2, <1>3, <1>4, <1>5 DEF PlayerInv, hostVars

LEMMA ClearsType ==
  ASSUME NEW r \in Responses
  PROVE  /\ Clears(r) \in Seq(EventRecords)
         /\ \A e \in Range(Clears(r)) : e.type = "clear"
<1> DEFINE e == [type |-> "clear", response |-> r]
<1>1. e \in EventRecords /\ e.type = "clear"
  BY DEF EventRecords
<1>2. Clears(r) = << >> \/ Clears(r) = <<e>>
  BY DEF Clears
<1> HIDE DEF e
<1> QED  BY <1>1, <1>2, NoEvent, SingleEvent

LEMMA RejectedStep ==
  ASSUME PTypeOK, PlayerInv, Rejected, host # "settled", UNCHANGED spoken,
         controls' \in Seq(ControlRecords), Range(controls') \subseteq Range(controls),
         commands' \in Seq(CommandRecords), Range(commands') \subseteq Range(commands)
  PROVE  PTypeOK' /\ PlayerInv' /\ UNCHANGED player
<1> DEFINE e == [type |-> "rejected"]
           es == <<e>>
<1>1. e \in EventRecords /\ e.type = "rejected"
  BY DEF EventRecords
<1>2. Emits(es) /\ UNCHANGED <<vars, confirming>>
  BY DEF Rejected
<1> HIDE DEF e
<1>3. es \in Seq(EventRecords) /\ Range(es) = {e}
  BY <1>1, SingleEvent
<1> HIDE DEF es
<1>4. /\ TypeOK /\ Held \in HostStates /\ HostInv(Held) /\ LedgerInv
      /\ events \in Seq(EventRecords) /\ confirming \subseteq Parts /\ spoken \subseteq Parts
  BY DEF PTypeOK, PlayerInv
<1>5. TypeOK' /\ UNCHANGED <<audio, responses>>
  BY <1>2, <1>4 DEF vars, TypeOK
<1>6. PTypeOK' /\ Range(events') \subseteq Range(events) \cup Range(es)
  BY <1>2, <1>3, <1>4, <1>5, EmitsType
<1>7. UNCHANGED hostVars
  BY <1>2 DEF Emits
<1>8. HostInv(Held)'
  <2>1. \A p \in Parts : audio[p].truncated => audio[p].response # None
    BY <1>4 DEF LedgerInv
  <2>2. Held' \in HostStates
    BY <1>6 DEF PTypeOK
  <2> QED  BY <1>4, <1>5, <1>7, <2>1, <2>2, NothingCut
<1>9. LedgerInv'
  BY <1>1, <1>2, <1>3, <1>4, <1>5, <1>6, LedgerStays
<1> QED  BY <1>6, <1>7, <1>8, <1>9 DEF PlayerInv, hostVars

\* A stop that the session takes: it cuts what the host stopped, where it did.
LEMMA ControlStep ==
  ASSUME PTypeOK, PlayerInv, TypeOK', TakesControl, host # "settled"
  PROVE  PTypeOK' /\ PlayerInv' /\ UNCHANGED player
<1> DEFINE c == Head(controls)
           r == c.response
           heard == c.heard
<1>1. /\ c \in Range(controls) /\ r \in Responses /\ heard \in AnyHeards
      /\ controls' = Tail(controls)
      /\ controls' \in Seq(ControlRecords) /\ Range(controls') \subseteq Range(controls)
  BY TakenControl DEF TakesControl
<1>2. UNCHANGED <<commands, spoken>> /\ commands \in Seq(CommandRecords)
  BY LaneTypes DEF TakesControl
<1>3. /\ TypeOK /\ Held \in HostStates /\ HostInv(Held) /\ LedgerInv
      /\ events \in Seq(EventRecords) /\ confirming \subseteq Parts /\ spoken \subseteq Parts
  BY DEF PTypeOK, PlayerInv
<1>4. CASE ~ValidHeard(r, heard) /\ Rejected
  BY <1>1, <1>2, <1>4, RejectedStep
<1>5. CASE /\ StopSpeech(r, heard) /\ Emits(Clears(r))
           /\ confirming' = confirming
                \cup {p \in Parts : audio'[p].truncated /\ ~audio[p].truncated}
  <2> HIDE DEF c
  <2>1. ControlTrue(Held, c)
    BY <1>1, <1>3, HeldFields DEF HostInv
  <2>2. /\ r \in cleared
        /\ \A p \in Parts :
             IF p \in DOMAIN heard
             THEN /\ player[p].response = r /\ player[p].stopped
                  /\ heard[p] = Millis(player[p].played)
             ELSE player[p].response = r => r \in late
    BY <2>1, HeldFields DEF ControlTrue
  <2> HIDE DEF r, heard
  <2>3. /\ ValidHeard(r, heard) /\ Truncate(r, heard)
        /\ responses' = [responses EXCEPT ![r].cancelled = TRUE]
    BY <1>5 DEF StopSpeech
  <2>4. \A p \in Parts :
          /\ audio'[p].response = audio[p].response
          /\ audio'[p].heard = WithHeard(heard)[p].heard
          /\ audio[p].truncated => audio'[p].truncated
          /\ CanTruncate /\ audio[p].response = r => audio'[p].truncated
    BY <1>1, <1>3, <2>3, TruncateFacts
  <2>5. \A p \in Parts :
          /\ WithHeard(heard)[p].truncated = audio[p].truncated
          /\ WithHeard(heard)[p].heard = IF p \in DOMAIN heard THEN heard[p]
                                         ELSE audio[p].heard
    BY <1>1, <1>3, WithHeardFacts
  <2>6. ASSUME NEW p \in Parts, audio'[p].truncated, ~audio[p].truncated
        PROVE  CanTruncate /\ audio[p].response = r
    BY <2>3, <2>5, <2>6 DEF Truncate
  <2>7. \A p \in Parts : p \in DOMAIN heard =>
          /\ audio[p].response = r
          /\ audio[p].truncated => heard[p] = audio[p].heard
    BY <2>3 DEF ValidHeard
  <2>8. confirming' \subseteq Parts
    BY <1>3, <1>5
  <2> DEFINE es == Clears(r)
  <2>9. /\ es \in Seq(EventRecords) /\ Emits(es)
        /\ \A e \in Range(es) : e.type = "clear"
    BY <1>1, <1>5, ClearsType
  <2> HIDE DEF es
  <2>10. PTypeOK' /\ Range(events') \subseteq Range(events) \cup Range(es)
    BY <1>1, <1>2, <1>3, <2>8, <2>9, EmitsType
  <2>11. /\ UNCHANGED hostVars
         /\ Held'.player = player /\ Held'.cleared = cleared /\ Held'.late = late
    BY <2>9 DEF Emits, hostVars, Held
  <2>12. ASSUME NEW p \in Parts PROVE CutTrue(Held, p)'
    <3> SUFFICES ASSUME audio'[p].truncated
                 PROVE  /\ audio[p].response \in cleared
                        /\ player[p].response # None =>
                             \/ /\ player[p].stopped
                                /\ audio'[p].heard = Millis(player[p].played)
                             \/ player[p].response \in late
      BY <2>4, <2>11, HeldFields DEF CutTrue
    <3>1. player[p].response \in {None, audio[p].response}
      BY <1>3, HeldFields DEF HostInv, TracksKept
    <3>2. CASE audio[p].truncated
      <4>1. audio'[p].heard = audio[p].heard
        BY <2>4, <2>5, <2>7, <3>2
      <4> QED  BY <1>3, <3>2, <4>1, HeldFields DEF HostInv, CutTrue
    <3>3. CASE ~audio[p].truncated
      <4>1. audio[p].response = r
        BY <2>6, <3>3
      <4> QED  BY <2>2, <2>4, <2>5, <3>1, <4>1
    <3> QED  BY <3>2, <3>3
  <2>13. ASSUME NEW p \in Parts PROVE HeardBelow(Held, p)'
    <3>1. HeardBelow(Held, p) /\ player[p].played \in Nat
      BY <1>3, HeldFields DEF HostInv, HostStates, TrackRecords
    <3>2. Millis(player[p].played) \in Nat
      BY <3>1, MillisMonotone
    <3>3. audio'[p].heard = audio[p].heard \/ audio'[p].heard = Millis(player[p].played)
      BY <2>2, <2>4, <2>5
    <3> QED  BY <2>11, <3>1, <3>2, <3>3, HeldFields DEF HeardBelow
  <2>14. HostInv(Held)'
    <3>1. Held' \in HostStates
      BY <2>10 DEF PTypeOK
    <3> QED  BY <1>1, <1>2, <1>3, <2>4, <2>11, <2>12, <2>13, <3>1, LedgerMoves
  <2>15. LedgerInv'
    <3>1. ASSUME NEW p \in Parts, ItemCut(p) PROVE ItemCut(p)'
      BY <2>4, <3>1 DEF ItemCut
    <3>2. ASSUME NEW p \in Parts, audio'[p].truncated
          PROVE  audio'[p].response # None /\ responses'[audio'[p].response].cancelled
      <4>1. \A s \in Responses : responses[s].cancelled => responses'[s].cancelled
        BY <2>3 DEF TypeOK, ResponseRecords
      <4>2. responses'[r].cancelled
        BY <1>1, <1>3, <2>3 DEF TypeOK, ResponseRecords
      <4>3. CASE audio[p].truncated
        <5>1. audio[p].response # None /\ responses[audio[p].response].cancelled
          BY <1>3, <4>3 DEF LedgerInv
        <5>2. audio[p].response \in Responses
          BY <1>3, <5>1 DEF TypeOK, PartRecords
        <5> QED  BY <2>4, <4>1, <5>1, <5>2
      <4>4. CASE ~audio[p].truncated
        BY <1>1, <2>4, <2>6, <3>2, <4>2, <4>4, AbsentAssumption
      <4> QED  BY <4>3, <4>4
    <3>3. ASSUME NEW p \in confirming' PROVE ItemCut(p)'
      <4>1. CASE p \in confirming
        BY <1>3, <3>1, <4>1 DEF LedgerInv
      <4>2. CASE p \in Parts /\ audio'[p].truncated /\ ~audio[p].truncated
        <5>1. CanTruncate /\ audio[p].response = r /\ r # None
          BY <1>1, <2>6, <4>2, AbsentAssumption
        <5>2. \A q \in Parts : FirstOf[q] = FirstOf[p] /\ audio[q].response # None =>
                                 audio[q].response = r
          BY <1>3, <4>2, <5>1 DEF LedgerInv
        <5> QED  BY <2>4, <4>2, <5>1, <5>2 DEF ItemCut
      <4> QED  BY <1>5, <4>1, <4>2
    <3>4. ASSUME NEW e \in Range(events')
          PROVE  /\ e.type = "truncated" => ItemCut(e.part)'
                 /\ e.type = "delta" => audio'[e.part].response = e.response
      <4>1. CASE e \in Range(es)
        BY <2>9, <4>1
      <4>2. CASE e \in Range(events)
        <5>1. e \in EventRecords
          BY <1>3, <4>2 DEF Range
        <5>2. e.type \in {"truncated", "delta"} => e.part \in Parts
          BY <5>1 DEF EventRecords
        <5> QED  BY <1>3, <2>4, <3>1, <4>2, <5>2 DEF LedgerInv
      <4> QED  BY <2>10, <4>1, <4>2
    <3>5. \A p, q \in Parts :
            /\ audio'[p].response # None /\ audio'[q].response # None
            /\ FirstOf[p] = FirstOf[q]
            => audio'[p].response = audio'[q].response
      BY <1>3, <2>4 DEF LedgerInv
    <3> QED  BY <3>2, <3>3, <3>4, <3>5 DEF LedgerInv, ItemCut
  <2> QED  BY <2>10, <2>11, <2>14, <2>15 DEF PlayerInv, hostVars
<1> QED  BY <1>4, <1>5 DEF TakesControl

\* A position names an item: what it says was reached in some part of it.
LEMMA CommandStep ==
  ASSUME PTypeOK, PlayerInv, TypeOK', TakesCommand, host # "settled"
  PROVE  PTypeOK' /\ PlayerInv' /\ UNCHANGED player
<1> DEFINE c == Head(commands)
           r == c.response
           part == c.part
           end == c.end
           heard == [q \in {part} |-> end]
<1>1. /\ c \in Range(commands) /\ r \in Responses /\ part \in Parts /\ end \in Nat
      /\ commands' = Tail(commands)
      /\ commands' \in Seq(CommandRecords) /\ Range(commands') \subseteq Range(commands)
  BY TakenCommand DEF TakesCommand
<1>2. UNCHANGED <<controls, spoken>> /\ controls \in Seq(ControlRecords)
  BY LaneTypes DEF TakesCommand
<1>3. /\ TypeOK /\ Held \in HostStates /\ HostInv(Held) /\ LedgerInv
      /\ events \in Seq(EventRecords) /\ confirming \subseteq Parts /\ spoken \subseteq Parts
  BY DEF PTypeOK, PlayerInv
<1>4. CASE ~ValidHeard(r, heard) /\ Rejected
  BY <1>1, <1>2, <1>4, RejectedStep
<1>5. CASE FrankiePosition(r, part, end) /\ Emits(<< >>) /\ UNCHANGED confirming
  <2>1. CommandTrue(Held, c)
    BY <1>1, <1>3, HeldFields DEF HostInv
  <2>2. \E q \in Parts : FirstOf[q] = part /\ end <= Millis(player[q].played)
    BY <2>1, HeldFields DEF CommandTrue
  <2>3. ValidHeard(r, heard) /\ audio' = WithHeard(heard) /\ UNCHANGED responses
    BY <1>5 DEF FrankiePosition
  <2>4. heard \in AnyHeards /\ DOMAIN heard = {part} /\ heard[part] = end
    BY <1>1, OnePosition
  <2>5. \A p \in DOMAIN heard : audio[p].truncated => heard[p] = audio[p].heard
    BY <2>3 DEF ValidHeard
  <2> HIDE DEF heard, part, end, r, c
  <2>6. \A p \in Parts :
          /\ audio'[p].response = audio[p].response
          /\ audio'[p].truncated = audio[p].truncated
          /\ audio'[p].heard = IF p = part THEN end ELSE audio[p].heard
    BY <1>3, <2>3, <2>4, WithHeardFacts
  <2> DEFINE es == << >>
  <2>7. es \in Seq(EventRecords) /\ Emits(es) /\ Range(es) = {}
    BY <1>5, NoEvent
  <2> HIDE DEF es
  <2>8. PTypeOK' /\ Range(events') \subseteq Range(events)
    BY <1>1, <1>2, <1>3, <1>5, <2>7, EmitsType
  <2>9. /\ UNCHANGED hostVars
        /\ Held'.player = player /\ Held'.cleared = cleared /\ Held'.late = late
    BY <2>7 DEF Emits, hostVars, Held
  <2>10. ASSUME NEW p \in Parts PROVE CutTrue(Held, p)'
    <3>1. CutTrue(Held, p)
      BY <1>3 DEF HostInv
    <3>2. audio[p].truncated => audio'[p].heard = audio[p].heard
      BY <2>4, <2>5, <2>6
    <3> QED  BY <2>6, <2>9, <3>1, <3>2, HeldFields DEF CutTrue
  <2>11. ASSUME NEW p \in Parts PROVE HeardBelow(Held, p)'
    <3>1. HeardBelow(Held, p)
      BY <1>3 DEF HostInv
    <3>2. CASE p = part
      BY <2>2, <2>6, <2>9, <3>2 DEF HeardBelow
    <3>3. CASE p # part
      BY <2>6, <2>9, <3>1, <3>3, HeldFields DEF HeardBelow
    <3> QED  BY <3>2, <3>3
  <2>12. HostInv(Held)'
    <3>1. Held' \in HostStates
      BY <2>8 DEF PTypeOK
    <3> QED  BY <1>1, <1>2, <1>3, <2>6, <2>9, <2>10, <2>11, <3>1, LedgerMoves
  <2>13. LedgerInv'
    BY <1>3, <1>5, <2>3, <2>6, <2>8, LedgerStays
  <2> QED  BY <2>8, <2>9, <2>12, <2>13 DEF PlayerInv, hostVars
<1> QED  BY <1>4, <1>5 DEF TakesCommand

\* More of a part: of no response that is muted, hence of no item that was cut.
LEMMA DeltaStep ==
  ASSUME PTypeOK, PlayerInv, TypeOK', host # "settled",
         NEW r \in Responses, NEW p \in Parts, NEW n \in Chunks, Delta(r, p, n)
  PROVE  PTypeOK' /\ PlayerInv' /\ UNCHANGED player
<1>1. /\ TypeOK /\ Held \in HostStates /\ HostInv(Held) /\ LedgerInv
      /\ events \in Seq(EventRecords) /\ confirming \subseteq Parts /\ spoken \subseteq Parts
      /\ controls \in Seq(ControlRecords) /\ commands \in Seq(CommandRecords)
  BY LaneTypes DEF PTypeOK, PlayerInv
<1>2. /\ \A q \in Listed : FirstOf[q] = FirstOf[p] => audio[q].response = r
      /\ ~Muted(r) /\ AudioDelta(r, p, n)
      /\ UNCHANGED <<controls, commands, confirming, spoken>>
  BY DEF Delta, AudioDelta
<1>3. n \in Nat /\ r # None
  BY AudioAssumption, AbsentAssumption
<1>4. \A s \in Responses : responses[s].cancelled => responses'[s].cancelled
  BY <1>1, <1>2 DEF AudioDelta, TypeOK, ResponseRecords
<1> DEFINE e == [type |-> "delta", response |-> r, part |-> p, bytes |-> n]
           one == <<e>>
           none == << >>
<1>5. e \in EventRecords /\ e.type = "delta" /\ e.part = p /\ e.response = r
  BY <1>3 DEF EventRecords
<1>6. Emits(IF open' THEN one ELSE none)
  BY DEF Delta
<1> HIDE DEF e
<1>7. one \in Seq(EventRecords) /\ Range(one) = {e}
  BY <1>5, SingleEvent
<1>8. none \in Seq(EventRecords) /\ Range(none) = {}
  BY NoEvent
<1> HIDE DEF one, none
<1>9. CASE UNCHANGED audio /\ open' = FALSE
  BY <1>1, <1>2, <1>4, <1>6, <1>8, <1>9, QuietStep
<1>10. CASE /\ ~Unaccountable(r, p, n)
            /\ audio' = [audio EXCEPT ![p] = [Entry(r, p) EXCEPT !.bytes = @ + n]]
  <2>1. /\ Entry(r, p) \in PartRecords /\ Entry(r, p).response = r
        /\ p \notin Listed => ~Entry(r, p).truncated /\ Entry(r, p).heard = 0
        /\ p \in Listed => Entry(r, p) = audio[p]
    BY <1>1, <1>10, EntryType DEF Unaccountable, Entry
  <2>2. p \notin Listed => audio[p] = NoPart
    BY DEF Listed
  <2>3. /\ audio'[p].response = r /\ audio[p].response \in {None, r}
        /\ audio'[p].truncated = audio[p].truncated /\ audio'[p].heard = audio[p].heard
        /\ \A q \in Parts : q # p => audio'[q] = audio[q]
    <3> DEFINE x == Entry(r, p)
    <3>1. /\ [x EXCEPT !.bytes = @ + n].response = x.response
          /\ [x EXCEPT !.bytes = @ + n].truncated = x.truncated
          /\ [x EXCEPT !.bytes = @ + n].heard = x.heard
      BY <2>1 DEF PartRecords
    <3>2. audio'[p] = [x EXCEPT !.bytes = @ + n] /\ \A q \in Parts : q # p => audio'[q] = audio[q]
      BY <1>1, <1>10 DEF TypeOK
    <3> HIDE DEF x
    <3>3. /\ audio'[p].response = x.response /\ audio'[p].truncated = x.truncated
          /\ audio'[p].heard = x.heard
      BY <3>1, <3>2
    <3>4. CASE p \in Listed
      BY <2>1, <3>2, <3>3, <3>4 DEF x
    <3>5. CASE p \notin Listed
      <4>1. x.truncated \in BOOLEAN
        BY <2>1 DEF x, PartRecords
      <4>2. x.response = r /\ x.truncated = FALSE /\ x.heard = 0
        BY <2>1, <3>5, <4>1 DEF x
      <4>3. audio[p].response = None /\ audio[p].truncated = FALSE /\ audio[p].heard = 0
        BY <2>2, <3>5 DEF NoPart
      <4> QED  BY <3>2, <3>3, <4>2, <4>3
    <3> QED  BY <3>4, <3>5
  <2>4. \A q \in Parts : audio[q].response # None => q \in Listed
    BY DEF Listed, NoPart
  <2>5. \A q \in Parts : FirstOf[q] = FirstOf[p] => ~audio[q].truncated
    <3> SUFFICES ASSUME NEW q \in Parts, FirstOf[q] = FirstOf[p], audio[q].truncated
                 PROVE  FALSE
      OBVIOUS
    <3>1. audio[q].response # None /\ responses[audio[q].response].cancelled
      BY <1>1 DEF LedgerInv
    <3>2. audio[q].response = r
      BY <1>2, <2>4, <3>1
    <3> QED  BY <1>2, <3>1, <3>2 DEF Muted
  <2>6. ASSUME NEW q \in Parts, ItemCut(q) PROVE ItemCut(q)'
    <3>1. FirstOf[q] # FirstOf[p]
      BY <2>5, <2>6 DEF ItemCut
    <3>2. \A s \in Parts : FirstOf[s] = FirstOf[q] => audio'[s] = audio[s]
      BY <2>3, <3>1
    <3> QED  BY <2>6, <3>2 DEF ItemCut
  <2> DEFINE es == IF open' THEN one ELSE none
  <2>7. /\ es \in Seq(EventRecords) /\ Emits(es)
        /\ \A d \in Range(es) : d = e
    BY <1>6, <1>7, <1>8
  <2> HIDE DEF es
  <2>8. PTypeOK' /\ Range(events') \subseteq Range(events) \cup Range(es)
    BY <1>1, <1>2, <2>7, EmitsType
  <2>9. UNCHANGED hostVars
    BY <2>7 DEF Emits
  <2>10. HostInv(Held)'
    <3>1. Held' \in HostStates
      BY <2>8 DEF PTypeOK
    <3>2. \A q \in Parts :
            /\ audio[q].response # None => audio'[q].response = audio[q].response
            /\ audio[q].truncated => audio[q].response # None
            /\ audio'[q].truncated = audio[q].truncated
            /\ audio'[q].heard = audio[q].heard
      BY <1>1, <2>3 DEF LedgerInv
    <3> QED  BY <1>1, <1>2, <2>9, <3>1, <3>2, NothingCut
  <2>11. LedgerInv'
    <3>1. \A q, s \in Parts :
            /\ audio'[q].response # None /\ audio'[s].response # None
            /\ FirstOf[q] = FirstOf[s]
            => audio'[q].response = audio'[s].response
      BY <1>1, <1>2, <2>3, <2>4 DEF LedgerInv
    <3>2. ASSUME NEW q \in Parts, audio'[q].truncated
          PROVE  audio'[q].response # None /\ responses'[audio'[q].response].cancelled
      <4>1. q # p /\ audio'[q] = audio[q]
        BY <2>3, <2>5, <3>2
      <4>2. audio[q].response # None /\ responses[audio[q].response].cancelled
        BY <1>1, <3>2, <4>1 DEF LedgerInv
      <4>3. audio[q].response \in Responses
        BY <1>1, <4>2 DEF TypeOK, PartRecords
      <4> QED  BY <1>4, <4>1, <4>2, <4>3
    <3>3. \A q \in confirming' : ItemCut(q)'
      BY <1>1, <1>2, <2>6 DEF LedgerInv
    <3>4. ASSUME NEW d \in Range(events')
          PROVE  /\ d.type = "truncated" => ItemCut(d.part)'
                 /\ d.type = "delta" => audio'[d.part].response = d.response
      <4>1. CASE d = e
        BY <1>5, <2>3, <4>1
      <4>2. CASE d \in Range(events)
        <5>1. d \in EventRecords
          BY <1>1, <4>2 DEF Range
        <5>2. /\ d.type \in {"truncated", "delta"} => d.part \in Parts
              /\ d.type = "delta" => d.response \in Responses /\ d.response # None
          BY <5>1, AbsentAssumption DEF EventRecords
        <5> QED  BY <1>1, <2>3, <2>6, <4>2, <5>2 DEF LedgerInv
      <4> QED  BY <2>7, <2>8, <4>1, <4>2
    <3> QED  BY <3>1, <3>2, <3>3, <3>4 DEF LedgerInv, ItemCut
  <2> QED  BY <2>8, <2>9, <2>10, <2>11 DEF PlayerInv, hostVars
<1> QED  BY <1>2, <1>9, <1>10 DEF AudioDelta

\* The session's steps.
LEMMA SessionStep ==
  ASSUME PTypeOK, PlayerInv, TypeOK', Session
  PROVE  PTypeOK' /\ PlayerInv' /\ UNCHANGED player
<1>1. /\ TypeOK /\ Held \in HostStates /\ HostInv(Held) /\ LedgerInv /\ host # "settled"
      /\ confirming \subseteq Parts /\ spoken \subseteq Parts
      /\ events \in Seq(EventRecords)
  BY DEF PTypeOK, PlayerInv, Session
<1>2. CASE Ready \/ (Stop /\ UNCHANGED <<hostVars, laneVars>>)
  <2>1. UNCHANGED <<audio, responses, hostVars, laneVars>>
    BY <1>2 DEF Ready, Stop, SessionUpdated
  <2>2. UNCHANGED Held
    BY <2>1 DEF Held, hostVars, laneVars
  <2>3. PTypeOK'
    BY <1>1, <2>1, <2>2 DEF PTypeOK, hostVars, laneVars
  <2>4. HostInv(Held)'
    BY <1>1, <2>1, <2>2
    DEF HostInv, TracksKept, Counted, ControlTrue, CommandTrue, CutTrue, StopAwaited,
        HeardBelow
  <2>5. LedgerInv'
    BY <1>1, <2>1, LedgerStays DEF laneVars
  <2> QED  BY <1>1, <2>1, <2>3, <2>4, <2>5 DEF PlayerInv, hostVars
<1>3. CASE TakesControl
  BY <1>1, <1>3, ControlStep
<1>4. CASE TakesCommand
  BY <1>1, <1>4, CommandStep
<1>5. ASSUME NEW r \in Responses, Created(r)
      PROVE  PTypeOK' /\ PlayerInv' /\ UNCHANGED player
  <2> DEFINE e == [type |-> "created", response |-> r]
             es == <<e>>
  <2>1. e \in EventRecords /\ e.type = "created"
    BY DEF EventRecords
  <2>2. /\ Emits(es) /\ UNCHANGED <<audio, controls, commands, confirming, spoken>>
        /\ \A s \in Responses : responses[s].cancelled => responses'[s].cancelled
    BY <1>1, <1>5 DEF Created, ResponseCreated, TypeOK, ResponseRecords
  <2> HIDE DEF e
  <2>3. es \in Seq(EventRecords) /\ Range(es) = {e}
    BY <2>1, SingleEvent
  <2> HIDE DEF es
  <2> QED  BY <1>1, <2>1, <2>2, <2>3, QuietStep
<1>6. ASSUME NEW r \in Responses, FrankieClear(r)
      PROVE  PTypeOK' /\ PlayerInv' /\ UNCHANGED player
  <2> DEFINE e == [type |-> "clear", response |-> r]
             es == <<e>>
  <2>1. e \in EventRecords /\ e.type = "clear"
    BY DEF EventRecords
  <2>2. /\ Emits(es)
        /\ UNCHANGED <<audio, responses, controls, commands, confirming, spoken>>
    BY <1>6 DEF FrankieClear, vars
  <2> HIDE DEF e
  <2>3. es \in Seq(EventRecords) /\ Range(es) = {e}
    BY <2>1, SingleEvent
  <2> HIDE DEF es
  <2> QED  BY <1>1, <2>1, <2>2, <2>3, QuietStep
<1>7. ASSUME NEW r \in Responses, NEW cancelled \in BOOLEAN, Ended(r, cancelled)
      PROVE  PTypeOK' /\ PlayerInv' /\ UNCHANGED player
  <2> DEFINE e == [type |-> "response.done", response |-> r]
             one == <<e>>
             clears == IF cancelled THEN Clears(r) ELSE << >>
             es == clears \o one
  <2>1. e \in EventRecords /\ e.type = "response.done"
    BY DEF EventRecords
  <2>2. /\ Emits(es) /\ UNCHANGED <<audio, controls, commands, confirming, spoken>>
        /\ \A s \in Responses : responses[s].cancelled => responses'[s].cancelled
    BY <1>1, <1>7 DEF Ended, ResponseDone, TypeOK, ResponseRecords
  <2> HIDE DEF e
  <2>3. one \in Seq(EventRecords) /\ Range(one) = {e}
    BY <2>1, SingleEvent
  <2>4. clears \in Seq(EventRecords) /\ \A d \in Range(clears) : d.type = "clear"
    BY ClearsType, NoEvent
  <2> HIDE DEF one, clears
  <2>5. es \in Seq(EventRecords) /\ Range(es) \subseteq Range(clears) \cup Range(one)
    BY <2>3, <2>4, RangeOfConcat
  <2>6. \A d \in Range(es) : d.type \notin {"truncated", "delta"}
    BY <2>1, <2>3, <2>4, <2>5
  <2> HIDE DEF es
  <2> QED  BY <1>1, <2>2, <2>5, <2>6, QuietStep
<1>8. ASSUME NEW r \in Responses, NEW p \in Parts, NEW n \in Chunks, Delta(r, p, n)
      PROVE  PTypeOK' /\ PlayerInv' /\ UNCHANGED player
  BY <1>1, <1>8, DeltaStep
<1>9. ASSUME NEW p \in Parts, AudioDone(p)
      PROVE  PTypeOK' /\ PlayerInv' /\ UNCHANGED player
  <2> DEFINE e == [type |-> "audio.done", part |-> p]
             es == <<e>>
  <2>1. e \in EventRecords /\ e.type = "audio.done"
    BY DEF EventRecords
  <2>2. /\ Emits(es) /\ UNCHANGED <<audio, responses, controls, commands, confirming>>
        /\ spoken' \subseteq Parts
    BY <1>1, <1>9 DEF AudioDone, vars
  <2> HIDE DEF e
  <2>3. es \in Seq(EventRecords) /\ Range(es) = {e}
    BY <2>1, SingleEvent
  <2> HIDE DEF es
  <2> QED  BY <1>1, <2>1, <2>2, <2>3, QuietStep
<1>10. ASSUME NEW p \in Parts, Confirmed(p)
       PROVE  PTypeOK' /\ PlayerInv' /\ UNCHANGED player
  <2> DEFINE e == [type |-> "truncated", part |-> p]
             es == <<e>>
  <2>1. e \in EventRecords /\ e.type = "truncated" /\ e.part = p
    BY DEF EventRecords
  <2>2. /\ Emits(es) /\ UNCHANGED <<audio, responses, controls, commands, spoken>>
        /\ p \in confirming /\ confirming' \subseteq confirming
    BY <1>10 DEF Confirmed, vars
  <2> HIDE DEF e
  <2>3. es \in Seq(EventRecords) /\ Range(es) = {e}
    BY <2>1, SingleEvent
  <2> HIDE DEF es
  <2> QED  BY <1>1, <2>1, <2>2, <2>3, QuietStep
<1> QED
  BY <1>2, <1>3, <1>4, <1>5, <1>6, <1>7, <1>8, <1>9, <1>10 DEF Session

\* Every step keeps the invariant, and renders only what the tick saw allowed.
LEMMA PlayerStep ==
  ASSUME PTypeOK, PlayerInv, [PNext]_playerVars
  PROVE  /\ PTypeOK' /\ PlayerInv'
         /\ \A p \in Parts :
              player'[p].played > player[p].played => player[p].response \in allowed
<1>1. \A p \in Parts : player[p].played \in Nat
  BY HeldFields DEF PTypeOK, HostStates, TrackRecords
<1>2. CASE Turn
  BY <1>2, TurnStep
<1>3. CASE Session
  <2>1. TypeOK'
    BY StepPlays, TypeStep DEF PTypeOK
  <2>2. PTypeOK' /\ PlayerInv' /\ UNCHANGED player
    BY <1>3, <2>1, SessionStep
  <2> QED  BY <1>1, <2>2
<1>4. CASE Idle \/ UNCHANGED playerVars
  <2>1. UNCHANGED <<vars, hostVars, laneVars>>
    BY <1>4 DEF Idle, playerVars
  <2>2. UNCHANGED Held
    BY <2>1 DEF Held, hostVars, laneVars
  <2>3. PTypeOK'
    BY <2>1, <2>2 DEF PTypeOK, TypeOK, vars, hostVars, laneVars
  <2>4. PlayerInv'
    BY <2>1, <2>2
    DEF PlayerInv, vars, hostVars, laneVars, HostInv, TracksKept, Counted, ControlTrue,
        CommandTrue, CutTrue, StopAwaited, HeardBelow, LedgerInv, ItemCut
  <2> QED  BY <1>1, <2>1, <2>3, <2>4 DEF hostVars
<1> QED  BY <1>2, <1>3, <1>4 DEF PNext

\* What the watch does not allow it never allows again.
LEMMA WatchNarrows ==
  ASSUME TypeOK, [AnyNext]_vars, NEW r \in Responses, ~Allows(r)
  PROVE  ~Allows(r)'
<1>1. CASE Over \/ Stop \/ UNCHANGED vars
  BY <1>1 DEF Over, Stop, vars, Allows
<1>2. CASE Server
  <2>1. CASE \E report \in Formats \cup {None}, feedback \in BOOLEAN :
               SessionUpdated(report, feedback)
    BY <2>1 DEF SessionUpdated, Allows
  <2>2. ASSUME NEW q \in Responses, NEW report, ResponseCreated(q, report)
        PROVE  ~Allows(r)'
    BY <2>2 DEF ResponseCreated, Allows, TypeOK, ResponseRecords
  <2>3. ASSUME NEW q \in Responses, NEW p, NEW n, AudioDelta(q, p, n)
        PROVE  ~Allows(r)'
    BY <2>3 DEF AudioDelta, Allows, TypeOK, ResponseRecords
  <2>4. ASSUME NEW q \in Responses, NEW cancelled \in BOOLEAN, ResponseDone(q, cancelled)
        PROVE  ~Allows(r)'
    BY <2>4 DEF ResponseDone, Allows, TypeOK, ResponseRecords
  <2> QED  BY <1>2, <2>1, <2>2, <2>3, <2>4 DEF Server
<1>3. CASE AnyHost
  BY <1>3 DEF AnyHost, Respond, StopSpeech, FrankiePosition, Allows, TypeOK,
     ResponseRecords
<1> QED  BY <1>1, <1>2, <1>3 DEF AnyNext

\* What was rendered of a response after the watch stopped allowing it was one
\* frame, of a tick that had looked before, and no tick to come will render of it.
FrameInv ==
  \A r \in Responses :
    overrun[r] <= 1 /\ (overrun[r] > 0 => ~Allows(r) /\ r \notin allowed)

LEMMA FrameStep ==
  ASSUME PTypeOK, PlayerInv, FrameInv, [PNext]_playerVars
  PROVE  FrameInv'
<1> SUFFICES ASSUME NEW r \in Responses
             PROVE  /\ overrun'[r] <= 1
                    /\ overrun'[r] > 0 => ~Allows(r)' /\ r \notin allowed'
  BY DEF FrameInv
<1>1. /\ overrun[r] \in Nat /\ overrun[r] <= 1
      /\ overrun[r] > 0 => ~Allows(r) /\ r \notin allowed
  BY DEF PTypeOK, FrameInv
<1>2. ~Allows(r) => ~Allows(r)'
  BY StepPlays, WatchNarrows DEF PTypeOK
<1>3. CASE UNCHANGED <<overrun, allowed>>
  BY <1>1, <1>2, <1>3
<1>4. CASE TickLooks
  <2>1. UNCHANGED overrun /\ (r \in allowed' => Allows(r))
    BY <1>4 DEF TickLooks
  <2> QED  BY <1>1, <1>2, <2>1
<1>5. ASSUME NEW interrupts \in BOOLEAN, NEW position \in BOOLEAN,
             Tick(interrupts, position)
      PROVE  /\ overrun'[r] <= 1
             /\ overrun'[r] > 0 => ~Allows(r)' /\ r \notin allowed'
  <2>1. /\ allowed' = {}
        /\ overrun'[r] = IF r \in Sounds /\ ~Allows(r) THEN overrun[r] + 1 ELSE overrun[r]
    BY <1>5 DEF Tick
  <2>2. r \in Sounds => r \in allowed
    BY PlayerStep DEF Sounds
  <2> QED  BY <1>1, <1>2, <2>1, <2>2
<1>6. CASE TakesEvent \/ Settles \/ SeesEnd \/ Session \/ Idle \/ UNCHANGED playerVars
  <2>1. Session => UNCHANGED hostVars
    BY DEF Session, Ready, TakesControl, TakesCommand, Rejected, Created, FrankieClear,
       Ended, Delta, AudioDone, Confirmed, Emits
  <2> QED
    BY <1>3, <1>6, <2>1 DEF TakesEvent, Settles, SeesEnd, Idle, playerVars, hostVars
<1> QED  BY <1>4, <1>5, <1>6 DEF PNext, Turn

LEMMA PlayerStart == PInit => PTypeOK /\ PlayerInv
<1> SUFFICES ASSUME PInit PROVE PTypeOK /\ PlayerInv
  OBVIOUS
<1>1. TypeOK
  BY TypeStart DEF PInit
<1>2. /\ host = "running" /\ player = [p \in Parts |-> NoTrack] /\ order = << >>
      /\ bytes = 0 /\ pending = {} /\ cleared = {} /\ late = {}
      /\ known = {} /\ finished = {} /\ overlapped = FALSE
      /\ allowed = {} /\ overrun = [r \in Responses |-> 0]
      /\ events = << >> /\ controls = << >> /\ commands = << >>
      /\ confirming = {} /\ spoken = {} /\ audio = [p \in Parts |-> NoPart]
  BY DEF PInit, Init
<1>3. NoTrack \in TrackRecords
  BY DEF NoTrack, TrackRecords
<1>4. player \in [Parts -> TrackRecords]
  BY <1>2, <1>3
<1>5. Held \in HostStates
  <2>1. /\ order \in Seq(Parts) /\ bytes \in Int /\ pending \in SUBSET FirstParts
        /\ cleared \in SUBSET Responses /\ late \in SUBSET Responses
        /\ controls \in Seq(ControlRecords) /\ commands \in Seq(CommandRecords)
    BY <1>2
  <2> QED  BY <1>4, <2>1 DEF Held, HostStates
<1>6. PTypeOK
  <2>1. events \in Seq(EventRecords)
    BY <1>2
  <2> QED  BY <1>1, <1>2, <1>5, <2>1 DEF PTypeOK
<1>7. Range(order) = {} /\ Range(controls) = {} /\ Range(commands) = {}
      /\ Range(events) = {}
  BY <1>2 DEF Range
<1>8. \A p \in Parts : /\ player[p] = NoTrack /\ player[p].response = None
                       /\ ~player[p].stopped /\ player[p].queued = 0
                       /\ player[p].played = 0
  BY <1>2 DEF NoTrack
<1>9. \A p \in Parts : ~audio[p].truncated /\ audio[p].heard = 0 /\ audio[p].response = None
  BY <1>2 DEF NoPart
<1>10. TracksKept(Held)
  BY <1>7, <1>8, HeldFields DEF TracksKept
<1>11. Counted(Held)
  <2> DEFINE f == Queue(player)
  <2>1. f \in [Parts -> Nat] /\ \A p \in Parts : f[p] = 0
    BY <1>8 DEF Queue
  <2> HIDE DEF f
  <2>2. Total(f) = 0
    BY <2>1, TotalNothing
  <2> QED  BY <1>2, <2>2, HeldFields, PlayerAssumption DEF Counted, f
<1>12. \A p \in Parts : CutTrue(Held, p) /\ StopAwaited(Held, p) /\ HeardBelow(Held, p)
  <2>1. Millis(0) \in Nat
    BY MillisMonotone
  <2> QED  BY <1>8, <1>9, <2>1, HeldFields DEF CutTrue, StopAwaited, HeardBelow
<1>13. HostInv(Held)
  BY <1>7, <1>10, <1>11, <1>12, HeldFields DEF HostInv
<1>14. LedgerInv
  BY <1>2, <1>7, <1>9 DEF LedgerInv
<1> QED  BY <1>2, <1>6, <1>13, <1>14 DEF PlayerInv

LEMMA PlayerHolds == PSpec => [](PTypeOK /\ PlayerInv)
<1>1. PTypeOK /\ PlayerInv /\ [PNext]_playerVars => (PTypeOK /\ PlayerInv)'
  BY PlayerStep
<1> QED  BY <1>1, PlayerStart, PTL DEF PSpec

-----------------------------------------------------------------------------
(* Theorems.                                                               *)

\* What the host, the lanes and the session hold is of its kind.
THEOREM PlayerTypes == PSpec => []PTypeOK
<1> QED  BY PlayerHolds, PTL

\* Whatever the host of the example does, the session behind it is a session of
\* Playback: its theorems hold of this composition.
THEOREM PlayerPlays == PSpec => AnySpec
<1>1. PInit => Init
  BY DEF PInit
<1> QED  BY <1>1, StepPlays, PlayerTypes, PTL DEF PSpec, AnySpec

\* Of a stopped response the endpoint keeps what the ledger has as heard, of every
\* part, once, and never more than arrived, with this host too.
THEOREM LedgerOfHost ==
  PSpec => [](TypeOK /\ TruncatedAtHeard /\ NoPartEscapes /\ HeardWithinReceived)
<1>1. PlaybackInv => TruncatedAtHeard /\ NoPartEscapes
  BY DEF PlaybackInv
<1> QED  BY <1>1, PlayerPlays, AnyTypeCorrect, PlaybackHolds, HeardHolds, PTL

\* The byte count the player's limit and a turn's end rest on is exact.
THEOREM BytesExact == PSpec => []BytesCounted
<1>1. PlayerInv => BytesCounted
  BY HeldFields DEF PlayerInv, HostInv, Counted, Queue, BytesCounted
<1> QED  BY <1>1, PlayerHolds, PTL

\* The session takes nothing for heard that the host did not render, of the part or of
\* another of the item it leads.
THEOREM HeardWasRendered == PSpec => []HeardRendered
<1>1. PlayerInv => HeardRendered
  BY HeldFields DEF PlayerInv, HostInv, HeardBelow, HeardRendered
<1> QED  BY <1>1, PlayerHolds, PTL

\* A turn that ended left the endpoint cut where the player stopped.
THEOREM SettledOnTheCut == PSpec => []SettledCut
<1>1. ASSUME PTypeOK, PlayerInv PROVE SettledCut
  <2> SUFFICES ASSUME host = "settled", NEW p \in Range(order), player[p].stopped
               PROVE  /\ audio[p].truncated
                      /\ \/ audio[p].heard = Millis(player[p].played)
                         \/ player[p].response \in late
    BY DEF SettledCut
  <2>1. p \in Parts
    BY <1>1, HeldFields DEF PTypeOK, HostStates, Range
  <2>2. /\ pending = {} /\ CutTrue(Held, p) /\ StopAwaited(Held, p)
        /\ player[p].response # None
    BY <1>1, <2>1, HeldFields DEF PlayerInv, HostInv, TracksKept
  <2> QED  BY <2>2, HeldFields DEF CutTrue, StopAwaited
<1> QED  BY <1>1, PlayerHolds, PTL

\* Once the watch does not allow a response, at most the frame of the tick that had
\* looked at it before is rendered of it, whatever the session and the endpoint do.
THEOREM WatchObeyed == PSpec => []StopsWithinAFrame
<1>1. PInit => FrameInv
  BY DEF PInit, FrameInv
<1>2. PTypeOK /\ PlayerInv /\ FrameInv /\ [PNext]_playerVars => FrameInv'
  BY FrameStep
<1>3. FrameInv => StopsWithinAFrame
  BY DEF FrameInv, StopsWithinAFrame
<1> QED  BY <1>1, <1>2, <1>3, PlayerHolds, PTL DEF PSpec

\* What the endpoint was told, once, of a part the player stopped is what was
\* rendered of it, to the millisecond, when a turn ended without late parts.
THEOREM ToldTheRendered ==
  PSpec =>
    [](host = "settled" /\ CanTruncate =>
         \A p \in Range(order) :
           player[p].stopped /\ player[p].response \notin late =>
             truncations[p] = <<Millis(player[p].played)>>)
<1> DEFINE Cut ==
      host = "settled" /\ CanTruncate =>
        \A p \in Range(order) :
          player[p].stopped /\ player[p].response \notin late =>
            truncations[p] = <<Millis(player[p].played)>>
<1>1. ASSUME PTypeOK, SettledCut, TruncatedAtHeard PROVE Cut
  <2>1. Range(order) \subseteq Parts
    BY <1>1, HeldFields DEF PTypeOK, HostStates, Range
  <2> QED  BY <1>1, <2>1 DEF SettledCut, TruncatedAtHeard
<1> HIDE DEF Cut
<1>2. PSpec => []Cut
  BY <1>1, PlayerTypes, SettledOnTheCut, LedgerOfHost, PTL
<1> QED  BY <1>2 DEF Cut
=============================================================================
