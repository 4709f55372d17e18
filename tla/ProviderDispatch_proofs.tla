---------------------- MODULE ProviderDispatch_proofs ----------------------
(***************************************************************************)
(* Proofs about ProviderDispatch, for any workers, lease lengths, challenge *)
(* lifetimes and bounds.                                                   *)
(***************************************************************************)
EXTENDS ProviderDispatch, SequenceTheorems, FiniteSetTheorems,
        WellFoundedInduction, TLAPS

-----------------------------------------------------------------------------
(* The last element of a set of positions *)

\* A nonempty set of positions up to n has a last one.
LEMMA LastOfBounded ==
    ASSUME NEW n \in Nat, NEW S \in SUBSET (1..n), S # {}
    PROVE  /\ LastOf(S) \in S
           /\ \A j \in S : j <= LastOf(S)
<1> DEFINE T == {n - i : i \in S}
<1>1. T \subseteq Nat /\ T # {}
  <2>1. PICK i \in S : TRUE
    OBVIOUS
  <2>2. n - i \in T
    BY <2>1
  <2>3. \A j \in S : n - j \in Nat
    OBVIOUS
  <2>4. QED
    BY <2>2, <2>3
<1>2. PICK x \in T : \A y \in T : ~(<<y, x>> \in OpToRel(<, Nat))
  BY <1>1, NatLessThanWellFounded, WFMin
<1>3. \A y \in T : ~(y < x)
  BY <1>1, <1>2 DEF OpToRel
<1>4. PICK i \in S : x = n - i
  OBVIOUS
<1>5. \A j \in S : j <= i
  <2>1. SUFFICES ASSUME NEW j \in S PROVE j <= i
    OBVIOUS
  <2>2. n - j \in T
    OBVIOUS
  <2>3. ~(n - j < n - i)
    BY <1>3, <1>4, <2>2
  <2>4. QED
    BY <2>3
<1>6. QED
  BY <1>5 DEF LastOf

-----------------------------------------------------------------------------
(* Records *)

LEMMA NoEnvelopeType == NoEnvelope \in Envelope
BY DEF NoEnvelope, Envelope

LEMMA NoEvidenceType == NoEvidence \in Evidence
BY NoEnvelopeType DEF NoEvidence, Evidence, Outcomes

LEMMA EventType ==
    ASSUME NEW e \in Event
    PROVE  /\ e.kind \in EventKinds
           /\ e.claim \in Nat
           /\ e.worker \in Workers
           /\ e.epoch \in Nat
           /\ e.expiry \in Nat
           /\ e.evidence \in Evidence
BY DEF Event

\* An event about a claim of the history is an event, with the fields it copies.
LEMMA EventAboutType ==
    ASSUME NEW l \in Seq(Event), NEW c \in DOMAIN l, NEW kind \in EventKinds,
           NEW expiry \in Nat, NEW previous \in Nat, NEW ev \in Evidence
    PROVE  /\ EventAbout(l, c, kind, expiry, previous, ev) \in Event
           /\ EventAbout(l, c, kind, expiry, previous, ev).kind = kind
           /\ EventAbout(l, c, kind, expiry, previous, ev).claim = c
<1>1. l[c] \in Event
  OBVIOUS
<1>2. c \in Nat
  OBVIOUS
<1>3. l[c].worker \in Workers /\ l[c].epoch \in Nat
  BY <1>1, EventType
<1>4. QED
  BY <1>2, <1>3 DEF EventAbout, Event

-----------------------------------------------------------------------------
(* Claim histories *)

LEMMA AppendFacts ==
    ASSUME NEW l \in Seq(Event), NEW e \in Event
    PROVE  /\ Append(l, e) \in Seq(Event)
           /\ Len(Append(l, e)) = Len(l) + 1
           /\ DOMAIN Append(l, e) = 1..(Len(l) + 1)
           /\ \A i \in 1..Len(l) : Append(l, e)[i] = l[i]
           /\ Append(l, e)[Len(l) + 1] = e
OBVIOUS

\* A claim refers to itself, every other event to an earlier claim.
ReferToClaims(l) ==
    \A i \in DOMAIN l :
        IF l[i].kind = "CLAIMED"
        THEN l[i].claim = i
        ELSE /\ l[i].claim \in 1..(i - 1)
             /\ l[l[i].claim].kind = "CLAIMED"

OneOpen(l) == \A i, j \in DOMAIN l : IsOpen(l, i) /\ IsOpen(l, j) => i = j

NotWrittenOff(l) ==
    \A c \in Indices(l, "CLAIMED") :
        Has(l, c, "SUBMITTED")
            => ~Has(l, c, "EXPIRED") /\ ~Has(l, c, "ATTEMPT_FAILED")

\* What makes a claim history sound.
Sound(l) == ReferToClaims(l) /\ OneOpen(l) /\ NotWrittenOff(l)

\* Positions of a kind, when a last one exists.
LEMMA LastOfSubset ==
    ASSUME NEW l \in Seq(Event), NEW S \in SUBSET (DOMAIN l)
    PROVE  LastOf(S) # 0 => /\ LastOf(S) \in S
                            /\ \A j \in S : j <= LastOf(S)
<1>1. Len(l) \in Nat /\ DOMAIN l = 1..Len(l)
  OBVIOUS
<1>2. CASE S = {}
  BY <1>2 DEF LastOf
<1>3. CASE S # {}
  BY <1>1, <1>3, LastOfBounded
<1>4. QED
  BY <1>2, <1>3

\* The current claim is an open claim of the history, and the newest one.
LEMMA LatestClaimOpen ==
    ASSUME NEW l \in Seq(Event), LatestClaim(l) # 0
    PROVE  /\ LatestClaim(l) \in DOMAIN l
           /\ IsOpen(l, LatestClaim(l))
           /\ LatestClaim(l) \in Indices(l, "CLAIMED")
           /\ \A i \in DOMAIN l : IsOpen(l, i) => i <= LatestClaim(l)
<1> DEFINE S == {i \in DOMAIN l : IsOpen(l, i)}
<1>1. LatestClaim(l) = LastOf(S)
  BY DEF LatestClaim
<1>2. LastOf(S) \in S /\ \A j \in S : j <= LastOf(S)
  BY <1>1, LastOfSubset
<1>3. QED
  BY <1>1, <1>2 DEF Indices, IsOpen

\* No claim is current when none is open.
LEMMA NoLatestClaim ==
    ASSUME NEW l \in Seq(Event), LatestClaim(l) = 0
    PROVE  \A i \in DOMAIN l : ~IsOpen(l, i)
<1> DEFINE S == {i \in DOMAIN l : IsOpen(l, i)}
<1>1. SUFFICES ASSUME S # {} PROVE FALSE
  OBVIOUS
<1>2. Len(l) \in Nat /\ DOMAIN l = 1..Len(l)
  OBVIOUS
<1>3. LastOf(S) \in S
  BY <1>1, <1>2, LastOfBounded
<1>4. QED
  BY <1>2, <1>3 DEF LatestClaim

\* An appended event leaves every claim open that was open, unless it ends it.
LEMMA OpenAfterAppend ==
    ASSUME NEW l \in Seq(Event), NEW e \in Event,
           NEW i \in DOMAIN Append(l, e), IsOpen(Append(l, e), i)
    PROVE  \/ i = Len(l) + 1 /\ e.kind = "CLAIMED"
           \/ /\ i \in DOMAIN l
              /\ IsOpen(l, i)
              /\ e.claim = i => e.kind \notin TerminalEventTypes
<1> DEFINE a == Append(l, e)
<1>1. /\ Len(l) \in Nat
      /\ DOMAIN l = 1..Len(l)
      /\ DOMAIN a = 1..(Len(l) + 1)
      /\ \A j \in 1..Len(l) : a[j] = l[j]
      /\ a[Len(l) + 1] = e
  BY AppendFacts
<1>2. CASE i = Len(l) + 1
  BY <1>1, <1>2 DEF IsOpen
<1>3. CASE i # Len(l) + 1
  <2>1. i \in 1..Len(l)
    BY <1>1, <1>3
  <2>2. a[i].kind = "CLAIMED"
    BY DEF IsOpen
  <2>3. \A j \in DOMAIN a : j > i /\ a[j].claim = i => a[j].kind \notin TerminalEventTypes
    BY DEF IsOpen
  <2>4. IsOpen(l, i)
    BY <1>1, <2>1, <2>2, <2>3 DEF IsOpen
  <2>5. e.claim = i => e.kind \notin TerminalEventTypes
    BY <1>1, <2>1, <2>3
  <2>6. QED
    BY <1>1, <2>1, <2>4, <2>5
<1>4. QED
  BY <1>2, <1>3

\* The events of a claim after an append.
LEMMA HasAfterAppend ==
    ASSUME NEW l \in Seq(Event), NEW e \in Event, NEW c, NEW kind
    PROVE  Has(Append(l, e), c, kind) <=>
              Has(l, c, kind) \/ (e.claim = c /\ e.kind = kind)
<1> DEFINE a == Append(l, e)
<1>1. /\ Len(l) \in Nat
      /\ DOMAIN l = 1..Len(l)
      /\ DOMAIN a = 1..(Len(l) + 1)
      /\ \A j \in 1..Len(l) : a[j] = l[j]
      /\ a[Len(l) + 1] = e
  BY AppendFacts
<1>2. Has(a, c, kind) <=> \E j \in DOMAIN a : a[j].kind = kind /\ a[j].claim = c
  BY DEF Has, EventsOf, Indices
<1>3. Has(l, c, kind) <=> \E j \in DOMAIN l : l[j].kind = kind /\ l[j].claim = c
  BY DEF Has, EventsOf, Indices
<1>4. QED
  BY <1>1, <1>2, <1>3

\* Appending an event about a claim keeps a history sound, provided a submission
\* is recorded for an open claim only and a submitted claim is not written off.
LEMMA SoundAfterEvent ==
    ASSUME NEW l \in Seq(Event), Sound(l), NEW e \in Event,
           e.kind # "CLAIMED",
           e.claim \in Indices(l, "CLAIMED"),
           e.kind = "SUBMITTED" => IsOpen(l, e.claim),
           e.kind \in {"EXPIRED", "ATTEMPT_FAILED"} => ~Has(l, e.claim, "SUBMITTED")
    PROVE  Sound(Append(l, e))
<1> DEFINE a == Append(l, e)
<1>1. /\ Len(l) \in Nat
      /\ DOMAIN l = 1..Len(l)
      /\ DOMAIN a = 1..(Len(l) + 1)
      /\ \A j \in 1..Len(l) : a[j] = l[j]
      /\ a[Len(l) + 1] = e
  BY AppendFacts
<1>2. e.claim \in 1..Len(l) /\ l[e.claim].kind = "CLAIMED"
  BY <1>1 DEF Indices
<1>3. ReferToClaims(a)
  <2>1. SUFFICES ASSUME NEW i \in 1..(Len(l) + 1)
                 PROVE  IF a[i].kind = "CLAIMED"
                        THEN a[i].claim = i
                        ELSE /\ a[i].claim \in 1..(i - 1)
                             /\ a[a[i].claim].kind = "CLAIMED"
    BY <1>1 DEF ReferToClaims
  <2>2. CASE i = Len(l) + 1
    BY <1>1, <1>2, <2>2
  <2>3. CASE i \in 1..Len(l)
    <3>1. IF l[i].kind = "CLAIMED"
          THEN l[i].claim = i
          ELSE l[i].claim \in 1..(i - 1) /\ l[l[i].claim].kind = "CLAIMED"
      BY <1>1, <2>3 DEF Sound, ReferToClaims
    <3>2. QED
      BY <1>1, <2>3, <3>1
  <2>4. QED
    BY <1>1, <2>2, <2>3
<1>4. OneOpen(a)
  <2>1. SUFFICES ASSUME NEW i \in DOMAIN a, NEW j \in DOMAIN a,
                        IsOpen(a, i), IsOpen(a, j)
                 PROVE  i = j
    BY DEF OneOpen
  <2>2. i \in DOMAIN l /\ IsOpen(l, i) /\ j \in DOMAIN l /\ IsOpen(l, j)
    BY <2>1, OpenAfterAppend
  <2>3. QED
    BY <2>2 DEF Sound, OneOpen
<1>5. NotWrittenOff(a)
  <2>1. SUFFICES ASSUME NEW c \in Indices(a, "CLAIMED"), Has(a, c, "SUBMITTED")
                 PROVE  ~Has(a, c, "EXPIRED") /\ ~Has(a, c, "ATTEMPT_FAILED")
    BY DEF NotWrittenOff
  <2>2. c \in Indices(l, "CLAIMED")
    BY <1>1 DEF Indices
  <2>3. CASE Has(l, c, "SUBMITTED")
    <3>1. ~Has(l, c, "EXPIRED") /\ ~Has(l, c, "ATTEMPT_FAILED")
      BY <2>2, <2>3 DEF Sound, NotWrittenOff
    <3>2. QED
      BY <2>3, <3>1, HasAfterAppend
  <2>4. CASE ~Has(l, c, "SUBMITTED")
    <3>1. e.claim = c /\ e.kind = "SUBMITTED"
      BY <2>1, <2>4, HasAfterAppend
    <3>2. IsOpen(l, c)
      BY <3>1
    <3>3. c \in 1..Len(l) /\ c \in Nat
      BY <1>1, <2>2 DEF Indices
    <3>4. ASSUME NEW kind \in {"EXPIRED", "ATTEMPT_FAILED"}, Has(l, c, kind)
          PROVE  FALSE
      <4>1. PICK j \in DOMAIN l : l[j].kind = kind /\ l[j].claim = c
        BY <3>4 DEF Has, EventsOf, Indices
      <4>2. c < j
        BY <1>1, <3>3, <4>1 DEF Sound, ReferToClaims
      <4>3. QED
        BY <1>1, <3>2, <3>3, <4>1, <4>2 DEF IsOpen, TerminalEventTypes
    <3>5. QED
      BY <3>1, <3>4, HasAfterAppend
  <2>5. QED
    BY <2>3, <2>4
<1>6. QED
  BY <1>3, <1>4, <1>5 DEF Sound

\* Appending a claim keeps a history sound when no claim is open.
LEMMA SoundAfterClaim ==
    ASSUME NEW l \in Seq(Event), Sound(l), NEW e \in Event,
           e.kind = "CLAIMED",
           e.claim = Len(l) + 1,
           \A i \in DOMAIN l : ~IsOpen(l, i)
    PROVE  Sound(Append(l, e))
<1> DEFINE a == Append(l, e)
<1>1. /\ Len(l) \in Nat
      /\ DOMAIN l = 1..Len(l)
      /\ DOMAIN a = 1..(Len(l) + 1)
      /\ \A j \in 1..Len(l) : a[j] = l[j]
      /\ a[Len(l) + 1] = e
  BY AppendFacts
<1>2. ReferToClaims(l)
  BY DEF Sound
<1>3. ReferToClaims(a)
  <2>1. SUFFICES ASSUME NEW i \in 1..(Len(l) + 1)
                 PROVE  IF a[i].kind = "CLAIMED"
                        THEN a[i].claim = i
                        ELSE /\ a[i].claim \in 1..(i - 1)
                             /\ a[a[i].claim].kind = "CLAIMED"
    BY <1>1 DEF ReferToClaims
  <2>2. CASE i = Len(l) + 1
    BY <1>1, <2>2
  <2>3. CASE i \in 1..Len(l)
    <3>1. IF l[i].kind = "CLAIMED"
          THEN l[i].claim = i
          ELSE l[i].claim \in 1..(i - 1) /\ l[l[i].claim].kind = "CLAIMED"
      BY <1>1, <1>2, <2>3 DEF ReferToClaims
    <3>2. QED
      BY <1>1, <2>3, <3>1
  <2>4. QED
    BY <1>1, <2>2, <2>3
<1>4. OneOpen(a)
  <2>1. SUFFICES ASSUME NEW i \in DOMAIN a, IsOpen(a, i) PROVE i = Len(l) + 1
    BY DEF OneOpen
  <2>2. QED
    BY <2>1, OpenAfterAppend
<1>5. NotWrittenOff(a)
  <2>1. SUFFICES ASSUME NEW c \in Indices(a, "CLAIMED"), Has(a, c, "SUBMITTED")
                 PROVE  ~Has(a, c, "EXPIRED") /\ ~Has(a, c, "ATTEMPT_FAILED")
    BY DEF NotWrittenOff
  <2>2. Has(l, c, "SUBMITTED")
    BY <2>1, HasAfterAppend
  <2>3. PICK j \in DOMAIN l : l[j].kind = "SUBMITTED" /\ l[j].claim = c
    BY <2>2 DEF Has, EventsOf, Indices
  <2>4. c \in 1..(j - 1) /\ l[c].kind = "CLAIMED"
    BY <1>2, <2>3 DEF ReferToClaims
  <2>5. c \in Indices(l, "CLAIMED")
    BY <1>1, <2>3, <2>4 DEF Indices
  <2>6. ~Has(l, c, "EXPIRED") /\ ~Has(l, c, "ATTEMPT_FAILED")
    BY <2>2, <2>5 DEF Sound, NotWrittenOff
  <2>7. QED
    BY <2>6, HasAfterAppend
<1>6. QED
  BY <1>3, <1>4, <1>5 DEF Sound

-----------------------------------------------------------------------------
(* Unresolved outcomes *)

\* The quarantine in force is an OUTCOME_UNKNOWN event that nothing resolves.
LEMMA UnresolvedUnknown ==
    ASSUME NEW l \in Seq(Event), Unresolved(l) # 0
    PROVE  /\ Unresolved(l) \in Indices(l, "OUTCOME_UNKNOWN")
           /\ \A j \in DOMAIN l : ~Resolves(l, j, Unresolved(l))
<1> DEFINE S == {u \in Indices(l, "OUTCOME_UNKNOWN") :
                    \A j \in DOMAIN l : ~Resolves(l, j, u)}
<1>1. S \in SUBSET (DOMAIN l)
  BY DEF Indices
<1>2. Unresolved(l) = LastOf(S)
  BY DEF Unresolved
<1>3. LastOf(S) \in S
  BY <1>1, <1>2, LastOfSubset
<1>4. QED
  BY <1>2, <1>3

\* Without a quarantine in force every unknown outcome is resolved.
LEMMA NothingUnresolved ==
    ASSUME NEW l \in Seq(Event), Unresolved(l) = 0,
           NEW u \in Indices(l, "OUTCOME_UNKNOWN")
    PROVE  \E j \in DOMAIN l : Resolves(l, j, u)
<1> DEFINE S == {v \in Indices(l, "OUTCOME_UNKNOWN") :
                    \A j \in DOMAIN l : ~Resolves(l, j, v)}
<1>1. Len(l) \in Nat /\ DOMAIN l = 1..Len(l)
  OBVIOUS
<1>2. S \in SUBSET (1..Len(l))
  BY <1>1 DEF Indices
<1>3. S # {} => LastOf(S) \in 1..Len(l)
  BY <1>1, <1>2, LastOfBounded
<1>4. Unresolved(l) = LastOf(S)
  BY DEF Unresolved
<1>5. S = {}
  BY <1>1, <1>3, <1>4
<1>6. QED
  BY <1>5

\* While an outcome is unknown no claim is open.
QuarantineCloses(l) == Unresolved(l) # 0 => \A i \in DOMAIN l : ~IsOpen(l, i)

\* An append leaves an outcome unresolved only if it was so before or is the
\* appended event.
LEMMA UnresolvedAfterAppend ==
    ASSUME NEW l \in Seq(Event), NEW e \in Event, Unresolved(Append(l, e)) # 0
    PROVE  e.kind = "OUTCOME_UNKNOWN" \/ Unresolved(l) # 0
<1> DEFINE a == Append(l, e)
           u == Unresolved(a)
<1>1. /\ Len(l) \in Nat
      /\ DOMAIN l = 1..Len(l)
      /\ DOMAIN a = 1..(Len(l) + 1)
      /\ \A j \in 1..Len(l) : a[j] = l[j]
      /\ a[Len(l) + 1] = e
      /\ a \in Seq(Event)
  BY AppendFacts
<1>2. u \in Indices(a, "OUTCOME_UNKNOWN") /\ \A j \in DOMAIN a : ~Resolves(a, j, u)
  BY <1>1, UnresolvedUnknown
<1>3. SUFFICES ASSUME e.kind # "OUTCOME_UNKNOWN", Unresolved(l) = 0 PROVE FALSE
  OBVIOUS
<1>4. u \in Indices(l, "OUTCOME_UNKNOWN") /\ u \in 1..Len(l)
  BY <1>1, <1>2, <1>3 DEF Indices
<1>5. PICK j \in DOMAIN l : Resolves(l, j, u)
  BY <1>3, <1>4, NothingUnresolved
<1>6. Resolves(a, j, u)
  BY <1>1, <1>4, <1>5 DEF Resolves
<1>7. QED
  BY <1>1, <1>2, <1>6

LEMMA QuarantineClosesAfterEvent ==
    ASSUME NEW l \in Seq(Event), Sound(l), QuarantineCloses(l), NEW e \in Event,
           e.kind # "CLAIMED",
           e.kind = "OUTCOME_UNKNOWN" => e.claim \in DOMAIN l /\ IsOpen(l, e.claim)
    PROVE  QuarantineCloses(Append(l, e))
<1> DEFINE a == Append(l, e)
<1>1. SUFFICES ASSUME Unresolved(a) # 0, NEW i \in DOMAIN a, IsOpen(a, i)
               PROVE  FALSE
  BY DEF QuarantineCloses
<1>2. /\ i \in DOMAIN l
      /\ IsOpen(l, i)
      /\ e.claim = i => e.kind \notin TerminalEventTypes
  BY <1>1, OpenAfterAppend
<1>3. CASE e.kind = "OUTCOME_UNKNOWN"
  <2>1. e.claim = i
    BY <1>2, <1>3 DEF Sound, OneOpen
  <2>2. QED
    BY <1>2, <1>3, <2>1 DEF TerminalEventTypes
<1>4. CASE e.kind # "OUTCOME_UNKNOWN"
  BY <1>1, <1>2, <1>4, UnresolvedAfterAppend DEF QuarantineCloses
<1>5. QED
  BY <1>3, <1>4

-----------------------------------------------------------------------------
(* Epochs *)

\* Epochs number the claims: none exceeds their number, and they increase.
EpochsNumberClaims(l) ==
    /\ \A i \in Indices(l, "CLAIMED") : l[i].epoch <= Cardinality(Indices(l, "CLAIMED"))
    /\ \A i, j \in Indices(l, "CLAIMED") : i < j => l[i].epoch < l[j].epoch

LEMMA ClaimsFinite ==
    ASSUME NEW l \in Seq(Event)
    PROVE  /\ IsFiniteSet(Indices(l, "CLAIMED"))
           /\ Cardinality(Indices(l, "CLAIMED")) \in Nat
<1>1. Len(l) \in Nat /\ DOMAIN l = 1..Len(l)
  OBVIOUS
<1>2. IsFiniteSet(DOMAIN l)
  BY <1>1, FS_Interval
<1>3. Indices(l, "CLAIMED") \in SUBSET (DOMAIN l)
  BY DEF Indices
<1>4. IsFiniteSet(Indices(l, "CLAIMED"))
  BY <1>2, <1>3, FS_Subset
<1>5. QED
  BY <1>4, FS_CardinalityType

LEMMA EpochsAfterEvent ==
    ASSUME NEW l \in Seq(Event), EpochsNumberClaims(l), NEW e \in Event,
           e.kind # "CLAIMED"
    PROVE  EpochsNumberClaims(Append(l, e))
<1> DEFINE a == Append(l, e)
<1>1. /\ Len(l) \in Nat
      /\ DOMAIN l = 1..Len(l)
      /\ DOMAIN a = 1..(Len(l) + 1)
      /\ \A j \in 1..Len(l) : a[j] = l[j]
      /\ a[Len(l) + 1] = e
  BY AppendFacts
<1>2. Indices(a, "CLAIMED") = Indices(l, "CLAIMED")
  BY <1>1 DEF Indices
<1>3. \A i \in Indices(l, "CLAIMED") : a[i] = l[i]
  BY <1>1 DEF Indices
<1>4. EpochsNumberClaims(a)
  <2> HIDE DEF a
  <2>1. QED
    BY <1>2, <1>3 DEF EpochsNumberClaims
<1>5. QED
  BY <1>4

LEMMA EpochsAfterClaim ==
    ASSUME NEW l \in Seq(Event), EpochsNumberClaims(l), NEW e \in Event,
           e.kind = "CLAIMED", e.epoch = AttemptNumber(l)
    PROVE  EpochsNumberClaims(Append(l, e))
<1> DEFINE a == Append(l, e)
           C == Indices(l, "CLAIMED")
<1>1. /\ Len(l) \in Nat
      /\ DOMAIN l = 1..Len(l)
      /\ DOMAIN a = 1..(Len(l) + 1)
      /\ \A j \in 1..Len(l) : a[j] = l[j]
      /\ a[Len(l) + 1] = e
  BY AppendFacts
<1>2. Indices(a, "CLAIMED") = C \cup {Len(l) + 1}
  BY <1>1 DEF Indices
<1>3. C \subseteq 1..Len(l) /\ Len(l) + 1 \notin C
  BY <1>1 DEF Indices
<1>4. \A i \in C : a[i] = l[i]
  BY <1>1, <1>3
<1>5. IsFiniteSet(C) /\ Cardinality(C) \in Nat
  BY ClaimsFinite
<1>6. Cardinality(C \cup {Len(l) + 1}) = Cardinality(C) + 1
  BY <1>3, <1>5, FS_AddElement
<1>7. a[Len(l) + 1].epoch = Cardinality(C) + 1
  BY <1>1 DEF AttemptNumber
<1>8. \A i \in C : l[i].epoch \in Nat /\ l[i].epoch <= Cardinality(C)
  BY <1>1, <1>3, EventType DEF EpochsNumberClaims
<1> HIDE DEF a, C
<1>9. \A i \in C \cup {Len(l) + 1} : a[i].epoch <= Cardinality(C) + 1
  BY <1>4, <1>5, <1>7, <1>8
<1>10. ASSUME NEW i \in C \cup {Len(l) + 1}, NEW j \in C \cup {Len(l) + 1}, i < j
       PROVE  a[i].epoch < a[j].epoch
  <2>1. CASE j \in C
    <3>1. i \in C
      BY <1>1, <1>3, <1>10, <2>1
    <3>2. QED
      BY <1>4, <1>10, <2>1, <3>1 DEF EpochsNumberClaims, C
  <2>2. CASE j = Len(l) + 1
    <3>1. i \in C
      BY <1>1, <1>10, <2>2
    <3>2. QED
      BY <1>4, <1>5, <1>7, <1>8, <2>2, <3>1
  <2>3. QED
    BY <1>10, <2>1, <2>2
<1>11. QED
  <2>1. EpochsNumberClaims(a)
    BY <1>2, <1>6, <1>9, <1>10 DEF EpochsNumberClaims
  <2>2. QED
    BY <2>1 DEF a

-----------------------------------------------------------------------------
(* The inductive invariant *)

\* Every challenge was issued for, or consumed by, a quarantine of the history.
ChallengesNameQuarantines ==
    \A i \in DOMAIN challenges : challenges[i].unknown \in Indices(log, "OUTCOME_UNKNOWN")

IInv ==
    /\ TypeOK
    /\ Sound(log)
    /\ QuarantineCloses(log)
    /\ EpochsNumberClaims(log)
    /\ ChallengesNameQuarantines

\* What the operations append to the claim history, other than a takeover: an
\* event about a claim, which ends a quarantine if there is one.
HistoryEvent(e) ==
    /\ e \in Event
    /\ e.kind \notin {"CLAIMED", "EXPIRED"}
    /\ e.claim \in Indices(log, "CLAIMED")
    /\ e.kind \in {"SUBMITTED", "OUTCOME_UNKNOWN"} => IsOpen(log, e.claim)
    /\ e.kind = "ATTEMPT_FAILED" => ~Has(log, e.claim, "SUBMITTED")
    /\ Unresolved(log) # 0 => Resolves(Append(log, e), Len(log) + 1, Unresolved(log))

Appends == \E e \in Event : HistoryEvent(e) /\ log' = Append(log, e)

LEMMA LeaseExpiryType ==
    ASSUME NEW l \in Seq(Event), NEW c \in DOMAIN l
    PROVE  LeaseExpiry(l, c) \in Nat
<1>1. l[c].expiry \in Nat
  BY EventType
<1>2. CASE Has(l, c, "RENEWED")
  <2>1. EventsOf(l, c, "RENEWED") \in SUBSET (1..Len(l)) /\ Len(l) \in Nat
    BY DEF EventsOf, Indices
  <2>2. LastOf(EventsOf(l, c, "RENEWED")) \in 1..Len(l)
    BY <1>2, <2>1, LastOfBounded DEF Has
  <2>3. QED
    BY <1>2, <2>2, EventType DEF LeaseExpiry
<1>3. CASE ~Has(l, c, "RENEWED")
  BY <1>1, <1>3 DEF LeaseExpiry
<1>4. QED
  BY <1>2, <1>3

\* The event an operation of the claim holder appends.
LEMMA HolderEvent ==
    ASSUME IInv, NEW c, Current(c), NEW kind \in EventKinds \ {"CLAIMED", "EXPIRED"},
           NEW expiry \in Nat, NEW previous \in Nat,
           kind = "ATTEMPT_FAILED" => ~Has(log, c, "SUBMITTED")
    PROVE  HistoryEvent(EventAbout(log, c, kind, expiry, previous, NoEvidence))
<1> DEFINE e == EventAbout(log, c, kind, expiry, previous, NoEvidence)
<1>1. log \in Seq(Event)
  BY DEF IInv, TypeOK
<1>2. c \in DOMAIN log /\ IsOpen(log, c) /\ c \in Indices(log, "CLAIMED")
  BY <1>1, LatestClaimOpen DEF Current
<1>3. e \in Event /\ e.kind = kind /\ e.claim = c
  BY <1>1, <1>2, NoEvidenceType, EventAboutType
<1>4. Unresolved(log) = 0
  BY <1>2 DEF IInv, QuarantineCloses
<1> HIDE DEF e
<1>5. HistoryEvent(e)
  BY <1>2, <1>3, <1>4 DEF HistoryEvent
<1>6. QED
  BY <1>5 DEF e

LEMMA StaleNowType == TypeOK => StaleNow \subseteq Nat
BY DEF TypeOK, StaleNow

-----------------------------------------------------------------------------
(* The operations, one lemma for those of each actor *)

LEMMA QuarantineAppends ==
    ASSUME IInv, NEW now \in StaleNow, Quarantine(now)
    PROVE  Appends /\ record' \in Record /\ challenges' = challenges
<1> DEFINE c == LatestClaim(log)
           s == LastOf(EventsOf(log, c, "SUBMITTED"))
<1>1. log \in Seq(Event) /\ record \in Record
  BY DEF IInv, TypeOK
<1>2. c \in DOMAIN log /\ Current(c)
  BY <1>1, LatestClaimOpen DEF Quarantine, Current
<1>3. EventsOf(log, c, "SUBMITTED") \in SUBSET (1..Len(log)) /\ Len(log) \in Nat
  BY <1>1 DEF EventsOf, Indices
<1>4. s \in 1..Len(log)
  BY <1>3, LastOfBounded DEF Quarantine, Has
<1>5. log[s].expiry \in Nat
  BY <1>1, <1>4, EventType
<1>6. HistoryEvent(EventAbout(log, c, "OUTCOME_UNKNOWN", log[s].expiry, 0, NoEvidence))
  BY <1>2, <1>5, HolderEvent DEF EventKinds
<1>7. Appends
  BY <1>6 DEF Quarantine, Appends, HistoryEvent
<1>8. record' \in Record
  BY <1>1 DEF Quarantine, Record, RecordStates
<1>9. QED
  BY <1>7, <1>8 DEF Quarantine

LEMMA HolderAppends ==
    ASSUME IInv, HolderStep
    PROVE  Appends /\ record' \in Record /\ challenges' = challenges
<1>1. log \in Seq(Event) /\ record \in Record /\ clock \in Nat
  BY DEF IInv, TypeOK
<1>2. PICK c \in Indices(log, "CLAIMED") :
         \/ AbandonProviderDispatchClaim(c)
         \/ RecordProviderDispatchAttemptFailure(c, clock)
         \/ \E r \in effects : AdmitProviderDispatchReceipt(r, c, clock)
         \/ \E now \in StaleNow :
               \/ \E lease \in LeaseSeconds : RenewProviderDispatchClaim(c, lease, now)
               \/ StartProviderDispatchAttempt(c, now)
               \/ RecordProviderDispatchSubmission(c, now)
  BY DEF HolderStep
<1>3. LeaseExpiry(log, c) \in Nat
  BY <1>1, LeaseExpiryType DEF Indices
<1>4. CASE AbandonProviderDispatchClaim(c)
  <2>1. HistoryEvent(EventAbout(log, c, "ABANDONED", 0, 0, NoEvidence))
    BY <1>4, HolderEvent DEF AbandonProviderDispatchClaim, EventKinds
  <2>2. QED
    BY <1>1, <1>4, <2>1 DEF AbandonProviderDispatchClaim, Appends, HistoryEvent
<1>5. CASE RecordProviderDispatchAttemptFailure(c, clock)
  <2>1. HistoryEvent(EventAbout(log, c, "ATTEMPT_FAILED", 0, 0, NoEvidence))
    BY <1>5, HolderEvent DEF RecordProviderDispatchAttemptFailure, Leased, EventKinds
  <2>2. QED
    BY <1>1, <1>5, <2>1 DEF RecordProviderDispatchAttemptFailure, Appends, HistoryEvent
<1>6. ASSUME NEW r \in effects, AdmitProviderDispatchReceipt(r, c, clock)
      PROVE  Appends /\ record' \in Record /\ challenges' = challenges
  <2>1. r \in Envelope /\ r.expiry \in Nat
    BY DEF IInv, TypeOK, Envelope
  <2>2. HistoryEvent(EventAbout(log, c, "COMPLETED", r.expiry, 0, NoEvidence))
    BY <1>6, <2>1, HolderEvent DEF AdmitProviderDispatchReceipt, Leased, EventKinds
  <2>3. record' \in Record
    BY <1>6, <2>1 DEF AdmitProviderDispatchReceipt, Record, RecordStates
  <2>4. QED
    BY <1>6, <2>2, <2>3 DEF AdmitProviderDispatchReceipt, Appends, HistoryEvent
<1>7. ASSUME NEW now \in StaleNow, NEW lease \in LeaseSeconds,
             RenewProviderDispatchClaim(c, lease, now)
      PROVE  Appends /\ record' \in Record /\ challenges' = challenges
  <2>1. now + lease \in Nat
    BY <1>1, LeaseAssumption DEF StaleNow
  <2>2. HistoryEvent(EventAbout(log, c, "RENEWED", now + lease,
                                LeaseExpiry(log, c), NoEvidence))
    BY <1>3, <1>7, <2>1, HolderEvent DEF RenewProviderDispatchClaim, Leased, EventKinds
  <2>3. QED
    BY <1>1, <1>7, <2>2 DEF RenewProviderDispatchClaim, Appends, HistoryEvent
<1>8. ASSUME NEW now \in StaleNow, StartProviderDispatchAttempt(c, now)
      PROVE  Appends /\ record' \in Record /\ challenges' = challenges
  <2>1. HistoryEvent(EventAbout(log, c, "STARTED", LeaseExpiry(log, c), 0, NoEvidence))
    BY <1>3, <1>8, HolderEvent DEF StartProviderDispatchAttempt, Leased, EventKinds
  <2>2. QED
    BY <1>1, <1>8, <2>1 DEF StartProviderDispatchAttempt, Appends, HistoryEvent
<1>9. ASSUME NEW now \in StaleNow, RecordProviderDispatchSubmission(c, now)
      PROVE  Appends /\ record' \in Record /\ challenges' = challenges
  <2>1. HistoryEvent(EventAbout(log, c, "SUBMITTED", LeaseExpiry(log, c), 0, NoEvidence))
    BY <1>3, <1>9, HolderEvent DEF RecordProviderDispatchSubmission, Leased, EventKinds
  <2>2. QED
    BY <1>1, <1>9, <2>1 DEF RecordProviderDispatchSubmission, Appends, HistoryEvent
<1>10. QED
  BY <1>2, <1>4, <1>5, <1>6, <1>7, <1>8, <1>9

\* What an operation on challenges appends.
ChallengeAppends ==
    /\ Unresolved(log) # 0
    /\ \E x \in ChallengeEvent : x.unknown = Unresolved(log)
                                 /\ challenges' = Append(challenges, x)

LEMMA IssueAppends ==
    ASSUME IInv, NEW now \in StaleNow, NEW ttl \in TtlSeconds,
           IssueProviderReconciliationChallenge(ttl, now)
    PROVE  ChallengeAppends /\ log' = log /\ record' = record
<1> DEFINE u == Unresolved(log)
           x == [kind |-> "ISSUED", reference |-> Len(challenges) + 1, unknown |-> u,
                 issuedAt |-> now, expiresAt |-> now + ttl, resolution |-> 0]
<1>1. log \in Seq(Event) /\ challenges \in Seq(ChallengeEvent) /\ clock \in Nat
  BY DEF IInv, TypeOK
<1>2. u # 0 /\ challenges' = Append(challenges, x)
  BY DEF IssueProviderReconciliationChallenge
<1>3. u \in DOMAIN log /\ DOMAIN log \subseteq Nat
  BY <1>1, <1>2, UnresolvedUnknown DEF Indices
<1>4. now \in Nat /\ now + ttl \in Nat /\ Len(challenges) + 1 \in Nat
  BY <1>1, TtlAssumption DEF StaleNow
<1>5. x \in ChallengeEvent /\ x.unknown = u
  <2> HIDE DEF u
  <2>1. u \in Nat
    BY <1>3
  <2>2. QED
    BY <1>4, <2>1 DEF ChallengeEvent
<1>6. QED
  BY <1>2, <1>5 DEF ChallengeAppends, IssueProviderReconciliationChallenge

LEMMA ResolveAppends ==
    ASSUME IInv, NEW ev \in evidence, NEW now, ResolveProviderDispatchOutcome(ev, now)
    PROVE  Appends /\ ChallengeAppends /\ record' \in Record
<1> DEFINE u == Unresolved(log)
           c == log[u].claim
           kind == IF ev.outcome = "NO_EFFECT" THEN "OUTCOME_RESOLVED_NO_EFFECT"
                                               ELSE "COMPLETED"
           e == EventAbout(log, c, kind, ev.receipt.expiry, 0, ev)
<1>1. /\ log \in Seq(Event)
      /\ Len(log) \in Nat
      /\ DOMAIN log = 1..Len(log)
      /\ record \in Record
      /\ challenges \in Seq(ChallengeEvent)
      /\ ev \in Evidence
  BY DEF IInv, TypeOK
<1>2. u # 0 /\ FreshEvidence(ev, u, now)
  BY DEF ResolveProviderDispatchOutcome, Admissible
<1>3. u \in 1..Len(log) /\ log[u].kind = "OUTCOME_UNKNOWN"
  BY <1>1, <1>2, UnresolvedUnknown DEF Indices
<1>4. c \in 1..(u - 1) /\ log[c].kind = "CLAIMED"
  BY <1>1, <1>3 DEF IInv, Sound, ReferToClaims
<1>5. c \in DOMAIN log /\ c \in Indices(log, "CLAIMED")
  BY <1>1, <1>3, <1>4 DEF Indices
<1>6. kind \in EventKinds \ {"CLAIMED", "EXPIRED", "SUBMITTED", "OUTCOME_UNKNOWN",
                             "ATTEMPT_FAILED"}
  BY DEF EventKinds
<1>7. ev.receipt \in Envelope /\ ev.receipt.expiry \in Nat /\ ev.challenge \in Nat
  BY <1>1 DEF Evidence, Envelope
<1>8. /\ e \in Event
      /\ e.kind = kind
      /\ e.claim = c
      /\ e.evidence = ev
  <2>1. e.evidence = ev
    BY DEF EventAbout
  <2>2. kind \in EventKinds
    BY <1>6
  <2> DEFINE expiry == ev.receipt.expiry
  <2>3. expiry \in Nat
    BY <1>7
  <2> HIDE DEF kind, c, expiry
  <2>4. \A l \in Seq(Event) : c \in DOMAIN l =>
           /\ EventAbout(l, c, kind, expiry, 0, ev) \in Event
           /\ EventAbout(l, c, kind, expiry, 0, ev).kind = kind
           /\ EventAbout(l, c, kind, expiry, 0, ev).claim = c
    BY <1>1, <2>2, <2>3, EventAboutType
  <2>5. e \in Event /\ e.kind = kind /\ e.claim = c
    BY <1>1, <1>5, <2>4 DEF expiry
  <2>6. QED
    BY <2>1, <2>5
<1>9. ev # NoEvidence
  BY <1>2 DEF FreshEvidence, NoEvidence
<1>10. Resolves(Append(log, e), Len(log) + 1, u)
  <2> HIDE DEF e, u
  <2>1. Append(log, e)[Len(log) + 1] = e /\ Append(log, e)[u] = log[u]
    BY <1>1, <1>3, <1>8, AppendFacts
  <2>2. QED
    BY <1>1, <1>3, <1>8, <1>9, <2>1 DEF Resolves
<1>11. HistoryEvent(e)
  <2> HIDE DEF e, kind
  <2>1. QED
    BY <1>5, <1>6, <1>8, <1>10 DEF HistoryEvent
<1>12. log' = Append(log, e)
  BY DEF ResolveProviderDispatchOutcome
<1>13. record' \in Record
  BY <1>1, <1>7 DEF ResolveProviderDispatchOutcome, ResolvedRecord, Record, RecordStates
<1>14. ChallengeAppends
  <2> DEFINE x == [kind |-> "CONSUMED", reference |-> ev.challenge, unknown |-> u,
                   issuedAt |-> 0, expiresAt |-> 0, resolution |-> Len(log) + 1]
  <2>1. challenges' = Append(challenges, x)
    BY DEF ResolveProviderDispatchOutcome, ConsumedHistory
  <2>2. x \in ChallengeEvent /\ x.unknown = u
    <3> HIDE DEF u
    <3>1. u \in Nat
      BY <1>3
    <3>2. QED
      BY <1>1, <1>7, <3>1 DEF ChallengeEvent
  <2>3. QED
    BY <1>2, <2>1, <2>2 DEF ChallengeAppends
<1>15. QED
  BY <1>8, <1>11, <1>12, <1>13, <1>14 DEF Appends

\* A takeover closes the expired claim and appends the new one.
LEMMA ClaimSound ==
    ASSUME IInv, NEW w \in Workers, NEW lease \in LeaseSeconds, NEW now \in StaleNow,
           ClaimProviderDispatch(w, lease, now)
    PROVE  /\ log' \in Seq(Event)
           /\ Sound(log')
           /\ QuarantineCloses(log')
           /\ EpochsNumberClaims(log')
           /\ Unresolved(log) = 0
           /\ \A kind : kind # "CLAIMED" => Indices(log, kind) \subseteq Indices(log', kind)
<1> DEFINE c == LatestClaim(log)
           h == ClosedHistory(log)
           x == EventAbout(log, c, "EXPIRED", 0, 0, NoEvidence)
           e == [kind |-> "CLAIMED", claim |-> Len(h) + 1, worker |-> w,
                 epoch |-> AttemptNumber(h), expiry |-> now + lease,
                 previous |-> 0, evidence |-> NoEvidence]
<1>1. /\ log \in Seq(Event)
      /\ clock \in Nat
      /\ Sound(log)
      /\ QuarantineCloses(log)
      /\ EpochsNumberClaims(log)
  BY DEF IInv, TypeOK
<1>2. Unresolved(log) = 0 /\ (c # 0 => ~Has(log, c, "SUBMITTED"))
  BY DEF ClaimProviderDispatch, Claimable
<1>3. /\ h \in Seq(Event)
      /\ Sound(h)
      /\ QuarantineCloses(h)
      /\ EpochsNumberClaims(h)
      /\ \A i \in DOMAIN h : ~IsOpen(h, i)
      /\ \A kind : Indices(log, kind) \subseteq Indices(h, kind)
  <2>1. CASE c = 0
    <3>1. h = log
      BY <2>1 DEF ClosedHistory
    <3>2. \A i \in DOMAIN log : ~IsOpen(log, i)
      BY <1>1, <2>1, NoLatestClaim
    <3> HIDE DEF h
    <3>3. QED
      BY <1>1, <3>1, <3>2
  <2>2. CASE c # 0
    <3>1. h = Append(log, x)
      BY <2>2 DEF ClosedHistory
    <3>2. c \in DOMAIN log /\ c \in Indices(log, "CLAIMED") /\ IsOpen(log, c)
      BY <1>1, <2>2, LatestClaimOpen
    <3>3. x \in Event /\ x.kind = "EXPIRED" /\ x.claim = c
      BY <1>1, <3>2, NoEvidenceType, EventAboutType DEF EventKinds
    <3> HIDE DEF h, x, c
    <3>4. h \in Seq(Event)
      BY <1>1, <3>1, <3>3, AppendFacts
    <3>5. Sound(h)
      BY <1>1, <1>2, <2>2, <3>1, <3>2, <3>3, SoundAfterEvent
    <3>6. QuarantineCloses(h)
      BY <1>1, <3>1, <3>3, QuarantineClosesAfterEvent
    <3>7. EpochsNumberClaims(h)
      BY <1>1, <3>1, <3>3, EpochsAfterEvent
    <3>8. ASSUME NEW i \in DOMAIN h, IsOpen(h, i) PROVE FALSE
      <4>1. i \in DOMAIN log /\ IsOpen(log, i) /\ x.claim # i
        BY <1>1, <3>1, <3>3, <3>8, OpenAfterAppend DEF TerminalEventTypes
      <4>2. QED
        BY <1>1, <3>2, <3>3, <4>1 DEF Sound, OneOpen
    <3>9. \A kind : Indices(log, kind) \subseteq Indices(h, kind)
      BY <1>1, <3>1, <3>3, AppendFacts DEF Indices
    <3>10. QED
      BY <3>4, <3>5, <3>6, <3>7, <3>8, <3>9
  <2>3. QED
    BY <2>1, <2>2
<1>4. AttemptNumber(h) \in Nat
  BY <1>3, ClaimsFinite DEF AttemptNumber
<1>5. Len(h) + 1 \in Nat /\ now + lease \in Nat
  <2>1. Len(h) \in Nat
    BY <1>3
  <2>2. QED
    BY <1>1, <2>1, LeaseAssumption DEF StaleNow
<1> HIDE DEF h
<1>6. e \in Event
  BY <1>4, <1>5, NoEvidenceType DEF Event, EventKinds
<1>7. e.kind = "CLAIMED" /\ e.claim = Len(h) + 1 /\ e.epoch = AttemptNumber(h)
  OBVIOUS
<1>8. log' = Append(h, e)
  BY DEF ClaimProviderDispatch, h
<1> HIDE DEF e
<1>9. log' \in Seq(Event)
  BY <1>3, <1>6, <1>8, AppendFacts
<1>10. Sound(log')
  BY <1>3, <1>6, <1>7, <1>8, SoundAfterClaim
<1>11. EpochsNumberClaims(log')
  BY <1>3, <1>6, <1>7, <1>8, EpochsAfterClaim
<1>12. QuarantineCloses(log')
  <2>1. Unresolved(h) = 0
    <3>1. CASE c = 0
      BY <1>2, <3>1 DEF h, ClosedHistory
    <3>2. CASE c # 0
      <4>1. c \in DOMAIN log
        BY <1>1, <3>2, LatestClaimOpen
      <4>2. x \in Event /\ x.kind = "EXPIRED"
        BY <1>1, <4>1, NoEvidenceType, EventAboutType DEF EventKinds
      <4>3. h = Append(log, x)
        BY <3>2 DEF h, ClosedHistory
      <4> HIDE DEF x
      <4>4. QED
        BY <1>1, <1>2, <4>2, <4>3, UnresolvedAfterAppend
    <3>3. QED
      BY <3>1, <3>2
  <2>2. Unresolved(log') = 0
    BY <1>3, <1>6, <1>7, <1>8, <2>1, UnresolvedAfterAppend
  <2>3. QED
    BY <2>2 DEF QuarantineCloses
<1>13. \A kind : kind # "CLAIMED" => Indices(log, kind) \subseteq Indices(log', kind)
  <2>1. \A kind : Indices(h, kind) \subseteq Indices(log', kind)
    BY <1>3, <1>6, <1>8, AppendFacts DEF Indices
  <2>2. QED
    BY <1>3, <2>1
<1>14. QED
  BY <1>2, <1>9, <1>10, <1>11, <1>12, <1>13

-----------------------------------------------------------------------------
(* The provider *)

LEMMA EnvelopesType == \A l \in Seq(Event) : AttemptEnvelopes(l) \subseteq Envelope
<1>1. SUFFICES ASSUME NEW l \in Seq(Event), NEW i \in DOMAIN l
               PROVE  [claim |-> l[i].claim, epoch |-> l[i].epoch,
                       expiry |-> l[i].expiry] \in Envelope
  BY DEF AttemptEnvelopes, Indices
<1>2. l[i].claim \in Nat /\ l[i].epoch \in Nat /\ l[i].expiry \in Nat
  BY EventType
<1>3. QED
  BY <1>2 DEF Envelope

LEMMA ReceiptForType == TypeOK => \A epoch : ReceiptFor(epoch) \in Envelope
<1>1. SUFFICES ASSUME effects \subseteq Envelope, NEW epoch
               PROVE  ReceiptFor(epoch) \in Envelope
  BY DEF TypeOK
<1>2. CASE \E x \in effects : x.epoch = epoch
  BY <1>1, <1>2 DEF ReceiptFor
<1>3. CASE ~ \E x \in effects : x.epoch = epoch
  BY <1>3, NoEnvelopeType DEF ReceiptFor
<1>4. QED
  BY <1>2, <1>3

LEMMA LookupAnswerType ==
    ASSUME IInv, NEW i \in DOMAIN challenges, NEW at \in Nat
    PROVE  LookupAnswer(i, at) \in Evidence
<1> DEFINE u == challenges[i].unknown
           e == EnvelopeOf(log[u])
           r == ReceiptFor(e.epoch)
           outcome == IF r = NoEnvelope THEN "NO_EFFECT" ELSE "COMPLETED"
<1>1. log \in Seq(Event) /\ challenges \in Seq(ChallengeEvent) /\ TypeOK
  BY DEF IInv, TypeOK
<1>2. u \in DOMAIN log
  BY DEF IInv, ChallengesNameQuarantines, Indices
<1>3. log[u].claim \in Nat /\ log[u].epoch \in Nat /\ log[u].expiry \in Nat
  BY <1>1, <1>2, EventType
<1>4. e \in Envelope
  BY <1>3 DEF EnvelopeOf, Envelope
<1>5. r \in Envelope
  BY <1>1, ReceiptForType
<1>6. outcome \in Outcomes
  BY DEF Outcomes
<1>7. i \in Nat
  BY <1>1
<1>8. LookupAnswer(i, at) = [envelope |-> e, outcome |-> outcome, receipt |-> r,
                             challenge |-> i, observedAt |-> at]
  BY DEF LookupAnswer
<1> HIDE DEF e, r, outcome
<1>9. QED
  BY <1>4, <1>5, <1>6, <1>7, <1>8 DEF Evidence

\* The provider and its lookup leave the state file alone.
LEMMA ProviderLeavesState ==
    ASSUME IInv, ProviderStep
    PROVE  /\ UNCHANGED <<clock, record, log, challenges>>
           /\ effects' \subseteq Envelope
           /\ evidence' \subseteq Evidence
<1>1. /\ log \in Seq(Event)
      /\ clock \in Nat
      /\ challenges \in Seq(ChallengeEvent)
      /\ effects \subseteq Envelope
      /\ evidence \subseteq Evidence
  BY DEF IInv, TypeOK
<1>2. ASSUME NEW e \in AttemptEnvelopes(log), ProviderExecute(e)
      PROVE  /\ UNCHANGED <<clock, record, log, challenges>>
             /\ effects' \subseteq Envelope
             /\ evidence' \subseteq Evidence
  <2>1. e \in Envelope
    BY <1>1, EnvelopesType
  <2>2. QED
    BY <1>1, <1>2, <2>1 DEF ProviderExecute, stateFile
<1>3. ASSUME NEW i \in DOMAIN challenges, NEW at \in {challenges[i].issuedAt, clock},
             ReconcileWithChallenge(i, at)
      PROVE  /\ UNCHANGED <<clock, record, log, challenges>>
             /\ effects' \subseteq Envelope
             /\ evidence' \subseteq Evidence
  <2>1. challenges[i] \in ChallengeEvent
    BY <1>1
  <2>2. at \in Nat
    BY <1>1, <2>1 DEF ChallengeEvent
  <2>3. LookupAnswer(i, at) \in Evidence
    BY <2>2, LookupAnswerType
  <2>4. QED
    BY <1>1, <1>3, <2>3 DEF ReconcileWithChallenge, stateFile
<1>4. QED
  BY <1>2, <1>3 DEF ProviderStep

-----------------------------------------------------------------------------
(* The invariant is inductive *)

LEMMA ChallengesKept ==
    ASSUME IInv, Indices(log, "OUTCOME_UNKNOWN") \subseteq Indices(log', "OUTCOME_UNKNOWN"),
           challenges' = challenges \/ ChallengeAppends
    PROVE  challenges' \in Seq(ChallengeEvent) /\ ChallengesNameQuarantines'
<1> DEFINE Q == Indices(log, "OUTCOME_UNKNOWN")
           R == Indices(log', "OUTCOME_UNKNOWN")
<1>1. /\ challenges \in Seq(ChallengeEvent)
      /\ log \in Seq(Event)
      /\ \A i \in DOMAIN challenges : challenges[i].unknown \in Q
      /\ Q \subseteq R
  BY DEF IInv, TypeOK, ChallengesNameQuarantines
<1>2. ChallengesNameQuarantines' <=>
         \A i \in DOMAIN challenges' : challenges'[i].unknown \in R
  BY DEF ChallengesNameQuarantines
<1>3. CASE challenges' = challenges
  BY <1>1, <1>2, <1>3
<1>4. CASE ChallengeAppends
  <2>1. PICK x \in ChallengeEvent : /\ x.unknown = Unresolved(log)
                                    /\ challenges' = Append(challenges, x)
    BY <1>4 DEF ChallengeAppends
  <2>2. x.unknown \in R
    BY <1>1, <1>4, <2>1, UnresolvedUnknown DEF ChallengeAppends
  <2> HIDE DEF Q, R
  <2>3. /\ challenges' \in Seq(ChallengeEvent)
        /\ \A i \in DOMAIN challenges' : i \in DOMAIN challenges \/ i = Len(challenges) + 1
        /\ \A i \in DOMAIN challenges : challenges'[i] = challenges[i]
        /\ challenges'[Len(challenges) + 1] = x
    BY <1>1, <2>1
  <2>4. \A i \in DOMAIN challenges' : challenges'[i].unknown \in R
    BY <1>1, <2>2, <2>3
  <2>5. QED
    BY <1>2, <2>3, <2>4
<1>5. QED
  BY <1>3, <1>4

LEMMA AppendsKeepHistory ==
    ASSUME IInv, Appends
    PROVE  /\ log' \in Seq(Event)
           /\ Sound(log')
           /\ QuarantineCloses(log')
           /\ EpochsNumberClaims(log')
           /\ Indices(log, "OUTCOME_UNKNOWN") \subseteq Indices(log', "OUTCOME_UNKNOWN")
<1>1. /\ log \in Seq(Event)
      /\ Sound(log)
      /\ QuarantineCloses(log)
      /\ EpochsNumberClaims(log)
  BY DEF IInv, TypeOK
<1>2. PICK e \in Event : HistoryEvent(e) /\ log' = Append(log, e)
  BY DEF Appends
<1>3. log' \in Seq(Event)
      /\ Indices(log, "OUTCOME_UNKNOWN") \subseteq Indices(log', "OUTCOME_UNKNOWN")
  BY <1>1, <1>2, AppendFacts DEF Indices
<1>4. Sound(log')
  BY <1>1, <1>2, SoundAfterEvent DEF HistoryEvent
<1>5. e.claim \in DOMAIN log
  BY <1>2 DEF HistoryEvent, Indices
<1>6. QuarantineCloses(log')
  BY <1>1, <1>2, <1>5, QuarantineClosesAfterEvent DEF HistoryEvent
<1>7. EpochsNumberClaims(log')
  BY <1>1, <1>2, EpochsAfterEvent DEF HistoryEvent
<1>8. QED
  BY <1>3, <1>4, <1>6, <1>7

LEMMA InitInvariant == Init => IInv
<1>1. SUFFICES ASSUME Init PROVE IInv
  OBVIOUS
<1>2. log = <<>> /\ challenges = <<>> /\ DOMAIN log = {} /\ DOMAIN challenges = {}
  BY <1>1 DEF Init
<1>3. TypeOK
  <2>1. record \in Record
    BY <1>1, NoEnvelopeType DEF Init, Record, RecordStates
  <2>2. QED
    BY <1>1, <2>1 DEF Init, TypeOK
<1>4. Indices(log, "CLAIMED") = {} /\ Indices(log, "OUTCOME_UNKNOWN") = {}
  BY <1>2 DEF Indices
<1>5. Sound(log) /\ QuarantineCloses(log) /\ EpochsNumberClaims(log)
  BY <1>2, <1>4 DEF Sound, ReferToClaims, OneOpen, NotWrittenOff, QuarantineCloses,
                    EpochsNumberClaims
<1>6. ChallengesNameQuarantines
  BY <1>2 DEF ChallengesNameQuarantines
<1>7. QED
  BY <1>3, <1>5, <1>6 DEF IInv

\* The steps of the dispatch, with a resolution judged at any instant: one that is
\* resumed from its evidence (V17) is judged at the instant of the observation.
DispatchNext ==
    \/ PrepareProviderDispatch
    \/ ClaimStep
    \/ HolderStep
    \/ \E now \in StaleNow, ttl \in TtlSeconds :
          IssueProviderReconciliationChallenge(ttl, now)
    \/ \E ev \in evidence, now \in Nat : ResolveProviderDispatchOutcome(ev, now)
    \/ ProviderStep
    \/ Tick

LEMMA NextIsDispatchNext == TypeOK /\ [Next]_vars => [DispatchNext]_vars
<1>1. ASSUME TypeOK, Next PROVE DispatchNext
  <2>1. clock \in Nat
    BY <1>1 DEF TypeOK
  <2>2. QED
    BY <1>1, <2>1 DEF Next, ReconcileStep, DispatchNext
<1>2. QED
  BY <1>1

LEMMA InvariantPreserved == IInv /\ [DispatchNext]_vars => IInv'
<1>1. SUFFICES ASSUME IInv, [DispatchNext]_vars PROVE IInv'
  OBVIOUS
<1>2. /\ TypeOK
      /\ Sound(log)
      /\ QuarantineCloses(log)
      /\ EpochsNumberClaims(log)
      /\ ChallengesNameQuarantines
  BY <1>1 DEF IInv
<1>3. ASSUME Appends, challenges' = challenges \/ ChallengeAppends, record' \in Record,
             UNCHANGED world
      PROVE  IInv'
  <2>1. /\ log' \in Seq(Event)
        /\ Sound(log')
        /\ QuarantineCloses(log')
        /\ EpochsNumberClaims(log')
        /\ Indices(log, "OUTCOME_UNKNOWN") \subseteq Indices(log', "OUTCOME_UNKNOWN")
    BY <1>1, <1>3, AppendsKeepHistory
  <2>2. challenges' \in Seq(ChallengeEvent) /\ ChallengesNameQuarantines'
    BY <1>1, <1>3, <2>1, ChallengesKept
  <2>3. TypeOK'
    BY <1>2, <1>3, <2>1, <2>2 DEF TypeOK, world
  <2>4. QED
    BY <2>1, <2>2, <2>3 DEF IInv
<1>4. ASSUME UNCHANGED <<log, challenges>>, TypeOK' PROVE IInv'
  BY <1>2, <1>4 DEF IInv, ChallengesNameQuarantines
<1>5. CASE PrepareProviderDispatch
  <2>1. record' \in Record
    BY <1>5, NoEnvelopeType DEF PrepareProviderDispatch, Record, RecordStates
  <2>2. TypeOK'
    BY <1>2, <1>5, <2>1 DEF PrepareProviderDispatch, TypeOK, world
  <2>3. QED
    BY <1>4, <1>5, <2>2 DEF PrepareProviderDispatch
<1>6. CASE ClaimStep
  <2>1. ASSUME NEW now \in StaleNow, Quarantine(now) PROVE IInv'
    BY <1>1, <1>3, <2>1, QuarantineAppends DEF Quarantine
  <2>2. ASSUME NEW now \in StaleNow, NEW w \in Workers, NEW lease \in LeaseSeconds,
               ClaimProviderDispatch(w, lease, now)
        PROVE  IInv'
    <3>1. /\ log' \in Seq(Event)
          /\ Sound(log')
          /\ QuarantineCloses(log')
          /\ EpochsNumberClaims(log')
          /\ Indices(log, "OUTCOME_UNKNOWN") \subseteq Indices(log', "OUTCOME_UNKNOWN")
      BY <1>1, <2>2, ClaimSound
    <3>2. UNCHANGED <<record, challenges>> /\ UNCHANGED world
      BY <2>2 DEF ClaimProviderDispatch
    <3>3. challenges' \in Seq(ChallengeEvent) /\ ChallengesNameQuarantines'
      BY <1>1, <3>1, <3>2, ChallengesKept
    <3>4. TypeOK'
      BY <1>2, <3>1, <3>2 DEF TypeOK, world
    <3>5. QED
      BY <3>1, <3>3, <3>4 DEF IInv
  <2>3. QED
    BY <1>6, <2>1, <2>2 DEF ClaimStep
<1>7. CASE HolderStep
  <2>1. UNCHANGED world
    BY <1>7 DEF HolderStep, AbandonProviderDispatchClaim,
                RecordProviderDispatchAttemptFailure, AdmitProviderDispatchReceipt,
                RenewProviderDispatchClaim, StartProviderDispatchAttempt,
                RecordProviderDispatchSubmission
  <2>2. QED
    BY <1>1, <1>3, <1>7, <2>1, HolderAppends
<1>8. ASSUME NEW now \in StaleNow, NEW ttl \in TtlSeconds,
             IssueProviderReconciliationChallenge(ttl, now)
      PROVE  IInv'
  <2>1. ChallengeAppends /\ log' = log /\ record' = record
    BY <1>1, <1>8, IssueAppends
  <2>2. challenges' \in Seq(ChallengeEvent) /\ ChallengesNameQuarantines'
    BY <1>1, <2>1, ChallengesKept
  <2>3. UNCHANGED world
    BY <1>8 DEF IssueProviderReconciliationChallenge
  <2>4. TypeOK'
    BY <1>2, <2>1, <2>2, <2>3 DEF TypeOK, world
  <2>5. QED
    BY <1>2, <2>1, <2>2, <2>4 DEF IInv
<1>9. ASSUME NEW ev \in evidence, NEW now \in Nat, ResolveProviderDispatchOutcome(ev, now)
      PROVE  IInv'
  BY <1>1, <1>3, <1>9, ResolveAppends DEF ResolveProviderDispatchOutcome
<1>10. CASE ProviderStep
  <2>1. /\ UNCHANGED <<clock, record, log, challenges>>
        /\ effects' \subseteq Envelope
        /\ evidence' \subseteq Evidence
    BY <1>1, <1>10, ProviderLeavesState
  <2>2. TypeOK'
    BY <1>2, <2>1 DEF TypeOK
  <2>3. QED
    BY <1>4, <2>1, <2>2
<1>11. CASE Tick
  <2>1. TypeOK'
    BY <1>2, <1>11 DEF Tick, TypeOK, stateFile
  <2>2. QED
    BY <1>4, <1>11, <2>1 DEF Tick, stateFile
<1>12. CASE UNCHANGED vars
  <2>1. TypeOK'
    BY <1>2, <1>12 DEF TypeOK, vars
  <2>2. QED
    BY <1>4, <1>12, <2>1 DEF vars
<1>13. QED
  BY <1>1, <1>5, <1>6, <1>7, <1>8, <1>9, <1>10, <1>11, <1>12 DEF DispatchNext

LEMMA Invariant == Spec => []IInv
<1>1. IInv /\ [Next]_vars => IInv'
  BY InvariantPreserved, NextIsDispatchNext DEF IInv
<1>2. QED
  BY <1>1, InitInvariant, PTL DEF Spec

-----------------------------------------------------------------------------
(* Theorems *)

\* The state file and the world keep their types, whatever the workers, lease
\* lengths, challenge lifetimes and bounds.
THEOREM TypeCorrect == Spec => []TypeOK
<1>1. IInv => TypeOK
  BY DEF IInv
<1>2. QED
  BY <1>1, Invariant, PTL

\* Two workers are never both entitled to dispatch: claims, takeovers, renewals
\* and quarantines of the claim history leave at most one claim current.
THEOREM OneCurrentClaimAlways == Spec => []OneCurrentClaim
<1>1. IInv => OneCurrentClaim
  BY DEF IInv, Sound, OneOpen, OneCurrentClaim
<1>2. QED
  BY <1>1, Invariant, PTL

\* An attempt whose submission is recorded is never written off as expired or
\* failed by the claim, failure and takeover operations.
THEOREM SubmittedNeverWrittenOff == Spec => []SubmittedNotWrittenOff
<1>1. IInv => SubmittedNotWrittenOff
  BY DEF IInv, Sound, NotWrittenOff, SubmittedNotWrittenOff
<1>2. QED
  BY <1>1, Invariant, PTL

\* Fencing epochs increase with the claims, so that a provider that compares them
\* refuses the earlier attempt.
THEOREM EpochsAlwaysFollowClaims == Spec => []EpochsFollowClaims
<1>1. IInv => EpochsFollowClaims
  BY DEF IInv, EpochsNumberClaims, EpochsFollowClaims
<1>2. QED
  BY <1>1, Invariant, PTL

\* While an outcome is unknown, no operation changes the claim history except the
\* resolution of that outcome.
THEOREM QuarantineAlwaysHolds == Spec => QuarantineHolds
<1> DEFINE Held == Unresolved(log) # 0 /\ log' # log =>
                      /\ Len(log') = Len(log) + 1
                      /\ Resolves(log', Len(log'), Unresolved(log))
<1>1. ASSUME IInv, [Next]_vars PROVE [Held]_vars
  <2>1. ASSUME Appends PROVE Held
    <3>1. PICK e \in Event : HistoryEvent(e) /\ log' = Append(log, e)
      BY <2>1 DEF Appends
    <3>2. log \in Seq(Event)
      BY <1>1 DEF IInv, TypeOK
    <3>3. Len(log') = Len(log) + 1
      BY <3>1, <3>2, AppendFacts
    <3>4. QED
      BY <3>1, <3>3 DEF HistoryEvent
  <2>2. CASE ClaimStep
    <3>1. ASSUME NEW now \in StaleNow, Quarantine(now) PROVE Held
      BY <1>1, <2>1, <3>1, QuarantineAppends
    <3>2. ASSUME NEW now \in StaleNow, NEW w \in Workers, NEW lease \in LeaseSeconds,
                 ClaimProviderDispatch(w, lease, now)
          PROVE  Held
      BY <1>1, <3>2, ClaimSound
    <3>3. QED
      BY <2>2, <3>1, <3>2 DEF ClaimStep
  <2>3. CASE HolderStep
    BY <1>1, <2>1, <2>3, HolderAppends
  <2>4. CASE ReconcileStep
    <3>1. ASSUME NEW ev \in evidence, ResolveProviderDispatchOutcome(ev, clock)
          PROVE  Held
      BY <1>1, <2>1, <3>1, ResolveAppends
    <3>2. QED
      BY <2>4, <3>1 DEF ReconcileStep, IssueProviderReconciliationChallenge
  <2>5. CASE PrepareProviderDispatch \/ ProviderStep \/ Tick \/ UNCHANGED vars
    BY <2>5 DEF PrepareProviderDispatch, ProviderStep, ProviderExecute,
                ReconcileWithChallenge, Tick, stateFile, vars
  <2>6. QED
    BY <1>1, <2>2, <2>3, <2>4, <2>5 DEF Next
<1>2. QED
  BY <1>1, Invariant, PTL DEF Spec, QuarantineHolds
=============================================================================
