------------------- MODULE ProviderDispatchRestart_proofs -------------------
(***************************************************************************)
(* More proofs about ProviderDispatch, for any workers, lease lengths,     *)
(* challenge lifetimes and bounds: what a restart verifies of the state    *)
(* file, what an admitted receipt and a resolution rest on, and the order  *)
(* of the effects at the provider.  The steps are those of DispatchNext,   *)
(* so that the vault, which resumes resolutions at past instants, can rest *)
(* on the same facts.                                                      *)
(***************************************************************************)
EXTENDS ProviderDispatch_proofs

-----------------------------------------------------------------------------
(* The claim history a restart accepts *)

\* An event has the worker and the epoch of its claim.
CopyClaims(l) ==
    \A i \in DOMAIN l : /\ l[i].worker = l[l[i].claim].worker
                        /\ l[i].epoch = l[l[i].claim].epoch

\* An open claim is the newest one.
OpenIsNewest(l) ==
    \A i \in DOMAIN l : IsOpen(l, i) => \A j \in Indices(l, "CLAIMED") : j <= i

IsUnresolved(l, u) ==
    u \in Indices(l, "OUTCOME_UNKNOWN") /\ \A j \in DOMAIN l : ~Resolves(l, j, u)

\* At most one outcome is unknown, and it is that of the newest claim.
OneUnresolved(l) ==
    \A u, v \in Indices(l, "OUTCOME_UNKNOWN") :
        IsUnresolved(l, u) /\ IsUnresolved(l, v) => u = v

UnresolvedIsNewest(l) ==
    \A u \in Indices(l, "OUTCOME_UNKNOWN") :
        IsUnresolved(l, u) => \A j \in Indices(l, "CLAIMED") : j <= l[u].claim

\* A claim is started once, while it is open, under the lease it had then.
OneStart(l) ==
    \A i, j \in Indices(l, "STARTED") : l[i].claim = l[j].claim => i = j

StartInLease(l) ==
    \A j \in Indices(l, "STARTED") :
        LET c == l[j].claim
        IN  /\ ~TerminalBefore(l, c, j)
            /\ l[j].expiry # l[c].expiry => Has(l, c, "RENEWED")

RenewalsVerify(l) == \A c \in Indices(l, "CLAIMED") : VerifyRenewals(l, c)

\* What needs the start, or the submission, of the same claim before it.
EndsAreStarted(l) ==
    \A j \in DOMAIN l :
        /\ l[j].kind \in {"COMPLETED", "ATTEMPT_FAILED"} =>
             \E i \in EventsOf(l, l[j].claim, "STARTED") : i < j
        /\ l[j].kind = "SUBMITTED" => Has(l, l[j].claim, "STARTED")
        /\ l[j].kind = "OUTCOME_UNKNOWN" => Has(l, l[j].claim, "SUBMITTED")

History(l) ==
    /\ CopyClaims(l)
    /\ OpenIsNewest(l)
    /\ OneUnresolved(l)
    /\ UnresolvedIsNewest(l)
    /\ OneStart(l)
    /\ StartInLease(l)
    /\ RenewalsVerify(l)
    /\ EndsAreStarted(l)

\* An event that an operation may append to a history.
Follows(l, e) ==
    /\ e \in Event
    /\ e.kind # "CLAIMED"
    /\ e.claim \in Indices(l, "CLAIMED")
    /\ e.worker = l[e.claim].worker
    /\ e.epoch = l[e.claim].epoch
    /\ e.kind \in {"RENEWED", "STARTED", "OUTCOME_UNKNOWN"} => IsOpen(l, e.claim)
    /\ e.kind = "RENEWED" => /\ e.previous = LeaseExpiry(l, e.claim)
                             /\ e.expiry > e.previous
    /\ e.kind = "STARTED" => /\ e.expiry = LeaseExpiry(l, e.claim)
                             /\ ~Has(l, e.claim, "STARTED")
    /\ e.kind \in {"COMPLETED", "ATTEMPT_FAILED", "SUBMITTED"} => Has(l, e.claim, "STARTED")
    /\ e.kind = "OUTCOME_UNKNOWN" => Has(l, e.claim, "SUBMITTED") /\ Unresolved(l) = 0

-----------------------------------------------------------------------------
(* Appending to a history *)

\* An append changes nothing of the events before it.
LEMMA AppendKeeps ==
    ASSUME NEW l \in Seq(Event), NEW e \in Event
    PROVE  /\ Len(l) \in Nat /\ DOMAIN l = 1..Len(l)
           /\ DOMAIN Append(l, e) = 1..(Len(l) + 1)
           /\ \A j \in 1..Len(l) : Append(l, e)[j] = l[j]
           /\ Append(l, e)[Len(l) + 1] = e
           /\ \A kind : Indices(l, kind) \subseteq Indices(Append(l, e), kind)
           /\ \A kind : kind # e.kind => Indices(Append(l, e), kind) = Indices(l, kind)
           /\ \A kind : Indices(Append(l, e), kind)
                          \subseteq Indices(l, kind) \cup {Len(l) + 1}
<1>1. /\ Len(l) \in Nat /\ DOMAIN l = 1..Len(l)
      /\ DOMAIN Append(l, e) = 1..(Len(l) + 1)
      /\ \A j \in 1..Len(l) : Append(l, e)[j] = l[j]
      /\ Append(l, e)[Len(l) + 1] = e
  BY AppendFacts
<1> DEFINE a == Append(l, e)
<1> HIDE DEF a
<1>2. /\ DOMAIN a = 1..(Len(l) + 1)
      /\ \A j \in 1..Len(l) : a[j] = l[j]
      /\ a[Len(l) + 1] = e
  BY <1>1 DEF a
<1>3. /\ \A kind : Indices(l, kind) \subseteq Indices(a, kind)
      /\ \A kind : kind # e.kind => Indices(a, kind) = Indices(l, kind)
      /\ \A kind : Indices(a, kind) \subseteq Indices(l, kind) \cup {Len(l) + 1}
  BY <1>1, <1>2 DEF Indices
<1>4. QED
  BY <1>1, <1>3 DEF a

\* The unresolved outcome is the one that Unresolved returns.
LEMMA UnresolvedIs ==
    ASSUME NEW l \in Seq(Event), OneUnresolved(l)
    PROVE  /\ Unresolved(l) # 0 => IsUnresolved(l, Unresolved(l))
           /\ \A u : IsUnresolved(l, u) => Unresolved(l) = u
<1>1. Unresolved(l) # 0 => IsUnresolved(l, Unresolved(l))
  BY UnresolvedUnknown DEF IsUnresolved
<1>2. ASSUME NEW u, IsUnresolved(l, u) PROVE Unresolved(l) = u
  <2>1. Unresolved(l) # 0
    BY <1>2, NothingUnresolved DEF IsUnresolved
  <2>2. QED
    BY <1>1, <1>2, <2>1 DEF OneUnresolved, IsUnresolved
<1>3. QED
  BY <1>1, <1>2

\* What is unresolved after an append was so before, or is the appended event.
LEMMA StillUnresolved ==
    ASSUME NEW l \in Seq(Event), NEW e \in Event, NEW u, IsUnresolved(Append(l, e), u)
    PROVE  \/ u = Len(l) + 1 /\ e.kind = "OUTCOME_UNKNOWN"
           \/ IsUnresolved(l, u) /\ u \in DOMAIN l /\ ~Resolves(Append(l, e), Len(l) + 1, u)
<1> DEFINE a == Append(l, e)
<1>1. /\ Len(l) \in Nat /\ DOMAIN l = 1..Len(l)
      /\ DOMAIN a = 1..(Len(l) + 1)
      /\ \A j \in 1..Len(l) : a[j] = l[j]
      /\ a[Len(l) + 1] = e
  BY AppendKeeps
<1> HIDE DEF a
<1>2. u \in DOMAIN a /\ a[u].kind = "OUTCOME_UNKNOWN" /\ \A j \in DOMAIN a : ~Resolves(a, j, u)
  BY DEF IsUnresolved, Indices, a
<1>3. CASE u = Len(l) + 1
  BY <1>1, <1>2, <1>3
<1>4. CASE u # Len(l) + 1
  <2>1. u \in 1..Len(l) /\ l[u].kind = "OUTCOME_UNKNOWN"
    BY <1>1, <1>2, <1>4
  <2>2. \A j \in 1..Len(l) : Resolves(l, j, u) => Resolves(a, j, u)
    BY <1>1, <2>1 DEF Resolves
  <2>3. QED
    BY <1>1, <1>2, <2>1, <2>2 DEF IsUnresolved, Indices, a
<1>5. QED
  BY <1>3, <1>4

-----------------------------------------------------------------------------
(* An event of an operation keeps the history *)

LEMMA CopiesAfterEvent ==
    ASSUME NEW l \in Seq(Event), Sound(l), CopyClaims(l), NEW e, Follows(l, e)
    PROVE  CopyClaims(Append(l, e))
<1> DEFINE a == Append(l, e)
<1>1. e \in Event /\ e.claim \in Indices(l, "CLAIMED")
      /\ e.worker = l[e.claim].worker /\ e.epoch = l[e.claim].epoch
  BY DEF Follows
<1>2. /\ Len(l) \in Nat /\ DOMAIN l = 1..Len(l)
      /\ DOMAIN a = 1..(Len(l) + 1)
      /\ \A j \in 1..Len(l) : a[j] = l[j]
      /\ a[Len(l) + 1] = e
  BY <1>1, AppendKeeps
<1> HIDE DEF a
<1>3. ASSUME NEW i \in 1..(Len(l) + 1)
      PROVE  a[i].worker = a[a[i].claim].worker /\ a[i].epoch = a[a[i].claim].epoch
  <2>1. CASE i = Len(l) + 1
    <3>1. a[i] = e /\ e.claim \in 1..Len(l)
      BY <1>1, <1>2, <2>1 DEF Indices
    <3>2. QED
      BY <1>1, <1>2, <3>1
  <2>2. CASE i \in 1..Len(l)
    <3>1. a[i] = l[i] /\ l[i].claim \in 1..Len(l)
      BY <1>2, <2>2 DEF Sound, ReferToClaims
    <3>2. QED
      BY <1>2, <2>2, <3>1 DEF CopyClaims
  <2>3. QED
    BY <1>2, <2>1, <2>2
<1>4. CopyClaims(a)
  BY <1>2, <1>3 DEF CopyClaims
<1>5. QED
  BY <1>4 DEF a

LEMMA NewestAfterEvent ==
    ASSUME NEW l \in Seq(Event), OpenIsNewest(l), NEW e \in Event, e.kind # "CLAIMED"
    PROVE  OpenIsNewest(Append(l, e))
<1>1. SUFFICES ASSUME NEW i \in DOMAIN Append(l, e), IsOpen(Append(l, e), i),
                      NEW j \in Indices(Append(l, e), "CLAIMED")
               PROVE  j <= i
  BY DEF OpenIsNewest
<1>2. i \in DOMAIN l /\ IsOpen(l, i)
  BY <1>1, OpenAfterAppend
<1>3. j \in Indices(l, "CLAIMED")
  BY <1>1, AppendKeeps
<1>4. QED
  BY <1>2, <1>3 DEF OpenIsNewest

LEMMA UnresolvedAfterEvent ==
    ASSUME NEW l \in Seq(Event), Sound(l), OneUnresolved(l), UnresolvedIsNewest(l),
           OpenIsNewest(l), NEW e, Follows(l, e)
    PROVE  OneUnresolved(Append(l, e)) /\ UnresolvedIsNewest(Append(l, e))
<1> DEFINE a == Append(l, e)
<1>1. /\ e \in Event
      /\ e.kind # "CLAIMED"
      /\ e.claim \in Indices(l, "CLAIMED")
      /\ e.kind = "OUTCOME_UNKNOWN" => IsOpen(l, e.claim) /\ Unresolved(l) = 0
  BY DEF Follows
<1>2. /\ Len(l) \in Nat /\ DOMAIN l = 1..Len(l)
      /\ \A j \in 1..Len(l) : a[j] = l[j]
      /\ a[Len(l) + 1] = e
      /\ Indices(a, "CLAIMED") = Indices(l, "CLAIMED")
  BY <1>1, AppendKeeps
<1>3. \A u : IsUnresolved(a, u) =>
         \/ u = Len(l) + 1 /\ e.kind = "OUTCOME_UNKNOWN"
         \/ IsUnresolved(l, u) /\ u \in DOMAIN l
  BY <1>1, StillUnresolved
<1> HIDE DEF a
<1>4. ASSUME NEW u, IsUnresolved(l, u) PROVE e.kind # "OUTCOME_UNKNOWN"
  BY <1>1, <1>4, NothingUnresolved DEF IsUnresolved
<1>5. OneUnresolved(a)
  <2>1. SUFFICES ASSUME NEW u, NEW v, IsUnresolved(a, u), IsUnresolved(a, v) PROVE u = v
    BY DEF OneUnresolved
  <2>2. CASE IsUnresolved(l, u)
    <3>1. IsUnresolved(l, v)
      BY <1>3, <1>4, <2>1, <2>2
    <3>2. QED
      BY <2>2, <3>1 DEF OneUnresolved, IsUnresolved
  <2>3. CASE ~IsUnresolved(l, u)
    <3>1. u = Len(l) + 1 /\ e.kind = "OUTCOME_UNKNOWN"
      BY <1>3, <2>1, <2>3
    <3>2. v = Len(l) + 1
      BY <1>3, <1>4, <2>1, <3>1
    <3>3. QED
      BY <3>1, <3>2
  <2>4. QED
    BY <2>2, <2>3
<1>6. UnresolvedIsNewest(a)
  <2>1. SUFFICES ASSUME NEW u, IsUnresolved(a, u), NEW j \in Indices(l, "CLAIMED")
                 PROVE  j <= a[u].claim
    BY <1>2 DEF UnresolvedIsNewest
  <2>2. CASE IsUnresolved(l, u) /\ u \in DOMAIN l
    BY <1>2, <2>1, <2>2 DEF UnresolvedIsNewest, IsUnresolved
  <2>3. CASE u = Len(l) + 1 /\ e.kind = "OUTCOME_UNKNOWN"
    <3>1. a[u].claim = e.claim /\ IsOpen(l, e.claim) /\ e.claim \in DOMAIN l
      BY <1>1, <1>2, <2>3 DEF Indices
    <3>2. QED
      BY <2>1, <3>1 DEF OpenIsNewest
  <2>4. QED
    BY <1>3, <2>1, <2>2, <2>3
<1>7. QED
  BY <1>5, <1>6 DEF a

\* An open claim has no terminal event at all.
LEMMA OpenNotEnded ==
    ASSUME NEW l \in Seq(Event), Sound(l), NEW c \in DOMAIN l, IsOpen(l, c), NEW j
    PROVE  ~TerminalBefore(l, c, j)
<1>1. DOMAIN l = 1..Len(l) /\ Len(l) \in Nat /\ l[c].kind = "CLAIMED"
  BY DEF IsOpen
<1>2. SUFFICES ASSUME NEW i \in DOMAIN l, l[i].claim = c,
                      l[i].kind \in TerminalEventTypes
               PROVE  FALSE
  BY DEF TerminalBefore
<1>3. l[i].kind # "CLAIMED"
  BY <1>2 DEF TerminalEventTypes
<1>4. c \in 1..(i - 1)
  BY <1>2, <1>3 DEF Sound, ReferToClaims
<1>5. QED
  BY <1>1, <1>2, <1>4 DEF IsOpen

\* What happened before an event does not change.
LEMMA BeforeAfterAppend ==
    ASSUME NEW l \in Seq(Event), NEW e \in Event, NEW c \in DOMAIN l,
           NEW j \in 1..(Len(l) + 1)
    PROVE  /\ TerminalBefore(Append(l, e), c, j) <=> TerminalBefore(l, c, j)
           /\ ExpiryBefore(Append(l, e), c, j) = ExpiryBefore(l, c, j)
<1> DEFINE a == Append(l, e)
           R(h) == {i \in EventsOf(h, c, "RENEWED") : i < j}
<1>1. /\ Len(l) \in Nat /\ DOMAIN l = 1..Len(l)
      /\ DOMAIN a = 1..(Len(l) + 1)
      /\ \A i \in 1..Len(l) : a[i] = l[i]
  BY AppendKeeps
<1> HIDE DEF a
<1>2. TerminalBefore(a, c, j) <=> TerminalBefore(l, c, j)
  <2>1. \A i \in DOMAIN a : i < j => i \in DOMAIN l /\ a[i] = l[i]
    BY <1>1
  <2>2. DOMAIN l \subseteq DOMAIN a
    BY <1>1
  <2>3. QED
    BY <2>1, <2>2 DEF TerminalBefore
<1>3. R(a) = R(l)
  BY <1>1 DEF EventsOf, Indices
<1>4. R(l) \in SUBSET (1..Len(l))
  BY <1>1 DEF EventsOf, Indices
<1>5. R(l) # {} => LastOf(R(l)) \in 1..Len(l)
  <2> HIDE DEF R
  <2>1. QED
    BY <1>1, <1>4, LastOfBounded
<1>6. ExpiryBefore(a, c, j) = IF R(a) = {} THEN a[c].expiry ELSE a[LastOf(R(a))].expiry
  BY DEF ExpiryBefore
<1>7. ExpiryBefore(l, c, j) = IF R(l) = {} THEN l[c].expiry ELSE l[LastOf(R(l))].expiry
  BY DEF ExpiryBefore
<1> HIDE DEF R
<1>8. ExpiryBefore(a, c, j) = ExpiryBefore(l, c, j)
  BY <1>1, <1>3, <1>5, <1>6, <1>7
<1>9. QED
  BY <1>2, <1>8 DEF a

LEMMA ExpiryAtEnd ==
    ASSUME NEW l \in Seq(Event), NEW c
    PROVE  ExpiryBefore(l, c, Len(l) + 1) = LeaseExpiry(l, c)
<1>1. {i \in EventsOf(l, c, "RENEWED") : i < Len(l) + 1} = EventsOf(l, c, "RENEWED")
  <2>1. DOMAIN l = 1..Len(l) /\ Len(l) \in Nat
    OBVIOUS
  <2>2. QED
    BY <2>1 DEF EventsOf, Indices
<1>2. QED
  BY <1>1 DEF ExpiryBefore, LeaseExpiry, Has

LEMMA StartsAfterEvent ==
    ASSUME NEW l \in Seq(Event), Sound(l), OneStart(l), StartInLease(l),
           NEW e, Follows(l, e)
    PROVE  OneStart(Append(l, e)) /\ StartInLease(Append(l, e))
<1> DEFINE a == Append(l, e)
<1>1. /\ e \in Event
      /\ e.kind # "CLAIMED"
      /\ e.claim \in Indices(l, "CLAIMED")
      /\ e.kind = "STARTED" => /\ IsOpen(l, e.claim)
                               /\ e.expiry = LeaseExpiry(l, e.claim)
                               /\ ~Has(l, e.claim, "STARTED")
  BY DEF Follows
<1>2. /\ Len(l) \in Nat /\ DOMAIN l = 1..Len(l)
      /\ \A j \in 1..Len(l) : a[j] = l[j]
      /\ a[Len(l) + 1] = e
      /\ e.kind # "STARTED" => Indices(a, "STARTED") = Indices(l, "STARTED")
      /\ Indices(a, "STARTED") \subseteq Indices(l, "STARTED") \cup {Len(l) + 1}
  BY <1>1, AppendKeeps
<1>3. \A j \in Indices(l, "STARTED") : j \in 1..Len(l) /\ l[j].claim \in 1..Len(l)
  BY <1>2 DEF Indices, Sound, ReferToClaims
<1>4. \A c, kind : Has(l, c, kind) => Has(a, c, kind)
  BY <1>1, HasAfterAppend
<1>5. \A c \in 1..Len(l), j \in 1..(Len(l) + 1) : TerminalBefore(a, c, j) <=> TerminalBefore(l, c, j)
  BY <1>1, <1>2, BeforeAfterAppend
<1>6. Len(l) + 1 \in Indices(a, "STARTED") => e.kind = "STARTED"
  BY <1>2 DEF Indices
<1>7. e.claim \in 1..Len(l)
  BY <1>1, <1>2 DEF Indices
<1> HIDE DEF a
<1>8. OneStart(a)
  <2>1. SUFFICES ASSUME NEW i \in Indices(a, "STARTED"), NEW j \in Indices(a, "STARTED"),
                        a[i].claim = a[j].claim
                 PROVE  i = j
    BY DEF OneStart
  <2>2. CASE i \in Indices(l, "STARTED") /\ j \in Indices(l, "STARTED")
    BY <1>2, <1>3, <2>1, <2>2 DEF OneStart
  <2>3. ASSUME NEW k \in Indices(l, "STARTED"), Len(l) + 1 \in Indices(a, "STARTED"),
               a[k].claim = e.claim
        PROVE  FALSE
    <3>1. k \in EventsOf(l, e.claim, "STARTED")
      BY <1>2, <1>3, <2>3 DEF EventsOf
    <3>2. QED
      BY <1>1, <1>6, <2>3, <3>1 DEF Has
  <2>4. QED
    BY <1>2, <2>1, <2>2, <2>3
<1>9. StartInLease(a)
  <2>1. SUFFICES ASSUME NEW j \in Indices(a, "STARTED")
                 PROVE  /\ ~TerminalBefore(a, a[j].claim, j)
                        /\ a[j].expiry # a[a[j].claim].expiry => Has(a, a[j].claim, "RENEWED")
    BY DEF StartInLease
  <2>2. CASE j \in Indices(l, "STARTED")
    <3>1. /\ ~TerminalBefore(l, l[j].claim, j)
          /\ l[j].expiry # l[l[j].claim].expiry => Has(l, l[j].claim, "RENEWED")
      BY <2>2 DEF StartInLease
    <3>2. j \in 1..(Len(l) + 1)
      BY <1>2, <1>3, <2>2
    <3>3. QED
      BY <1>2, <1>3, <1>4, <1>5, <2>2, <3>1, <3>2
  <2>3. CASE j = Len(l) + 1
    <3>1. a[j] = e /\ e.kind = "STARTED"
      BY <1>2, <1>6, <2>1, <2>3
    <3>2. ~TerminalBefore(l, e.claim, j)
      BY <1>1, <1>2, <1>7, <3>1, OpenNotEnded
    <3>3. Len(l) + 1 \in 1..(Len(l) + 1)
      BY <1>2
    <3>4. ~TerminalBefore(a, e.claim, j)
      BY <1>5, <1>7, <2>3, <3>2, <3>3
    <3>5. e.expiry # l[e.claim].expiry => Has(l, e.claim, "RENEWED")
      BY <1>1, <3>1 DEF LeaseExpiry
    <3>6. QED
      BY <1>2, <1>4, <1>7, <3>1, <3>4, <3>5
  <2>4. QED
    BY <1>2, <2>1, <2>2, <2>3
<1>10. QED
  BY <1>8, <1>9 DEF a

LEMMA RenewalsAfterEvent ==
    ASSUME NEW l \in Seq(Event), Sound(l), CopyClaims(l), RenewalsVerify(l),
           NEW e, Follows(l, e)
    PROVE  RenewalsVerify(Append(l, e))
<1> DEFINE a == Append(l, e)
<1>1. /\ e \in Event
      /\ e.kind # "CLAIMED"
      /\ e.claim \in Indices(l, "CLAIMED")
      /\ e.worker = l[e.claim].worker /\ e.epoch = l[e.claim].epoch
      /\ e.kind = "RENEWED" => /\ IsOpen(l, e.claim)
                               /\ e.previous = LeaseExpiry(l, e.claim)
                               /\ e.expiry > e.previous
  BY DEF Follows
<1>2. /\ Len(l) \in Nat /\ DOMAIN l = 1..Len(l) /\ Len(l) + 1 \in 1..(Len(l) + 1)
      /\ DOMAIN a = 1..(Len(l) + 1)
      /\ \A j \in 1..Len(l) : a[j] = l[j]
      /\ a[Len(l) + 1] = e
      /\ Indices(a, "CLAIMED") = Indices(l, "CLAIMED")
  BY <1>1, AppendKeeps
<1>3. \A c \in 1..Len(l), j \in 1..(Len(l) + 1) :
         /\ TerminalBefore(a, c, j) <=> TerminalBefore(l, c, j)
         /\ ExpiryBefore(a, c, j) = ExpiryBefore(l, c, j)
  BY <1>1, <1>2, BeforeAfterAppend
<1> HIDE DEF a
<1>4. ASSUME NEW c \in Indices(l, "CLAIMED"), NEW j \in EventsOf(a, c, "RENEWED")
      PROVE  /\ ~TerminalBefore(a, c, j)
             /\ a[j].worker = a[c].worker /\ a[j].epoch = a[c].epoch
             /\ a[j].previous = ExpiryBefore(a, c, j)
             /\ a[j].expiry > a[j].previous
  <2>1. c \in 1..Len(l) /\ a[c] = l[c]
    BY <1>2 DEF Indices
  <2>2. j \in 1..(Len(l) + 1) /\ a[j].kind = "RENEWED" /\ a[j].claim = c
    BY <1>2, <1>4 DEF EventsOf, Indices
  <2>3. CASE j \in 1..Len(l)
    <3>1. j \in EventsOf(l, c, "RENEWED") /\ a[j] = l[j]
      BY <1>2, <2>2, <2>3 DEF EventsOf, Indices
    <3>2. /\ ~TerminalBefore(l, c, j)
          /\ l[j].worker = l[c].worker /\ l[j].epoch = l[c].epoch
          /\ l[j].previous = ExpiryBefore(l, c, j)
          /\ l[j].expiry > l[j].previous
      BY <1>4, <3>1 DEF RenewalsVerify, VerifyRenewals
    <3>3. QED
      BY <1>3, <2>1, <2>2, <3>1, <3>2
  <2>4. CASE j = Len(l) + 1
    <3>1. a[j] = e /\ e.kind = "RENEWED" /\ e.claim = c
      BY <1>2, <2>2, <2>4
    <3>2. IsOpen(l, c) /\ e.previous = LeaseExpiry(l, c)
      BY <1>1, <3>1
    <3>3. ~TerminalBefore(l, c, j)
      BY <1>2, <2>1, <3>2, OpenNotEnded
    <3>4. ExpiryBefore(l, c, j) = LeaseExpiry(l, c)
      BY <2>4, ExpiryAtEnd
    <3>5. QED
      BY <1>1, <1>3, <2>1, <2>2, <3>1, <3>2, <3>3, <3>4
  <2>5. QED
    BY <1>2, <2>2, <2>3, <2>4
<1>5. RenewalsVerify(a)
  BY <1>2, <1>4 DEF RenewalsVerify, VerifyRenewals
<1>6. QED
  BY <1>5 DEF a

LEMMA EndsAfterAppend ==
    ASSUME NEW l \in Seq(Event), EndsAreStarted(l), NEW e \in Event,
           e.kind \in {"COMPLETED", "ATTEMPT_FAILED", "SUBMITTED"} => Has(l, e.claim, "STARTED"),
           e.kind = "OUTCOME_UNKNOWN" => Has(l, e.claim, "SUBMITTED")
    PROVE  EndsAreStarted(Append(l, e))
<1> DEFINE a == Append(l, e)
<1>1. /\ Len(l) \in Nat /\ DOMAIN l = 1..Len(l)
      /\ DOMAIN a = 1..(Len(l) + 1)
      /\ \A j \in 1..Len(l) : a[j] = l[j]
      /\ a[Len(l) + 1] = e
  BY AppendKeeps
<1>2. \A c, kind : Has(l, c, kind) => Has(a, c, kind)
  BY HasAfterAppend
<1> HIDE DEF a
<1>3. \A c, kind : EventsOf(l, c, kind) \subseteq EventsOf(a, c, kind)
  BY <1>1 DEF EventsOf, Indices
<1>4. ASSUME NEW j \in 1..(Len(l) + 1)
      PROVE  /\ a[j].kind \in {"COMPLETED", "ATTEMPT_FAILED"} =>
                  \E i \in EventsOf(a, a[j].claim, "STARTED") : i < j
             /\ a[j].kind = "SUBMITTED" => Has(a, a[j].claim, "STARTED")
             /\ a[j].kind = "OUTCOME_UNKNOWN" => Has(a, a[j].claim, "SUBMITTED")
  <2>1. CASE j \in 1..Len(l)
    <3>1. a[j] = l[j] /\ j \in DOMAIN l
      BY <1>1, <2>1
    <3>2. /\ l[j].kind \in {"COMPLETED", "ATTEMPT_FAILED"} =>
                \E i \in EventsOf(l, l[j].claim, "STARTED") : i < j
          /\ l[j].kind = "SUBMITTED" => Has(l, l[j].claim, "STARTED")
          /\ l[j].kind = "OUTCOME_UNKNOWN" => Has(l, l[j].claim, "SUBMITTED")
      BY <3>1 DEF EndsAreStarted
    <3>3. QED
      BY <1>2, <1>3, <3>1, <3>2
  <2>2. CASE j = Len(l) + 1
    <3>1. a[j] = e
      BY <1>1, <2>2
    <3>2. Has(l, e.claim, "STARTED") =>
             \E i \in EventsOf(l, e.claim, "STARTED") : i < j
      BY <1>1, <2>2 DEF Has, EventsOf, Indices
    <3>3. QED
      BY <1>2, <1>3, <3>1, <3>2
  <2>3. QED
    BY <1>1, <2>1, <2>2
<1>5. EndsAreStarted(a)
  BY <1>1, <1>4 DEF EndsAreStarted
<1>6. QED
  BY <1>5 DEF a

LEMMA HistoryAfterEvent ==
    ASSUME NEW l \in Seq(Event), Sound(l), History(l), NEW e, Follows(l, e)
    PROVE  History(Append(l, e))
<1>1. e \in Event /\ e.kind # "CLAIMED"
  BY DEF Follows
<1>2. CopyClaims(Append(l, e))
  BY CopiesAfterEvent DEF History
<1>3. OpenIsNewest(Append(l, e))
  BY <1>1, NewestAfterEvent DEF History
<1>4. OneUnresolved(Append(l, e)) /\ UnresolvedIsNewest(Append(l, e))
  BY UnresolvedAfterEvent DEF History
<1>5. OneStart(Append(l, e)) /\ StartInLease(Append(l, e))
  BY StartsAfterEvent DEF History
<1>6. RenewalsVerify(Append(l, e))
  BY RenewalsAfterEvent DEF History
<1>7. EndsAreStarted(Append(l, e))
  BY <1>1, EndsAfterAppend DEF History, Follows
<1>8. QED
  BY <1>2, <1>3, <1>4, <1>5, <1>6, <1>7 DEF History

-----------------------------------------------------------------------------
(* So does a new claim, when no claim is open and no outcome unknown *)

LEMMA HistoryAfterClaim ==
    ASSUME NEW l \in Seq(Event), Sound(l), History(l), Unresolved(l) = 0, NEW e \in Event,
           e.kind = "CLAIMED", e.claim = Len(l) + 1,
           \A i \in DOMAIN l : ~IsOpen(l, i)
    PROVE  History(Append(l, e))
<1> DEFINE a == Append(l, e)
           n == Len(l) + 1
<1>1. /\ Len(l) \in Nat /\ DOMAIN l = 1..Len(l) /\ n \in Nat
      /\ DOMAIN a = 1..n
      /\ \A j \in 1..Len(l) : a[j] = l[j]
      /\ a[n] = e
      /\ \A kind : kind # "CLAIMED" => Indices(a, kind) = Indices(l, kind)
      /\ Indices(a, "CLAIMED") \subseteq Indices(l, "CLAIMED") \cup {n}
  BY AppendKeeps
<1>2. \A j \in DOMAIN l : l[j].claim \in 1..Len(l)
  BY <1>1 DEF Sound, ReferToClaims
<1>3. \A c \in DOMAIN l, j \in 1..n :
         /\ TerminalBefore(a, c, j) <=> TerminalBefore(l, c, j)
         /\ ExpiryBefore(a, c, j) = ExpiryBefore(l, c, j)
  BY BeforeAfterAppend
<1>4. \A u : ~IsUnresolved(a, u)
  <2>1. SUFFICES ASSUME NEW u, IsUnresolved(a, u) PROVE FALSE
    OBVIOUS
  <2>2. IsUnresolved(l, u)
    BY <2>1, StillUnresolved
  <2>3. QED
    BY <2>2, NothingUnresolved DEF IsUnresolved
<1>5. \A i \in DOMAIN a : IsOpen(a, i) => i = n
  BY OpenAfterAppend
<1>6. \A c, kind : kind # "CLAIMED" => (Has(a, c, kind) <=> Has(l, c, kind))
  BY HasAfterAppend
<1>7. EndsAreStarted(a)
  BY EndsAfterAppend DEF History
<1> HIDE DEF a, n
<1>8. CopyClaims(a)
  <2>1. ASSUME NEW i \in 1..n
        PROVE  a[i].worker = a[a[i].claim].worker /\ a[i].epoch = a[a[i].claim].epoch
    <3>1. CASE i = n
      BY <1>1, <3>1 DEF n
    <3>2. CASE i \in 1..Len(l)
      BY <1>1, <1>2, <3>2 DEF History, CopyClaims
    <3>3. QED
      BY <1>1, <3>1, <3>2 DEF n
  <2>2. QED
    BY <1>1, <2>1 DEF CopyClaims
<1>9. OpenIsNewest(a)
  <2>1. \A j \in Indices(a, "CLAIMED") : j <= n
    BY <1>1 DEF Indices
  <2>2. QED
    BY <1>5, <2>1 DEF OpenIsNewest
<1>10. OneUnresolved(a) /\ UnresolvedIsNewest(a)
  BY <1>4 DEF OneUnresolved, UnresolvedIsNewest
<1>11. \A kind : kind # "CLAIMED" => \A j \in Indices(a, kind) : j \in 1..Len(l) /\ a[j] = l[j]
  BY <1>1 DEF Indices
<1>12. OneStart(a)
  BY <1>1, <1>11 DEF History, OneStart
<1>13. StartInLease(a)
  <2>1. SUFFICES ASSUME NEW j \in Indices(l, "STARTED")
                 PROVE  /\ ~TerminalBefore(a, a[j].claim, j)
                        /\ a[j].expiry # a[a[j].claim].expiry => Has(a, a[j].claim, "RENEWED")
    BY <1>1 DEF StartInLease
  <2>2. j \in 1..Len(l) /\ j \in 1..n /\ a[j] = l[j] /\ l[j].claim \in 1..Len(l)
    BY <1>1, <1>2, <1>11 DEF Indices, n
  <2>3. /\ ~TerminalBefore(l, l[j].claim, j)
        /\ l[j].expiry # l[l[j].claim].expiry => Has(l, l[j].claim, "RENEWED")
    BY DEF History, StartInLease
  <2>4. QED
    BY <1>1, <1>3, <1>6, <2>2, <2>3
<1>14. RenewalsVerify(a)
  <2>1. SUFFICES ASSUME NEW c \in Indices(a, "CLAIMED"), NEW j \in EventsOf(a, c, "RENEWED")
                 PROVE  /\ ~TerminalBefore(a, c, j)
                        /\ a[j].worker = a[c].worker /\ a[j].epoch = a[c].epoch
                        /\ a[j].previous = ExpiryBefore(a, c, j)
                        /\ a[j].expiry > a[j].previous
    BY DEF RenewalsVerify, VerifyRenewals
  <2>2. j \in Indices(l, "RENEWED") /\ a[j].claim = c
    BY <1>1 DEF EventsOf
  <2>3. j \in 1..Len(l) /\ j \in 1..n /\ a[j] = l[j] /\ c \in 1..Len(l) /\ a[c] = l[c]
    BY <1>1, <1>2, <1>11, <2>2 DEF n
  <2>4. j \in EventsOf(l, c, "RENEWED") /\ c \in Indices(l, "CLAIMED")
    BY <1>1, <2>2, <2>3 DEF EventsOf, Indices, n
  <2>5. /\ ~TerminalBefore(l, c, j)
        /\ l[j].worker = l[c].worker /\ l[j].epoch = l[c].epoch
        /\ l[j].previous = ExpiryBefore(l, c, j)
        /\ l[j].expiry > l[j].previous
    BY <2>4 DEF History, RenewalsVerify, VerifyRenewals
  <2>6. QED
    BY <1>1, <1>3, <2>3, <2>5
<1>15. History(a)
  BY <1>7, <1>8, <1>9, <1>10, <1>12, <1>13, <1>14 DEF History
<1>16. QED
  BY <1>15 DEF a

-----------------------------------------------------------------------------
(* The inductive invariant *)

Newest(l, c) == c \in Indices(l, "CLAIMED") /\ \A j \in Indices(l, "CLAIMED") : j <= c

\* The record of a dispatch follows its history: a receipt is the provider's, of the
\* newest claim, and ends the history; while an outcome is unknown there is none.
RecordFollows(rec, l, eff) ==
    /\ VerifyReceipt(rec, l)
    /\ rec.receipt # NoEnvelope =>
         /\ \A i \in DOMAIN l : ~IsOpen(l, i)
         /\ rec.receipt \in eff
         /\ Newest(l, rec.receipt.claim)
    /\ Unresolved(l) # 0 => rec.state = "OUTCOME_UNKNOWN" /\ rec.receipt = NoEnvelope

\* What the provider carried out is an attempt of the history, and a lookup that
\* found a receipt found one of these.
EffectsFollow(l, eff) ==
    \A x \in eff : x.claim \in Indices(l, "CLAIMED") /\ x.epoch = l[x.claim].epoch

EvidenceFollows(evs, eff) == \A ev \in evs : ev.outcome = "COMPLETED" => ev.receipt \in eff

\* A consumed challenge was issued before, and names the resolution that used it up.
Consumed(ch, k) == k \in DOMAIN ch /\ ch[k].kind = "CONSUMED"

ConsumptionsFollow(ch, l) ==
    /\ \A k \in DOMAIN ch : Consumed(ch, k) =>
         /\ ch[k].resolution \in DOMAIN l
         /\ ch[k].reference \in 1..(k - 1)
         /\ ch[ch[k].reference].kind = "ISSUED"
         /\ ch[ch[k].reference].unknown = ch[k].unknown
    /\ \A k, m \in DOMAIN ch : Consumed(ch, k) /\ Consumed(ch, m) =>
         \/ k = m
         \/ /\ ch[k].resolution # ch[m].resolution
            /\ ch[k].reference # ch[m].reference

\* A resolution was observed under the challenge it consumed.
ResolvedBy(ch, l, j, k) ==
    /\ Consumed(ch, k)
    /\ ch[k].resolution = j
    /\ ch[k].reference = l[j].evidence.challenge
    /\ l[ch[k].unknown].claim = l[j].claim
    /\ l[j].evidence.observedAt >= ch[ch[k].reference].issuedAt
    /\ l[j].evidence.observedAt < ch[ch[k].reference].expiresAt

ResolutionsFollow(ch, l) ==
    \A j \in DOMAIN l : l[j].evidence # NoEvidence =>
      /\ l[j].evidence.outcome = "COMPLETED" => l[j].kind = "COMPLETED"
      /\ \E k \in DOMAIN ch : ResolvedBy(ch, l, j, k)

RInv ==
    /\ IInv
    /\ History(log)
    /\ RecordFollows(record, log, effects)
    /\ EffectsFollow(log, effects)
    /\ EvidenceFollows(evidence, effects)
    /\ ConsumptionsFollow(challenges, log)
    /\ ResolutionsFollow(challenges, log)

-----------------------------------------------------------------------------
(* The record after an event *)

\* An event that neither completes nor quarantines leaves a record as it was.
LEMMA RecordAfterEvent ==
    ASSUME NEW l \in Seq(Event), NEW e \in Event, NEW rec \in Record, NEW eff, NEW eff1,
           RecordFollows(rec, l, eff), eff \subseteq eff1,
           e.kind \notin {"CLAIMED", "COMPLETED", "OUTCOME_UNKNOWN"}
    PROVE  RecordFollows(rec, Append(l, e), eff1)
<1> DEFINE a == Append(l, e)
<1>1. /\ DOMAIN l = 1..Len(l)
      /\ \A j \in 1..Len(l) : a[j] = l[j]
      /\ Indices(a, "COMPLETED") = Indices(l, "COMPLETED")
      /\ Indices(a, "CLAIMED") = Indices(l, "CLAIMED")
  BY AppendKeeps
<1>2. Unresolved(a) # 0 => Unresolved(l) # 0
  BY UnresolvedAfterAppend
<1>3. \A i \in DOMAIN a : IsOpen(a, i) => i \in DOMAIN l /\ IsOpen(l, i)
  BY OpenAfterAppend
<1> HIDE DEF a
<1>4. \A j \in Indices(l, "COMPLETED") : a[j] = l[j]
  BY <1>1 DEF Indices
<1>5. VerifyReceipt(rec, a)
  BY <1>1, <1>4 DEF RecordFollows, VerifyReceipt
<1>6. \A c : Newest(l, c) => Newest(a, c)
  BY <1>1 DEF Newest
<1>7. RecordFollows(rec, a, eff1)
  BY <1>2, <1>3, <1>5, <1>6 DEF RecordFollows
<1>8. QED
  BY <1>7 DEF a

\* A history without a completion verifies a record without a receipt.
LEMMA NoReceipt ==
    ASSUME NEW l \in Seq(Event), NEW rec \in Record, NEW eff, RecordFollows(rec, l, eff),
           rec.receipt = NoEnvelope
    PROVE  Indices(l, "COMPLETED") = {}
BY DEF RecordFollows, VerifyReceipt

\* The completion of the newest claim, with a receipt of the provider, after which
\* nothing is open or unknown.
LEMMA RecordAfterCompletion ==
    ASSUME NEW l \in Seq(Event), NEW e \in Event, NEW rec \in Record, NEW new \in Record,
           NEW eff, RecordFollows(rec, l, eff), rec.receipt = NoEnvelope,
           e.kind = "COMPLETED",
           Newest(l, e.claim),
           new.state \in {"FENCING_VERIFIED", "CHALLENGE_VERIFIED"},
           new.receipt = EnvelopeOf(e), new.receipt # NoEnvelope, new.receipt \in eff,
           Unresolved(Append(l, e)) = 0,
           \A i \in DOMAIN Append(l, e) : ~IsOpen(Append(l, e), i)
    PROVE  RecordFollows(new, Append(l, e), eff)
<1> DEFINE a == Append(l, e)
<1>1. /\ Len(l) \in Nat /\ DOMAIN l = 1..Len(l) /\ DOMAIN a = 1..(Len(l) + 1)
      /\ \A j \in 1..Len(l) : a[j] = l[j]
      /\ a[Len(l) + 1] = e
      /\ Indices(a, "CLAIMED") = Indices(l, "CLAIMED")
      /\ Indices(a, "COMPLETED") \subseteq Indices(l, "COMPLETED") \cup {Len(l) + 1}
  BY AppendKeeps
<1>2. Indices(l, "COMPLETED") = {}
  BY NoReceipt
<1> HIDE DEF a
<1>3. Indices(a, "COMPLETED") = {Len(l) + 1}
  BY <1>1, <1>2 DEF Indices
<1>4. Cardinality(Indices(a, "COMPLETED")) = 1
  BY <1>3, FS_Singleton
<1>5. VerifyReceipt(new, a)
  BY <1>1, <1>3, <1>4 DEF VerifyReceipt
<1>6. new.receipt.claim = e.claim
  BY DEF EnvelopeOf
<1>7. Newest(a, new.receipt.claim)
  BY <1>1, <1>6 DEF Newest
<1>8. RecordFollows(new, a, eff)
  BY <1>5, <1>7 DEF RecordFollows, a
<1>9. QED
  BY <1>8 DEF a

\* Without a receipt, before and after, what is not completed leaves a record right
\* if it leaves nothing unknown, or a record that says so.
LEMMA RecordWithoutReceipt ==
    ASSUME NEW l \in Seq(Event), NEW e \in Event, NEW rec \in Record, NEW new \in Record,
           NEW eff, RecordFollows(rec, l, eff), rec.receipt = NoEnvelope,
           e.kind # "COMPLETED",
           new.receipt = NoEnvelope,
           Unresolved(Append(l, e)) = 0 \/ new.state = "OUTCOME_UNKNOWN"
    PROVE  RecordFollows(new, Append(l, e), eff)
<1>1. Indices(Append(l, e), "COMPLETED") = {}
  BY AppendKeeps, NoReceipt
<1>2. QED
  BY <1>1 DEF RecordFollows, VerifyReceipt

-----------------------------------------------------------------------------
(* The effects and the challenges after an event *)

LEMMA EffectsAfterAppend ==
    ASSUME NEW l \in Seq(Event), NEW e \in Event, NEW eff, EffectsFollow(l, eff)
    PROVE  EffectsFollow(Append(l, e), eff)
<1> DEFINE a == Append(l, e)
<1>1. /\ DOMAIN l = 1..Len(l)
      /\ \A j \in 1..Len(l) : a[j] = l[j]
      /\ Indices(l, "CLAIMED") \subseteq Indices(a, "CLAIMED")
  BY AppendKeeps
<1> HIDE DEF a
<1>2. EffectsFollow(a, eff)
  BY <1>1 DEF EffectsFollow, Indices
<1>3. QED
  BY <1>2 DEF a

LEMMA ConsumptionsAfterEvent ==
    ASSUME NEW l \in Seq(Event), NEW e \in Event, NEW ch \in Seq(ChallengeEvent),
           ConsumptionsFollow(ch, l)
    PROVE  ConsumptionsFollow(ch, Append(l, e))
<1>1. DOMAIN l \subseteq DOMAIN Append(l, e)
  BY AppendKeeps
<1>2. QED
  BY <1>1 DEF ConsumptionsFollow

\* An event without evidence resolves nothing.
LEMMA ResolutionsAfterEvent ==
    ASSUME NEW l \in Seq(Event), NEW e \in Event, NEW ch \in Seq(ChallengeEvent),
           ResolutionsFollow(ch, l), \A k \in DOMAIN ch : ch[k].unknown \in DOMAIN l,
           e.evidence = NoEvidence
    PROVE  ResolutionsFollow(ch, Append(l, e))
<1> DEFINE a == Append(l, e)
<1>1. /\ DOMAIN l = 1..Len(l)
      /\ DOMAIN a = 1..(Len(l) + 1)
      /\ \A j \in 1..Len(l) : a[j] = l[j]
      /\ a[Len(l) + 1] = e /\ Len(l) \in Nat
  BY AppendKeeps
<1> HIDE DEF a
<1>2. ASSUME NEW j \in DOMAIN a, a[j].evidence # NoEvidence
      PROVE  /\ a[j].evidence.outcome = "COMPLETED" => a[j].kind = "COMPLETED"
             /\ \E k \in DOMAIN ch : ResolvedBy(ch, a, j, k)
  <2>1. j \in DOMAIN l /\ a[j] = l[j]
    BY <1>1, <1>2
  <2>2. PICK k \in DOMAIN ch : ResolvedBy(ch, l, j, k)
    BY <1>2, <2>1 DEF ResolutionsFollow
  <2>3. a[ch[k].unknown] = l[ch[k].unknown]
    BY <1>1
  <2>4. ResolvedBy(ch, a, j, k)
    BY <2>1, <2>2, <2>3 DEF ResolvedBy
  <2>5. QED
    BY <1>2, <2>1, <2>4 DEF ResolutionsFollow
<1>3. ResolutionsFollow(ch, a)
  BY <1>2 DEF ResolutionsFollow
<1>4. QED
  BY <1>3 DEF a

LEMMA ChallengeAppendFacts ==
    ASSUME NEW ch \in Seq(ChallengeEvent), NEW x \in ChallengeEvent
    PROVE  /\ Len(ch) \in Nat /\ DOMAIN ch = 1..Len(ch)
           /\ Append(ch, x) \in Seq(ChallengeEvent)
           /\ DOMAIN Append(ch, x) = 1..(Len(ch) + 1)
           /\ \A k \in 1..Len(ch) : Append(ch, x)[k] = ch[k]
           /\ Append(ch, x)[Len(ch) + 1] = x
OBVIOUS

\* A resolution stays the one of its challenge when the challenges grow.
LEMMA ResolvedByAfterChallenge ==
    ASSUME NEW l, NEW ch \in Seq(ChallengeEvent), NEW x \in ChallengeEvent, NEW j, NEW k,
           ConsumptionsFollow(ch, l), ResolvedBy(ch, l, j, k)
    PROVE  ResolvedBy(Append(ch, x), l, j, k)
<1> DEFINE c == Append(ch, x)
<1>1. /\ Len(ch) \in Nat /\ DOMAIN ch = 1..Len(ch)
      /\ DOMAIN c = 1..(Len(ch) + 1)
      /\ \A m \in 1..Len(ch) : c[m] = ch[m]
  BY ChallengeAppendFacts
<1>2. k \in 1..Len(ch) /\ ch[k].reference \in 1..(k - 1)
  BY <1>1 DEF ResolvedBy, Consumed, ConsumptionsFollow
<1>3. c[k] = ch[k] /\ c[ch[k].reference] = ch[ch[k].reference] /\ k \in DOMAIN c
  BY <1>1, <1>2
<1> HIDE DEF c
<1>4. ResolvedBy(c, l, j, k)
  BY <1>3 DEF ResolvedBy, Consumed
<1>5. QED
  BY <1>4 DEF c

LEMMA ConsumptionsAfterIssue ==
    ASSUME NEW l, NEW ch \in Seq(ChallengeEvent), NEW x \in ChallengeEvent,
           x.kind = "ISSUED", ConsumptionsFollow(ch, l)
    PROVE  ConsumptionsFollow(Append(ch, x), l)
<1> DEFINE c == Append(ch, x)
<1>1. /\ Len(ch) \in Nat /\ DOMAIN ch = 1..Len(ch)
      /\ DOMAIN c = 1..(Len(ch) + 1)
      /\ \A m \in 1..Len(ch) : c[m] = ch[m]
      /\ c[Len(ch) + 1] = x
  BY ChallengeAppendFacts
<1> HIDE DEF c
<1>2. \A k : Consumed(c, k) => Consumed(ch, k) /\ k \in 1..Len(ch) /\ c[k] = ch[k]
  BY <1>1 DEF Consumed
<1>3. ASSUME NEW k, Consumed(c, k)
      PROVE  /\ c[k].resolution \in DOMAIN l
             /\ c[k].reference \in 1..(k - 1)
             /\ c[c[k].reference].kind = "ISSUED"
             /\ c[c[k].reference].unknown = c[k].unknown
  <2>1. Consumed(ch, k) /\ k \in 1..Len(ch) /\ c[k] = ch[k]
    BY <1>2, <1>3
  <2>2. /\ ch[k].resolution \in DOMAIN l
        /\ ch[k].reference \in 1..(k - 1)
        /\ ch[ch[k].reference].kind = "ISSUED"
        /\ ch[ch[k].reference].unknown = ch[k].unknown
    BY <1>1, <2>1 DEF ConsumptionsFollow
  <2>3. c[ch[k].reference] = ch[ch[k].reference]
    BY <1>1, <2>1, <2>2
  <2>4. QED
    BY <2>1, <2>2, <2>3
<1>4. ConsumptionsFollow(c, l)
  BY <1>1, <1>2, <1>3 DEF ConsumptionsFollow
<1>5. QED
  BY <1>4 DEF c

\* An active challenge was issued for the outcome, and is not consumed.
LEMMA ActiveChallengeFacts ==
    ASSUME NEW ch \in Seq(ChallengeEvent), NEW u, NEW now, ActiveChallenge(ch, u, now) # 0
    PROVE  LET i == ActiveChallenge(ch, u, now)
           IN  /\ i \in DOMAIN ch
               /\ ch[i].kind = "ISSUED"
               /\ ch[i].unknown = u
               /\ \A k : Consumed(ch, k) => ch[k].reference # i
<1> DEFINE S == {i \in DOMAIN ch :
                   /\ ch[i].kind = "ISSUED"
                   /\ ch[i].unknown = u
                   /\ now < ch[i].expiresAt
                   /\ \A j \in DOMAIN ch : ch[j].kind = "CONSUMED" => ch[j].reference # i}
<1>1. Len(ch) \in Nat /\ DOMAIN ch = 1..Len(ch)
  OBVIOUS
<1>2. ActiveChallenge(ch, u, now) = LastOf(S)
  BY DEF ActiveChallenge
<1>3. S \in SUBSET (1..Len(ch))
  BY <1>1
<1>4. S # {}
  BY <1>2 DEF LastOf
<1>5. LastOf(S) \in S
  <2> HIDE DEF S
  <2>1. QED
    BY <1>1, <1>3, <1>4, LastOfBounded
<1>6. QED
  BY <1>2, <1>5 DEF Consumed

\* A resolution consumes an active challenge and names the event it appends.
LEMMA ConsumptionsAfterResolution ==
    ASSUME NEW l \in Seq(Event), NEW e \in Event,
           NEW ch \in Seq(ChallengeEvent), NEW x \in ChallengeEvent,
           ConsumptionsFollow(ch, l),
           x.kind = "CONSUMED",
           x.resolution = Len(l) + 1,
           x.reference \in DOMAIN ch,
           ch[x.reference].kind = "ISSUED",
           ch[x.reference].unknown = x.unknown,
           \A k : Consumed(ch, k) => ch[k].reference # x.reference
    PROVE  ConsumptionsFollow(Append(ch, x), Append(l, e))
<1> DEFINE c == Append(ch, x)
           a == Append(l, e)
           n == Len(ch) + 1
<1>1. /\ Len(ch) \in Nat /\ DOMAIN ch = 1..Len(ch)
      /\ DOMAIN c = 1..n
      /\ \A m \in 1..Len(ch) : c[m] = ch[m]
      /\ c[n] = x
  BY ChallengeAppendFacts
<1>2. Len(l) \in Nat /\ DOMAIN l = 1..Len(l) /\ DOMAIN a = 1..(Len(l) + 1)
  BY AppendKeeps
<1> HIDE DEF c, a
<1>3. \A k : Consumed(c, k) => k = n \/ (Consumed(ch, k) /\ k \in 1..Len(ch) /\ c[k] = ch[k])
  BY <1>1 DEF Consumed
<1>4. ASSUME NEW k, Consumed(c, k)
      PROVE  /\ c[k].resolution \in DOMAIN a
             /\ c[k].reference \in 1..(k - 1)
             /\ c[c[k].reference].kind = "ISSUED"
             /\ c[c[k].reference].unknown = c[k].unknown
  <2>1. CASE k = n
    BY <1>1, <1>2, <2>1
  <2>2. CASE Consumed(ch, k) /\ k \in 1..Len(ch) /\ c[k] = ch[k]
    <3>1. /\ ch[k].resolution \in DOMAIN l
          /\ ch[k].reference \in 1..(k - 1)
          /\ ch[ch[k].reference].kind = "ISSUED"
          /\ ch[ch[k].reference].unknown = ch[k].unknown
      BY <1>1, <2>2 DEF ConsumptionsFollow
    <3>2. c[ch[k].reference] = ch[ch[k].reference]
      BY <1>1, <2>2, <3>1
    <3>3. QED
      BY <1>2, <2>2, <3>1, <3>2
  <2>3. QED
    BY <1>3, <1>4, <2>1, <2>2
<1>5. ASSUME NEW k, NEW m, Consumed(c, k), Consumed(c, m)
      PROVE  \/ k = m
             \/ /\ c[k].resolution # c[m].resolution
                /\ c[k].reference # c[m].reference
  <2>1. \A i : Consumed(ch, i) /\ i \in 1..Len(ch) =>
           ch[i].resolution # x.resolution /\ ch[i].reference # x.reference
    BY <1>1, <1>2 DEF ConsumptionsFollow
  <2>2. CASE k = n \/ m = n
    BY <1>1, <1>3, <1>5, <2>1, <2>2
  <2>3. CASE k # n /\ m # n
    BY <1>1, <1>3, <1>5, <2>3 DEF ConsumptionsFollow
  <2>4. QED
    BY <2>2, <2>3
<1>6. ConsumptionsFollow(c, a)
  BY <1>4, <1>5 DEF ConsumptionsFollow
<1>7. QED
  BY <1>6 DEF c, a

LEMMA ResolutionsAfterResolution ==
    ASSUME NEW l \in Seq(Event), NEW e \in Event,
           NEW ch \in Seq(ChallengeEvent), NEW x \in ChallengeEvent,
           ConsumptionsFollow(ch, l), ResolutionsFollow(ch, l),
           \A k \in DOMAIN ch : ch[k].unknown \in DOMAIN l,
           x.kind = "CONSUMED",
           x.resolution = Len(l) + 1,
           x.reference = e.evidence.challenge,
           x.reference \in DOMAIN ch,
           x.unknown \in DOMAIN l,
           l[x.unknown].claim = e.claim,
           e.evidence.outcome = "COMPLETED" => e.kind = "COMPLETED",
           e.evidence.observedAt >= ch[x.reference].issuedAt,
           e.evidence.observedAt < ch[x.reference].expiresAt
    PROVE  ResolutionsFollow(Append(ch, x), Append(l, e))
<1> DEFINE c == Append(ch, x)
           a == Append(l, e)
<1>1. /\ Len(ch) \in Nat /\ DOMAIN ch = 1..Len(ch)
      /\ DOMAIN c = 1..(Len(ch) + 1)
      /\ \A m \in 1..Len(ch) : c[m] = ch[m]
      /\ c[Len(ch) + 1] = x
  BY ChallengeAppendFacts
<1>2. /\ DOMAIN l = 1..Len(l) /\ Len(l) \in Nat
      /\ DOMAIN a = 1..(Len(l) + 1)
      /\ \A j \in 1..Len(l) : a[j] = l[j]
      /\ a[Len(l) + 1] = e
  BY AppendKeeps
<1>3. \A j, k : ResolvedBy(ch, l, j, k) => ResolvedBy(c, l, j, k)
  BY ResolvedByAfterChallenge
<1> HIDE DEF c, a
<1>4. ASSUME NEW j \in DOMAIN a, a[j].evidence # NoEvidence
      PROVE  /\ a[j].evidence.outcome = "COMPLETED" => a[j].kind = "COMPLETED"
             /\ \E k \in DOMAIN c : ResolvedBy(c, a, j, k)
  <2>1. CASE j \in DOMAIN l
    <3>1. a[j] = l[j]
      BY <1>2, <2>1
    <3>2. PICK k \in DOMAIN ch : ResolvedBy(ch, l, j, k)
      BY <1>4, <2>1, <3>1 DEF ResolutionsFollow
    <3>3. ResolvedBy(c, l, j, k) /\ k \in DOMAIN c /\ c[k] = ch[k]
      BY <1>1, <1>3, <3>2
    <3>4. a[c[k].unknown] = l[c[k].unknown]
      BY <1>2, <3>2, <3>3
    <3>5. ResolvedBy(c, a, j, k)
      BY <3>1, <3>3, <3>4 DEF ResolvedBy
    <3>6. QED
      BY <1>4, <2>1, <3>1, <3>3, <3>5 DEF ResolutionsFollow
  <2>2. CASE j = Len(l) + 1
    <3>1. a[j] = e /\ a[x.unknown] = l[x.unknown] /\ c[x.reference] = ch[x.reference]
      BY <1>1, <1>2, <2>2
    <3>2. ResolvedBy(c, a, j, Len(ch) + 1)
      BY <1>1, <2>2, <3>1 DEF ResolvedBy, Consumed
    <3>3. QED
      BY <1>1, <3>1, <3>2
  <2>3. QED
    BY <1>2, <2>1, <2>2
<1>5. ResolutionsFollow(c, a)
  BY <1>4 DEF ResolutionsFollow
<1>6. QED
  BY <1>5 DEF c, a

LEMMA ResolutionsAfterIssue ==
    ASSUME NEW l, NEW ch \in Seq(ChallengeEvent), NEW x \in ChallengeEvent,
           ConsumptionsFollow(ch, l), ResolutionsFollow(ch, l)
    PROVE  ResolutionsFollow(Append(ch, x), l)
<1>1. DOMAIN ch \subseteq DOMAIN Append(ch, x)
  BY ChallengeAppendFacts
<1>2. \A j, k : ResolvedBy(ch, l, j, k) => ResolvedBy(Append(ch, x), l, j, k)
  BY ResolvedByAfterChallenge
<1>3. QED
  BY <1>1, <1>2 DEF ResolutionsFollow

-----------------------------------------------------------------------------
(* The operations *)

\* What the invariant says of the variables, without their names.
LEMMA InvFacts ==
    ASSUME RInv
    PROVE  /\ log \in Seq(Event) /\ record \in Record /\ challenges \in Seq(ChallengeEvent)
           /\ clock \in Nat /\ effects \subseteq Envelope /\ evidence \subseteq Evidence
           /\ Sound(log) /\ QuarantineCloses(log) /\ EpochsNumberClaims(log)
           /\ \A k \in DOMAIN challenges : challenges[k].unknown \in DOMAIN log
BY DEF RInv, IInv, TypeOK, ChallengesNameQuarantines, Indices

\* The event that an operation of the claim's holder appends follows the history.
LEMMA HolderFollows ==
    ASSUME RInv, NEW c, Current(c), NEW kind \in EventKinds \ {"CLAIMED"},
           NEW expiry \in Nat, NEW previous \in Nat,
           kind = "RENEWED" => previous = LeaseExpiry(log, c) /\ expiry > previous,
           kind = "STARTED" => expiry = LeaseExpiry(log, c) /\ ~Has(log, c, "STARTED"),
           kind \in {"COMPLETED", "ATTEMPT_FAILED", "SUBMITTED"} => Has(log, c, "STARTED"),
           kind = "OUTCOME_UNKNOWN" => Has(log, c, "SUBMITTED")
    PROVE  LET e == EventAbout(log, c, kind, expiry, previous, NoEvidence)
           IN  Follows(log, e) /\ e.kind = kind /\ e.claim = c /\ e.evidence = NoEvidence
<1> DEFINE e == EventAbout(log, c, kind, expiry, previous, NoEvidence)
<1>1. log \in Seq(Event) /\ QuarantineCloses(log)
  BY InvFacts
<1>2. c \in DOMAIN log /\ IsOpen(log, c) /\ c \in Indices(log, "CLAIMED")
  BY <1>1, LatestClaimOpen DEF Current
<1>3. Unresolved(log) = 0
  BY <1>1, <1>2 DEF QuarantineCloses
<1>4. e \in Event /\ e.kind = kind /\ e.claim = c
  BY <1>1, <1>2, NoEvidenceType, EventAboutType
<1>5. /\ e.worker = log[c].worker /\ e.epoch = log[c].epoch
      /\ e.expiry = expiry /\ e.previous = previous /\ e.evidence = NoEvidence
  BY DEF EventAbout
<1> HIDE DEF e
<1>6. Follows(log, e)
  BY <1>2, <1>3, <1>4, <1>5 DEF Follows
<1>7. QED
  BY <1>4, <1>5, <1>6 DEF e

\* An event without evidence that neither completes nor quarantines.
LEMMA PlainStep ==
    ASSUME RInv, IInv', NEW e, Follows(log, e), e.evidence = NoEvidence,
           e.kind \notin {"COMPLETED", "OUTCOME_UNKNOWN"},
           log' = Append(log, e),
           UNCHANGED <<record, challenges, effects, evidence>>
    PROVE  RInv'
<1>1. e \in Event /\ e.kind # "CLAIMED"
  BY DEF Follows
<1>2. History(log')
  BY InvFacts, HistoryAfterEvent DEF RInv
<1>3. RecordFollows(record', log', effects')
  BY <1>1, InvFacts, RecordAfterEvent DEF RInv
<1>4. EffectsFollow(log', effects') /\ EvidenceFollows(evidence', effects')
  BY <1>1, InvFacts, EffectsAfterAppend DEF RInv
<1>5. ConsumptionsFollow(challenges', log') /\ ResolutionsFollow(challenges', log')
  BY <1>1, InvFacts, ConsumptionsAfterEvent, ResolutionsAfterEvent DEF RInv
<1>6. QED
  BY <1>2, <1>3, <1>4, <1>5 DEF RInv

\* A claim that is open, of a dispatch that has therefore no receipt.
LEMMA CurrentFacts ==
    ASSUME RInv, NEW c, Current(c)
    PROVE  /\ c \in DOMAIN log /\ IsOpen(log, c) /\ Newest(log, c)
           /\ Unresolved(log) = 0
           /\ record.receipt = NoEnvelope
           /\ LeaseExpiry(log, c) \in Nat
<1>1. c \in DOMAIN log /\ IsOpen(log, c) /\ c \in Indices(log, "CLAIMED")
  BY InvFacts, LatestClaimOpen DEF Current
<1>2. LeaseExpiry(log, c) \in Nat
  BY <1>1, InvFacts, LeaseExpiryType
<1>3. QED
  BY <1>1, <1>2, InvFacts DEF RInv, History, OpenIsNewest, Newest, RecordFollows, QuarantineCloses

\* Nothing is open after the only open claim has ended.
LEMMA ClosedByEnd ==
    ASSUME NEW l \in Seq(Event), Sound(l), NEW e \in Event, e.kind \in TerminalEventTypes,
           e.claim \in DOMAIN l, IsOpen(l, e.claim)
    PROVE  \A i \in DOMAIN Append(l, e) : ~IsOpen(Append(l, e), i)
<1>1. SUFFICES ASSUME NEW i \in DOMAIN Append(l, e), IsOpen(Append(l, e), i) PROVE FALSE
  OBVIOUS
<1>2. i \in DOMAIN l /\ IsOpen(l, i) /\ e.claim # i
  BY <1>1, OpenAfterAppend DEF TerminalEventTypes
<1>3. QED
  BY <1>2 DEF Sound, OneOpen

LEMMA QuarantineStep ==
    ASSUME RInv, IInv', NEW now \in StaleNow, Quarantine(now)
    PROVE  RInv'
<1> DEFINE c == LatestClaim(log)
           s == LastOf(EventsOf(log, c, "SUBMITTED"))
           e == EventAbout(log, c, "OUTCOME_UNKNOWN", log[s].expiry, 0, NoEvidence)
<1>1. Current(c) /\ Has(log, c, "SUBMITTED") /\ log' = Append(log, e)
      /\ record' = [record EXCEPT !.state = "OUTCOME_UNKNOWN"]
      /\ UNCHANGED <<challenges, effects, evidence>>
  BY DEF Quarantine, Current, world
<1>2. log[s].expiry \in Nat
  <2>1. EventsOf(log, c, "SUBMITTED") \in SUBSET (1..Len(log)) /\ Len(log) \in Nat
    BY InvFacts DEF EventsOf, Indices
  <2>2. s \in 1..Len(log)
    BY <1>1, <2>1, LastOfBounded DEF Has
  <2>3. QED
    BY <2>2, InvFacts, EventType
<1>3. record.receipt = NoEnvelope
  BY <1>1, CurrentFacts
<1> HIDE DEF c, s
<1>4. Follows(log, e) /\ e.kind = "OUTCOME_UNKNOWN" /\ e.claim = c /\ e.evidence = NoEvidence
  BY <1>1, <1>2, HolderFollows DEF EventKinds
<1> HIDE DEF e
<1>5. e \in Event
  BY <1>4 DEF Follows
<1>6. History(log')
  BY <1>1, <1>4, InvFacts, HistoryAfterEvent DEF RInv
<1>7. record' \in Record /\ record'.receipt = NoEnvelope /\ record'.state = "OUTCOME_UNKNOWN"
  BY <1>1, <1>3, InvFacts DEF Record, RecordStates
<1>8. RecordFollows(record', log', effects)
  <2> DEFINE new == record'
  <2>1. new \in Record /\ new.receipt = NoEnvelope /\ new.state = "OUTCOME_UNKNOWN"
    BY <1>7
  <2> HIDE DEF new
  <2>2. RecordFollows(new, Append(log, e), effects)
    BY <1>3, <1>4, <1>5, <2>1, InvFacts, RecordWithoutReceipt DEF RInv
  <2>3. QED
    BY <1>1, <2>2 DEF new
<1>9. EffectsFollow(log', effects') /\ EvidenceFollows(evidence', effects')
  BY <1>1, <1>5, InvFacts, EffectsAfterAppend DEF RInv
<1>10. ConsumptionsFollow(challenges', log') /\ ResolutionsFollow(challenges', log')
  BY <1>1, <1>4, <1>5, InvFacts, ConsumptionsAfterEvent, ResolutionsAfterEvent DEF RInv
<1>11. QED
  BY <1>1, <1>6, <1>8, <1>9, <1>10 DEF RInv

LEMMA AdmitStep ==
    ASSUME RInv, IInv', NEW c, NEW r \in effects, NEW now, AdmitProviderDispatchReceipt(r, c, now)
    PROVE  RInv'
<1> DEFINE e == EventAbout(log, c, "COMPLETED", r.expiry, 0, NoEvidence)
           new == [state |-> "FENCING_VERIFIED", receipt |-> r]
<1>1. /\ Current(c) /\ Has(log, c, "STARTED")
      /\ r.claim = c /\ r.epoch = log[c].epoch
      /\ log' = Append(log, e)
      /\ record' = new
      /\ UNCHANGED <<challenges, effects, evidence>>
  BY DEF AdmitProviderDispatchReceipt, Leased, world
<1>2. r \in Envelope /\ r.expiry \in Nat
  BY InvFacts DEF Envelope
<1>3. /\ c \in DOMAIN log /\ IsOpen(log, c) /\ Newest(log, c)
      /\ Unresolved(log) = 0
      /\ record.receipt = NoEnvelope
  BY <1>1, CurrentFacts
<1>4. Follows(log, e) /\ e.kind = "COMPLETED" /\ e.claim = c /\ e.evidence = NoEvidence
  BY <1>1, <1>2, HolderFollows DEF EventKinds
<1>5. e \in Event
  BY <1>4 DEF Follows
<1>6. EnvelopeOf(e) = r
  BY <1>1, <1>2 DEF EnvelopeOf, EventAbout, Envelope
<1>7. r # NoEnvelope
  BY <1>1 DEF NoEnvelope, Current
<1>8. new \in Record /\ new.state = "FENCING_VERIFIED" /\ new.receipt = r
  BY <1>2 DEF Record, RecordStates
<1> HIDE DEF e, new
<1>9. History(log')
  BY <1>1, <1>4, InvFacts, HistoryAfterEvent DEF RInv
<1>10. Unresolved(log') = 0
  BY <1>1, <1>3, <1>4, <1>5, InvFacts, UnresolvedAfterAppend
<1>11. \A i \in DOMAIN log' : ~IsOpen(log', i)
  BY <1>1, <1>3, <1>4, <1>5, InvFacts, ClosedByEnd DEF TerminalEventTypes
<1>12. RecordFollows(new, Append(log, e), effects)
  BY <1>1, <1>3, <1>4, <1>5, <1>6, <1>7, <1>8, <1>10, <1>11, InvFacts, RecordAfterCompletion
     DEF RInv
<1>13. EffectsFollow(log', effects') /\ EvidenceFollows(evidence', effects')
  BY <1>1, <1>5, InvFacts, EffectsAfterAppend DEF RInv
<1>14. ConsumptionsFollow(challenges', log') /\ ResolutionsFollow(challenges', log')
  BY <1>1, <1>4, <1>5, InvFacts, ConsumptionsAfterEvent, ResolutionsAfterEvent DEF RInv
<1>15. QED
  BY <1>1, <1>9, <1>12, <1>13, <1>14 DEF RInv

LEMMA HolderKeeps ==
    ASSUME RInv, IInv', HolderStep
    PROVE  RInv'
<1>1. PICK c \in Indices(log, "CLAIMED") :
         \/ AbandonProviderDispatchClaim(c)
         \/ RecordProviderDispatchAttemptFailure(c, clock)
         \/ \E r \in effects : AdmitProviderDispatchReceipt(r, c, clock)
         \/ \E now \in StaleNow :
               \/ \E lease \in LeaseSeconds : RenewProviderDispatchClaim(c, lease, now)
               \/ StartProviderDispatchAttempt(c, now)
               \/ RecordProviderDispatchSubmission(c, now)
  BY DEF HolderStep
<1>2. ASSUME NEW kind \in EventKinds \ {"CLAIMED", "COMPLETED", "OUTCOME_UNKNOWN"},
             NEW expiry \in Nat, NEW previous \in Nat, Current(c),
             kind = "RENEWED" => previous = LeaseExpiry(log, c) /\ expiry > previous,
             kind = "STARTED" => expiry = LeaseExpiry(log, c) /\ ~Has(log, c, "STARTED"),
             kind \in {"ATTEMPT_FAILED", "SUBMITTED"} => Has(log, c, "STARTED"),
             log' = Append(log, EventAbout(log, c, kind, expiry, previous, NoEvidence)),
             UNCHANGED <<record, challenges>>, UNCHANGED world
      PROVE  RInv'
  <2> DEFINE e == EventAbout(log, c, kind, expiry, previous, NoEvidence)
  <2>1. Follows(log, e) /\ e.kind = kind /\ e.evidence = NoEvidence
    BY <1>2, HolderFollows
  <2> HIDE DEF e
  <2>2. QED
    BY <1>2, <2>1, PlainStep DEF e, world
<1>3. CASE AbandonProviderDispatchClaim(c)
  BY <1>2, <1>3 DEF AbandonProviderDispatchClaim, EventKinds
<1>4. CASE RecordProviderDispatchAttemptFailure(c, clock)
  BY <1>2, <1>4 DEF RecordProviderDispatchAttemptFailure, Leased, EventKinds
<1>5. ASSUME NEW r \in effects, AdmitProviderDispatchReceipt(r, c, clock) PROVE RInv'
  BY <1>5, AdmitStep
<1>6. ASSUME NEW now \in StaleNow, NEW lease \in LeaseSeconds,
             RenewProviderDispatchClaim(c, lease, now)
      PROVE  RInv'
  <2>1. now + lease \in Nat
    BY InvFacts, LeaseAssumption DEF StaleNow
  <2>2. Current(c) /\ LeaseExpiry(log, c) \in Nat
    BY <1>6, CurrentFacts DEF RenewProviderDispatchClaim, Leased
  <2>3. QED
    BY <1>2, <1>6, <2>1, <2>2 DEF RenewProviderDispatchClaim, EventKinds
<1>7. ASSUME NEW now \in StaleNow, StartProviderDispatchAttempt(c, now) PROVE RInv'
  <2>1. Current(c) /\ LeaseExpiry(log, c) \in Nat
    BY <1>7, CurrentFacts DEF StartProviderDispatchAttempt, Leased
  <2>2. QED
    BY <1>2, <1>7, <2>1 DEF StartProviderDispatchAttempt, EventKinds
<1>8. ASSUME NEW now \in StaleNow, RecordProviderDispatchSubmission(c, now) PROVE RInv'
  <2>1. Current(c) /\ LeaseExpiry(log, c) \in Nat
    BY <1>8, CurrentFacts DEF RecordProviderDispatchSubmission, Leased
  <2>2. QED
    BY <1>2, <1>8, <2>1 DEF RecordProviderDispatchSubmission, EventKinds
<1>9. QED
  BY <1>1, <1>3, <1>4, <1>5, <1>6, <1>7, <1>8

\* A grant closes an expired claim and appends the new one.
LEMMA GrantStep ==
    ASSUME RInv, IInv', NEW w \in Workers, NEW lease \in LeaseSeconds, NEW now \in StaleNow,
           ClaimProviderDispatch(w, lease, now)
    PROVE  RInv'
<1> DEFINE c == LatestClaim(log)
           h == ClosedHistory(log)
           x == EventAbout(log, c, "EXPIRED", 0, 0, NoEvidence)
           e == [kind |-> "CLAIMED", claim |-> Len(h) + 1, worker |-> w,
                 epoch |-> AttemptNumber(h), expiry |-> now + lease,
                 previous |-> 0, evidence |-> NoEvidence]
           Known(ch) == \A k \in DOMAIN ch : ch[k].unknown \in DOMAIN log
<1>1. /\ Unresolved(log) = 0
      /\ record.receipt = NoEnvelope
      /\ log' = Append(h, e)
      /\ UNCHANGED <<record, challenges, effects, evidence>>
  BY DEF ClaimProviderDispatch, Claimable, Completed, world
<1>2. /\ log \in Seq(Event) /\ record \in Record /\ challenges \in Seq(ChallengeEvent)
      /\ Sound(log) /\ QuarantineCloses(log) /\ Known(challenges)
  BY InvFacts
<1>3. /\ h \in Seq(Event)
      /\ Sound(h)
      /\ \A i \in DOMAIN h : ~IsOpen(h, i)
      /\ Unresolved(h) = 0
      /\ History(h)
      /\ RecordFollows(record, h, effects)
      /\ EffectsFollow(h, effects)
      /\ ConsumptionsFollow(challenges, h)
      /\ ResolutionsFollow(challenges, h)
      /\ DOMAIN log \subseteq DOMAIN h
  <2>1. CASE c = 0
    <3>1. h = log
      BY <2>1 DEF ClosedHistory
    <3>2. \A i \in DOMAIN log : ~IsOpen(log, i)
      BY <1>2, <2>1, NoLatestClaim
    <3> HIDE DEF h
    <3>3. QED
      BY <1>1, <1>2, <3>1, <3>2 DEF RInv
  <2>2. CASE c # 0
    <3>1. h = Append(log, x)
      BY <2>2 DEF ClosedHistory
    <3>2. c \in DOMAIN log /\ IsOpen(log, c)
      BY <1>2, <2>2, LatestClaimOpen
    <3>3. Current(c)
      BY <2>2 DEF Current
    <3>4. ~Has(log, c, "SUBMITTED")
      BY <2>2 DEF ClaimProviderDispatch, Claimable
    <3> HIDE DEF c
    <3>5. Follows(log, x) /\ x.kind = "EXPIRED" /\ x.claim = c /\ x.evidence = NoEvidence
      BY <3>3, HolderFollows DEF EventKinds
    <3> HIDE DEF h, x
    <3>6. x \in Event /\ x.claim \in Indices(log, "CLAIMED")
      BY <3>5 DEF Follows
    <3>7. h \in Seq(Event) /\ DOMAIN log \subseteq DOMAIN h
      BY <1>2, <3>1, <3>6, AppendFacts, AppendKeeps
    <3>8. Sound(h)
      BY <1>2, <3>1, <3>4, <3>5, <3>6, SoundAfterEvent
    <3>9. \A i \in DOMAIN h : ~IsOpen(h, i)
      BY <1>2, <3>1, <3>2, <3>5, <3>6, ClosedByEnd DEF TerminalEventTypes
    <3>10. Unresolved(h) = 0
      BY <1>1, <1>2, <3>1, <3>5, <3>6, UnresolvedAfterAppend
    <3>11. History(h)
      BY <1>2, <3>1, <3>5, HistoryAfterEvent DEF RInv
    <3>12. RecordFollows(record, h, effects)
      BY <1>2, <3>1, <3>5, <3>6, RecordAfterEvent DEF RInv
    <3>13. EffectsFollow(h, effects)
      BY <1>2, <3>1, <3>6, EffectsAfterAppend DEF RInv
    <3>14. ConsumptionsFollow(challenges, h) /\ ResolutionsFollow(challenges, h)
      BY <1>2, <3>1, <3>5, <3>6, ConsumptionsAfterEvent, ResolutionsAfterEvent DEF RInv
    <3>15. QED
      BY <3>7, <3>8, <3>9, <3>10, <3>11, <3>12, <3>13, <3>14
  <2>3. QED
    BY <2>1, <2>2
<1>4. e \in Event
  <2>1. AttemptNumber(h) \in Nat
    BY <1>3, ClaimsFinite DEF AttemptNumber
  <2>2. Len(h) + 1 \in Nat
    BY <1>3
  <2>3. now + lease \in Nat
    BY InvFacts, LeaseAssumption DEF StaleNow
  <2>4. QED
    BY <2>1, <2>2, <2>3, NoEvidenceType DEF Event, EventKinds
<1>5. e.kind = "CLAIMED" /\ e.claim = Len(h) + 1 /\ e.evidence = NoEvidence
  OBVIOUS
<1> HIDE DEF h, e
<1>6. History(log')
  BY <1>1, <1>3, <1>4, <1>5, HistoryAfterClaim
<1>7. Unresolved(log') = 0
  BY <1>1, <1>3, <1>4, <1>5, UnresolvedAfterAppend
<1>8. RecordFollows(record, Append(h, e), effects)
  BY <1>1, <1>2, <1>3, <1>4, <1>5, <1>7, RecordWithoutReceipt
<1>9. EffectsFollow(log', effects') /\ EvidenceFollows(evidence', effects')
  BY <1>1, <1>3, <1>4, EffectsAfterAppend DEF RInv
<1>10. \A k \in DOMAIN challenges : challenges[k].unknown \in DOMAIN h
  BY <1>2, <1>3
<1>11. ConsumptionsFollow(challenges, Append(h, e)) /\ ResolutionsFollow(challenges, Append(h, e))
  BY <1>2, <1>3, <1>4, <1>5, <1>10, ConsumptionsAfterEvent, ResolutionsAfterEvent
<1>12. QED
  BY <1>1, <1>6, <1>8, <1>9, <1>11 DEF RInv

LEMMA IssueStep ==
    ASSUME RInv, IInv', NEW now \in StaleNow, NEW ttl \in TtlSeconds,
           IssueProviderReconciliationChallenge(ttl, now)
    PROVE  RInv'
<1> DEFINE u == Unresolved(log)
           x == [kind |-> "ISSUED", reference |-> Len(challenges) + 1, unknown |-> u,
                 issuedAt |-> now, expiresAt |-> now + ttl, resolution |-> 0]
<1>1. u # 0 /\ challenges' = Append(challenges, x) /\ UNCHANGED <<record, log, effects, evidence>>
  BY DEF IssueProviderReconciliationChallenge, world
<1>2. x \in ChallengeEvent /\ x.kind = "ISSUED"
  <2>1. u \in Nat
    BY <1>1, InvFacts, UnresolvedUnknown DEF Indices
  <2>2. now \in Nat /\ now + ttl \in Nat /\ Len(challenges) + 1 \in Nat
    BY InvFacts, TtlAssumption DEF StaleNow
  <2> HIDE DEF u
  <2>3. QED
    BY <2>1, <2>2 DEF ChallengeEvent
<1> HIDE DEF x
<1>3. ConsumptionsFollow(challenges', log) /\ ResolutionsFollow(challenges', log)
  BY <1>1, <1>2, InvFacts, ConsumptionsAfterIssue, ResolutionsAfterIssue DEF RInv
<1>4. QED
  BY <1>1, <1>3 DEF RInv

\* A resolution ends the only unknown outcome.
LEMMA ResolvedAll ==
    ASSUME NEW l \in Seq(Event), OneUnresolved(l), NEW e \in Event,
           e.kind # "OUTCOME_UNKNOWN", Unresolved(l) # 0,
           Resolves(Append(l, e), Len(l) + 1, Unresolved(l))
    PROVE  Unresolved(Append(l, e)) = 0
<1>1. SUFFICES ASSUME Unresolved(Append(l, e)) # 0 PROVE FALSE
  OBVIOUS
<1> DEFINE a == Append(l, e)
<1>2. a \in Seq(Event)
  BY AppendFacts
<1>3. IsUnresolved(a, Unresolved(a))
  <2> HIDE DEF a
  <2>1. Unresolved(a) # 0
    BY <1>1 DEF a
  <2>2. QED
    BY <1>2, <2>1, UnresolvedUnknown DEF IsUnresolved
<1>4. IsUnresolved(l, Unresolved(a)) /\ ~Resolves(a, Len(l) + 1, Unresolved(a))
  BY <1>3, StillUnresolved
<1>5. Unresolved(a) = Unresolved(l)
  BY <1>4, UnresolvedIs
<1>6. QED
  BY <1>4, <1>5

\* What a resolution finds and writes.
LEMMA ResolutionFacts ==
    ASSUME RInv, NEW ev \in evidence, NEW now, ResolveProviderDispatchOutcome(ev, now)
    PROVE  \E e \in Event, x \in ChallengeEvent :
             /\ log' = Append(log, e)
             /\ challenges' = Append(challenges, x)
             /\ Follows(log, e)
             /\ e.evidence = ev
             /\ e.kind = IF ev.outcome = "NO_EFFECT" THEN "OUTCOME_RESOLVED_NO_EFFECT"
                                                    ELSE "COMPLETED"
             /\ Unresolved(log) # 0
             /\ Resolves(Append(log, e), Len(log) + 1, Unresolved(log))
             /\ log[Unresolved(log)].claim = e.claim
             /\ ev.outcome = "COMPLETED" => EnvelopeOf(e) = ev.receipt
             /\ e.claim \in Indices(log, "CLAIMED")
             /\ x.kind = "CONSUMED"
             /\ x.resolution = Len(log) + 1
             /\ x.unknown = Unresolved(log)
             /\ x.reference = ev.challenge
             /\ x.reference \in DOMAIN challenges
             /\ challenges[x.reference].kind = "ISSUED"
             /\ challenges[x.reference].unknown = Unresolved(log)
             /\ \A k : Consumed(challenges, k) => challenges[k].reference # x.reference
             /\ ev.observedAt >= challenges[x.reference].issuedAt
             /\ ev.observedAt < challenges[x.reference].expiresAt
<1> DEFINE u == Unresolved(log)
           c == log[u].claim
           kind == IF ev.outcome = "NO_EFFECT" THEN "OUTCOME_RESOLVED_NO_EFFECT"
                                               ELSE "COMPLETED"
           expiry == ev.receipt.expiry
           e == EventAbout(log, c, kind, expiry, 0, ev)
           x == [kind |-> "CONSUMED", reference |-> ev.challenge, unknown |-> u,
                 issuedAt |-> 0, expiresAt |-> 0, resolution |-> Len(log) + 1]
           act == ActiveChallenge(challenges, u, now)
<1>1. /\ u # 0
      /\ FreshEvidence(ev, u, now)
      /\ BoundEvidence(ev, u)
      /\ Has(log, c, "STARTED")
      /\ log' = Append(log, e)
      /\ challenges' = Append(challenges, x)
  BY DEF ResolveProviderDispatchOutcome, Admissible, ConsumedHistory
<1>2. /\ act # 0
      /\ ev.challenge = act
      /\ ev.observedAt >= challenges[act].issuedAt
      /\ ev.observedAt < challenges[act].expiresAt
  BY <1>1 DEF FreshEvidence
<1>3. /\ act \in DOMAIN challenges
      /\ challenges[act].kind = "ISSUED"
      /\ challenges[act].unknown = u
      /\ \A k : Consumed(challenges, k) => challenges[k].reference # act
  BY <1>2, InvFacts, ActiveChallengeFacts
<1>4. ev \in Evidence /\ ev.receipt \in Envelope /\ expiry \in Nat /\ ev.challenge \in Nat
  BY InvFacts DEF Evidence, Envelope
<1>5. log \in Seq(Event) /\ Len(log) \in Nat /\ DOMAIN log = 1..Len(log)
  BY InvFacts
<1>6. u \in 1..Len(log) /\ log[u].kind = "OUTCOME_UNKNOWN"
  BY <1>1, <1>5, UnresolvedUnknown DEF Indices
<1>7. c \in DOMAIN log /\ c \in Indices(log, "CLAIMED")
  BY <1>5, <1>6, InvFacts DEF Sound, ReferToClaims, Indices
<1>8. kind \in EventKinds
  BY DEF EventKinds
<1>9. /\ kind \in {"OUTCOME_RESOLVED_NO_EFFECT", "COMPLETED"}
      /\ ev.outcome = "COMPLETED" => kind = "COMPLETED"
  OBVIOUS
<1>10. ev # NoEvidence
  <2>1. ev.challenge # 0
    BY <1>2
  <2>2. QED
    BY <2>1 DEF NoEvidence
<1>11. ev.outcome = "COMPLETED" => ev.receipt = EnvelopeOf(log[u])
  BY <1>1 DEF BoundEvidence
<1>12. log[u].epoch = log[c].epoch
  BY <1>6, <1>5 DEF RInv, History, CopyClaims
<1>13. /\ e.worker = log[c].worker /\ e.epoch = log[c].epoch /\ e.expiry = expiry
       /\ e.evidence = ev /\ e.claim = c /\ e.kind = kind
  BY DEF EventAbout
<1>14. e \in Event
  <2> HIDE DEF c, kind, expiry
  <2>1. QED
    BY <1>4, <1>5, <1>7, <1>8, EventAboutType
<1>15. x \in ChallengeEvent /\ x.kind = "CONSUMED" /\ x.resolution = Len(log) + 1
       /\ x.unknown = u /\ x.reference = ev.challenge
  <2> HIDE DEF u
  <2>1. u \in Nat
    BY <1>6
  <2>2. QED
    BY <1>4, <1>5, <2>1 DEF ChallengeEvent
<1>16. ev.outcome = "COMPLETED" => EnvelopeOf(e) = ev.receipt
  <2>1. SUFFICES ASSUME ev.outcome = "COMPLETED" PROVE EnvelopeOf(e) = ev.receipt
    OBVIOUS
  <2>2. ev.receipt = [claim |-> c, epoch |-> log[u].epoch, expiry |-> log[u].expiry]
    BY <1>11, <2>1 DEF EnvelopeOf
  <2>3. expiry = log[u].expiry
    BY <2>2
  <2> HIDE DEF e, c, u, expiry
  <2>4. QED
    BY <1>12, <1>13, <2>2, <2>3 DEF EnvelopeOf
<1> HIDE DEF e, x, kind, c, act
<1>17. Resolves(Append(log, e), Len(log) + 1, u)
  <2> HIDE DEF u
  <2>1. Append(log, e)[Len(log) + 1] = e /\ Append(log, e)[u] = log[u]
    BY <1>5, <1>6, <1>14, AppendFacts
  <2>2. QED
    BY <1>5, <1>6, <1>9, <1>10, <1>13, <2>1 DEF Resolves, c
<1>18. Follows(log, e)
  BY <1>1, <1>7, <1>9, <1>13, <1>14 DEF Follows
<1>19. kind = IF ev.outcome = "NO_EFFECT" THEN "OUTCOME_RESOLVED_NO_EFFECT" ELSE "COMPLETED"
  BY DEF kind
<1>20. log[u].claim = c
  BY DEF c
<1>21. e.kind = IF ev.outcome = "NO_EFFECT" THEN "OUTCOME_RESOLVED_NO_EFFECT" ELSE "COMPLETED"
  BY <1>13, <1>19
<1>22. QED
  BY <1>1, <1>2, <1>3, <1>7, <1>13, <1>14, <1>15, <1>16, <1>17, <1>18, <1>20, <1>21

LEMMA ResolveStep ==
    ASSUME RInv, IInv', NEW ev \in evidence, NEW now, ResolveProviderDispatchOutcome(ev, now)
    PROVE  RInv'
<1> DEFINE u == Unresolved(log)
<1>1. PICK e \in Event, x \in ChallengeEvent :
             /\ log' = Append(log, e)
             /\ challenges' = Append(challenges, x)
             /\ Follows(log, e)
             /\ e.evidence = ev
             /\ e.kind = IF ev.outcome = "NO_EFFECT" THEN "OUTCOME_RESOLVED_NO_EFFECT"
                                                    ELSE "COMPLETED"
             /\ u # 0
             /\ Resolves(Append(log, e), Len(log) + 1, u)
             /\ log[u].claim = e.claim
             /\ ev.outcome = "COMPLETED" => EnvelopeOf(e) = ev.receipt
             /\ e.claim \in Indices(log, "CLAIMED")
             /\ x.kind = "CONSUMED"
             /\ x.resolution = Len(log) + 1
             /\ x.unknown = u
             /\ x.reference = ev.challenge
             /\ x.reference \in DOMAIN challenges
             /\ challenges[x.reference].kind = "ISSUED"
             /\ challenges[x.reference].unknown = u
             /\ \A k : Consumed(challenges, k) => challenges[k].reference # x.reference
             /\ ev.observedAt >= challenges[x.reference].issuedAt
             /\ ev.observedAt < challenges[x.reference].expiresAt
  BY ResolutionFacts
<1>2. record' = ResolvedRecord(ev) /\ UNCHANGED <<effects, evidence>>
  BY DEF ResolveProviderDispatchOutcome, world
<1>3. ev.outcome \in {"NO_EFFECT", "COMPLETED"} /\ ev.receipt \in Envelope
  BY InvFacts DEF Evidence, Outcomes
<1>4. /\ OneUnresolved(log)
      /\ record.receipt = NoEnvelope
      /\ \A i \in DOMAIN log : ~IsOpen(log, i)
      /\ Newest(log, e.claim)
  <2>1. IsUnresolved(log, u)
    BY <1>1, InvFacts, UnresolvedUnknown DEF IsUnresolved
  <2>2. \A j \in Indices(log, "CLAIMED") : j <= log[u].claim
    BY <2>1 DEF RInv, History, UnresolvedIsNewest, IsUnresolved
  <2>3. QED
    BY <1>1, <2>2, InvFacts DEF RInv, History, RecordFollows, QuarantineCloses, Newest
<1>5. History(log')
  BY <1>1, InvFacts, HistoryAfterEvent DEF RInv
<1>6. Unresolved(Append(log, e)) = 0
  <2>1. e.kind # "OUTCOME_UNKNOWN"
    BY <1>1
  <2>2. QED
    BY <1>1, <1>4, <2>1, InvFacts, ResolvedAll
<1>7. \A i \in DOMAIN Append(log, e) : ~IsOpen(Append(log, e), i)
  <2>1. e.kind # "CLAIMED"
    BY <1>1
  <2>2. QED
    BY <1>4, <2>1, InvFacts, OpenAfterAppend
<1>8. RecordFollows(record', log', effects)
  <2> DEFINE new == ResolvedRecord(ev)
  <2>1. CASE ev.outcome = "NO_EFFECT"
    <3>1. new \in Record /\ new.receipt = NoEnvelope
      BY <1>4, <2>1, InvFacts DEF ResolvedRecord, Record, RecordStates
    <3>2. e.kind # "COMPLETED"
      BY <1>1, <2>1
    <3> HIDE DEF new
    <3>3. RecordFollows(new, Append(log, e), effects)
      BY <1>4, <1>6, <3>1, <3>2, InvFacts, RecordWithoutReceipt DEF RInv
    <3>4. QED
      BY <1>1, <1>2, <3>3 DEF new
  <2>2. CASE ev.outcome = "COMPLETED"
    <3>1. new \in Record /\ new.receipt = EnvelopeOf(e) /\ new.receipt = ev.receipt
          /\ new.state = "CHALLENGE_VERIFIED"
      BY <1>1, <1>3, <2>2 DEF ResolvedRecord, Record, RecordStates
    <3>2. e.kind = "COMPLETED" /\ ev.receipt \in effects
      BY <1>1, <2>2 DEF RInv, EvidenceFollows
    <3>3. ev.receipt # NoEnvelope
      <4>1. EnvelopeOf(e).claim = e.claim /\ NoEnvelope.claim = 0
        BY DEF EnvelopeOf, NoEnvelope
      <4>2. e.claim # 0
        BY <1>1, InvFacts DEF Indices
      <4>3. QED
        BY <1>1, <2>2, <4>1, <4>2
    <3> HIDE DEF new
    <3>4. RecordFollows(new, Append(log, e), effects)
      BY <1>4, <1>6, <1>7, <3>1, <3>2, <3>3, InvFacts, RecordAfterCompletion DEF RInv
    <3>5. QED
      BY <1>1, <1>2, <3>4 DEF new
  <2>3. QED
    BY <1>3, <2>1, <2>2
<1>9. EffectsFollow(log', effects') /\ EvidenceFollows(evidence', effects')
  BY <1>1, <1>2, InvFacts, EffectsAfterAppend DEF RInv
<1>10. ConsumptionsFollow(Append(challenges, x), Append(log, e))
  BY <1>1, InvFacts, ConsumptionsAfterResolution DEF RInv
<1>11. ResolutionsFollow(Append(challenges, x), Append(log, e))
  <2>1. u \in DOMAIN log
    BY <1>1, InvFacts, UnresolvedUnknown DEF Indices
  <2>2. e.evidence.outcome = "COMPLETED" => e.kind = "COMPLETED"
    BY <1>1
  <2>3. QED
    BY <1>1, <2>1, <2>2, InvFacts, ResolutionsAfterResolution DEF RInv
<1>12. QED
  BY <1>1, <1>2, <1>5, <1>8, <1>9, <1>10, <1>11 DEF RInv

\* The provider carries out attempts of the history only, and a lookup reports what
\* it did.
LEMMA ExecuteStep ==
    ASSUME RInv, IInv', NEW e \in AttemptEnvelopes(log), ProviderExecute(e)
    PROVE  /\ RInv'
           /\ \A x \in effects : x.claim < e.claim
<1>1. /\ effects' = effects \cup {e}
      /\ UNCHANGED <<record, log, challenges, evidence>>
      /\ \A x \in effects : x.epoch < e.epoch
  BY DEF ProviderExecute, stateFile
<1>2. PICK i \in DOMAIN log : e = [claim |-> log[i].claim, epoch |-> log[i].epoch,
                                   expiry |-> log[i].expiry]
  BY DEF AttemptEnvelopes, Indices
<1>3. e.claim \in Indices(log, "CLAIMED") /\ e.epoch = log[e.claim].epoch
  <2>1. e.claim = log[i].claim /\ e.epoch = log[i].epoch
    BY <1>2
  <2>2. log[i].epoch = log[log[i].claim].epoch
    BY DEF RInv, History, CopyClaims
  <2>3. log[i].claim \in Indices(log, "CLAIMED")
    BY InvFacts DEF Sound, ReferToClaims, Indices
  <2>4. QED
    BY <2>1, <2>2, <2>3
<1>4. EffectsFollow(log, effects')
  BY <1>1, <1>3 DEF RInv, EffectsFollow
<1>5. EvidenceFollows(evidence', effects')
  BY <1>1 DEF RInv, EvidenceFollows
<1>6. RecordFollows(record, log, effects')
  BY <1>1 DEF RInv, RecordFollows
<1>7. ASSUME NEW x \in effects PROVE x.claim < e.claim
  <2>1. x.claim \in Indices(log, "CLAIMED") /\ x.epoch = log[x.claim].epoch
    BY DEF RInv, EffectsFollow
  <2>2. /\ log[x.claim].epoch \in Nat /\ log[e.claim].epoch \in Nat
        /\ x.claim \in Nat /\ e.claim \in Nat
    BY <1>3, <2>1, InvFacts, EventType DEF Indices
  <2>3. log[x.claim].epoch < log[e.claim].epoch
    BY <1>1, <1>3, <2>1
  <2>4. e.claim < x.claim => log[e.claim].epoch < log[x.claim].epoch
    BY <1>3, <2>1, InvFacts DEF EpochsNumberClaims
  <2>5. QED
    BY <2>2, <2>3, <2>4
<1>8. QED
  BY <1>1, <1>4, <1>5, <1>6, <1>7 DEF RInv

LEMMA LookupStep ==
    ASSUME RInv, IInv', NEW i, NEW at, ReconcileWithChallenge(i, at)
    PROVE  RInv'
<1>1. /\ evidence' = evidence \cup {LookupAnswer(i, at)}
      /\ UNCHANGED <<record, log, challenges, effects>>
  BY DEF ReconcileWithChallenge, stateFile
<1>2. LookupAnswer(i, at).outcome = "COMPLETED" => LookupAnswer(i, at).receipt \in effects
  BY DEF LookupAnswer, ReceiptFor
<1>3. EvidenceFollows(evidence', effects')
  BY <1>1, <1>2 DEF RInv, EvidenceFollows
<1>4. QED
  BY <1>1, <1>3 DEF RInv

LEMMA PrepareStep ==
    ASSUME RInv, IInv', PrepareProviderDispatch
    PROVE  RInv'
<1>1. /\ record.state = "ABSENT"
      /\ record' = [state |-> "PREPARED", receipt |-> NoEnvelope]
      /\ UNCHANGED <<log, challenges, effects, evidence>>
  BY DEF PrepareProviderDispatch, Exists, world
<1>2. record.receipt = NoEnvelope /\ Unresolved(log) = 0
  BY <1>1 DEF RInv, RecordFollows, VerifyReceipt
<1>3. RecordFollows(record', log, effects)
  BY <1>1, <1>2 DEF RInv, RecordFollows, VerifyReceipt
<1>4. QED
  BY <1>1, <1>3 DEF RInv

LEMMA RInvInit == Init => RInv
<1>1. SUFFICES ASSUME Init PROVE RInv
  OBVIOUS
<1>2. /\ log = <<>> /\ challenges = <<>> /\ effects = {} /\ evidence = {}
      /\ record.receipt = NoEnvelope /\ record.state = "ABSENT"
      /\ DOMAIN log = {} /\ DOMAIN challenges = {}
  BY <1>1 DEF Init
<1>3. \A kind : Indices(log, kind) = {}
  BY <1>2 DEF Indices
<1>4. Unresolved(log) = 0
  BY <1>3 DEF Unresolved, LastOf
<1>5. History(log)
  BY <1>2, <1>3 DEF History, CopyClaims, OpenIsNewest, OneUnresolved, UnresolvedIsNewest,
     OneStart, StartInLease, RenewalsVerify, EndsAreStarted
<1>6. RecordFollows(record, log, effects)
  BY <1>2, <1>3, <1>4 DEF RecordFollows, VerifyReceipt
<1>7. EffectsFollow(log, effects) /\ EvidenceFollows(evidence, effects)
      /\ ConsumptionsFollow(challenges, log) /\ ResolutionsFollow(challenges, log)
  BY <1>2 DEF EffectsFollow, EvidenceFollows, ConsumptionsFollow, ResolutionsFollow
<1>8. QED
  BY <1>1, <1>5, <1>6, <1>7, InitInvariant DEF RInv

LEMMA RInvPreserved == RInv /\ [DispatchNext]_vars => RInv'
<1>1. SUFFICES ASSUME RInv, [DispatchNext]_vars PROVE RInv'
  OBVIOUS
<1>2. IInv'
  BY <1>1, InvariantPreserved DEF RInv
<1>3. CASE PrepareProviderDispatch
  BY <1>1, <1>2, <1>3, PrepareStep
<1>4. CASE ClaimStep
  BY <1>1, <1>2, <1>4, QuarantineStep, GrantStep DEF ClaimStep
<1>5. CASE HolderStep
  BY <1>1, <1>2, <1>5, HolderKeeps
<1>6. ASSUME NEW now \in StaleNow, NEW ttl \in TtlSeconds,
             IssueProviderReconciliationChallenge(ttl, now)
      PROVE  RInv'
  BY <1>1, <1>2, <1>6, IssueStep
<1>7. ASSUME NEW ev \in evidence, NEW now \in Nat, ResolveProviderDispatchOutcome(ev, now)
      PROVE  RInv'
  BY <1>1, <1>2, <1>7, ResolveStep
<1>8. CASE ProviderStep
  BY <1>1, <1>2, <1>8, ExecuteStep, LookupStep DEF ProviderStep
<1>9. CASE Tick \/ UNCHANGED vars
  BY <1>1, <1>2, <1>9 DEF Tick, stateFile, vars, RInv
<1>10. QED
  BY <1>1, <1>3, <1>4, <1>5, <1>6, <1>7, <1>8, <1>9 DEF DispatchNext

LEMMA RInvAlways == Spec => []RInv
<1>1. RInv /\ [Next]_vars => RInv'
  BY RInvPreserved, NextIsDispatchNext DEF RInv, IInv
<1>2. QED
  BY <1>1, RInvInit, PTL DEF Spec

-----------------------------------------------------------------------------
(* What a restart verifies *)

LEMMA AcceptedHistory ==
    ASSUME NEW l \in Seq(Event), Sound(l), EpochsNumberClaims(l), History(l),
           NEW c \in Indices(l, "CLAIMED")
    PROVE  /\ VerifyRenewals(l, c)
           /\ VerifyStart(l, c)
           /\ VerifyTerminal(l, c)
           /\ VerifySubmission(l, c)
<1>1. /\ DOMAIN l = 1..Len(l) /\ Len(l) \in Nat /\ c \in DOMAIN l
      /\ \A i \in DOMAIN l : l[i].epoch = l[l[i].claim].epoch
  BY DEF Indices, History, CopyClaims
<1>2. VerifyRenewals(l, c)
  BY DEF History, RenewalsVerify
<1>3. VerifyStart(l, c)
  <2> DEFINE S == EventsOf(l, c, "STARTED")
  <2>1. \A i, j \in S : i = j
    BY DEF History, OneStart, EventsOf
  <2>2. Cardinality(S) <= 1
    <3> HIDE DEF S
    <3>1. CASE S = {}
      BY <3>1, FS_EmptySet
    <3>2. CASE S # {}
      <4>1. PICK j : j \in S
        BY <3>2
      <4>2. S = {j}
        BY <2>1, <4>1
      <4>3. Cardinality(S) = 1
        BY <4>2, FS_Singleton, Zenon
      <4>4. QED
        BY <4>3
    <3>3. QED
      BY <3>1, <3>2
  <2>3. ASSUME NEW j \in S
        PROVE  /\ ~TerminalBefore(l, c, j)
               /\ l[j].epoch = l[c].epoch
               /\ l[j].expiry # l[c].expiry => Has(l, c, "RENEWED")
    BY <1>1, <2>3 DEF History, StartInLease, EventsOf, Indices
  <2>4. ASSUME NEW j \in S, NEW d \in Indices(l, "CLAIMED"), NEW i \in Indices(l, "STARTED"),
               d < c, l[i].claim = d
        PROVE  l[i].epoch < l[j].epoch
    <3>1. l[d].epoch < l[c].epoch
      BY <2>4 DEF EpochsNumberClaims
    <3>2. l[i].epoch = l[d].epoch
      BY <1>1, <2>4 DEF Indices
    <3>3. l[j].epoch = l[c].epoch
      BY <2>3
    <3>4. QED
      BY <3>1, <3>2, <3>3
  <2>5. QED
    BY <2>2, <2>3, <2>4 DEF VerifyStart
<1>4. VerifyTerminal(l, c)
  <2>1. SUFFICES ASSUME NEW kind \in {"COMPLETED", "ATTEMPT_FAILED"},
                        NEW j \in EventsOf(l, c, kind)
                 PROVE  \E i \in EventsOf(l, c, "STARTED") : i < j /\ l[i].epoch = l[j].epoch
    BY DEF VerifyTerminal
  <2>2. j \in DOMAIN l /\ l[j].kind = kind /\ l[j].claim = c
    BY DEF EventsOf, Indices
  <2>3. PICK i \in EventsOf(l, c, "STARTED") : i < j
    BY <2>2 DEF History, EndsAreStarted
  <2>4. l[i].epoch = l[c].epoch /\ l[j].epoch = l[c].epoch
    BY <1>1, <2>2 DEF EventsOf, Indices
  <2>5. QED
    BY <2>3, <2>4
<1>5. VerifySubmission(l, c)
  BY DEF VerifySubmission, History, EndsAreStarted, Has, EventsOf, Indices
<1>6. QED
  BY <1>2, <1>3, <1>4, <1>5

LEMMA RInvAccepted == RInv => RestartAccepted
<1>1. SUFFICES ASSUME RInv PROVE VerifyProviderDispatchAttemptState(record, log, challenges)
  BY DEF RestartAccepted
<1>2. VerifyReceipt(record, log) /\ (Unresolved(log) # 0 => record.state = "OUTCOME_UNKNOWN")
  BY <1>1 DEF RInv, RecordFollows
<1>3. \A c \in Indices(log, "CLAIMED") :
        /\ VerifyRenewals(log, c)
        /\ VerifyStart(log, c)
        /\ VerifyTerminal(log, c)
        /\ VerifySubmission(log, c)
  BY <1>1, InvFacts, AcceptedHistory DEF RInv
<1>4. \A j \in DOMAIN challenges : challenges[j].kind = "CONSUMED" =>
        /\ challenges[j].resolution \in DOMAIN log
        /\ challenges[j].reference \in 1..(j - 1)
        /\ challenges[challenges[j].reference].kind = "ISSUED"
  BY <1>1 DEF RInv, ConsumptionsFollow, Consumed
<1>5. VerifyChallengeHistory(challenges)
  <2>1. ASSUME NEW j \in DOMAIN challenges, challenges[j].kind = "CONSUMED", NEW i \in 1..(j - 1),
               challenges[i].kind = "CONSUMED"
        PROVE  challenges[i].reference # challenges[j].reference
    <3>1. i \in DOMAIN challenges /\ i # j
      BY <1>1, <2>1, InvFacts
    <3>2. QED
      BY <1>1, <2>1, <3>1 DEF RInv, ConsumptionsFollow, Consumed
  <2>2. QED
    BY <1>4, <2>1 DEF VerifyChallengeHistory
<1>6. QED
  BY <1>2, <1>3, <1>4, <1>5 DEF VerifyProviderDispatchAttemptState

LEMMA RInvNewest == RInv => ReceiptOfNewestClaim
<1>1. SUFFICES ASSUME RInv, Completed
               PROVE  record.receipt.claim = LastOf(Indices(log, "CLAIMED"))
                      /\ record.receipt \in effects
  BY DEF ReceiptOfNewestClaim
<1> DEFINE C == Indices(log, "CLAIMED")
<1>2. Newest(log, record.receipt.claim) /\ record.receipt \in effects
  BY <1>1 DEF RInv, RecordFollows, Completed
<1>3. C \in SUBSET (1..Len(log)) /\ Len(log) \in Nat /\ C \in SUBSET Nat
  BY <1>1, InvFacts DEF Indices
<1>4. record.receipt.claim \in C /\ \A j \in C : j <= record.receipt.claim
  BY <1>2 DEF Newest
<1> HIDE DEF C
<1>5. LastOf(C) \in C /\ \A j \in C : j <= LastOf(C)
  BY <1>3, <1>4, LastOfBounded
<1>6. LastOf(C) \in Nat /\ record.receipt.claim \in Nat
  BY <1>3, <1>4, <1>5
<1>7. record.receipt.claim = LastOf(C)
  BY <1>4, <1>5, <1>6
<1>8. QED
  BY <1>2, <1>7 DEF C

LEMMA RInvChallenged == RInv => ResolutionChallenged
<1>1. SUFFICES ASSUME RInv, NEW j \in DOMAIN log, log[j].evidence # NoEvidence
      PROVE  LET ev == log[j].evidence IN
             /\ Cardinality({k \in DOMAIN challenges :
                   challenges[k].kind = "CONSUMED" /\ challenges[k].resolution = j}) = 1
             /\ \E k \in DOMAIN challenges :
                   /\ challenges[k].kind = "CONSUMED"
                   /\ challenges[k].resolution = j
                   /\ challenges[k].reference = ev.challenge
                   /\ challenges[k].unknown = challenges[ev.challenge].unknown
                   /\ log[challenges[k].unknown].claim = log[j].claim
             /\ ev.observedAt >= challenges[ev.challenge].issuedAt
             /\ ev.observedAt < challenges[ev.challenge].expiresAt
  BY DEF ResolutionChallenged
<1>2. PICK k \in DOMAIN challenges : ResolvedBy(challenges, log, j, k)
  BY <1>1 DEF RInv, ResolutionsFollow
<1>3. challenges[challenges[k].reference].unknown = challenges[k].unknown
  BY <1>1, <1>2 DEF RInv, ConsumptionsFollow, ResolvedBy
<1> DEFINE S == {m \in DOMAIN challenges :
                   challenges[m].kind = "CONSUMED" /\ challenges[m].resolution = j}
<1>4. S = {k}
  <2>1. k \in S
    BY <1>2 DEF ResolvedBy, Consumed
  <2>2. \A m \in S : m = k
    BY <1>1, <1>2 DEF RInv, ConsumptionsFollow, ResolvedBy, Consumed
  <2>3. QED
    BY <2>1, <2>2
<1>5. Cardinality(S) = 1
  <2> HIDE DEF S
  <2>1. QED
    BY <1>4, FS_Singleton
<1>6. QED
  BY <1>2, <1>3, <1>5 DEF ResolvedBy, Consumed

-----------------------------------------------------------------------------
(* Theorems *)

\* No sequence of calls, expiries and reconciliations leaves a state file that the
\* constructor of the control plane, which verifies all of it, would refuse.
THEOREM RestartAlwaysAccepted == Spec => []RestartAccepted
BY RInvAlways, RInvAccepted, PTL

\* A receipt that is recorded is one the provider issued, for the newest claim:
\* admissions and resolutions never record that of a superseded attempt.
THEOREM ReceiptAlwaysOfNewestClaim == Spec => []ReceiptOfNewestClaim
BY RInvAlways, RInvNewest, PTL

\* A resolution and the consumption of one challenge name each other, and the lookup
\* answer was observed while that challenge was valid.
THEOREM ResolutionAlwaysChallenged == Spec => []ResolutionChallenged
BY RInvAlways, RInvChallenged, PTL

\* A provider that compares epochs carries out the attempts of a dispatch in the
\* order of their claims, however late their envelopes arrive.
THEOREM EffectsAlwaysInClaimOrder == Spec => EffectsInClaimOrder
<1> DEFINE Ordered == \A e \in effects' \ effects : \A x \in effects : x.claim < e.claim
<1>1. ASSUME RInv, [Next]_vars PROVE [Ordered]_vars
  <2>1. IInv'
    BY <1>1, InvariantPreserved, NextIsDispatchNext DEF RInv, IInv
  <2>2. CASE ProviderStep
    <3>1. ASSUME NEW e \in AttemptEnvelopes(log), ProviderExecute(e) PROVE Ordered
      <4>1. \A x \in effects : x.claim < e.claim
        BY <1>1, <2>1, <3>1, ExecuteStep
      <4>2. effects' = effects \cup {e}
        BY <3>1 DEF ProviderExecute
      <4>3. QED
        BY <4>1, <4>2
    <3>2. ASSUME NEW i, NEW at, ReconcileWithChallenge(i, at) PROVE Ordered
      BY <3>2 DEF ReconcileWithChallenge
    <3>3. QED
      BY <2>2, <3>1, <3>2 DEF ProviderStep
  <2>3. CASE PrepareProviderDispatch \/ ClaimStep \/ HolderStep \/ ReconcileStep \/ Tick
             \/ UNCHANGED vars
    <3>1. effects' = effects
      BY <2>3 DEF PrepareProviderDispatch, ClaimStep, HolderStep, ReconcileStep, Tick, vars,
         Quarantine, ClaimProviderDispatch, AbandonProviderDispatchClaim,
         RecordProviderDispatchAttemptFailure, AdmitProviderDispatchReceipt,
         RenewProviderDispatchClaim, StartProviderDispatchAttempt,
         RecordProviderDispatchSubmission, IssueProviderReconciliationChallenge,
         ResolveProviderDispatchOutcome, world
    <3>2. QED
      BY <3>1
  <2>4. QED
    BY <1>1, <2>2, <2>3 DEF Next
<1>2. QED
  BY <1>1, RInvAlways, PTL DEF Spec, EffectsInClaimOrder

=============================================================================
