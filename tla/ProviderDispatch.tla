-------------------------- MODULE ProviderDispatch --------------------------
(***************************************************************************)
(* One provider dispatch of the commercial control plane: the outbox       *)
(* record (V11), its hash-chained claim history with bounded leases (V12), *)
(* renewal and fencing epochs (V13), the durable submission and the        *)
(* quarantine of an unknown outcome (V14), and the one-time reconciliation *)
(* challenge (V15).                                                        *)
(*                                                                         *)
(* Every operation of the code runs under one coordination lock and makes  *)
(* at most one atomic write of the state file, so an operation is one step.*)
(* The dispatches of the state file are independent of each other, and the *)
(* module models one of them.  A call that the code rejects changes        *)
(* nothing and is not a step.                                              *)
(*                                                                         *)
(* Abstractions.  A digest is the value it is computed from.  A claim      *)
(* reference (the claim token) is the position of the CLAIMED event, which *)
(* the digest of the previous event makes unique.  Event fields that are   *)
(* only copied and never compared again are left out, event times among    *)
(* them.                                                                   *)
(*                                                                         *)
(* The provider and its lookup are external: what the repository has is    *)
(* the mock adapter that states the contract a provider is held to.        *)
(***************************************************************************)
EXTENDS Naturals, Sequences, FiniteSets

CONSTANTS
    Workers,        \* dispatching workers, each a worker_id
    LeaseSeconds,   \* the lease lengths a caller asks for
    TtlSeconds,     \* the challenge lifetimes a caller asks for
    MaxLockWait,    \* bound: how old a caller's "now" is when it gets the lock
    MaxClock,       \* bound: the last instant
    MaxAttempts     \* bound: the number of claims

ASSUME LeaseAssumption == LeaseSeconds \subseteq Nat \ {0}
ASSUME TtlAssumption   == TtlSeconds \subseteq Nat \ {0}
ASSUME BoundAssumption == /\ MaxLockWait \in Nat
                          /\ MaxClock \in Nat
                          /\ MaxAttempts \in Nat

VARIABLES
    clock,       \* utc_now, the same for every process of the host
    record,      \* provider_dispatches[dispatch_id]
    log,         \* provider_dispatch_claim_history[dispatch_id]
    challenges,  \* provider_reconciliation_challenge_history[dispatch_id]
    effects,     \* external: envelopes the provider has carried out
    evidence     \* external: lookup answers obtained from the provider

stateFile == <<record, log, challenges>>
world     == <<clock, effects, evidence>>
vars      == <<clock, record, log, challenges, effects, evidence>>

-----------------------------------------------------------------------------
(* Data *)

EventKinds == {"CLAIMED", "RENEWED", "STARTED", "SUBMITTED", "EXPIRED",
               "ABANDONED", "ATTEMPT_FAILED", "OUTCOME_UNKNOWN", "COMPLETED",
               "OUTCOME_RESOLVED_NO_EFFECT"}

\* The events after which a claim is no longer current.
TerminalEventTypes == {"COMPLETED", "EXPIRED", "ABANDONED", "ATTEMPT_FAILED",
                       "OUTCOME_UNKNOWN"}

\* What identifies an attempt envelope: the record and start event it copies are
\* fixed by the claim; the lease it carries changes with every renewal.
Envelope   == [claim : Nat, epoch : Nat, expiry : Nat]
NoEnvelope == [claim |-> 0, epoch |-> 0, expiry |-> 0]

Outcomes   == {"NO_EFFECT", "COMPLETED"}

\* A lookup answer: the attempt it is about, what the provider says, and the
\* challenge it answers.
Evidence   == [envelope : Envelope, outcome : Outcomes, receipt : Envelope,
               challenge : Nat, observedAt : Nat]
NoEvidence == [envelope |-> NoEnvelope, outcome |-> "NO_EFFECT",
               receipt |-> NoEnvelope, challenge |-> 0, observedAt |-> 0]

Event == [kind : EventKinds, claim : Nat, worker : Workers, epoch : Nat,
          expiry : Nat, previous : Nat, evidence : Evidence]

RecordStates == {"ABSENT", "PREPARED", "OUTCOME_UNKNOWN", "FENCING_VERIFIED",
                 "CHALLENGE_VERIFIED"}
Record == [state : RecordStates, receipt : Envelope]

ChallengeEvent == [kind : {"ISSUED", "CONSUMED"}, reference : Nat, unknown : Nat,
                   issuedAt : Nat, expiresAt : Nat, resolution : Nat]

TypeOK ==
    /\ clock \in Nat
    /\ record \in Record
    /\ log \in Seq(Event)
    /\ challenges \in Seq(ChallengeEvent)
    /\ effects \subseteq Envelope
    /\ evidence \subseteq Evidence

-----------------------------------------------------------------------------
(* Reading the claim history *)

Indices(l, kind) == {i \in DOMAIN l : l[i].kind = kind}

\* The last element of a set of positions, 0 when there is none.
LastOf(S) == IF S = {} THEN 0 ELSE CHOOSE i \in S : \A j \in S : j <= i

EventsOf(l, c, kind) == {i \in Indices(l, kind) : l[i].claim = c}
Has(l, c, kind)      == EventsOf(l, c, kind) # {}

IsOpen(l, i) ==
    /\ l[i].kind = "CLAIMED"
    /\ \A j \in DOMAIN l :
          j > i /\ l[j].claim = i => l[j].kind \notin TerminalEventTypes

\* The current claim: the newest CLAIMED event without a terminal event.
LatestClaim(l) == LastOf({i \in DOMAIN l : IsOpen(l, i)})

\* Its lease, as extended by its last renewal.
LeaseExpiry(l, c) ==
    IF Has(l, c, "RENEWED") THEN l[LastOf(EventsOf(l, c, "RENEWED"))].expiry
                            ELSE l[c].expiry

Resolves(l, j, u) ==
    /\ j > u
    /\ l[j].claim = l[u].claim
    /\ \/ l[j].kind = "OUTCOME_RESOLVED_NO_EFFECT"
       \/ l[j].kind = "COMPLETED" /\ l[j].evidence # NoEvidence

\* The newest OUTCOME_UNKNOWN event that no later event resolves.
Unresolved(l) ==
    LastOf({u \in Indices(l, "OUTCOME_UNKNOWN") :
               \A j \in DOMAIN l : ~Resolves(l, j, u)})

\* Plausible bug: only the claims still open are counted.
AttemptNumber_OpenOnly(l) == Cardinality({i \in DOMAIN l : IsOpen(l, i)}) + 1

AttemptNumber(l) == Cardinality(Indices(l, "CLAIMED")) + 1

\* An event about claim c, with the fields every such event copies from it.
EventAbout(l, c, kind, expiry, previous, ev) ==
    [kind |-> kind, claim |-> c, worker |-> l[c].worker, epoch |-> l[c].epoch,
     expiry |-> expiry, previous |-> previous, evidence |-> ev]

EnvelopeOf(e) == [claim |-> e.claim, epoch |-> e.epoch, expiry |-> e.expiry]

-----------------------------------------------------------------------------
(* Reading the challenge history *)

ActiveChallenge(ch, u, now) ==
    LastOf({i \in DOMAIN ch :
              /\ ch[i].kind = "ISSUED"
              /\ ch[i].unknown = u
              /\ now < ch[i].expiresAt
              /\ \A j \in DOMAIN ch :
                    ch[j].kind = "CONSUMED" => ch[j].reference # i})

-----------------------------------------------------------------------------
(* The instants a call may carry.  Most operations read utc_now before they *)
(* wait for the coordination lock; failure, admission and resolution read   *)
(* it with the lock held.                                                   *)

StaleNow == {t \in 0..clock : clock - t <= MaxLockWait}

Exists       == record.state # "ABSENT"
Completed    == record.receipt # NoEnvelope
Current(c)   == c # 0 /\ c = LatestClaim(log)
Leased(c, now) == Current(c) /\ now < LeaseExpiry(log, c)

-----------------------------------------------------------------------------
(* Operations of the control plane *)

PrepareProviderDispatch ==
    /\ ~Exists
    /\ record' = [state |-> "PREPARED", receipt |-> NoEnvelope]
    /\ UNCHANGED <<log, challenges>>
    /\ UNCHANGED world

\* The claim call that finds a submitted claim past its lease quarantines the
\* attempt and fails: the caller gets no claim.
Quarantine(now) ==
    LET c == LatestClaim(log) IN
    /\ Exists
    /\ Unresolved(log) = 0
    /\ c # 0
    /\ now >= LeaseExpiry(log, c)
    /\ Has(log, c, "SUBMITTED")
    /\ log' = Append(log, EventAbout(log, c, "OUTCOME_UNKNOWN",
                       log[LastOf(EventsOf(log, c, "SUBMITTED"))].expiry, 0, NoEvidence))
    /\ record' = [record EXCEPT !.state = "OUTCOME_UNKNOWN"]
    /\ UNCHANGED challenges
    /\ UNCHANGED world

\* Plausible bug: an expired claim is taken over without being closed.
ClosedHistory_NotClosed(l) == l

\* The history a new claim is appended to: an expired claim is closed first.
ClosedHistory(l) ==
    LET c == LatestClaim(l) IN
    IF c = 0 THEN l ELSE Append(l, EventAbout(l, c, "EXPIRED", 0, 0, NoEvidence))

\* Plausible bug: the claim call forgets the quarantine.
Claimable_Quarantined(now) ==
    LET c == LatestClaim(log) IN
    /\ Exists /\ ~Completed
    /\ c # 0 => now >= LeaseExpiry(log, c) /\ ~Has(log, c, "SUBMITTED")

\* Plausible bug: the claim call forgets that the dispatch is completed.
Claimable_Completed(now) ==
    LET c == LatestClaim(log) IN
    /\ Exists /\ Unresolved(log) = 0
    /\ c # 0 => now >= LeaseExpiry(log, c) /\ ~Has(log, c, "SUBMITTED")

\* No claim is current, or it is expired and was not submitted.
Claimable(now) ==
    LET c == LatestClaim(log) IN
    /\ Exists
    /\ ~Completed
    /\ Unresolved(log) = 0
    /\ c # 0 => now >= LeaseExpiry(log, c) /\ ~Has(log, c, "SUBMITTED")

\* The holder of a current claim who claims again is given the same claim, and
\* nothing changes.
ClaimProviderDispatch(w, lease, now) ==
    LET h == ClosedHistory(log) IN
    /\ Claimable(now)
    /\ AttemptNumber(log) <= MaxAttempts
    /\ log' = Append(h, [kind |-> "CLAIMED", claim |-> Len(h) + 1, worker |-> w,
                         epoch |-> AttemptNumber(h), expiry |-> now + lease,
                         previous |-> 0, evidence |-> NoEvidence])
    /\ UNCHANGED <<record, challenges>>
    /\ UNCHANGED world

RenewProviderDispatchClaim(c, lease, now) ==
    /\ Leased(c, now)
    /\ now + lease > LeaseExpiry(log, c)
    /\ log' = Append(log, EventAbout(log, c, "RENEWED", now + lease,
                                     LeaseExpiry(log, c), NoEvidence))
    /\ UNCHANGED <<record, challenges>>
    /\ UNCHANGED world

\* An abandonment needs the current token and nothing else: neither an
\* unexpired lease nor an attempt that was not submitted.
AbandonProviderDispatchClaim(c) ==
    /\ Current(c)
    /\ log' = Append(log, EventAbout(log, c, "ABANDONED", 0, 0, NoEvidence))
    /\ UNCHANGED <<record, challenges>>
    /\ UNCHANGED world

StartProviderDispatchAttempt(c, now) ==
    /\ Leased(c, now)
    /\ ~Completed
    /\ ~Has(log, c, "STARTED")
    /\ log' = Append(log, EventAbout(log, c, "STARTED", LeaseExpiry(log, c), 0,
                                     NoEvidence))
    /\ UNCHANGED <<record, challenges>>
    /\ UNCHANGED world

\* The envelopes provider_dispatch_attempt_envelope can have returned so far, a read
\* that changes nothing: one for each lease the claim has had since its start.
AttemptEnvelopes(l) ==
    {[claim |-> l[i].claim, epoch |-> l[i].epoch, expiry |-> l[i].expiry] :
        i \in {j \in Indices(l, "STARTED") \cup Indices(l, "RENEWED") :
                 \E k \in EventsOf(l, l[j].claim, "STARTED") : k <= j}}

RecordProviderDispatchSubmission(c, now) ==
    /\ Leased(c, now)
    /\ Has(log, c, "STARTED")
    /\ ~Has(log, c, "SUBMITTED")
    /\ log' = Append(log, EventAbout(log, c, "SUBMITTED", LeaseExpiry(log, c), 0,
                                     NoEvidence))
    /\ UNCHANGED <<record, challenges>>
    /\ UNCHANGED world

\* Plausible bug: V13's failure call, which knows nothing of submissions.
RecordProviderDispatchAttemptFailure_Submitted(c, now) ==
    /\ Leased(c, now)
    /\ Has(log, c, "STARTED")
    /\ log' = Append(log, EventAbout(log, c, "ATTEMPT_FAILED", 0, 0, NoEvidence))
    /\ UNCHANGED <<record, challenges>>
    /\ UNCHANGED world

RecordProviderDispatchAttemptFailure(c, now) ==
    /\ ~Has(log, c, "SUBMITTED")
    /\ Leased(c, now)
    /\ Has(log, c, "STARTED")
    /\ log' = Append(log, EventAbout(log, c, "ATTEMPT_FAILED", 0, 0, NoEvidence))
    /\ UNCHANGED <<record, challenges>>
    /\ UNCHANGED world

\* Direct admission binds the receipt to the claim, the epoch and the start
\* event, but not to the lease its envelope carried.
AdmitProviderDispatchReceipt(r, c, now) ==
    /\ Exists
    /\ Unresolved(log) = 0
    /\ ~Completed
    /\ Leased(c, now)
    /\ Has(log, c, "STARTED")
    /\ r.claim = c
    /\ r.epoch = log[c].epoch
    /\ log' = Append(log, EventAbout(log, c, "COMPLETED", r.expiry, 0, NoEvidence))
    /\ record' = [state |-> "FENCING_VERIFIED", receipt |-> r]
    /\ UNCHANGED challenges
    /\ UNCHANGED world

IssueProviderReconciliationChallenge(ttl, now) ==
    LET u == Unresolved(log) IN
    /\ u # 0
    /\ ActiveChallenge(challenges, u, now) = 0
    /\ challenges' = Append(challenges,
          [kind |-> "ISSUED", reference |-> Len(challenges) + 1, unknown |-> u,
           issuedAt |-> now, expiresAt |-> now + ttl, resolution |-> 0])
    /\ UNCHANGED <<record, log>>
    /\ UNCHANGED world

\* The lookup answer is fresh: it answers the active challenge and was observed
\* while that challenge was valid, not later than now.
FreshEvidence(ev, u, now) ==
    LET a == ActiveChallenge(challenges, u, now) IN
    /\ a # 0
    /\ ev.challenge = a
    /\ ev.observedAt >= challenges[a].issuedAt
    /\ ev.observedAt < challenges[a].expiresAt
    /\ ev.observedAt <= now

\* The lookup answer is about the quarantined attempt, receipt included.
BoundEvidence(ev, u) ==
    /\ ev.envelope = EnvelopeOf(log[u])
    /\ \/ ev.outcome = "NO_EFFECT" /\ ev.receipt = NoEnvelope
       \/ ev.outcome = "COMPLETED" /\ ev.receipt = ev.envelope

Admissible(ev, now) ==
    LET u == Unresolved(log) IN
    /\ u # 0
    /\ FreshEvidence(ev, u, now)
    /\ BoundEvidence(ev, u)
    /\ Has(log, log[u].claim, "STARTED")
    /\ Has(log, log[u].claim, "SUBMITTED")

\* Plausible bug: the record gets the outcome of the lookup as its state.
ResolvedRecord_Outcome(ev) == [state |-> ev.outcome, receipt |-> ev.receipt]

ResolvedRecord(ev) ==
    IF ev.outcome = "NO_EFFECT"
    THEN [record EXCEPT !.state = "PREPARED"]
    ELSE [state |-> "CHALLENGE_VERIFIED", receipt |-> ev.receipt]

\* Plausible bug: the challenge is not consumed.
ConsumedHistory_Kept(ch, ev, u) == ch

ConsumedHistory(ch, ev, u) ==
    Append(ch, [kind |-> "CONSUMED", reference |-> ev.challenge, unknown |-> u,
                issuedAt |-> 0, expiresAt |-> 0, resolution |-> Len(log) + 1])

\* The two outcomes write the resolution event, the record and the consumption
\* of the challenge in one write of the state file.
ResolveProviderDispatchOutcome(ev, now) ==
    LET u == Unresolved(log)
        kind == IF ev.outcome = "NO_EFFECT" THEN "OUTCOME_RESOLVED_NO_EFFECT"
                                            ELSE "COMPLETED" IN
    /\ Admissible(ev, now)
    /\ log' = Append(log, EventAbout(log, log[u].claim, kind, ev.receipt.expiry, 0, ev))
    /\ record' = ResolvedRecord(ev)
    /\ challenges' = ConsumedHistory(challenges, ev, u)
    /\ UNCHANGED world

-----------------------------------------------------------------------------
(* External: the provider, as the mock adapter states its contract *)

\* Plausible bug: the provider does not fence.
ProviderExecute_Unfenced(e) ==
    /\ Has(log, e.claim, "SUBMITTED")
    /\ effects' = effects \cup {e}
    /\ UNCHANGED stateFile
    /\ UNCHANGED <<clock, evidence>>

\* A worker transmits an envelope of an attempt whose submission is recorded; the
\* call may reach the provider at any later time.  A lower epoch is refused and
\* an epoch already carried out is answered with the receipt it got then.
ProviderExecute(e) ==
    /\ Has(log, e.claim, "SUBMITTED")
    /\ \A x \in effects : x.epoch < e.epoch
    /\ effects' = effects \cup {e}
    /\ UNCHANGED stateFile
    /\ UNCHANGED <<clock, evidence>>

\* The receipt the provider keeps for an epoch.
ReceiptFor(epoch) ==
    IF \E x \in effects : x.epoch = epoch
    THEN CHOOSE x \in effects : x.epoch = epoch ELSE NoEnvelope

\* A lookup under a challenge reports what the provider did up to that moment.
\* The observation time is the caller's: by default the time of issue.
LookupAnswer(i, at) ==
    LET e == EnvelopeOf(log[challenges[i].unknown])
        r == ReceiptFor(e.epoch) IN
    [envelope |-> e, outcome |-> IF r = NoEnvelope THEN "NO_EFFECT" ELSE "COMPLETED",
     receipt |-> r, challenge |-> i, observedAt |-> at]

ReconcileWithChallenge(i, at) ==
    /\ challenges[i].kind = "ISSUED"
    /\ at >= challenges[i].issuedAt
    /\ at < challenges[i].expiresAt
    /\ evidence' = evidence \cup {LookupAnswer(i, at)}
    /\ UNCHANGED stateFile
    /\ UNCHANGED <<clock, effects>>

Tick ==
    /\ clock < MaxClock
    /\ clock' = clock + 1
    /\ UNCHANGED stateFile
    /\ UNCHANGED <<effects, evidence>>

-----------------------------------------------------------------------------
Init ==
    /\ clock = 0
    /\ record = [state |-> "ABSENT", receipt |-> NoEnvelope]
    /\ log = <<>>
    /\ challenges = <<>>
    /\ effects = {}
    /\ evidence = {}

ClaimStep ==
    \E now \in StaleNow :
       \/ Quarantine(now)
       \/ \E w \in Workers, lease \in LeaseSeconds : ClaimProviderDispatch(w, lease, now)

HolderStep ==
    \E c \in Indices(log, "CLAIMED") :
       \/ AbandonProviderDispatchClaim(c)
       \/ RecordProviderDispatchAttemptFailure(c, clock)
       \/ \E r \in effects : AdmitProviderDispatchReceipt(r, c, clock)
       \/ \E now \in StaleNow :
             \/ \E lease \in LeaseSeconds : RenewProviderDispatchClaim(c, lease, now)
             \/ StartProviderDispatchAttempt(c, now)
             \/ RecordProviderDispatchSubmission(c, now)

ReconcileStep ==
    \/ \E now \in StaleNow, ttl \in TtlSeconds :
          IssueProviderReconciliationChallenge(ttl, now)
    \/ \E ev \in evidence : ResolveProviderDispatchOutcome(ev, clock)

ProviderStep ==
    \/ \E e \in AttemptEnvelopes(log) : ProviderExecute(e)
    \/ \E i \in DOMAIN challenges :
          \E at \in {challenges[i].issuedAt, clock} : ReconcileWithChallenge(i, at)

Next ==
    \/ PrepareProviderDispatch
    \/ ClaimStep
    \/ HolderStep
    \/ ReconcileStep
    \/ ProviderStep
    \/ Tick

Spec == Init /\ [][Next]_vars

-----------------------------------------------------------------------------
(* What a restart verifies: the constructor of the control plane refuses to *)
(* start when one of these fails.                                           *)

ExpiryBefore(l, c, j) ==
    LET r == {i \in EventsOf(l, c, "RENEWED") : i < j} IN
    IF r = {} THEN l[c].expiry ELSE l[LastOf(r)].expiry

TerminalBefore(l, c, j) ==
    \E i \in DOMAIN l : i < j /\ l[i].claim = c /\ l[i].kind \in TerminalEventTypes

VerifyRenewals(l, c) ==
    \A j \in EventsOf(l, c, "RENEWED") :
        /\ ~TerminalBefore(l, c, j)
        /\ l[j].worker = l[c].worker /\ l[j].epoch = l[c].epoch
        /\ l[j].previous = ExpiryBefore(l, c, j)
        /\ l[j].expiry > l[j].previous

VerifyStart(l, c) ==
    LET starts == EventsOf(l, c, "STARTED") IN
    /\ Cardinality(starts) <= 1
    /\ \A j \in starts :
        /\ ~TerminalBefore(l, c, j)
        /\ l[j].epoch = l[c].epoch
        /\ \A d \in Indices(l, "CLAIMED"), i \in Indices(l, "STARTED") :
              d < c /\ l[i].claim = d => l[i].epoch < l[j].epoch
        /\ l[j].expiry # l[c].expiry => Has(l, c, "RENEWED")

\* A completion or failure needs the start event of its claim before it.
VerifyTerminal(l, c) ==
    \A kind \in {"COMPLETED", "ATTEMPT_FAILED"} : \A j \in EventsOf(l, c, kind) :
        \E i \in EventsOf(l, c, "STARTED") : i < j /\ l[i].epoch = l[j].epoch

VerifySubmission(l, c) ==
    /\ Has(l, c, "SUBMITTED") => Has(l, c, "STARTED")
    /\ Has(l, c, "OUTCOME_UNKNOWN") => Has(l, c, "SUBMITTED")

\* Plausible bug: V13's verifier, which predates the state V15 writes.
VerifyReceipt_V13(rec, l) ==
    LET done == Indices(l, "COMPLETED") IN
    IF rec.receipt = NoEnvelope
    THEN done = {}
    ELSE /\ rec.state = "FENCING_VERIFIED"
         /\ Cardinality(done) = 1
         /\ \A j \in done : EnvelopeOf(l[j]) = rec.receipt

VerifyReceipt(rec, l) ==
    LET done == Indices(l, "COMPLETED") IN
    IF rec.receipt = NoEnvelope
    THEN done = {}
    ELSE /\ rec.state \in {"FENCING_VERIFIED", "CHALLENGE_VERIFIED"}
         /\ Cardinality(done) = 1
         /\ \A j \in done : EnvelopeOf(l[j]) = rec.receipt

VerifyChallengeHistory(ch) ==
    \A j \in DOMAIN ch : ch[j].kind = "CONSUMED" =>
        /\ \E i \in 1..(j - 1) : ch[i].kind = "ISSUED" /\ i = ch[j].reference
        /\ \A i \in 1..(j - 1) : ch[i].kind = "CONSUMED"
                                    => ch[i].reference # ch[j].reference

VerifyProviderDispatchAttemptState(rec, l, ch) ==
    /\ VerifyReceipt(rec, l)
    /\ \A c \in Indices(l, "CLAIMED") :
        /\ VerifyRenewals(l, c)
        /\ VerifyStart(l, c)
        /\ VerifyTerminal(l, c)
        /\ VerifySubmission(l, c)
    /\ Unresolved(l) # 0 => rec.state = "OUTCOME_UNKNOWN"
    /\ VerifyChallengeHistory(ch)
    /\ \A j \in DOMAIN ch : ch[j].kind = "CONSUMED" => ch[j].resolution \in DOMAIN l

-----------------------------------------------------------------------------
(* Properties *)

\* Every state the operations can leave on disk is one the constructor accepts:
\* no sequence of legal calls, expiries and reconciliations makes the control
\* plane refuse to restart.
RestartAccepted == VerifyProviderDispatchAttemptState(record, log, challenges)

\* At most one claim is current, whatever workers claim, renew, abandon, fail and
\* take over, with clocks read before the lock: two workers are never both
\* entitled to dispatch.
OneCurrentClaim ==
    \A i, j \in DOMAIN log : IsOpen(log, i) /\ IsOpen(log, j) => i = j

\* Fencing epochs number the claims in order, so a later claim always carries the
\* higher epoch that a fencing provider needs to refuse the earlier attempt.
EpochsFollowClaims ==
    \A i, j \in Indices(log, "CLAIMED") : i < j => log[i].epoch < log[j].epoch

\* An attempt the provider may have carried out is never written off: once its
\* submission is recorded, the claim ends by quarantine, completion or the
\* holder's own abandonment, never as expired or failed.
SubmittedNotWrittenOff ==
    \A c \in Indices(log, "CLAIMED") :
        Has(log, c, "SUBMITTED")
            => ~Has(log, c, "EXPIRED") /\ ~Has(log, c, "ATTEMPT_FAILED")

\* The admitted receipt is one the provider issued, for the newest claim: a late
\* receipt of a superseded attempt is never recorded, and no claim is granted
\* after a receipt.
ReceiptOfNewestClaim ==
    Completed => /\ record.receipt \in effects
                 /\ record.receipt.claim = LastOf(Indices(log, "CLAIMED"))

\* A resolution rests on a lookup answer observed within the validity of a
\* challenge issued for that very quarantine, and each challenge resolves at most
\* one: the consumption and the resolution name each other.
ResolutionChallenged ==
    \A j \in DOMAIN log : log[j].evidence # NoEvidence =>
        LET ev == log[j].evidence IN
        /\ Cardinality({k \in DOMAIN challenges :
              challenges[k].kind = "CONSUMED" /\ challenges[k].resolution = j}) = 1
        /\ \E k \in DOMAIN challenges :
              /\ challenges[k].kind = "CONSUMED"
              /\ challenges[k].resolution = j
              /\ challenges[k].reference = ev.challenge
              /\ challenges[k].unknown = challenges[ev.challenge].unknown
              /\ log[challenges[k].unknown].claim = log[j].claim
        /\ ev.observedAt >= challenges[ev.challenge].issuedAt
        /\ ev.observedAt < challenges[ev.challenge].expiresAt

\* While an outcome is unknown the claim history grows only by its resolution: no
\* takeover, no retry, no direct admission of a receipt.
QuarantineHolds ==
    [][ Unresolved(log) # 0 /\ log' # log =>
          /\ Len(log') = Len(log) + 1
          /\ Resolves(log', Len(log'), Unresolved(log)) ]_vars

\* The provider never carries out an attempt after a newer one: the epochs of the
\* claims are what its fencing compares.
EffectsInClaimOrder ==
    [][ \A e \in effects' \ effects : \A x \in effects : x.claim < e.claim ]_vars

\* PROVIDER_DISPATCH_OUTCOME_RECONCILIATION_V14.md:5: "retry release only after
\* NO_EFFECT".  A claim that follows a submitted one follows its resolution.
RetryOnlyAfterNoEffect ==
    \A c, d \in Indices(log, "CLAIMED") :
        c < d /\ Has(log, c, "SUBMITTED") =>
            \E j \in EventsOf(log, c, "OUTCOME_RESOLVED_NO_EFFECT") : j < d

\* PROVIDER_DISPATCH_OUTCOME_RECONCILIATION_V14.md:5: "original-receipt admission
\* after COMPLETED".  What the provider did for a quarantined attempt is an
\* outcome the resolution can admit.
QuarantinedEffectAdmissible ==
    LET u == Unresolved(log) IN
    u # 0 => LET r == ReceiptFor(log[u].epoch) IN
             r # NoEnvelope => r = EnvelopeOf(log[u])
=============================================================================
