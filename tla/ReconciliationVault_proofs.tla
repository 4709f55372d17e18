--------------------- MODULE ReconciliationVault_proofs ---------------------
(***************************************************************************)
(* Proofs about ReconciliationVault, for any workers, lease lengths,       *)
(* challenge lifetimes, bounds and number of startups.  A step of the      *)
(* vault is a step of the dispatch, with a resumed resolution judged at    *)
(* the instant of its observation, or leaves the dispatch alone; so the    *)
(* invariant of the dispatch holds here too.                               *)
(***************************************************************************)
EXTENDS ReconciliationVault, ProviderDispatchRestart_proofs

-----------------------------------------------------------------------------
(* The claim history under the vault *)

\* A history that another one begins with.
Begins(l, a) == DOMAIN l \subseteq DOMAIN a /\ \A j \in DOMAIN l : a[j] = l[j]

\* What is new in it refers to no package.
AddsNoEvidence(l, a) == \A j \in DOMAIN a \ DOMAIN l : a[j].evidence = NoEvidence

LEMMA BeginsAppend ==
    ASSUME NEW l \in Seq(Event), NEW e
    PROVE  /\ Begins(l, Append(l, e))
           /\ e.evidence = NoEvidence => AddsNoEvidence(l, Append(l, e))
<1> DEFINE a == Append(l, e)
<1>1. /\ Len(l) \in Nat /\ DOMAIN l = 1..Len(l)
      /\ DOMAIN a = 1..(Len(l) + 1)
      /\ \A j \in 1..Len(l) : a[j] = l[j]
      /\ a[Len(l) + 1] = e
  OBVIOUS
<1> HIDE DEF a
<1>2. Begins(l, a)
  BY <1>1 DEF Begins
<1>3. \A j \in DOMAIN a \ DOMAIN l : j = Len(l) + 1
  BY <1>1
<1>4. e.evidence = NoEvidence => AddsNoEvidence(l, a)
  BY <1>1, <1>3 DEF AddsNoEvidence
<1>5. QED
  BY <1>2, <1>4 DEF a

\* Such a history refers to the same packages.
LEMMA ReferencedKept ==
    ASSUME NEW l, NEW a, Begins(l, a)
    PROVE  /\ Referenced(l) \subseteq Referenced(a)
           /\ AddsNoEvidence(l, a) => Referenced(a) = Referenced(l)
<1>1. Referenced(l) \subseteq Referenced(a)
  BY DEF Begins, Referenced
<1>2. ASSUME AddsNoEvidence(l, a) PROVE Referenced(a) \subseteq Referenced(l)
  <2>1. ASSUME NEW j \in DOMAIN a, a[j].evidence # NoEvidence
        PROVE  a[j].evidence \in Referenced(l)
    <3>1. j \in DOMAIN l
      BY <1>2, <2>1 DEF AddsNoEvidence
    <3>2. QED
      BY <2>1, <3>1 DEF Begins, Referenced
  <2>2. QED
    BY <2>1 DEF Referenced
<1>3. QED
  BY <1>1, <1>2

\* An event refers to its package for itself alone: the challenge that the lookup
\* answered was consumed once.
LEMMA OneEventPerPackage ==
    ASSUME RInv, NEW i \in DOMAIN log, NEW j \in DOMAIN log,
           log[i].evidence = log[j].evidence, log[i].evidence # NoEvidence
    PROVE  i = j
<1>1. PICK k \in DOMAIN challenges : ResolvedBy(challenges, log, i, k)
  BY DEF RInv, ResolutionsFollow
<1>2. PICK m \in DOMAIN challenges : ResolvedBy(challenges, log, j, m)
  BY DEF RInv, ResolutionsFollow
<1>3. challenges[k].reference = challenges[m].reference
  BY <1>1, <1>2 DEF ResolvedBy
<1>4. k = m
  BY <1>1, <1>2, <1>3 DEF RInv, ConsumptionsFollow, ResolvedBy
<1>5. QED
  BY <1>1, <1>2, <1>4 DEF ResolvedBy

LEMMA ResolutionEventIs ==
    ASSUME RInv, NEW j \in DOMAIN log, log[j].evidence # NoEvidence
    PROVE  ResolutionEvent(log[j].evidence) = j
<1> DEFINE ev == log[j].evidence
           r == ResolutionEvent(ev)
<1>1. r \in DOMAIN log /\ log[r].evidence = ev
  BY DEF ResolutionEvent
<1> HIDE DEF r
<1>2. r = j
  BY <1>1, OneEventPerPackage
<1>3. QED
  BY <1>2 DEF r

\* A completed record is final.
LEMMA CompletedIsFinal ==
    ASSUME RInv, Completed, [DispatchNext]_vars
    PROVE  record' = record
<1>1. /\ record.state \in {"FENCING_VERIFIED", "CHALLENGE_VERIFIED"}
      /\ \A i \in DOMAIN log : ~IsOpen(log, i)
      /\ Unresolved(log) = 0
  BY DEF RInv, RecordFollows, VerifyReceipt, Completed
<1>2. \A c : ~Current(c)
  BY <1>1, CurrentFacts
<1>3. LatestClaim(log) = 0
  BY <1>2 DEF Current
<1>4. CASE PrepareProviderDispatch
  BY <1>1, <1>4 DEF PrepareProviderDispatch, Exists
<1>5. CASE ClaimStep
  BY <1>3, <1>5 DEF ClaimStep, Quarantine, ClaimProviderDispatch
<1>6. CASE HolderStep
  BY <1>2, <1>6 DEF HolderStep, Leased, AbandonProviderDispatchClaim,
     RecordProviderDispatchAttemptFailure, AdmitProviderDispatchReceipt,
     RenewProviderDispatchClaim, StartProviderDispatchAttempt,
     RecordProviderDispatchSubmission
<1>7. ASSUME NEW now, NEW ttl, IssueProviderReconciliationChallenge(ttl, now)
      PROVE  record' = record
  BY <1>7 DEF IssueProviderReconciliationChallenge
<1>8. ASSUME NEW ev, NEW now, ResolveProviderDispatchOutcome(ev, now)
      PROVE  record' = record
  BY <1>1, <1>8 DEF ResolveProviderDispatchOutcome, Admissible
<1>9. CASE ProviderStep \/ Tick \/ UNCHANGED vars
  BY <1>9 DEF ProviderStep, ProviderExecute, ReconcileWithChallenge, Tick, stateFile, vars
<1>10. QED
  BY <1>4, <1>5, <1>6, <1>7, <1>8, <1>9 DEF DispatchNext

\* What the other operations of the dispatch do under the vault: they refer to no
\* package, and leave an unknown outcome to its resolution.
LEMMA DispatchStepFacts ==
    ASSUME RInv, DispatchStep
    PROVE  /\ Begins(log, log')
           /\ AddsNoEvidence(log, log')
           /\ evidence \subseteq evidence'
           /\ Unresolved(log) # 0 => log' = log
           /\ challenges' = challenges \/ Len(challenges') > Len(challenges)
<1> DEFINE P == /\ Begins(log, log')
                /\ AddsNoEvidence(log, log')
                /\ evidence \subseteq evidence'
                /\ Unresolved(log) # 0 => log' = log
                /\ challenges' = challenges \/ Len(challenges') > Len(challenges)
<1>1. ASSUME log' = log, evidence \subseteq evidence',
             challenges' = challenges \/ Len(challenges') > Len(challenges)
      PROVE  P
  BY <1>1 DEF Begins, AddsNoEvidence
<1>2. ASSUME NEW e, log' = Append(log, e), e.evidence = NoEvidence, Unresolved(log) = 0,
             UNCHANGED <<challenges, evidence>>
      PROVE  P
  BY <1>2, InvFacts, BeginsAppend
<1>3. \A c, kind, expiry, previous :
        EventAbout(log, c, kind, expiry, previous, NoEvidence).evidence = NoEvidence
  BY DEF EventAbout
<1> SUFFICES P
  OBVIOUS
<1> HIDE DEF P
<1>4. CASE PrepareProviderDispatch
  BY <1>1, <1>4 DEF PrepareProviderDispatch, world
<1>5. CASE ClaimStep
  <2>1. ASSUME NEW now, Quarantine(now) PROVE P
    BY <1>2, <1>3, <2>1 DEF Quarantine, world
  <2>2. ASSUME NEW now \in StaleNow, NEW w \in Workers, NEW lease \in LeaseSeconds,
               ClaimProviderDispatch(w, lease, now)
        PROVE  P
    <3> DEFINE h == ClosedHistory(log)
               e == [kind |-> "CLAIMED", claim |-> Len(h) + 1, worker |-> w,
                     epoch |-> AttemptNumber(h), expiry |-> now + lease,
                     previous |-> 0, evidence |-> NoEvidence]
    <3>1. /\ log' = Append(h, e) /\ e.evidence = NoEvidence
          /\ Unresolved(log) = 0
          /\ UNCHANGED <<challenges, evidence>>
      BY <2>2 DEF ClaimProviderDispatch, Claimable, world
    <3> HIDE DEF e
    <3>2. CASE LatestClaim(log) = 0
      <4>1. h = log
        BY <3>2 DEF ClosedHistory
      <4>2. QED
        BY <1>2, <3>1, <4>1
    <3>3. CASE LatestClaim(log) # 0
      <4> DEFINE x == EventAbout(log, LatestClaim(log), "EXPIRED", 0, 0, NoEvidence)
      <4>1. h = Append(log, x) /\ x.evidence = NoEvidence
        BY <1>3, <3>3 DEF ClosedHistory
      <4>2. LatestClaim(log) \in DOMAIN log /\ log \in Seq(Event)
        BY <3>3, InvFacts, LatestClaimOpen
      <4>3. x \in Event
        BY <4>2, NoEvidenceType, EventAboutType DEF EventKinds
      <4> HIDE DEF h, x
      <4>4. h \in Seq(Event)
        BY <4>1, <4>2, <4>3
      <4>5. Begins(log, h) /\ AddsNoEvidence(log, h)
        BY <4>1, <4>2, BeginsAppend
      <4>6. Begins(h, log') /\ AddsNoEvidence(h, log')
        BY <3>1, <4>4, BeginsAppend
      <4>7. Begins(log, log') /\ AddsNoEvidence(log, log')
        BY <4>5, <4>6 DEF Begins, AddsNoEvidence
      <4>8. QED
        BY <3>1, <4>7 DEF P
    <3>4. QED
      BY <3>2, <3>3
  <2>3. QED
    BY <1>5, <2>1, <2>2 DEF ClaimStep
<1>6. CASE HolderStep
  <2>1. ASSUME NEW c, NEW kind, NEW expiry, NEW previous, Current(c),
               log' = Append(log, EventAbout(log, c, kind, expiry, previous, NoEvidence)),
               UNCHANGED <<challenges, evidence>>
        PROVE  P
    <3>1. Unresolved(log) = 0
      BY <2>1, CurrentFacts
    <3>2. QED
      BY <1>2, <1>3, <2>1, <3>1
  <2>2. QED
    BY <1>6, <2>1 DEF HolderStep, Leased, world, AbandonProviderDispatchClaim,
       RecordProviderDispatchAttemptFailure, AdmitProviderDispatchReceipt,
       RenewProviderDispatchClaim, StartProviderDispatchAttempt,
       RecordProviderDispatchSubmission
<1>7. ASSUME NEW now, NEW ttl, IssueProviderReconciliationChallenge(ttl, now)
      PROVE  P
  <2>1. PICK x : challenges' = Append(challenges, x)
    BY <1>7 DEF IssueProviderReconciliationChallenge
  <2>2. Len(challenges') > Len(challenges)
    BY <2>1, InvFacts
  <2>3. QED
    BY <1>1, <1>7, <2>2 DEF IssueProviderReconciliationChallenge, world
<1>8. CASE ProviderStep
  BY <1>1, <1>8 DEF ProviderStep, ProviderExecute, ReconcileWithChallenge, stateFile
<1>9. CASE Tick
  BY <1>1, <1>9 DEF Tick, stateFile
<1>10. QED
  BY <1>4, <1>5, <1>6, <1>7, <1>8, <1>9 DEF DispatchStep

-----------------------------------------------------------------------------
(* The inductive invariant *)

VaultTypes ==
    /\ packages \subseteq Evidence
    /\ receipts \subseteq CompletionReceipt
    /\ call \in Call
    /\ startup \in Startup
    /\ startups \in 0 .. MaxStartups

\* A call resolves a package that is on disk, and publishes the receipt of one that
\* the claim history refers to.
CallFollows ==
    /\ packages \subseteq evidence
    /\ call.step # "none" => call.evidence \in evidence
    /\ call.step = "resolving" => call.evidence \in packages
    /\ call.step = "completing" => call.evidence \in Referenced(log)

\* A receipt names the event that refers to its package; that of a completion is
\* bound to the record as it is.
ReceiptsFollow ==
    \A rc \in receipts :
        /\ rc.event \in DOMAIN log
        /\ rc.evidence # NoEvidence
        /\ log[rc.event].evidence = rc.evidence
        /\ rc.evidence.outcome = "COMPLETED" => rc.record = record

VInv ==
    /\ RInv
    /\ VaultTypes
    /\ CallFollows
    /\ ReferencedEvidenceRetained
    /\ ReceiptsFollow

LEMMA NoCallType == NoCall \in Call
BY NoEvidenceType DEF NoCall, Call

LEMMA NoStartupType == NoStartup \in Startup
BY DEF NoStartup, Startup

LEMMA VInvInit == VaultInit => VInv
<1>1. SUFFICES ASSUME VaultInit PROVE VInv
  OBVIOUS
<1>2. RInv
  BY <1>1, RInvInit DEF VaultInit
<1>3. VaultTypes
  BY <1>1, StartupAssumption, NoCallType, NoStartupType DEF VaultInit, VaultTypes
<1>4. CallFollows
  BY <1>1 DEF VaultInit, CallFollows, NoCall
<1>5. Referenced(log) = {}
  BY <1>1 DEF VaultInit, Init, Referenced
<1>6. ReceiptsFollow /\ ReferencedEvidenceRetained
  BY <1>1, <1>5 DEF VaultInit, ReceiptsFollow, ReferencedEvidenceRetained
<1>7. QED
  BY <1>2, <1>3, <1>4, <1>6 DEF VInv

\* A step of the vault is one of the dispatch.
LEMMA VaultStepIsDispatchStep ==
    ASSUME VInv, [VaultNext]_vaultVars
    PROVE  [DispatchNext]_vars
<1>1. CASE DispatchStep
  BY <1>1 DEF DispatchStep, DispatchNext
<1>2. CASE Resolve
  <2>1. call.evidence \in evidence /\ call.evidence.observedAt \in Nat /\ clock \in Nat
    BY <1>2, InvFacts DEF VInv, CallFollows, Resolve, Evidence
  <2>2. PICK now \in Nat : ResolveProviderDispatchOutcome(call.evidence, now)
    BY <1>2, <2>1 DEF Resolve
  <2>3. QED
    BY <2>1, <2>2 DEF DispatchNext
<1>3. CASE CallStep /\ ~Resolve
  BY <1>3 DEF CallStep, BeginResolve, BeginResume, BeginRepair, PublishEvidence,
     RejectEvidence, PublishReceipt, PublicationFails, Crash, PruneOrphans
<1>4. CASE StartupStep
  BY <1>4 DEF StartupStep, RemoveIncompletePublications, RemoveIncompleteReceipts,
     VerifyEvidenceState, ReadStateForReceipts, VerifyRecoveryCompletionReceiptState
<1>5. CASE UNCHANGED vaultVars
  BY <1>5 DEF vaultVars
<1>6. QED
  BY <1>1, <1>2, <1>3, <1>4, <1>5 DEF VaultNext

\* The receipts keep following a history that begins with the present one.
LEMMA ReceiptsFollowLater ==
    ASSUME VInv, RInv', [DispatchNext]_vars, Begins(log, log'), receipts' = receipts
    PROVE  ReceiptsFollow'
<1>1. SUFFICES ASSUME NEW rc \in receipts
               PROVE  /\ rc.event \in DOMAIN log'
                      /\ rc.evidence # NoEvidence
                      /\ log'[rc.event].evidence = rc.evidence
                      /\ rc.evidence.outcome = "COMPLETED" => rc.record = record'
  BY DEF ReceiptsFollow
<1>2. /\ rc.event \in DOMAIN log
      /\ rc.evidence # NoEvidence
      /\ log[rc.event].evidence = rc.evidence
      /\ rc.evidence.outcome = "COMPLETED" => rc.record = record
  BY DEF VInv, ReceiptsFollow
<1>3. rc.event \in DOMAIN log' /\ log'[rc.event] = log[rc.event]
  BY <1>2 DEF Begins
<1>4. ASSUME rc.evidence.outcome = "COMPLETED" PROVE record' = record
  <2>1. log[rc.event].kind = "COMPLETED"
    BY <1>2, <1>4 DEF VInv, RInv, ResolutionsFollow
  <2>2. Indices(log, "COMPLETED") # {}
    BY <1>2, <2>1 DEF Indices
  <2>3. Completed
    BY <2>2 DEF VInv, RInv, RecordFollows, VerifyReceipt, Completed
  <2>4. QED
    BY <2>3, CompletedIsFinal DEF VInv
<1>5. QED
  BY <1>2, <1>3, <1>4

-----------------------------------------------------------------------------
(* The steps *)

LEMMA VaultFacts ==
    ASSUME VInv
    PROVE  /\ log \in Seq(Event) /\ record \in Record /\ evidence \subseteq Evidence
           /\ packages \subseteq Evidence /\ receipts \subseteq CompletionReceipt
           /\ call \in Call /\ startup \in Startup /\ startups \in 0 .. MaxStartups
           /\ call.step \in {"none", "publishing", "resolving", "completing"}
           /\ call.evidence \in Evidence
BY InvFacts DEF VInv, VaultTypes, Call

\* A step that leaves the dispatch and the receipts alone, and takes no package
\* away that the claim history refers to.
LEMMA FilesStep ==
    ASSUME VInv, UNCHANGED vars, UNCHANGED receipts, VaultTypes', CallFollows',
           Referenced(log) \subseteq packages'
    PROVE  VInv'
<1>1. RInv'
  BY RInvPreserved DEF VInv
<1>2. log' = log /\ record' = record
  BY DEF vars
<1>3. ReferencedEvidenceRetained' /\ ReceiptsFollow'
  BY <1>2 DEF VInv, ReferencedEvidenceRetained, ReceiptsFollow
<1>4. QED
  BY <1>1, <1>3 DEF VInv

LEMMA OtherOperationsStep ==
    ASSUME VInv, DispatchStep
    PROVE  VInv'
<1>1. /\ Begins(log, log')
      /\ AddsNoEvidence(log, log')
      /\ evidence \subseteq evidence'
  BY DispatchStepFacts DEF VInv
<1>2. UNCHANGED <<packages, receipts, call, startup, startups>>
  BY DEF DispatchStep, vaultFiles, starting
<1>3. [DispatchNext]_vars
  BY VaultStepIsDispatchStep DEF VaultNext
<1>4. RInv'
  BY <1>3, RInvPreserved DEF VInv
<1>5. Referenced(log') = Referenced(log)
  BY <1>1, ReferencedKept
<1>6. VaultTypes' /\ CallFollows' /\ ReferencedEvidenceRetained'
  BY <1>1, <1>2, <1>5 DEF VInv, VaultTypes, CallFollows, ReferencedEvidenceRetained
<1>7. ReceiptsFollow'
  BY <1>1, <1>2, <1>3, <1>4, ReceiptsFollowLater
<1>8. QED
  BY <1>4, <1>6, <1>7 DEF VInv

\* The dispatch after a resolution refers to the package it was resolved from.
LEMMA ResolveFacts ==
    ASSUME VInv, Resolve
    PROVE  /\ Begins(log, log')
           /\ Referenced(log') = Referenced(log) \cup {call.evidence}
           /\ call.evidence \in packages
           /\ challenges' # challenges /\ Len(challenges') > Len(challenges)
           /\ evidence' = evidence
<1> DEFINE ev == call.evidence
<1>1. ev \in evidence /\ ev \in packages
  BY DEF Resolve, VInv, CallFollows
<1>2. PICK now : ResolveProviderDispatchOutcome(ev, now)
  BY DEF Resolve
<1> HIDE DEF ev
<1>3. PICK e \in Event, x \in ChallengeEvent :
        /\ log' = Append(log, e) /\ e.evidence = ev
        /\ challenges' = Append(challenges, x)
        /\ ev.challenge \in DOMAIN challenges
  BY <1>1, <1>2, ResolutionFacts DEF VInv
<1>4. log \in Seq(Event) /\ challenges \in Seq(ChallengeEvent)
  BY InvFacts DEF VInv
<1>5. ev # NoEvidence
  <2>1. ev.challenge # 0
    BY <1>3, <1>4
  <2>2. QED
    BY <2>1 DEF NoEvidence
<1>6. Begins(log, log')
  BY <1>3, <1>4, BeginsAppend
<1>7. Referenced(log') = Referenced(log) \cup {ev}
  <2>1. /\ DOMAIN log' = DOMAIN log \cup {Len(log) + 1}
        /\ \A j \in DOMAIN log : log'[j] = log[j]
        /\ log'[Len(log) + 1] = e
    BY <1>3, <1>4
  <2>2. {log'[j].evidence : j \in DOMAIN log'} = {log[j].evidence : j \in DOMAIN log} \cup {ev}
    BY <1>3, <2>1
  <2>3. QED
    BY <1>5, <2>2 DEF Referenced
<1>8. Len(challenges') > Len(challenges) /\ challenges' # challenges
  BY <1>3, <1>4
<1>9. evidence' = evidence
  BY <1>2 DEF ResolveProviderDispatchOutcome, world
<1>10. QED
  BY <1>1, <1>6, <1>7, <1>8, <1>9 DEF ev

LEMMA ResolutionStep ==
    ASSUME VInv, Resolve
    PROVE  VInv'
<1>1. /\ Begins(log, log')
      /\ Referenced(log') = Referenced(log) \cup {call.evidence}
      /\ call.evidence \in packages
      /\ evidence' = evidence
  BY ResolveFacts
<1>2. /\ UNCHANGED <<packages, receipts, startup, startups>>
      /\ call' = IF call.resumed
                 THEN [call EXCEPT !.step = "completing", !.temporary = TRUE]
                 ELSE NoCall
  BY DEF Resolve, vaultFiles, starting
<1>3. [DispatchNext]_vars
  BY VaultStepIsDispatchStep DEF VaultNext, CallStep
<1>4. RInv'
  BY <1>3, RInvPreserved DEF VInv
<1>5. call' \in Call
  BY <1>2, VaultFacts, NoCallType DEF Call
<1>6. /\ call'.step \in {"none", "completing"}
      /\ call'.step = "completing" => call'.evidence = call.evidence
  BY <1>2, VaultFacts DEF Call, NoCall
<1>7. VaultTypes'
  BY <1>2, <1>5 DEF VInv, VaultTypes
<1>8. CallFollows'
  BY <1>1, <1>2, <1>6 DEF VInv, CallFollows
<1>9. ReferencedEvidenceRetained'
  BY <1>1, <1>2 DEF VInv, ReferencedEvidenceRetained
<1>10. ReceiptsFollow'
  BY <1>1, <1>2, <1>3, <1>4, ReceiptsFollowLater
<1>11. QED
  BY <1>4, <1>7, <1>8, <1>9, <1>10 DEF VInv

\* The steps of a call on its files.
LEMMA CallFilesStep ==
    ASSUME VInv, CallStep, ~Resolve, ~PublishReceipt
    PROVE  VInv'
<1> DEFINE Unmoved == UNCHANGED vars /\ UNCHANGED <<receipts, startup, startups>>
<1>1. Referenced(log) \subseteq packages
  BY DEF VInv, ReferencedEvidenceRetained
<1>2. ASSUME Unmoved, call' \in Call, packages' \subseteq evidence,
             call'.step # "none" => call'.evidence \in evidence,
             call'.step = "resolving" => call'.evidence \in packages',
             call'.step = "completing" => call'.evidence \in Referenced(log),
             Referenced(log) \subseteq packages'
      PROVE  VInv'
  <2>1. log' = log /\ evidence' = evidence
    BY <1>2 DEF vars
  <2>2. CallFollows'
    BY <1>2, <2>1 DEF CallFollows
  <2>3. VaultTypes'
    BY <1>2, VaultFacts DEF VaultTypes
  <2>4. QED
    BY <1>2, <2>2, <2>3, FilesStep
<1>3. NoCall \in Call /\ NoCall.step = "none"
  BY NoCallType DEF NoCall
<1>4. /\ packages \subseteq evidence
      /\ call.step # "none" => call.evidence \in evidence
  BY DEF VInv, CallFollows
<1>5. ASSUME NEW ev \in evidence, BeginResolve(ev) PROVE VInv'
  <2>1. ev \in Evidence
    BY <1>5, VaultFacts
  <2>2. CASE ev \in packages
    <3>1. call' = [NoCall EXCEPT !.step = "resolving", !.evidence = ev]
          /\ Unmoved /\ packages' = packages
      BY <1>5, <2>2 DEF BeginResolve, vaultFiles, starting
    <3>2. call' \in Call /\ call'.step = "resolving" /\ call'.evidence = ev
      BY <2>1, <3>1 DEF Call, NoCall
    <3>3. QED
      BY <1>1, <1>2, <1>4, <2>2, <3>1, <3>2
  <2>3. CASE ev \notin packages
    <3>1. call' = [NoCall EXCEPT !.step = "publishing", !.evidence = ev, !.temporary = TRUE]
          /\ Unmoved /\ packages' = packages
      BY <1>5, <2>3 DEF BeginResolve, vaultFiles, starting
    <3>2. call' \in Call /\ call'.step = "publishing" /\ call'.evidence = ev
      BY <2>1, <3>1 DEF Call, NoCall
    <3>3. QED
      BY <1>1, <1>2, <1>4, <1>5, <3>1, <3>2
  <2>4. QED
    BY <2>2, <2>3
<1>6. ASSUME NEW ev \in packages, BeginResume(ev) PROVE VInv'
  <2>1. call' = [NoCall EXCEPT !.step = "resolving", !.evidence = ev, !.resumed = TRUE]
        /\ Unmoved /\ packages' = packages
    BY <1>6 DEF BeginResume, vaultFiles, starting
  <2>2. ev \in Evidence
    BY <1>6, VaultFacts
  <2>3. call' \in Call /\ call'.step = "resolving" /\ call'.evidence = ev
    BY <2>1, <2>2 DEF Call, NoCall
  <2>4. QED
    BY <1>1, <1>2, <1>4, <1>6, <2>1, <2>3
<1>7. ASSUME NEW ev \in packages, BeginRepair(ev) PROVE VInv'
  <2>1. call' = [NoCall EXCEPT !.step = "completing", !.evidence = ev,
                               !.resumed = TRUE, !.temporary = TRUE]
        /\ Unmoved /\ packages' = packages /\ ev \in Referenced(log)
    BY <1>7 DEF BeginRepair, vaultFiles, starting
  <2>2. ev \in Evidence
    BY <1>7, VaultFacts
  <2>3. call' \in Call /\ call'.step = "completing" /\ call'.evidence = ev
    BY <2>1, <2>2 DEF Call, NoCall
  <2>4. QED
    BY <1>1, <1>2, <1>4, <1>7, <2>1, <2>3
<1>8. CASE PublishEvidence
  <2>1. /\ call.step = "publishing"
        /\ packages' = packages \cup {call.evidence}
        /\ call' = [call EXCEPT !.step = "resolving", !.temporary = FALSE]
        /\ Unmoved
    BY <1>8 DEF PublishEvidence, starting
  <2>2. call' \in Call /\ call'.step = "resolving" /\ call'.evidence = call.evidence
    BY <2>1, VaultFacts DEF Call
  <2>3. QED
    BY <1>1, <1>2, <1>4, <2>1, <2>2
<1>9. CASE RejectEvidence \/ PublicationFails \/ Crash
  <2>1. call' = NoCall /\ Unmoved /\ packages' = packages
    BY <1>9 DEF RejectEvidence, PublicationFails, Crash, vaultFiles, starting
  <2>2. QED
    BY <1>1, <1>2, <1>3, <1>4, <2>1
<1>10. CASE PruneOrphans
  <2>1. /\ call = NoCall /\ call' = call /\ Unmoved
        /\ \E removed \in SUBSET InvalidOrphans : packages' = packages \ removed
    BY <1>10 DEF PruneOrphans, LockFree, starting
  <2>2. packages' \subseteq packages /\ Referenced(log) \subseteq packages'
    BY <1>1, <2>1 DEF InvalidOrphans
  <2>3. call' \in Call /\ call'.step = "none"
    BY <1>3, <2>1
  <2>4. QED
    BY <1>2, <1>4, <2>1, <2>2, <2>3
<1>11. QED
  BY <1>5, <1>6, <1>7, <1>8, <1>9, <1>10 DEF CallStep

\* The event found for a package that the history refers to.
LEMMA ReceiptType ==
    ASSUME VInv, NEW ev \in Referenced(log)
    PROVE  /\ RecoveryCompletionReceipt(ev) \in CompletionReceipt
           /\ ResolutionEvent(ev) \in DOMAIN log
           /\ log[ResolutionEvent(ev)].evidence = ev
           /\ ev # NoEvidence
<1>1. /\ ResolutionEvent(ev) \in DOMAIN log
      /\ log[ResolutionEvent(ev)].evidence = ev
      /\ ev # NoEvidence
  BY DEF Referenced, ResolutionEvent
<1>2. ResolutionEvent(ev) \in Nat
  BY <1>1, VaultFacts
<1>3. ev \in Evidence
  BY <1>1, VaultFacts, EventType
<1>4. RecoveryCompletionReceipt(ev) \in CompletionReceipt
  BY <1>2, <1>3, VaultFacts DEF RecoveryCompletionReceipt, CompletionReceipt
<1>5. QED
  BY <1>1, <1>4

\* A receipt is bound to the event of its package and to the record as it is.
LEMMA ReceiptStep ==
    ASSUME VInv, PublishReceipt
    PROVE  VInv'
<1> DEFINE ev == call.evidence
           new == RecoveryCompletionReceipt(ev)
<1>1. /\ receipts' = receipts \cup {new}
      /\ call' = NoCall
      /\ UNCHANGED vars /\ UNCHANGED <<packages, startup, startups>>
  BY DEF PublishReceipt, starting
<1>2. ev \in Referenced(log)
  BY DEF PublishReceipt, VInv, CallFollows
<1>3. new \in CompletionReceipt
  BY <1>2, ReceiptType
<1>4. /\ new.event \in DOMAIN log /\ new.evidence # NoEvidence
      /\ log[new.event].evidence = new.evidence /\ new.record = record
  BY <1>2, ReceiptType DEF RecoveryCompletionReceipt
<1> HIDE DEF new
<1>5. RInv'
  BY <1>1, RInvPreserved DEF VInv
<1>6. log' = log /\ record' = record /\ evidence' = evidence
  BY <1>1 DEF vars
<1>7. VaultTypes'
  BY <1>1, <1>3, NoCallType, VaultFacts DEF VaultTypes
<1>8. CallFollows' /\ ReferencedEvidenceRetained'
  BY <1>1, <1>6 DEF VInv, CallFollows, ReferencedEvidenceRetained, NoCall
<1>9. ReceiptsFollow'
  BY <1>1, <1>4, <1>6 DEF VInv, ReceiptsFollow
<1>10. QED
  BY <1>5, <1>7, <1>8, <1>9 DEF VInv

\* A startup takes temporary files away, which a call in progress may miss, and
\* otherwise only reads.
LEMMA StartupKeeps ==
    ASSUME VInv, StartupStep
    PROVE  VInv'
<1> DEFINE Marked == \E b \in BOOLEAN : call' = [call EXCEPT !.temporary = b]
<1>1. ASSUME UNCHANGED vars, UNCHANGED vaultFiles, startup' \in Startup,
             startups' \in 0 .. MaxStartups,
             call' = call \/ Marked
      PROVE  VInv'
  <2>1. call' \in Call /\ call'.step = call.step /\ call'.evidence = call.evidence
    BY <1>1, VaultFacts DEF Call
  <2>2. log' = log /\ evidence' = evidence /\ UNCHANGED <<packages, receipts>>
    BY <1>1 DEF vars, vaultFiles
  <2>3. VaultTypes'
    BY <1>1, <2>1, <2>2, VaultFacts DEF VaultTypes
  <2>4. CallFollows'
    BY <2>1, <2>2 DEF VInv, CallFollows
  <2>5. QED
    BY <1>1, <2>2, <2>3, <2>4, FilesStep DEF VInv, ReferencedEvidenceRetained
<1>2. /\ startup \in Startup /\ startups \in 0 .. MaxStartups
      /\ startup.referenced \subseteq Evidence /\ startup.listed \subseteq Evidence
      /\ startup.built \subseteq CompletionReceipt
  BY VaultFacts DEF Startup
<1>3. Referenced(log) \subseteq Evidence /\ packages \subseteq Evidence
  BY VaultFacts DEF VInv, ReferencedEvidenceRetained
<1>4. ASSUME NEW p \in {"list", "read", "refused"}
      PROVE  [NoStartup EXCEPT !.phase = p] \in Startup
             /\ [startup EXCEPT !.phase = p] \in Startup
  BY <1>2, NoStartupType DEF Startup
<1>5. CASE RemoveIncompletePublications
  <2>1. startups' = startups + 1 /\ startups < MaxStartups /\ MaxStartups \in Nat
    BY <1>5, StartupAssumption DEF RemoveIncompletePublications
  <2>2. startups' \in 0 .. MaxStartups
    BY <1>2, <2>1
  <2>3. startup' \in Startup
    BY <1>4, <1>5 DEF RemoveIncompletePublications
  <2>4. Marked
    BY <1>5, VaultFacts DEF RemoveIncompletePublications, Call
  <2>5. QED
    BY <1>1, <1>5, <2>2, <2>3, <2>4 DEF RemoveIncompletePublications
<1>6. CASE RemoveIncompleteReceipts
  <2>1. startup' \in Startup
    BY <1>2, <1>3, <1>6 DEF RemoveIncompleteReceipts, Startup
  <2>2. Marked
    BY <1>6, VaultFacts DEF RemoveIncompleteReceipts, Call
  <2>3. QED
    BY <1>1, <1>2, <1>6, <2>1, <2>2 DEF RemoveIncompleteReceipts
<1>7. CASE VerifyEvidenceState \/ VerifyRecoveryCompletionReceiptState
  <2>1. startup' \in Startup
    BY <1>4, <1>7, NoStartupType DEF VerifyEvidenceState,
       VerifyRecoveryCompletionReceiptState, StartupPass
  <2>2. QED
    BY <1>1, <1>2, <1>7, <2>1 DEF VerifyEvidenceState, VerifyRecoveryCompletionReceiptState
<1>8. CASE ReadStateForReceipts
  <2> DEFINE built == {RecoveryCompletionReceipt(ev) : ev \in Referenced(log) \cap packages}
  <2>1. built \subseteq CompletionReceipt
    BY ReceiptType
  <2>2. startup' = [startup EXCEPT !.phase = "check", !.built = built]
    BY <1>8 DEF ReadStateForReceipts
  <2> HIDE DEF built
  <2>3. startup' \in Startup
    BY <1>2, <2>1, <2>2 DEF Startup
  <2>4. QED
    BY <1>1, <1>2, <1>8, <2>3 DEF ReadStateForReceipts
<1>9. QED
  BY <1>5, <1>6, <1>7, <1>8 DEF StartupStep

LEMMA VInvPreserved == VInv /\ [VaultNext]_vaultVars => VInv'
<1>1. SUFFICES ASSUME VInv, [VaultNext]_vaultVars PROVE VInv'
  OBVIOUS
<1>2. CASE DispatchStep
  BY <1>1, <1>2, OtherOperationsStep
<1>3. CASE CallStep
  BY <1>1, <1>3, ResolutionStep, ReceiptStep, CallFilesStep
<1>4. CASE StartupStep
  BY <1>1, <1>4, StartupKeeps
<1>5. CASE UNCHANGED vaultVars
  <2>1. UNCHANGED vars /\ UNCHANGED <<packages, receipts, call, startup, startups>>
    BY <1>5 DEF vaultVars
  <2>2. VaultTypes' /\ CallFollows' /\ Referenced(log) \subseteq packages'
    BY <1>1, <2>1 DEF VInv, VaultTypes, CallFollows, ReferencedEvidenceRetained, vars
  <2>3. QED
    BY <1>1, <2>1, <2>2, FilesStep
<1>6. QED
  BY <1>1, <1>2, <1>3, <1>4, <1>5 DEF VaultNext

LEMMA VInvAlways == VaultSpec => []VInv
BY VInvInit, VInvPreserved, PTL DEF VaultSpec

-----------------------------------------------------------------------------
(* Theorems *)

\* The files of the vault and the calls on them have their types.
THEOREM VaultTypeCorrect == VaultSpec => []VaultTypeOK
<1>1. VInv => VaultTypeOK
  BY DEF VInv, VaultTypes, VaultTypeOK, ReceiptsFollow, RInv, IInv
<1>2. QED
  BY <1>1, VInvAlways, PTL

\* Resolutions interrupted between their writes, resumed at a past instant, and
\* startups beside them leave no state file that a restart refuses (V15).
THEOREM VaultRestartAccepted == VaultSpec => []RestartAccepted
<1>1. VInv => RestartAccepted
  BY RInvAccepted DEF VInv
<1>2. QED
  BY <1>1, VInvAlways, PTL

\* No interruption, rejection or pruning takes the evidence of a resolution away.
THEOREM ReferencedAlwaysRetained == VaultSpec => []ReferencedEvidenceRetained
<1>1. VInv => ReferencedEvidenceRetained
  BY DEF VInv
<1>2. QED
  BY <1>1, VInvAlways, PTL

\* The receipt of a recovered completion verifies for ever: its package has one
\* event, and a completed record is final.
THEOREM CompletedReceiptsAlwaysVerify == VaultSpec => []CompletedReceiptsVerify
<1>1. ASSUME VInv, NEW rc \in receipts, rc.evidence.outcome \in {"COMPLETED"}
      PROVE  rc = RecoveryCompletionReceipt(rc.evidence)
  <2>1. /\ rc.event \in DOMAIN log /\ log[rc.event].evidence = rc.evidence
        /\ rc.evidence # NoEvidence /\ rc.record = record
    BY <1>1 DEF VInv, ReceiptsFollow
  <2>2. ResolutionEvent(rc.evidence) = rc.event
    BY <1>1, <2>1, ResolutionEventIs DEF VInv
  <2>3. rc = [evidence |-> rc.evidence, event |-> rc.event, record |-> rc.record]
    BY <1>1, VaultFacts DEF CompletionReceipt
  <2>4. QED
    BY <2>1, <2>2, <2>3 DEF RecoveryCompletionReceipt
<1>2. VInv => CompletedReceiptsVerify
  BY <1>1 DEF CompletedReceiptsVerify, ReceiptsVerifyFor
<1>3. QED
  BY <1>2, VInvAlways, PTL

\* Only the resolution of its quarantine, or a newer challenge, ends what a package
\* on disk can still resolve; until then pruning leaves it alone.
THEOREM InterruptedAlwaysResumable == VaultSpec => InterruptedStaysResumable
<1> DEFINE Stays == \A ev \in packages :
                      Recoverable(ev) =>
                        \/ ev \in packages' /\ Recoverable(ev)'
                        \/ Unresolved(log') # Unresolved(log)
                        \/ Len(challenges') > Len(challenges)
<1>1. ASSUME VInv, [VaultNext]_vaultVars PROVE [Stays]_vaultVars
  <2>1. SUFFICES ASSUME NEW ev \in packages, Recoverable(ev),
                        ~(Len(challenges') > Len(challenges))
                 PROVE  ev \in packages' /\ Recoverable(ev)'
    OBVIOUS
  <2>2. ~Resolve
    BY <1>1, <2>1, ResolveFacts
  <2>3. log' = log /\ challenges' = challenges
    <3>1. CASE DispatchStep
      BY <1>1, <2>1, <3>1, DispatchStepFacts DEF VInv, Recoverable
    <3>2. CASE ~DispatchStep
      BY <1>1, <2>2, <3>2 DEF VaultNext, CallStep, BeginResolve, BeginResume, BeginRepair,
         PublishEvidence, RejectEvidence, PublishReceipt, PublicationFails, Crash, PruneOrphans,
         StartupStep, RemoveIncompletePublications, RemoveIncompleteReceipts,
         VerifyEvidenceState, ReadStateForReceipts, VerifyRecoveryCompletionReceiptState,
         vaultVars, vars
    <3>3. QED
      BY <3>1, <3>2
  <2>4. Recoverable(ev)'
    BY <2>1, <2>3 DEF Recoverable, FreshEvidence
  <2>5. ev \in packages'
    <3>1. CASE PruneOrphans
      BY <2>1, <3>1 DEF PruneOrphans, InvalidOrphans
    <3>2. CASE ~PruneOrphans
      BY <1>1, <2>2, <3>2 DEF VaultNext, DispatchStep, CallStep, BeginResolve, BeginResume,
         BeginRepair, PublishEvidence, RejectEvidence, PublishReceipt, PublicationFails, Crash,
         StartupStep, RemoveIncompletePublications, RemoveIncompleteReceipts,
         VerifyEvidenceState, ReadStateForReceipts, VerifyRecoveryCompletionReceiptState,
         vaultFiles, vaultVars
    <3>3. QED
      BY <3>1, <3>2
  <2>6. QED
    BY <2>4, <2>5
<1>2. QED
  BY <1>1, VInvAlways, PTL DEF VaultSpec, InterruptedStaysResumable

=============================================================================
