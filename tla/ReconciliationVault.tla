------------------------- MODULE ReconciliationVault -------------------------
(***************************************************************************)
(* The reconciliation of one dispatch with its files: every lookup answer  *)
(* is published as an evidence package before it may resolve a quarantine  *)
(* (V16), an interrupted resolution is resumed from its package (V17), and *)
(* a resumed resolution leaves a completion receipt (V18).                 *)
(*                                                                         *)
(* The dispatch itself is ProviderDispatch.  Its resolution, one step      *)
(* there, is here a call of several durable writes made under the          *)
(* coordination lock, which a crash can interrupt between any two of them. *)
(* The startup of a process that opens the vault is not under that lock:   *)
(* the constructors of V16 and V18 run after V9 has released it.           *)
(*                                                                         *)
(* The vault and the receipts belong to all dispatches of the state file;  *)
(* this module has those of one.  A package is the lookup answer in it.    *)
(***************************************************************************)
EXTENDS ProviderDispatch

CONSTANT MaxStartups    \* bound: startups of further processes

ASSUME StartupAssumption == MaxStartups \in Nat

VARIABLES
    packages,    \* provider_reconciliation_evidence/*.json
    receipts,    \* provider_reconciliation_recovery_receipts/*.json
    call,        \* the resolution or resumption that holds the lock
    startup,     \* the process that is starting
    startups     \* number of startups so far

vaultFiles == <<packages, receipts>>
starting   == <<startup, startups>>
vaultVars  == <<vars, packages, receipts, call, startup, startups>>

-----------------------------------------------------------------------------
(* Data *)

\* A completion receipt: the package it completes, the event that resolved the
\* quarantine, and the dispatch record it found (by its hash).
CompletionReceipt == [evidence : Evidence, event : Nat, record : Record]

\* A call inside the lock: what it is about to do, on which package, and
\* whether the temporary file it is publishing is still there.
NoCall == [step |-> "none", evidence |-> NoEvidence, resumed |-> FALSE,
           temporary |-> FALSE]
Call   == [step : {"none", "publishing", "resolving", "completing"},
           evidence : Evidence, resumed : BOOLEAN, temporary : BOOLEAN]

\* What a startup has read so far: the references of the claim history, the
\* package files it listed, and the receipts the state it read calls for.
NoStartup == [phase |-> "none", referenced |-> {}, listed |-> {}, built |-> {}]
Startup   == [phase : {"none", "list", "load", "read", "check", "refused"},
              referenced : SUBSET Evidence, listed : SUBSET Evidence,
              built : SUBSET CompletionReceipt]

-----------------------------------------------------------------------------
(* Reading the vault *)

\* The packages the claim history refers to.
Referenced(l) == {l[j].evidence : j \in DOMAIN l} \ {NoEvidence}

\* Plausible bug: recoverability is judged by the clock, as a resolution is.
Recoverable_ByClock(ev) ==
    LET u == Unresolved(log) IN
    /\ u # 0
    /\ FreshEvidence(ev, u, clock)
    /\ ev.envelope = EnvelopeOf(log[u])
    /\ Has(log, log[u].claim, "STARTED") /\ Has(log, log[u].claim, "SUBMITTED")

\* A package can still resolve the present quarantine: it answers the newest
\* challenge, judged at the instant the answer was observed.
Recoverable(ev) ==
    LET u == Unresolved(log) IN
    /\ u # 0
    /\ FreshEvidence(ev, u, ev.observedAt)
    /\ ev.envelope = EnvelopeOf(log[u])
    /\ Has(log, log[u].claim, "STARTED") /\ Has(log, log[u].claim, "SUBMITTED")

\* Plausible bug: packages the history refers to are pruned as well.
InvalidOrphans_Referenced == {ev \in packages : ~Recoverable(ev)}

InvalidOrphans == {ev \in packages \ Referenced(log) : ~Recoverable(ev)}

\* Plausible bug: the event is taken to be the next one of the history.
ResolutionEvent_Next(ev) == Len(log) + 1

ResolutionEvent(ev) == CHOOSE j \in DOMAIN log : log[j].evidence = ev

\* The receipt of a package, as the state file calls for it at this moment: it
\* is bound to the present record, not to the one the resolution wrote.
RecoveryCompletionReceipt(ev) ==
    [evidence |-> ev, event |-> ResolutionEvent(ev), record |-> record]

HasReceipt(ev) == \E rc \in receipts : rc.evidence = ev

LockFree == call = NoCall

-----------------------------------------------------------------------------
(* A resolution *)

\* The call takes the lock and starts to publish its evidence; a package that
\* is there already is kept.
BeginResolve(ev) ==
    /\ LockFree
    /\ IF ev \in packages
       THEN call' = [NoCall EXCEPT !.step = "resolving", !.evidence = ev]
       ELSE call' = [NoCall EXCEPT !.step = "publishing", !.evidence = ev,
                                   !.temporary = TRUE]
    /\ UNCHANGED <<vars, vaultFiles, starting>>

\* The temporary file is renamed to the package.
PublishEvidence ==
    /\ call.step = "publishing"
    /\ call.temporary
    /\ packages' = packages \cup {call.evidence}
    /\ call' = [call EXCEPT !.step = "resolving", !.temporary = FALSE]
    /\ UNCHANGED <<vars, receipts, starting>>

\* The package is on disk: the state file is resolved as V15 does, at the
\* present instant, or at the instant of the observation if resumed.
Resolve ==
    /\ call.step = "resolving"
    /\ ResolveProviderDispatchOutcome(call.evidence,
            IF call.resumed THEN call.evidence.observedAt ELSE clock)
    /\ call' = IF call.resumed
               THEN [call EXCEPT !.step = "completing", !.temporary = TRUE]
               ELSE NoCall
    /\ UNCHANGED <<vaultFiles, starting>>

\* V15 rejects the evidence; its package stays.
RejectEvidence ==
    /\ call.step = "resolving"
    /\ ~Admissible(call.evidence,
            IF call.resumed THEN call.evidence.observedAt ELSE clock)
    /\ call' = NoCall
    /\ UNCHANGED <<vars, vaultFiles, starting>>

\* Plausible bug: a failed rename is taken for a package that is there already.
PublicationFails_Ignored ==
    /\ call.step \in {"publishing", "completing"}
    /\ ~call.temporary
    /\ call' = IF call.step = "publishing" THEN [call EXCEPT !.step = "resolving"]
                                          ELSE NoCall
    /\ UNCHANGED <<vars, vaultFiles, starting>>

\* The rename finds no temporary file and raises (see the startup).
PublicationFails ==
    /\ call.step \in {"publishing", "completing"}
    /\ ~call.temporary
    /\ call' = NoCall
    /\ UNCHANGED <<vars, vaultFiles, starting>>

\* The process stops; the files it has published stay, the lock is released.
Crash ==
    /\ ~LockFree
    /\ call' = NoCall
    /\ UNCHANGED <<vars, vaultFiles, starting>>

-----------------------------------------------------------------------------
(* Recovery *)

\* resume_provider_reconciliation_from_vault, of a package not resolved yet.
BeginResume(ev) ==
    /\ LockFree
    /\ ev \in packages \ Referenced(log)
    /\ Recoverable(ev)
    /\ call' = [NoCall EXCEPT !.step = "resolving", !.evidence = ev, !.resumed = TRUE]
    /\ UNCHANGED <<vars, vaultFiles, starting>>

\* The same call on a resolved package repairs a receipt that is missing; a
\* receipt that is there is verified and returned, and nothing changes.
BeginRepair(ev) ==
    /\ LockFree
    /\ ev \in packages \cap Referenced(log)
    /\ ~HasReceipt(ev)
    /\ call' = [NoCall EXCEPT !.step = "completing", !.evidence = ev,
                              !.resumed = TRUE, !.temporary = TRUE]
    /\ UNCHANGED <<vars, vaultFiles, starting>>

\* Plausible bug: the receipt is built from the state read before the resolution.
PublishReceipt_StaleState ==
    /\ call.step = "completing"
    /\ call.temporary
    /\ receipts' = receipts \cup
         {[RecoveryCompletionReceipt(call.evidence) EXCEPT
              !.record = [state |-> "OUTCOME_UNKNOWN", receipt |-> NoEnvelope]]}
    /\ call' = NoCall
    /\ UNCHANGED <<vars, packages, starting>>

PublishReceipt ==
    /\ call.step = "completing"
    /\ call.temporary
    /\ receipts' = receipts \cup {RecoveryCompletionReceipt(call.evidence)}
    /\ call' = NoCall
    /\ UNCHANGED <<vars, packages, starting>>

\* Files are removed one by one: a crash leaves some of them.
PruneOrphans ==
    /\ LockFree
    /\ Referenced(log) \subseteq packages
    /\ \E removed \in SUBSET InvalidOrphans \ {{}} : packages' = packages \ removed
    /\ UNCHANGED <<vars, receipts, call, starting>>

-----------------------------------------------------------------------------
(* Startup of another process, outside the lock.  The constructor of V18    *)
(* repeats the evidence pass of V16's; the second pass stands for both.     *)

\* V16: every temporary file among the packages is removed.
RemoveIncompletePublications ==
    /\ startup.phase = "none"
    /\ startups < MaxStartups
    /\ startup' = [NoStartup EXCEPT !.phase = "list"]
    /\ startups' = startups + 1
    /\ call' = [call EXCEPT !.temporary = @ /\ call.step # "publishing"]
    /\ UNCHANGED <<vars, vaultFiles>>

\* V18: the same among the receipts; then the references are read and the
\* package files listed.
RemoveIncompleteReceipts ==
    /\ startup.phase = "list"
    /\ startup' = [startup EXCEPT !.phase = "load", !.referenced = Referenced(log),
                                  !.listed = packages]
    /\ call' = [call EXCEPT !.temporary = @ /\ call.step # "completing"]
    /\ UNCHANGED <<vars, vaultFiles, startups>>

\* A startup that goes on to a phase, or one that raises.
StartupPass(ok, next) ==
    startup' = IF ok THEN next ELSE [NoStartup EXCEPT !.phase = "refused"]

\* Each package listed is loaded, and each one referenced must be among them.
VerifyEvidenceState ==
    /\ startup.phase = "load"
    /\ StartupPass(/\ startup.listed \subseteq packages
                   /\ startup.referenced \subseteq startup.listed,
                   [startup EXCEPT !.phase = "read"])
    /\ UNCHANGED <<vars, vaultFiles, call, startups>>

\* The state is read again, to build the receipts it calls for.
ReadStateForReceipts ==
    /\ startup.phase = "read"
    /\ startup' = [startup EXCEPT !.phase = "check",
           !.built = {RecoveryCompletionReceipt(ev) : ev \in Referenced(log) \cap packages}]
    /\ UNCHANGED <<vars, vaultFiles, call, startups>>

\* Each receipt on disk must be one of these, of a package that was referenced.
VerifyRecoveryCompletionReceiptState ==
    /\ startup.phase = "check"
    /\ StartupPass(/\ receipts \subseteq startup.built
                   /\ {rc.evidence : rc \in receipts} \subseteq startup.referenced,
                   NoStartup)
    /\ UNCHANGED <<vars, vaultFiles, call, startups>>

-----------------------------------------------------------------------------
(* The system *)

VaultInit ==
    /\ Init
    /\ packages = {}
    /\ receipts = {}
    /\ call = NoCall
    /\ startup = NoStartup
    /\ startups = 0

\* The other operations of the dispatch take the same lock; the provider and
\* the clock do not.
DispatchStep ==
    /\ \/ /\ LockFree
          /\ \/ PrepareProviderDispatch
             \/ ClaimStep
             \/ HolderStep
             \/ \E now \in StaleNow, ttl \in TtlSeconds :
                   IssueProviderReconciliationChallenge(ttl, now)
       \/ ProviderStep
       \/ Tick
    /\ UNCHANGED <<vaultFiles, call, starting>>

CallStep ==
    \/ \E ev \in evidence : BeginResolve(ev)
    \/ \E ev \in packages : BeginResume(ev) \/ BeginRepair(ev)
    \/ PublishEvidence
    \/ Resolve
    \/ RejectEvidence
    \/ PublishReceipt
    \/ PublicationFails
    \/ Crash
    \/ PruneOrphans

StartupStep ==
    \/ RemoveIncompletePublications
    \/ RemoveIncompleteReceipts
    \/ VerifyEvidenceState
    \/ ReadStateForReceipts
    \/ VerifyRecoveryCompletionReceiptState

VaultNext == DispatchStep \/ CallStep \/ StartupStep

VaultSpec == VaultInit /\ [][VaultNext]_vaultVars

-----------------------------------------------------------------------------
(* Properties *)

\* Every file of the vault holds what its reader takes it for; a receipt names
\* an event of the claim history.
VaultTypeOK ==
    /\ TypeOK
    /\ packages \subseteq Evidence
    /\ receipts \subseteq CompletionReceipt
    /\ \A rc \in receipts : rc.event \in DOMAIN log
    /\ call \in Call
    /\ startup \in Startup
    /\ startups \in 0 .. MaxStartups

\* V16: the evidence of every resolution is on disk, whatever was interrupted,
\* resumed, rejected or pruned; otherwise no process could start again.
ReferencedEvidenceRetained == Referenced(log) \subseteq packages

\* V17: an interrupted resolution stays resumable, and its package protected
\* from pruning, also after the challenge has expired: only the resolution of
\* the quarantine or a newer challenge ends it.
InterruptedStaysResumable ==
    [][ \A ev \in packages :
          Recoverable(ev) =>
            \/ ev \in packages' /\ Recoverable(ev)'
            \/ Unresolved(log') # Unresolved(log)
            \/ Len(challenges') > Len(challenges) ]_vaultVars

\* What V18 requires of the receipts on disk, in every startup and exact retry.
ReceiptsVerifyFor(outcomes) ==
    \A rc \in receipts :
        rc.evidence.outcome \in outcomes => rc = RecoveryCompletionReceipt(rc.evidence)

\* V18: the receipt of a recovered completion never stops verifying: whatever
\* is called later, the exact retry returns it and a startup accepts it.
CompletedReceiptsVerify == ReceiptsVerifyFor({"COMPLETED"})

\* provider_reconciliation_recovery_completion.py,
\* "exact_retry_returns_verified_completion_receipt": so does every receipt.
ExactRetryReturnsReceipt == ReceiptsVerifyFor(Outcomes)
=============================================================================
