# Verification of the coordination protocols

TLA+ models, TLC configurations and TLAPS proofs for the parts of this repository in which several
processes share durable state, crash, retry and deal with the outside world: the commercial control
plane (`alpha_omega_commercial`), the leases on the repository itself (`proofos_omega`), and the
continuity fabric of the chat governor (`bubbles/chat_governor_omega3`). Paths below are relative
to the source root; `V3` to `V18` are the repository's own names for the layers of the control
plane's class hierarchy, each a subclass of the previous one.

## 1. Inventory

### 1.1 The control plane

One process opens a *state directory*; several processes may open the same one. Everything the
control plane knows is in files there. The deployed class is the last of a chain of subclasses
(`ReceiptJournaledRecoverableProviderDispatchCommercialControlPlane`), so each operation is what
the last layer that overrides it makes of it.

| Part (file) | State it keeps | Operations | What is hard | What makes it correct |
|---|---|---|---|---|
| Commercial assurance (`commercial_assurance.py`) | `commercial_assurance_state.json`, its ledger | create lead, quote, controls, submit a service request, ... | whole-file read and write, no lock for most operations, a fixed temporary name | no operation loses what another one reported as done |
| Governed approvals (`governed_commercial_assurance.py`, `owner_authority.py`) | approval state and its JSONL ledger | consume an owner receipt for a subject | the ledger is appended line by line and read back on startup | one receipt, one subject; readable after any crash |
| Authority snapshots V3-V5 (`authority_snapshot*.py`) | accepted snapshot history | accept, bind an action to the accepted snapshot | rollback of snapshots, acceptance that changes during an action | never an older snapshot, never an action under another one |
| Action atomicity V6 (`authority_action_atomicity.py`) | transaction events, seals on objects | run an owner-reserved action in a transaction | six files changed in sequence | all of it or none of it |
| Crash recovery V7 (`authority_action_crash_recovery.py`) | recovery bundles | prepare, restore, recover on startup, clean up | a crash between any two writes, a rollback that fails itself | every unterminated transaction can be rolled back |
| Journal V8 (`authority_action_journal.py`) | one file per event | publish, verify, clean up temporaries | a temporary left by a crash | a transaction is prepared once and ends once |
| Coordination V9 (`authority_action_coordination.py`) | a lock file | serialize actions and startup | a startup beside a live transaction | a live transaction is not rolled back |
| Idempotency V10 (`authority_action_idempotency.py`) | a second seal on objects | answer an exact retry from the record | a retry after a crash, a record whose transaction is not finished | executed once; the answer stays true |
| Dispatch outbox V11 (`provider_dispatch_outbox.py`) | one record per dispatch | prepare | - | one identity per dispatch |
| Claims V12 (`provider_dispatch_claim_lease.py`) | claim history | claim, take over, abandon | leases against stale clocks, competing workers | one current claim |
| Fencing V13 (`provider_dispatch_fencing.py`) | renewals, starts, epochs | renew, start, read the envelope, fail, admit a receipt | late envelopes and receipts of superseded attempts | no effect of an old attempt after a new one's; the receipt is the newest claim's |
| Outcome reconciliation V14 (`provider_dispatch_outcome_reconciliation.py`) | submissions, quarantines | record the submission, quarantine | a lease that expires while the provider may be working | no retry while the outcome is unknown |
| Challenge V15 (`provider_reconciliation_challenge*.py`) | challenge history | issue, resolve | replayed or expired lookup answers | a resolution answers a valid challenge, once |
| Evidence vault V16 (`provider_reconciliation_evidence_vault.py`) | one package file per lookup answer | publish before resolving, prune | a crash in between; a startup that cleans up outside the lock | the evidence of a resolution is never lost |
| Recovery V17 (`provider_reconciliation_recovery.py`) | - | classify, resume, prune | resuming long after the challenge expired | an interrupted resolution stays resumable |
| Completion V18 (`provider_reconciliation_recovery_completion.py`) | completion receipts | repair, verify on startup | a record that changes after its receipt was written | a receipt stays verifiable |

The parts interact through the files and through the lock: V10 to V18 call down the chain with the
lock held (it is reentrant), and each constructor calls the previous one before it verifies its own
state. Two things are *not* under the lock, and most of section 5 comes from them: the operations
that are not owner-reserved, and the constructors of the layers above V9.

Outside the repository are the provider (a mock adapter states the contract: it refuses a lower
epoch, and answers an epoch it has carried out with the receipt of then), its lookup, and the clock.

### 1.2 The repository's leases

Agents that change the repository take leases on its paths. The state is two git refs on the
provider: the V2 ref carries one repository-wide lease, the V3 ref a registry of scoped leases with
a generation, fences and retired fences. There is no server: a *builder*
(`repository_lease_issuer.py`, and the recovery functions of `repository_coordination_v3.py`) reads
the refs and forms a commit, and somebody publishes it without force, so that it lands only if the
ref still has the parent it was built on. A gate evaluates pull requests against both refs. A
migration freezes the V2 ref and then opens the registry. Until then the repository is in
`DUAL_COMPATIBILITY`: the registry may hold scoped leases beside a terminal V2 lease, and pull
requests without a claim pass beside them.

| Part (file) | Operations | What is hard | What makes it correct |
|---|---|---|---|
| V2 lease (`repository_coordination.py`) | evaluate a claim | an issuer that knows nothing of the migration | an ACTIVE lease is absolute |
| Issuer (`repository_lease_issuer.py`) | freeze, cut over, acquire, release | two refs never read or written together; commits prepared long before they land; a migration interrupted in the middle; writers of the compatibility phase that commit meanwhile | never two regimes at once; the same cutover can be resumed; no early lease is discarded |
| Registry and gate (`repository_coordination_v3.py`) | suspect, orphan, reclaim, validate a fence, evaluate a pull request | recovery by several actors against a live owner; stale fences | disjoint leases; a fence is never reused; an admission holds when it is given |

### 1.3 The continuity fabric

`continuity.py` keeps commands and their lanes in one SQLite file. Workers lease lanes in waves,
checkpoint, complete, fail or yield them; a host that is interrupted leaves leases that expire and
are taken back. A lane may have an external effect: it needs a permit, whose reference the caller binds and its lease uses up, and
when its lease ends without a result it is held until somebody has read the effect back. The owner
pauses, resumes, cancels and replaces commands. Some handlers run in one transaction, others in
several statements. Correct means: a possible effect is never repeated or forgotten without a
readback, one binding of a permit serves one attempt, dependencies are respected across commands, and a command is
complete only when nothing of it is left.

### 1.4 What is left out

The other modules of the commercial package (`commercial_platform.py`, `commercial_expansion.py`,
`effective_state.py`, `institution_reconciliation.py`, `receipt_integrity.py`, and the release,
proof and test scripts) are single-shot projections of JSON documents: no state that several actors
change. The rest of the repository is a federation of independent subsystems (workflow engines,
command buses, worker runtimes, SQLite stores, mobile and desktop clients, receipts and documents);
`PROJECT.json` lists them with the reason each one is not modelled. Most of its lines are
validators, reports and generated receipts that one process computes from documents.

## 2. Plan

1. `ProviderDispatch` (V11-V15), its runs and its proofs. *Done.*
2. `AuthorityActions` (V6-V10), its runs and the proofs of its safety. *Done.*
3. `ReconciliationVault` (V16-V18), composed with `ProviderDispatch`, its runs and its proofs.
   *Done.*
4. `SnapshotAcceptance` (V3-V6), its run and its proofs. *Done.*
5. `RepositoryCoordination` with the abstract `ScopedLocks` it implements, its run and its proofs,
   the refinement included. *Done.*
6. `ContinuityFabric`, its runs and its proofs. *Done.*
7. `AllOrNothing` and `AnswersAreCommitted` for several processes, under the condition that the code
   does not enforce: no action is prepared beside an unterminated transaction.
8. An abstract *register of actions* (a request is absent or committed), implemented by
   `AuthorityActions` with one process and no writer outside the lock; the other owner-reserved
   actions, `approve_quote` first, whose subject is computed outside the lock.
9. The MODISA v3 workflow (approvals and resumption), then the SQLite stores of the bubbles.

## 3. The modules and the code

### 3.1 `ProviderDispatch`

One dispatch of the state file. `record`, `log` and `challenges` are its entries under
`provider_dispatches`, `provider_dispatch_claim_history` and
`provider_reconciliation_challenge_history`; `clock`, `effects` and `evidence` are the environment.
Each operation of the code takes the coordination lock, reads the state file, checks, and makes at
most one atomic write: it is one action with the same name. A call the code rejects changes nothing
and is no step.

* The claim call is three things: the holder gets the same claim again (no step), an expired and
  submitted claim is quarantined and the call fails (`Quarantine`), or a claim is granted, an
  expired one being closed in the same write (`ClaimProviderDispatch`).
* Most operations read `utc_now` *before* they wait for the lock: they carry a `now` up to
  `MaxLockWait` old (`StaleNow`). Failure, admission and resolution read it with the lock held.
* `ProviderExecute` needs a recorded submission. Neither the mock adapter nor the admission of a
  receipt checks one: it is what callers owe, `"durable_before_transport": true` in
  `alpha_omega_commercial/provider_dispatch_outcome_reconciliation_contract.json:8`. A caller that
  reaches the provider before it records the submission is outside the model, and outside what the
  dispatch properties say.
* The steps are the calls of the dispatch. An operation that is not owner-reserved writes back a whole
  state file it read earlier (`commercial_assurance.py:725-730`), and a rollback of V7 restores whole
  files; either can undo a dispatch write. They are not steps here (`AuthorityActions` has them), so
  the guarantees of the dispatch are those of a state file on which neither straddles a dispatch call.
* A digest is the value it is computed from. A claim token is the position of its `CLAIMED` event,
  which the digest of the previous event makes unique. Fields that are copied and never compared
  again are left out.
* `VerifyProviderDispatchAttemptState` is what a constructor checks, layer by layer. It is a state
  predicate here, and `RestartAccepted` says that no sequence of legal calls breaks it.

### 3.2 `AuthorityActions`

Several processes run `submit_service_request`, the representative of the four owner-reserved
actions. A step is one durable write: `BeginAction` (lock, idempotency check, number, start of the
bundle), `PrepareRecoveryBundle`, `PrepareAction` (`ACTION_PREPARED`), the body
(`SubmitServiceRequest`, `RecordApproval`, `SealStateObject`, `SealIdempotency`), `CommitAction`,
`FinishAction`; an exception in the body leads through `RestoreState`, `RestoreApprovals`,
`AppendRolledBack`, `FinishRollback`. `Start`, `RecoverUnterminated` and `CleanupOrphanBundles` are
the constructor up to V9, which holds the lock; V10 verifies the seals after it is released
(`VerifyIdempotencyState`, `StartupRefused`), beside whatever other processes do. `Crash` can follow any write, and leaves a
temporary journal entry or a torn line in the approval ledger where the code would.

The six captured files are two variables, `state` and `approvals`, each standing for itself and its
ledger. A payload is an `Intent`. `UnlockedRead` and `UnlockedWrite` are the operations that do not
take the lock: they read the whole state file and write it back later. A recovery that raises in
the constructor is a crash of that process.

### 3.3 `ReconciliationVault`

EXTENDS `ProviderDispatch` and replaces its one-step resolution by the call of V16-V18: publish the
package (`BeginResolve`, `PublishEvidence`), write the state file (`Resolve`, or `RejectEvidence`),
publish the completion receipt (`PublishReceipt`). `call` is the call that holds the lock; while
there is one, the other operations of the dispatch wait, but the clock and the provider do not.
`BeginResume` and `BeginRepair` are the two sides of `resume_provider_reconciliation_from_vault`;
resumed, the resolution is judged at the instant its answer was observed. The startup of another
process (`RemoveIncompletePublications` to `VerifyRecoveryCompletionReceiptState`) is not under the
lock, because the constructors of V16 and V18 run after V9's has released it. The constructor of
V18 repeats the evidence pass of V16's; the second pass stands for both.

### 3.4 `SnapshotAcceptance`

Every process is opened with one snapshot of the provider (`Open`), and they share the acceptance
ledger `entries`. `Acceptable` is `_preview_current`: `ValidAt` for the time limits of the snapshot
and its domains, `Idempotent` for an exact replay of the latest acceptance, `Advances` for a new
one. An action goes through `Called`, `Coordinate` (the lock of V9), `Accept`, `Bind` (the ledger's
lock, held to the end; the latest acceptance is bound), the body, `Recheck`, `Commit`; any failure
is `Refuse`, which releases the locks. `Accept` is also a call of its own, which takes no
coordination lock, and a crash in it can tear the ledger's last line. What the body writes is
`AuthorityActions`' subject.

### 3.5 `RepositoryCoordination` and `ScopedLocks`

`legacy` and `registry` are the descriptors at the heads of the two refs; a head is the number of
its commits. Every builder reads the V2 ref in one step (`ReadLegacy`), the V3 ref in a later one,
and forms a commit (`spec`), which any number of other steps may precede before it is published
(`Publish`) or overtaken (`Lose`, which is also the end of the node that prepared it). A pull request is not state: `Admits` is the gate's verdict for a
V2 descriptor read earlier, and `AdmissionHolds` quantifies over all pull requests in every state.
Write sets are sets of paths; a set with a global path is the whole repository. Descriptors of the
V2 ref from issuers older than the migration are modelled from what the gate accepts of them.

`EarlyLease` and `EarlyRelease` are the scoped-lease writers of the compatibility phase. No code of
theirs is in the repository, but the issuer and the gate deal with what they leave:
`tests/test_repository_lease_issuer.py:220-238` has a registry with leases that must not be discarded
and one that changes between the barrier and the cutover, and
`tests/test_proofos_repository_coordination_v3.py:163-190` pull requests that pass beside such leases.
They are external, and follow `registry_transaction_model` of
`governance/federation_repository_coordination_v3.json`: a fresh head, no overlap with an active lease,
the next generation as fence, a push without force. They know neither the barrier nor the V2 ref, and
have no part in an opened registry. Their release is assumed to retire the fence, as the issuer's does;
their leases can be suspected, orphaned and reclaimed like any other.

`ScopedLocks` is the abstract specification: locks on sets of paths that never overlap, under
fences that only grow. The refinement maps a lease to its fence and its scope and the last fence
to the generation; a lease, a release and a reclaim, early or not, reach it only when published, as
`Acquire`, `Release` and `TakeOver` of the locks, and everything else is a stutter or skips fences.

### 3.6 `ContinuityFabric`

`command` and `lane` are the rows of the two tables, `doing` what a process has read and not yet
written. A handler with a transaction is one action; `lease_wave` is two (`BeginWave`, `LeaseWave`),
as its recovery commits before its wave; `bind_effect_permit` and `record_effect_readback` are a
read and a later write; the completion of commands is one step per statement. Time is left out: a
lease may lapse at any moment after it was given, and a lapsed lease may still be written under until it is taken
back, because the code checks it in a statement of its own. Priorities, paths and groups choose
among the lanes that may be leased; `LeaseWave` takes any of them. `Permit` is the set of references
callers may bind: `bind_effect_permit` stores the one it is given, unchecked, and makes it fresh, so the
same reference can be bound again, to the same lane or another, also after a lease used it.
`unsettled` and `unused` are no state of the code: they remember which leases of an external lane have
ended without a result, and how often a permit was bound to a lane less the leases given on it.

## 4. The runs that pass

| Run | Instance | Properties and what they exclude |
|---|---|---|
| `dispatch` | 2 workers, 2 claims, 4 instants, calls up to 1 instant old | see below |
| `actions_single` | 1 process, 2 requests, 2 intents, 4 transactions, 3 crashes, torn ledgers | `AllOrNothing`, `AnswersAreCommitted`, `CommittedOnce`, `RecoveryBeforeNewActions` |
| `actions_shared` | 2 processes, 2 transactions, 2 crashes, failing rollbacks, torn ledgers, writers outside the lock | `LiveTransactionUntouched`, `UnterminatedRecoverable`, `JournalVerifies` |
| `actions_live` | 2 processes, 2 requests, 2 crashes, under fairness | `PreparedTerminates` |
| `vault` | 1 worker, 2 attempts, 3 instants, a startup beside the calls | `ReferencedEvidenceRetained`, `CompletedReceiptsVerify`, `InterruptedStaysResumable`; `RestartAccepted` again, because a resumption resolves at a past instant |
| `snapshot` | 2 processes, 3 identities, 2 source heads, 3 instants, 1 crash, 2 commits | `LedgerOnlyAdvances`, `CommitsUnderLatest`, `AuthorityNeverGoesBack` |
| `repository` | 2 nodes, 3 paths of which 1 is global, 3 commits of the V2 ref, 7 generations, early leases up to the 2nd | `OneRegime`, `FrozenResumable`, `CutoverFromSeed`, `NoFenceForgotten`, `AdmissionHolds`, `UnexpiredIsKept`, and the refinement `ImplementsScopedLocks` |
| `continuity` | 2 workers of which 1 reads back, 2 commands, 3 lanes, 2 leases of a lane, 1 permit, bound again and again | `UncertainEffectKept`, `DependencyOrder`, `LeasePerBinding`, `CompleteIsFinished` |

Properties of `dispatch`:

* `OneCurrentClaim`, `EpochsFollowClaims`: two workers are never both entitled, and a later claim
  has the higher epoch, whatever expires, is renewed, abandoned or taken over.
* `SubmittedNotWrittenOff`, `QuarantineHolds`: an attempt that may have had an effect is not closed
  as expired or failed; while its outcome is unknown only its resolution extends the history.
* `ReceiptOfNewestClaim`, `EffectsInClaimOrder`: late receipts and late envelopes of superseded
  attempts do not count.
* `ResolutionChallenged`: a resolution and the consumption of a challenge name each other, and the
  answer was observed while that challenge was valid.
* `RestartAccepted`: every state on disk is one the constructor accepts.

`actions_single` says what V6, V7 and V10 promise, for one process; with a second process three of
these promises fail (section 5). `actions_shared` is what survives all of that: the lock protects a
live transaction, every unterminated transaction has its complete bundle, the journal stays valid.
`vault` shows that evidence is never lost and that resuming at a past instant breaks none of the
guarantees of the dispatch; the unlocked cleanup of a startup makes a live call fail (section 5) but
never lets it resolve without its package.

Properties of `snapshot`: an acceptance never returns to an older snapshot or to a source head that
was superseded (`LedgerOnlyAdvances`); a commit names the acceptance that is the last one *at that
moment*, though the acceptance, the binding and the commit are three critical sections apart
(`CommitsUnderLatest`); and so the authority of successive commits never goes back.

Properties of `repository`, all with early leases in the registry until the cutover:

* `OneRegime`: what the registry was opened under stays at the head of the V2 ref, so no V2 lease comes
  back beside the scoped ones.
* `FrozenResumable`, `CutoverFromSeed`: between barrier and opening the registry is either the empty one
  the barrier names, and the same cutover can be built again, or it has moved on for good; it is opened
  from that very head only, so that no early lease is discarded. If it has moved, nothing can open it:
  the code fails closed ("no silent rebind or rollback"), and a new cutover is nobody's operation.
* `NoFenceForgotten`: a fence is live or retired and never comes back.
* `AdmissionHolds`: an admission computed from two reads at different times is right when it is given.
  After the cutover it is a scoped one under the barrier. A scoped one has the current fence. None shares
  a path with the lease of another, with one exception that the code makes: before the cutover an exact
  claim of an ACTIVE V2 lease is admitted whatever the registry holds.
* `UnexpiredIsKept`: a lease that has not expired is ended by its own writer only.

Properties of `continuity`: `UncertainEffectKept` says that while nobody has reported or read back
an effect its lane is under the same lease or held, whatever is cancelled, paused, yielded or taken
back. It holds when one process records the readbacks, and fails with two (section 5).
`DependencyOrder` and `CompleteIsFinished` hold although lanes and commands are completed from reads
made earlier. `LeasePerBinding` is what the flag `effect_permit_consumed` gives when binds, leases
and readbacks of two processes overlap: a lane is never leased on a permit more often than that permit
was bound to it. That is a statement about bindings and not about references: a
reference that was used up and is bound again serves another lease, and only the
`effect_permit_verifier` of the deployment could refuse it.

### Bounds

* Two workers compete for a claim, and a third could only take the part of one of them: claims do
  not remember workers but the current one.
* Two claims are a takeover, a retry after `NO_EFFECT` and a superseded attempt with a late
  envelope; a lease of two instants and four instants allow expiry, renewal across the old expiry,
  and a second lease. A challenge of one instant expires and is replaced within the run.
* For actions: two requests, so that a rollback of one could damage the other; two intents, so that
  a retry can conflict; as many transactions as there can be retries after each crash.
* In the vault runs the two attempts are what a receipt needs to see the record change again. Three
  instants let a package be resumed after its challenge has expired, and a second quarantine follow.
* `snapshot`: three identities are the least for A, B and A again under another name; two source
  heads for a return to a superseded one; three instants, with a lifetime of one, for snapshots that
  expire before a call uses them and for two acceptances in order.
* `repository`: two nodes for an owner and an independent actor, and for two prepared commits from
  one head; two ordinary paths for leases side by side, a global one for a lease on everything;
  three commits of the V2 ref are an acquisition, a release and the barrier, or an acquisition that
  races the barrier. The registry starts at generation 1. One early lease (`MaxEarly` 2) may precede
  the barrier, be committed between barrier and opening, or race the opening. Seven generations are the
  cutover, a lease, its three recovery steps and its reclaim, or an early lease, its release, the
  cutover and part of these.
* `continuity`: a chain of three lanes over two commands, with the external effect in the middle;
  two leases are one repetition. One reference is what binding it again takes. `MaxUnused` bounds the
  bindings of a permit that no lease has used: two let a binding straddle a lease that uses the other.
* `Workers` (`dispatch`), processes, identities and heads (`snapshot`), nodes (`repository`) and
  processes, requests and intents (`actions_single`, `actions_shared`) are symmetric: no definition
  names or orders one of them, and these runs check only safety. `actions_live` and `continuity` use
  no symmetry.

Deadlock is not checked: all models stop when their bounds are used up.

### Fairness

Only `actions_live` uses it (`FairSpec`). `WF(Step(w))`: code that runs is
not stopped for ever between two writes unless it crashes. `WF(Start(w))`: a process that is down is
started again once the lock is free; a supervisor does this, and the recovery of V7 has no other
trigger. Nothing is assumed of callers, of operations outside the lock, or of crashes, which the
bound makes finitely many. `actions_live` leaves out `RestoreMayFail` and `TornAppends`: after a
rollback that fails without a crash the worker goes on, and recovery waits for a startup that
nothing forces; a torn ledger stops it (section 5).

## 5. Where the code and its statements disagree

Four are runs that TLC finishes with a counterexample; `actions_unrecovered` and `vault_retry` were
also reproduced with the Python classes themselves.

| Run | What happens |
|---|---|
| `dispatch_renewal` | A renewal after the submission changes the envelope. If the provider carries out the renewed one and the lease expires, the quarantine can be resolved neither as `COMPLETED` (another envelope) nor as `NO_EFFECT`. |
| `actions_unrecovered` | Only a startup looks for crashed transactions, so a process that was running goes on preparing actions, against V9's `new_action_blocked_until_recovery_complete`. |
| `vault_retry` | A completion receipt is compared with the *present* record. After a recovered `NO_EFFECT`, a retry and a new quarantine, the exact retry raises, and so does every startup. |
| `continuity_readback` | A readback is written from a row read earlier. When two processes read back the same hold, the second write can end a newer lease, put its lane back to READY and let its effect be repeated without a readback. |

Others have no run of their own; the models show them when the property or the constant is set:

* `RetryOnlyAfterNoEffect` fails in `MCProviderDispatch.cfg`: a submitted attempt may be abandoned,
  and a retry is granted at once, with no quarantine and no lookup. V14 promises "retry release only
  after `NO_EFFECT`".
* `CommittedOnce` fails in `MCAuthorityActionsShared.cfg`: an operation outside the lock
  (`commercial_assurance.py`, `create_lead` for one) writes back an older state, erases a committed
  action, and its exact retry is executed again.
* `PreparedTerminates` fails in `MCAuthorityActionsLive.cfg` with torn appends: a startup rebuilds
  the approvals before it recovers, and a ledger line torn by a crash stops every startup, although
  the bundle holds the intact ledger.
* The policy of the repository leases (`governance/federation_repository_coordination_v3.json:111`)
  asks for a revalidation when a pull request is merged; no code makes it. `AdmissionHolds` is about
  the moment of the verdict.

Two of these have further consequences, which the models show with the definitions they have, and
which the Python classes show as well:

* With a second process `AnswersAreCommitted` and `AllOrNothing` fail too, for the reason of
  `actions_unrecovered`. A running process answers a retry from the seals of a record without asking
  the journal, and the record may belong to a crashed transaction that the next startup rolls back.
  And two unterminated transactions are restored oldest first: the younger bundle was captured over
  the partial effects of the older one, and brings them back.
* The startup of V16 to V18 is outside the lock. Its cleanup removes the temporary file that a live
  call is about to rename (`PublicationFails`), and its verification is refused by a package pruned
  or a receipt published between two of its reads (phase `refused`); in both cases a second attempt
  succeeds.

## 6. What is proved

Every safety property of section 4, invariant, action property and refinement alike, is a theorem for
all values of the constants. Each module has an inductive invariant, which TLC has checked on the
instances of section 4. Two of the modules have theorems with a hypothesis beyond
the assumptions on their constants; without it these properties are false, and section 5 has the runs
that say so.

### The dispatch

`ProviderDispatch_proofs`, for every set of workers, leases and lifetimes and every bound:

| Theorem | Property |
|---|---|
| `TypeCorrect` | `TypeOK` |
| `OneCurrentClaimAlways` | `OneCurrentClaim` |
| `EpochsAlwaysFollowClaims` | `EpochsFollowClaims` |
| `SubmittedNeverWrittenOff` | `SubmittedNotWrittenOff` |
| `QuarantineAlwaysHolds` | `[][...]_vars` of `QuarantineHolds` |

Assumptions: lease and challenge lengths are positive naturals, the bounds are naturals.

None of these is inductive. That at most one claim is open depends on every `CLAIMED` event being
its own claim reference, on events naming an earlier claim, and on a claim being granted only when
the history has no open one; that a submitted claim is not written off depends on the takeover
closing only claims that were not submitted; that a quarantine holds depends on a quarantined claim
being closed, so that no operation of its holder is enabled, and on the challenges naming
quarantines, so that the only resolution possible is of that one. The inductive invariant is

    IInv == TypeOK /\ Sound(log) /\ QuarantineCloses(log)
                   /\ EpochsNumberClaims(log) /\ ChallengesNameQuarantines

The claim history grows only at its end, so the argument is about one appended event: lemmas say
what an append does to the indices of a kind, to the open claims, to the current claim and to the
unresolved quarantine, and the preservation proof has one step per operation that cites them.

`ProviderDispatchRestart_proofs` has, under the same assumptions,

| Theorem | Property |
|---|---|
| `RestartAlwaysAccepted` | `RestartAccepted` |
| `ReceiptAlwaysOfNewestClaim` | `ReceiptOfNewestClaim` |
| `ResolutionAlwaysChallenged` | `ResolutionChallenged` |
| `EffectsAlwaysInClaimOrder` | `[][...]_vars` of `EffectsInClaimOrder` |

from a larger invariant:

    RInv == IInv /\ History(log) /\ RecordFollows(record, log, effects)
                 /\ EffectsFollow(log, effects) /\ EvidenceFollows(evidence, effects)
                 /\ ConsumptionsFollow(challenges, log) /\ ResolutionsFollow(challenges, log)

`History` says of the history alone what the verifier needs and more: an open claim and an unresolved
outcome are those of the newest claim, there is at most one of the latter, a claim is started once,
under the lease it had at that point, and the previous lease of a renewal is the one before it. The
verifier reads the history as it was before each event (`ExpiryBefore`, `TerminalBefore`), so its
lemmas say that an append changes nothing of that. `RecordFollows` says that a receipt ends the
history: no claim is open after it, and nothing is unresolved. `EffectsFollow` and `EvidenceFollows`
carry the receipt from the provider through a lookup to the record. `ConsumptionsFollow` and
`ResolutionsFollow` tie the two histories to each other; a challenge that is active has no consumption,
which is why a resolution never uses one a second time.

Both modules prove their steps for `DispatchNext`, in which a resolution may be judged at any instant.
That is more than `Next` allows, and what the vault does when it resumes one.

### The vault

`ReconciliationVault_proofs`, for any number of startups besides:

| Theorem | Property |
|---|---|
| `VaultTypeCorrect` | `VaultTypeOK` |
| `VaultRestartAccepted` | `RestartAccepted` |
| `ReferencedAlwaysRetained` | `ReferencedEvidenceRetained` |
| `CompletedReceiptsAlwaysVerify` | `CompletedReceiptsVerify` |
| `InterruptedAlwaysResumable` | `[][...]_vaultVars` of `InterruptedStaysResumable` |

A step of the vault is a step of `DispatchNext` or leaves the dispatch alone
(`VaultStepIsDispatchStep`), so `RInv` holds here too and the vault adds its files to it:

    VInv == RInv /\ VaultTypes /\ CallFollows
                 /\ ReferencedEvidenceRetained /\ ReceiptsFollow

`CallFollows` says that a call which resolves has its package on disk, although the startup of another
process may have taken the temporary file away before, and that one which completes has its package
in the history. A receipt then verifies for two reasons: no two events have the same package, because
the challenge it answers was consumed once (`OneEventPerPackage`), and the record of a completed
dispatch never changes again (`CompletedIsFinal`). The second fails for `NO_EFFECT`, which is the
disagreement `vault_retry` shows.

### The snapshots

`SnapshotAcceptance_proofs`, for every set of processes, identities and source heads, every lifetime
and every bound:

| Theorem | Property |
|---|---|
| `TypeCorrect` | `TypeOK` |
| `LedgerAlwaysAdvances` | `LedgerOnlyAdvances` |
| `AuthorityNeverReturns` | `AuthorityNeverGoesBack` |
| `CommitsAlwaysUnderLatest` | `[][...]_vars` of `CommitsUnderLatest` |

Assumptions: the lifetime is a positive natural, the bounds are naturals (`SnapshotBounds`), and
`None` is no process (`NoneIsNoValue`). `LedgerOnlyAdvances` needs no more than the type invariant:
an append compares the candidate with every entry's identity and with the latest entry's time, and a
head that is not the latest one is refused if any entry has it. The properties of commits need to
know what a process may rely on between its two checks:

    IInv == TypeOK /\ HoldsSnapshot /\ BoundToLatest /\ CommittedAccepted
                   /\ LedgerOnlyAdvances /\ AuthorityNeverGoesBack

`HoldsSnapshot` says that an open process holds a snapshot; `BoundToLatest` that one that is bound
has the lock of the ledger, and that its acceptance is the latest one and of its own snapshot;
`CommittedAccepted` that a committed action names an entry of the ledger and its snapshot. The lock
makes `BoundToLatest` inductive: no other process can append or bind while it is held. A commit then
names the last entry, and `LedgerOnlyAdvances` puts every earlier commit at or before it.

### The actions

`AuthorityActions_proofs`, for any processes, requests and intents and every bound. These need nothing
of the processes; any number of them may start, crash, fail to roll back and write outside the lock:

| Theorem | Property |
|---|---|
| `TypeCorrect` | `TypeOK` |
| `LiveTransactionsUntouched` | `LiveTransactionUntouched` |
| `AlwaysRecoverable` | `UnterminatedRecoverable` |
| `JournalAlwaysVerifies` | `JournalVerifies` |

    IInv == Types /\ (\A w \in Worker : WorkerOK(w)) /\ Numbered /\ Counted
                  /\ JournalVerifies /\ UnterminatedRecoverable

`WorkerOK` says what a place in the code implies: the lock, a transaction that is prepared and not
terminated, a complete bundle. `Numbered` makes the number of a new transaction one that the journal
does not have; `Counted`, two events for each terminated transaction and one for each other, bounds
the journal, which `TypeOK` states.

The other four are about `OneProcess`: one process, whose rollbacks do not fail. It may crash
anywhere, an append of it may tear, and it may run operations outside the lock between its actions.

| Theorem | Property |
|---|---|
| `AlwaysAllOrNothing` | `AllOrNothing` |
| `AnswersAlwaysCommitted` | `AnswersAreCommitted` |
| `AlwaysCommittedOnce` | `CommittedOnce` |
| `RecoveryAlwaysFirst` | `RecoveryBeforeNewActions` |

    AInv == IInv /\ (\A w \in Worker : AloneOK(w)) /\ AtMostOne /\ BundlesClean
                 /\ FilesClean /\ CommittedOnce /\ AnswersAreCommitted

`Clean` says that the files show of every request what its committed transaction wrote, and nothing
when it has none. The files are clean while no transaction is open (`FilesClean`), the bundle of the
open one is clean (`BundlesClean`), and `AloneOK` says how far the files are in between, place by
place. That there is at most one open transaction needs the hypothesis: with a second process, or a
rollback that failed, an action is prepared beside an open one (`actions_unrecovered`).

### The repository

`RepositoryCoordination_proofs`, for any nodes, paths, global paths and bounds:

| Theorem | Property |
|---|---|
| `TypeCorrect` | `TypeOK` |
| `OneRegimeAlways` | `OneRegime` |
| `AlwaysResumable` | `FrozenResumable` |
| `CutoverAlwaysFromSeed` | `[][...]_vars` of `CutoverFromSeed` |
| `FencesNeverForgotten` | `NoFenceForgotten` |
| `AdmissionsAlwaysHold` | `AdmissionHolds` |
| `UnexpiredAlwaysKept` | `[][...]_vars` of `UnexpiredIsKept` |
| `Refinement` | `ImplementsScopedLocks`: `Spec` implies the specification of `ScopedLocks` |

    IInv == TypeOK /\ Heads /\ SeenIsPast /\ PreparedFollows /\ RegistryValid(registry)
                   /\ OneRegime /\ NoFenceForgotten

`Heads` says that the barrier's seed is a past head of the registry, or the present one with no lease in
it, which is `FrozenResumable`. A prepared commit may be as old as one likes. `PreparedFollows` says that it is stale, and then can no
longer be published, or that it follows the present head in one of the ways a builder makes one; a
publication is then a step from the present descriptors whatever was read when. `SeenIsPast` says that
a V2 descriptor that was read is the present one or older, and that a barrier once read is still there,
because nothing follows it. A registry commit that opens a migration keeps the barrier and the seed of
the V2 descriptor it was built from (`Opens`); it follows the present registry only if that is still the
empty one of the seed, which gives `CutoverFromSeed`, and early leases are one more way to follow an
unmigrated registry. The refinement maps those ways to `Acquire`, `Release`, `TakeOver` and
`Skip`, and every other step to a stutter.

### The fabric

`ContinuityFabric_proofs`, for any commands, lanes, dependencies, effect classes, processes and bounds:

| Theorem | Property | Holds |
|---|---|---|
| `TypeCorrect` | `TypeOK` | always |
| `BindingServesOneLease` | `LeasePerBinding` | always |
| `UncertainEffectAlwaysKept` | `UncertainEffectKept` | for one process that records readbacks |
| `DependenciesAlwaysRespected` | `DependencyOrder` | for one process that records readbacks |
| `CompleteAlwaysFinished` | `CompleteIsFinished` | for one process that records readbacks |

    IInv == TypeOK /\ LanesAdmitted /\ TokenIsLease /\ ReadbackCurrent /\ UnsettledExternal
                   /\ UncertainEffectKept /\ LeasedInOrder /\ DependencyOrder
                   /\ CountedIsFinished /\ CompleteIsFinished

`OneReader` says that at most one process records readbacks; any number lease, checkpoint, cancel,
bind permits and complete commands. It is what makes `ReadbackCurrent` inductive: the lane that is being
read back stays held, under the lease that was read, until it is written. With two readers the second
write can move a lane that is complete or leased again, and the properties below it fall with it
(`continuity_readback`). Every handler changes a row in one of a few ways (`RowStep`), and each conjunct
is shown for these and not for every handler. `LeasePerBinding` needs the types only, for any number of
readers: of the ways a row changes, a binding adds one, a lease takes one, and none of the others makes a
used permit fresh. `LeasedInOrder` strengthens `DependencyOrder` to held lanes,
`CountedIsFinished` says that what a process counted as finished stays so until it is written.

## 7. Only model-checked, and not modelled

* Liveness (`PreparedTerminates`) is out of reach of the proof system, as are `ENABLED` and
  induction over data; it holds for the instance of `actions_live`. No module declares a RECURSIVE
  operator.
* Several dispatches in one state file are independent except that the checks of a startup cover
  all of them: one receipt that does not verify refuses the startup for all.
* A write of the state file is one step. The mixture two writers can make of its shared temporary
  name is a hazard listed in `PROJECT.json` and not modelled.
* Hash chains, seals and signatures are the values they bind. That a digest cannot be forged is
  assumed.
* The provider is the contract of the mock adapter. That it may carry out an envelope after a lookup
  has answered `NO_EFFECT` is allowed by the model; what that does to a retry is the provider's
  guarantee to give, and no property speaks of it.
* A snapshot is judged at the instant its call began. How long a lock is waited for is bounded by
  nothing in the code, so no property speaks of a snapshot that expires in the meantime.
* A pull request is judged when the gate runs. Its merge is outside the repository.
* `LeaseWave` leases any lane that may be leased. The limits of a wave (one external effect, one
  lane of a concurrency group, priorities) choose among them and are not modelled.
