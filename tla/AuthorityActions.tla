--------------------------- MODULE AuthorityActions ---------------------------
(***************************************************************************)
(* Owner-reserved actions of the commercial control plane, versions V6 to  *)
(* V10: several worker processes share one state directory and run         *)
(* submit_service_request as a transaction under one file lock, with a     *)
(* recovery bundle (V7), an atomically published journal (V8), a process   *)
(* lock (V9) and the replay of exact retries (V10).                        *)
(*                                                                         *)
(* A step is one durable write, because a process can stop between any two *)
(* of them.  The six captured files are two here: the commercial state and *)
(* the owner-approval state, each standing for itself and its ledger; a    *)
(* restore writes them one after the other.  An intent stands for the      *)
(* payload of a request; records keep what the recovery and the replay     *)
(* read.  approve_quote, register_outcome_study and                        *)
(* register_verified_revenue_event run the same protocol.                  *)
(***************************************************************************)
EXTENDS Naturals, Sequences, FiniteSets, Functions

CONSTANTS
    Worker,            \* processes that open the same state directory
    Request,           \* object identities (request_id)
    Intent,            \* payloads a caller may submit under an identity
    None,              \* no record, no lock holder, no worker's snapshot
    MaxTransactions,   \* bound: transactions prepared in a behaviour
    MaxCrashes,        \* bound: process crashes in a behaviour
    RestoreMayFail,    \* whether restoring the files or recording a rollback can raise
    TornAppends,       \* whether a crash can tear the last line of a ledger
    UnlockedWrites     \* whether workers also run operations outside the lock

ASSUME BoundsAssumption ==
    /\ MaxTransactions \in Nat
    /\ MaxCrashes \in Nat
    /\ RestoreMayFail \in BOOLEAN
    /\ TornAppends \in BOOLEAN
    /\ UnlockedWrites \in BOOLEAN

VARIABLES
    state,        \* commercial_assurance_state.json: the service requests
    approvals,    \* governed authority ledger: requests whose receipt is consumed
    journal,      \* transaction events, in publication order
    journalTmp,   \* a temporary journal entry was left by a crash
    bundles,      \* recovery bundles by transaction; None while being written
    lock,         \* holder of the coordination lock
    pc,           \* where each worker is
    job,          \* the request, intent and transaction a worker is on
    snapshot,     \* what a worker outside the lock read before writing back
    answered,     \* results returned to callers
    crashes       \* number of crashes so far

vars == <<state, approvals, journal, journalTmp, bundles, lock, pc, job,
          snapshot, answered, crashes>>

-----------------------------------------------------------------------------
(* Values *)

Transaction == 1 .. 2 * MaxTransactions

\* A stored request: its intent, and the transactions named by its
\* authority_action_commit seal and by its idempotency seal (0: no such seal).
Record == [intent : Intent, commit : Transaction \cup {0},
           idempotency : Transaction \cup {0}]

StateFile == [Request -> Record \cup {None}]

Event == [event : {"ACTION_PREPARED", "ACTION_COMMITTED", "ACTION_ROLLED_BACK"},
          tx : Transaction, request : Request, intent : Intent]

\* The owner-approval ledger and whether its last line is torn.
ApprovalLedger == [consumed : SUBSET Request, torn : BOOLEAN]

Bundle == [state : StateFile, approvals : ApprovalLedger]

\* The absence of a record, a bundle or a lock holder is none of these.
ASSUME NoneAssumption == None \notin Worker \cup Record \cup Bundle

NoJob == [request |-> None, intent |-> None, tx |-> 0, restart |-> FALSE]

Job == [request : Request, intent : Intent, tx : Transaction,
        restart : BOOLEAN] \cup {NoJob}

\* Inside the transaction body, from ACTION_PREPARED to the terminal event.
Body == {"prepared", "stored", "approved", "sealed", "replayable"}

Restoring == {"restoring", "half_restored", "restored"}

Place == {"down", "idle", "writing", "bundling", "bundled", "committed",
          "rolled_back", "recovering", "verifying"} \cup Body \cup Restoring

-----------------------------------------------------------------------------
(* The journal *)

TransactionsWith(kinds) == {e.tx : e \in {f \in Range(journal) : f.event \in kinds}}

Prepared   == TransactionsWith({"ACTION_PREPARED"})
Committed  == TransactionsWith({"ACTION_COMMITTED"})
RolledBack == TransactionsWith({"ACTION_ROLLED_BACK"})

\* Plausible bug: a commit is not taken for a terminal event.
UnterminatedPrepared_CommitIsNotTerminal == Prepared \ RolledBack

\* Prepared transactions without a terminal event.
UnterminatedPrepared == Prepared \ (Committed \cup RolledBack)

\* Oldest transaction that restart recovery still has to roll back.
OldestUnterminated ==
    CHOOSE t \in UnterminatedPrepared : \A u \in UnterminatedPrepared : t <= u

\* Plausible bug: transactions are numbered from zero.
NextTransactionId_FromZero == Len(journal)

\* The next transaction is numbered by the length of the journal.
NextTransactionId == Len(journal) + 1

\* Publishing an event: the verified journal with the event at its end.  A
\* temporary entry left by another process makes every reader raise.
AppendTransactionEvent(kind, j) ==
    /\ ~journalTmp
    /\ journal' = Append(journal, [event |-> kind, tx |-> j.tx,
                                   request |-> j.request, intent |-> j.intent])

PreparedEvent(t) ==
    CHOOSE e \in Range(journal) : e.event = "ACTION_PREPARED" /\ e.tx = t

-----------------------------------------------------------------------------
(* The lock and the recovery bundles *)

Release(w) == lock' = None

\* A worker that leaves the protocol holds neither a job nor the lock.
BackToIdle(w) ==
    /\ Release(w)
    /\ pc' = [pc EXCEPT ![w] = "idle"]
    /\ job' = [job EXCEPT ![w] = NoJob]

Advance(w, from, to) ==
    /\ pc[w] = from
    /\ pc' = [pc EXCEPT ![w] = to]

\* What _capture_transaction_files reads.
CapturedFiles == [state |-> state, approvals |-> approvals]

WithoutBundle(t) == Restrict(bundles, DOMAIN bundles \ {t})

-----------------------------------------------------------------------------
(* Replay of an exact retry *)

\* A record whose idempotency seal matches its commit seal.
Sealed(rec) == rec # None /\ rec.idempotency # 0 /\ rec.idempotency = rec.commit

\* The record an exact retry gets back: sealed and of the same intent.
ExistingIdempotentResult(r, i) == Sealed(state[r]) /\ state[r].intent = i

\* Plausible bug: the V9 behaviour, where every request is executed.
NoExistingResult_Unchecked(r) == TRUE

\* An unsealed or absent record lets the action run; a record with one seal
\* only, or sealed with another intent, makes the check raise.
NoExistingResult(r) ==
    state[r] # None => state[r].commit = 0 /\ state[r].idempotency = 0

\* An exact retry: the stored record is returned, nothing is written.
Replay(w, r, i) ==
    /\ pc[w] = "idle"
    /\ lock = None
    /\ ExistingIdempotentResult(r, i)
    /\ answered' = answered \cup {[request |-> r, intent |-> i,
                                   tx |-> state[r].commit]}
    /\ UNCHANGED <<state, approvals, journal, journalTmp, bundles, lock, pc,
                   job, snapshot, crashes>>

-----------------------------------------------------------------------------
(* A live transaction: _atomic_action around the submission *)

\* Take the lock, find no earlier result, number the transaction, capture the
\* files and start the bundle.  A leftover bundle or temporary journal entry
\* raises.
BeginAction(w, r, i) ==
    /\ pc[w] = "idle"
    /\ lock = None
    /\ NoExistingResult(r)
    /\ ~journalTmp
    /\ NextTransactionId \notin DOMAIN bundles
    /\ Cardinality(Prepared) < MaxTransactions
    /\ lock' = w
    /\ pc' = [pc EXCEPT ![w] = "bundling"]
    /\ job' = [job EXCEPT ![w] = [request |-> r, intent |-> i,
                                  tx |-> NextTransactionId, restart |-> FALSE]]
    /\ bundles' = [t \in DOMAIN bundles \cup {NextTransactionId} |->
                     IF t = NextTransactionId THEN None ELSE bundles[t]]
    /\ UNCHANGED <<state, approvals, journal, journalTmp, snapshot, answered,
                   crashes>>

\* The complete bundle replaces its temporary directory.
PrepareRecoveryBundle(w) ==
    /\ Advance(w, "bundling", "bundled")
    /\ bundles' = [bundles EXCEPT ![job[w].tx] = CapturedFiles]
    /\ UNCHANGED <<state, approvals, journal, journalTmp, lock, job, snapshot,
                   answered, crashes>>

\* Plausible bug: ACTION_PREPARED is published before the bundle is complete.
PrepareAction_BeforeBundle(w) ==
    /\ pc[w] \in {"bundling", "bundled"}
    /\ pc' = [pc EXCEPT ![w] = "prepared"]
    /\ AppendTransactionEvent("ACTION_PREPARED", job[w])
    /\ UNCHANGED <<state, approvals, journalTmp, bundles, lock, job, snapshot,
                   answered, crashes>>

PrepareAction(w) ==
    /\ Advance(w, "bundled", "prepared")
    /\ AppendTransactionEvent("ACTION_PREPARED", job[w])
    /\ UNCHANGED <<state, approvals, journalTmp, bundles, lock, job, snapshot,
                   answered, crashes>>

\* An exception before ACTION_PREPARED is outside the try block: the lock is
\* released and the bundle stays.
AbandonBeforePrepare(w) ==
    /\ pc[w] \in {"bundling", "bundled"}
    /\ BackToIdle(w)
    /\ UNCHANGED <<state, approvals, journal, journalTmp, bundles, snapshot,
                   answered, crashes>>

\* The base submission stores the request, or finds it stored with the same
\* payload and keeps it; another payload raises (see Fail).
SubmitServiceRequest(w) ==
    LET j == job[w] IN
    /\ Advance(w, "prepared", "stored")
    /\ \/ /\ state[j.request] = None
          /\ state' = [state EXCEPT ![j.request] =
                         [intent |-> j.intent, commit |-> 0, idempotency |-> 0]]
       \/ /\ state[j.request] # None
          /\ state[j.request].intent = j.intent
          /\ UNCHANGED state
    /\ UNCHANGED <<approvals, journal, journalTmp, bundles, lock, job, snapshot,
                   answered, crashes>>

\* The owner's receipt is consumed for the request; a torn ledger raises.
RecordApproval(w) ==
    /\ Advance(w, "stored", "approved")
    /\ \/ /\ job[w].request \in approvals.consumed
          /\ UNCHANGED approvals
       \/ /\ ~approvals.torn
          /\ approvals' = [approvals EXCEPT !.consumed = @ \cup {job[w].request}]
    /\ UNCHANGED <<state, journal, journalTmp, bundles, lock, job, snapshot,
                   answered, crashes>>

\* V6 seals the stored record to the transaction.
SealStateObject(w) ==
    LET j == job[w] IN
    /\ Advance(w, "approved", "sealed")
    /\ state[j.request] # None
    /\ state' = [state EXCEPT ![j.request].commit = j.tx]
    /\ UNCHANGED <<approvals, journal, journalTmp, bundles, lock, job, snapshot,
                   answered, crashes>>

\* V10 adds the idempotency seal in a second write.
SealIdempotency(w) ==
    LET j == job[w] IN
    /\ Advance(w, "sealed", "replayable")
    /\ state[j.request] # None
    /\ state' = [state EXCEPT ![j.request].idempotency = j.tx]
    /\ UNCHANGED <<approvals, journal, journalTmp, bundles, lock, job, snapshot,
                   answered, crashes>>

\* The target must still be stored when its result is hashed.
CommitAction(w) ==
    /\ Advance(w, "replayable", "committed")
    /\ state[job[w].request] # None
    /\ AppendTransactionEvent("ACTION_COMMITTED", job[w])
    /\ UNCHANGED <<state, approvals, journalTmp, bundles, lock, job, snapshot,
                   answered, crashes>>

\* The bundle is removed, or not: an OSError there is ignored.  The caller
\* gets the record.
FinishAction(w) ==
    /\ pc[w] = "committed"
    /\ bundles' \in {bundles, WithoutBundle(job[w].tx)}
    /\ answered' = answered \cup {[request |-> job[w].request,
                                   intent |-> job[w].intent, tx |-> job[w].tx]}
    /\ BackToIdle(w)
    /\ UNCHANGED <<state, approvals, journal, journalTmp, snapshot, crashes>>

\* Any exception of the body, an invalid receipt or a changed acceptance
\* included, starts the rollback.
Fail(w) ==
    /\ pc[w] \in Body
    /\ pc' = [pc EXCEPT ![w] = "restoring"]
    /\ UNCHANGED <<state, approvals, journal, journalTmp, bundles, lock, job,
                   snapshot, answered, crashes>>

-----------------------------------------------------------------------------
(* Rollback, live or on restart: _restore_recovery_bundle, the terminal event *)
(* and the removal of the bundle                                              *)

\* A missing or incomplete bundle would raise (see UnterminatedRecoverable).
RestoreState(w) ==
    /\ Advance(w, "restoring", "half_restored")
    /\ job[w].tx \in DOMAIN bundles /\ bundles[job[w].tx] # None
    /\ state' = bundles[job[w].tx].state
    /\ UNCHANGED <<approvals, journal, journalTmp, bundles, lock, job, snapshot,
                   answered, crashes>>

\* Plausible bug: the owner-approval files are not captured, so not restored.
RestoreApprovals_Kept(w) ==
    /\ Advance(w, "half_restored", "restored")
    /\ UNCHANGED <<state, approvals, journal, journalTmp, bundles, lock, job,
                   snapshot, answered, crashes>>

RestoreApprovals(w) ==
    /\ Advance(w, "half_restored", "restored")
    /\ approvals' = bundles[job[w].tx].approvals
    /\ UNCHANGED <<state, journal, journalTmp, bundles, lock, job, snapshot,
                   answered, crashes>>

AppendRolledBack(w) ==
    /\ Advance(w, "restored", "rolled_back")
    /\ AppendTransactionEvent("ACTION_ROLLED_BACK", job[w])
    /\ UNCHANGED <<state, approvals, journalTmp, bundles, lock, job, snapshot,
                   answered, crashes>>

\* A live rollback ends by raising to the caller (the OSError of a failed
\* removal is ignored); a restart goes on to the next transaction.
FinishRollback(w) ==
    /\ pc[w] = "rolled_back"
    /\ \/ /\ job[w].restart
          /\ bundles' = WithoutBundle(job[w].tx)
          /\ pc' = [pc EXCEPT ![w] = "recovering"]
          /\ job' = [job EXCEPT ![w] = NoJob]
          /\ UNCHANGED lock
       \/ /\ ~job[w].restart
          /\ bundles' \in {bundles, WithoutBundle(job[w].tx)}
          /\ BackToIdle(w)
    /\ UNCHANGED <<state, approvals, journal, journalTmp, snapshot, answered,
                   crashes>>

\* "durable rollback failed; restart recovery required": the lock is released
\* with the transaction unterminated, and the worker goes on running.
RollbackFails(w) ==
    /\ RestoreMayFail
    /\ pc[w] \in Restoring
    /\ ~job[w].restart
    /\ BackToIdle(w)
    /\ UNCHANGED <<state, approvals, journal, journalTmp, bundles, snapshot,
                   answered, crashes>>

-----------------------------------------------------------------------------
(* Startup *)

\* Plausible bug: the V8 behaviour, startup recovery outside the lock.
Start_Unlocked(w) ==
    /\ Advance(w, "down", "recovering")
    /\ ~approvals.torn
    /\ lock' = w
    /\ journalTmp' = FALSE
    /\ UNCHANGED <<state, approvals, journal, bundles, job, snapshot, answered,
                   crashes>>

\* Plausible bug: the temporary journal entry of a crash is not removed.
Start_KeepsTemporary(w) ==
    /\ Advance(w, "down", "recovering")
    /\ lock = None
    /\ ~approvals.torn
    /\ lock' = w
    /\ UNCHANGED <<state, approvals, journal, journalTmp, bundles, job,
                   snapshot, answered, crashes>>

\* Startup takes the lock, removes temporary entries and rebuilds the approvals
\* from their ledger before it recovers anything.
Start(w) ==
    /\ Advance(w, "down", "recovering")
    /\ lock = None
    /\ ~approvals.torn
    /\ lock' = w
    /\ journalTmp' = FALSE
    /\ UNCHANGED <<state, approvals, journal, bundles, job, snapshot, answered,
                   crashes>>

\* A torn approval ledger makes the rebuild raise: the process stays down.
StartRaises(w) ==
    /\ pc[w] = "down"
    /\ lock = None
    /\ approvals.torn
    /\ journalTmp' = FALSE
    /\ UNCHANGED <<state, approvals, journal, bundles, lock, pc, job, snapshot,
                   answered, crashes>>

\* The transactions of the journal are recovered in the order they prepared.
RecoverUnterminated(w) ==
    /\ Advance(w, "recovering", "restoring")
    /\ UnterminatedPrepared # {}
    /\ LET e == PreparedEvent(OldestUnterminated)
       IN  job' = [job EXCEPT ![w] = [request |-> e.request, intent |-> e.intent,
                                      tx |-> e.tx, restart |-> TRUE]]
    /\ UNCHANGED <<state, approvals, journal, journalTmp, bundles, lock,
                   snapshot, answered, crashes>>

\* Plausible bug: startup ends without recovering what is unterminated.
CleanupOrphanBundles_NoRecovery(w) ==
    /\ Advance(w, "recovering", "verifying")
    /\ ~journalTmp
    /\ bundles' = Restrict(bundles, DOMAIN bundles \cap UnterminatedPrepared)
    /\ Release(w)
    /\ UNCHANGED <<state, approvals, journal, journalTmp, job, snapshot,
                   answered, crashes>>

\* V9's part of the startup ends by removing every bundle of no unterminated
\* transaction, and releases the lock.
CleanupOrphanBundles(w) ==
    /\ Advance(w, "recovering", "verifying")
    /\ ~journalTmp
    /\ UnterminatedPrepared = {}
    /\ bundles' = Restrict(bundles, DOMAIN bundles \cap UnterminatedPrepared)
    /\ Release(w)
    /\ UNCHANGED <<state, approvals, journal, journalTmp, job, snapshot,
                   answered, crashes>>

\* _verify_idempotency_state: an idempotency seal is bound to the commit seal.
SealsVerify ==
    \A r \in Request : state[r] # None /\ state[r].idempotency # 0
                        => state[r].idempotency = state[r].commit

\* V10 then checks the seals without the lock, beside whatever other
\* processes do.
VerifyIdempotencyState(w) ==
    /\ Advance(w, "verifying", "idle")
    /\ SealsVerify
    /\ UNCHANGED <<state, approvals, journal, journalTmp, bundles, lock, job,
                   snapshot, answered, crashes>>

\* A seal that names another transaction than the commit makes startup raise.
StartupRefused(w) ==
    /\ Advance(w, "verifying", "down")
    /\ ~SealsVerify
    /\ UNCHANGED <<state, approvals, journal, journalTmp, bundles, lock, job,
                   snapshot, answered, crashes>>

-----------------------------------------------------------------------------
(* The environment *)

\* Between a temporary file and its rename, a crash leaves the temporary.
PublishingEvent == {"bundled", "replayable", "restored"}

\* A worker in the middle of appending to the approval ledger.
AppendingApproval(w) ==
    TornAppends /\ pc[w] = "stored" /\ job[w].request \notin approvals.consumed

\* The process stops; the operating system releases its lock.
Crash(w) ==
    /\ crashes < MaxCrashes
    /\ pc[w] # "down"
    /\ \E left \in IF pc[w] \in PublishingEvent THEN BOOLEAN ELSE {FALSE} :
         journalTmp' = (journalTmp \/ left)
    /\ \E tears \in IF AppendingApproval(w) THEN BOOLEAN ELSE {FALSE} :
         approvals' = [approvals EXCEPT !.torn = @ \/ tears]
    /\ lock' = IF lock = w THEN None ELSE lock
    /\ pc' = [pc EXCEPT ![w] = "down"]
    /\ job' = [job EXCEPT ![w] = NoJob]
    /\ snapshot' = [snapshot EXCEPT ![w] = None]
    /\ crashes' = crashes + 1
    /\ UNCHANGED <<state, journal, bundles, answered>>

\* An operation that is not owner-reserved (create_lead, register_control, ...)
\* reads the whole state file without the lock ...
UnlockedRead(w) ==
    /\ UnlockedWrites
    /\ Advance(w, "idle", "writing")
    /\ snapshot' = [snapshot EXCEPT ![w] = state]
    /\ UNCHANGED <<state, approvals, journal, journalTmp, bundles, lock, job,
                   answered, crashes>>

\* ... and writes what it read back, with its own change to another collection.
UnlockedWrite(w) ==
    /\ Advance(w, "writing", "idle")
    /\ state' = snapshot[w]
    /\ snapshot' = [snapshot EXCEPT ![w] = None]
    /\ UNCHANGED <<approvals, journal, journalTmp, bundles, lock, job, answered,
                   crashes>>

-----------------------------------------------------------------------------
(* The system *)

\* An empty state directory that no process has opened yet.
Init ==
    /\ state = [r \in Request |-> None]
    /\ approvals = [consumed |-> {}, torn |-> FALSE]
    /\ journal = <<>>
    /\ journalTmp = FALSE
    /\ bundles = [t \in {} |-> None]
    /\ lock = None
    /\ pc = [w \in Worker |-> "down"]
    /\ job = [w \in Worker |-> NoJob]
    /\ snapshot = [w \in Worker |-> None]
    /\ answered = {}
    /\ crashes = 0

\* What a worker does once it runs a request or its startup.
Step(w) ==
    \/ PrepareRecoveryBundle(w)
    \/ PrepareAction(w)
    \/ AbandonBeforePrepare(w)
    \/ SubmitServiceRequest(w)
    \/ RecordApproval(w)
    \/ SealStateObject(w)
    \/ SealIdempotency(w)
    \/ CommitAction(w)
    \/ FinishAction(w)
    \/ Fail(w)
    \/ RestoreState(w)
    \/ RestoreApprovals(w)
    \/ AppendRolledBack(w)
    \/ FinishRollback(w)
    \/ RecoverUnterminated(w)
    \/ CleanupOrphanBundles(w)
    \/ VerifyIdempotencyState(w)
    \/ StartupRefused(w)
    \/ UnlockedWrite(w)

Next ==
    \E w \in Worker :
      \/ Step(w)
      \/ RollbackFails(w)
      \/ Start(w)
      \/ StartRaises(w)
      \/ Crash(w)
      \/ UnlockedRead(w)
      \/ \E r \in Request, i \in Intent : Replay(w, r, i) \/ BeginAction(w, r, i)

Spec == Init /\ [][Next]_vars

\* A running process does not stop between two steps unless it crashes, and a
\* process that is down is started again once the lock stays free.
Fairness ==
    \A w \in Worker : WF_vars(Step(w)) /\ WF_vars(Start(w))

FairSpec == Spec /\ Fairness

-----------------------------------------------------------------------------
(* Properties *)

\* Every variable has the type of the file or field it stands for.
TypeOK ==
    /\ state \in StateFile
    /\ approvals \in ApprovalLedger
    /\ journal \in Seq(Event)
    /\ Len(journal) <= 2 * MaxTransactions
    /\ journalTmp \in BOOLEAN
    /\ DOMAIN bundles \subseteq Transaction
    /\ \A t \in DOMAIN bundles : bundles[t] \in Bundle \cup {None}
    /\ lock \in Worker \cup {None}
    /\ pc \in [Worker -> Place]
    /\ job \in [Worker -> Job]
    /\ snapshot \in [Worker -> StateFile \cup {None}]
    /\ answered \subseteq [request : Request, intent : Intent, tx : Transaction]
    /\ crashes \in 0 .. MaxCrashes

\* No worker is inside the lock and no transaction waits for recovery.
Settled == lock = None /\ UnterminatedPrepared = {}

CommittedEvents == {e \in Range(journal) : e.event = "ACTION_COMMITTED"}

\* Atomicity across crashes (authority_action_crash_recovery.py,
\* process_crash_partial_state_visible): once nothing is running or waiting
\* for recovery, a request is stored exactly when a transaction of it
\* committed, sealed by that transaction, and its owner receipt is consumed
\* exactly then.
AllOrNothing ==
    Settled =>
      \A r \in Request :
        LET done == {e \in CommittedEvents : e.request = r}
        IN  /\ (state[r] # None) <=> (done # {})
            /\ (r \in approvals.consumed) <=> (done # {})
            /\ \A e \in done : state[r] = [intent |-> e.intent, commit |-> e.tx,
                                          idempotency |-> e.tx]

\* What V10 answers to a caller, first call or exact retry, is the record of
\* a committed transaction ("exact_retry_returns_committed_record"): no later
\* rollback can withdraw it.
AnswersAreCommitted ==
    \A a \in answered :
      \E e \in CommittedEvents :
        e.tx = a.tx /\ e.request = a.request /\ e.intent = a.intent

\* "An exact retry creates no new transaction": a request is committed once,
\* however often it is submitted and whatever crashed in between.
CommittedOnce ==
    \A d, e \in CommittedEvents : d.request = e.request => d.tx = e.tx

\* "new_actions_blocked_until_recovery": no action is prepared while a crashed
\* one waits for recovery, so at most one transaction is unterminated.
RecoveryBeforeNewActions == Cardinality(UnterminatedPrepared) <= 1

\* V9, "concurrent_startup_can_rollback_live_transaction" is False: while a
\* worker is inside a transaction its event stays unterminated and its bundle
\* complete, whatever other processes start meanwhile.
LiveTransactionUntouched ==
    \A w \in Worker :
      pc[w] \in Body =>
        /\ job[w].tx \in UnterminatedPrepared
        /\ job[w].tx \in DOMAIN bundles /\ bundles[job[w].tx] # None

\* Restart recovery never meets a missing bundle: each transaction without a
\* terminal event has its complete bundle on disk, at every crash point.
UnterminatedRecoverable ==
    \A t \in UnterminatedPrepared : t \in DOMAIN bundles /\ bundles[t] # None

\* The journal always passes _verify_transaction_ledger: a transaction is
\* prepared once, and terminated once and after it was prepared.
JournalVerifies ==
    \A k \in DOMAIN journal :
      LET earlier == {j \in 1 .. k - 1 : journal[j].tx = journal[k].tx}
      IN  IF journal[k].event = "ACTION_PREPARED"
          THEN earlier = {}
          ELSE \E j \in earlier : /\ earlier = {j}
                                  /\ journal[j].event = "ACTION_PREPARED"

\* Every prepared transaction ends, if every process that goes down is started
\* again: by its own commit or rollback, or by restart recovery.
PreparedTerminates ==
    \A t \in Transaction :
      t \in Prepared ~> t \in Committed \cup RolledBack

=============================================================================
