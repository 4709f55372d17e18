------------------------- MODULE AuthorityActions_proofs ------------------------
(***************************************************************************)
(* Proofs about AuthorityActions.  What the lock, the journal and the      *)
(* bundles promise is proved for any workers, crashes, failing rollbacks   *)
(* and operations outside the lock.  What a caller is promised is proved   *)
(* for one process whose rollbacks do not fail: with two processes, or     *)
(* with a failing rollback, it is false.                                   *)
(***************************************************************************)
EXTENDS AuthorityActions, SequenceTheorems, FiniteSetTheorems,
        WellFoundedInduction, TLAPS

-----------------------------------------------------------------------------
(* The inductive invariant of any number of processes *)

\* A worker in one of these places does not hold the lock.
Outside == {"down", "idle", "writing", "verifying"}

\* A worker in one of these places is on a transaction.
OnTransaction == {"bundling", "bundled", "committed", "rolled_back"} \cup Body \cup Restoring

TransactionJob ==
    [request : Request, intent : Intent, tx : Transaction, restart : BOOLEAN]

Complete(t) == t \in DOMAIN bundles /\ bundles[t] # None

\* What is true of one worker wherever it is.
WorkerOK(w) ==
    /\ pc[w] \notin Outside => lock = w
    /\ pc[w] = "writing" => snapshot[w] \in StateFile
    /\ pc[w] \in OnTransaction => job[w] \in TransactionJob
    /\ pc[w] \in {"bundling", "bundled"} =>
         /\ job[w].tx = Len(journal) + 1
         /\ job[w].tx \in DOMAIN bundles
         /\ Cardinality(Prepared) < MaxTransactions
    /\ pc[w] = "bundled" => bundles[job[w].tx] # None
    /\ pc[w] \in Body \cup Restoring => job[w].tx \in UnterminatedPrepared
    /\ pc[w] \in {"committed", "rolled_back"} => job[w].tx \notin UnterminatedPrepared

\* A transaction is numbered above the length the journal had.
Numbered == \A k \in DOMAIN journal : journal[k].tx <= k

\* Two events for each terminated transaction, one for each other.
Counted ==
    /\ Cardinality(Prepared) <= MaxTransactions
    /\ Len(journal) + Cardinality(UnterminatedPrepared) = 2 * Cardinality(Prepared)

\* The types without the bound on the journal, which follows.
Types ==
    /\ state \in StateFile
    /\ approvals \in ApprovalLedger
    /\ journal \in Seq(Event)
    /\ journalTmp \in BOOLEAN
    /\ DOMAIN bundles \subseteq Transaction
    /\ \A t \in DOMAIN bundles : bundles[t] \in Bundle \cup {None}
    /\ lock \in Worker \cup {None}
    /\ pc \in [Worker -> Place]
    /\ job \in [Worker -> Job]
    /\ snapshot \in [Worker -> StateFile \cup {None}]
    /\ answered \subseteq [request : Request, intent : Intent, tx : Transaction]
    /\ crashes \in 0 .. MaxCrashes

IInv ==
    /\ Types
    /\ \A w \in Worker : WorkerOK(w)
    /\ Numbered
    /\ Counted
    /\ JournalVerifies
    /\ UnterminatedRecoverable

-----------------------------------------------------------------------------
(* The inductive invariant of one process *)

\* One process at a time, whose rollbacks do not fail.
OneProcess == (\A v, w \in Worker : v = w) /\ ~RestoreMayFail

Done(r) == {e \in CommittedEvents : e.request = r}

\* The files show of a request what its committed transaction wrote, and
\* nothing when it has none.
CleanAt(s, consumed, r) ==
    /\ (s[r] # None) <=> (Done(r) # {})
    /\ (r \in consumed) <=> (Done(r) # {})
    /\ \A e \in Done(r) : s[r] = [intent |-> e.intent, commit |-> e.tx, idempotency |-> e.tx]

Clean(s, consumed) == \A r \in Request : CleanAt(s, consumed, r)

\* What the request of a running transaction has become so far.
ProgressOf(w) ==
    LET j == job[w]
        record(commit, idempotency) ==
          [intent |-> j.intent, commit |-> commit, idempotency |-> idempotency]
    IN  /\ Done(j.request) = {}
        /\ pc[w] = "prepared" => state[j.request] = None
        /\ pc[w] \in {"stored", "approved"} => state[j.request] = record(0, 0)
        /\ pc[w] = "sealed" => state[j.request] = record(j.tx, 0)
        /\ pc[w] = "replayable" => state[j.request] = record(j.tx, j.tx)
        /\ j.request \in approvals.consumed <=> pc[w] \in {"approved", "sealed", "replayable"}

\* What is true of the one worker wherever it is.
AloneOK(w) ==
    /\ pc[w] \in {"idle", "writing", "verifying", "bundling", "bundled"} =>
         UnterminatedPrepared = {}
    /\ pc[w] = "writing" => snapshot[w] = state
    /\ pc[w] \in {"bundling", "bundled"} => state[job[w].request] = None
    /\ pc[w] = "bundled" => bundles[job[w].tx] = CapturedFiles
    /\ pc[w] \in Body =>
         /\ ProgressOf(w)
         /\ \A r \in Request \ {job[w].request} : CleanAt(state, approvals.consumed, r)
    /\ pc[w] \in {"half_restored", "restored"} => state = bundles[job[w].tx].state
    /\ pc[w] = "restored" => approvals = bundles[job[w].tx].approvals
    /\ pc[w] = "committed" =>
         [event |-> "ACTION_COMMITTED", tx |-> job[w].tx, request |-> job[w].request,
          intent |-> job[w].intent] \in Range(journal)
    /\ pc[w] \in {"committed", "rolled_back"} => UnterminatedPrepared = {}

AtMostOne == \A t, u \in UnterminatedPrepared : t = u

BundlesClean ==
    \A t \in UnterminatedPrepared : Clean(bundles[t].state, bundles[t].approvals.consumed)

FilesClean == UnterminatedPrepared = {} => Clean(state, approvals.consumed)

AInv ==
    /\ IInv
    /\ \A w \in Worker : AloneOK(w)
    /\ AtMostOne
    /\ BundlesClean
    /\ FilesClean
    /\ CommittedOnce
    /\ AnswersAreCommitted

-----------------------------------------------------------------------------
(* The journal *)

LEMMA TransactionFacts ==
    ASSUME Types
    PROVE  /\ Prepared \subseteq Transaction /\ IsFiniteSet(Prepared)
           /\ UnterminatedPrepared \subseteq Prepared /\ IsFiniteSet(UnterminatedPrepared)
           /\ Cardinality(Prepared) \in Nat /\ Cardinality(UnterminatedPrepared) \in Nat
           /\ Transaction \subseteq Nat \ {0}
           /\ \A t \in Prepared :
                \E k \in DOMAIN journal : journal[k].event = "ACTION_PREPARED" /\ journal[k].tx = t
<1>1. Transaction \subseteq Nat \ {0} /\ IsFiniteSet(Transaction)
  <2>1. 1 \in Int /\ 2 * MaxTransactions \in Int
    BY BoundsAssumption
  <2>2. IsFiniteSet(1 .. 2 * MaxTransactions)
    BY <2>1, FS_Interval
  <2>3. QED
    BY <2>1, <2>2 DEF Transaction
<1>2. \A k \in DOMAIN journal : journal[k] \in Event
  BY DEF Types
<1>3. Prepared \subseteq Transaction
  BY <1>2 DEF Prepared, TransactionsWith, Range, Event
<1>4. \A t \in Prepared :
        \E k \in DOMAIN journal : journal[k].event = "ACTION_PREPARED" /\ journal[k].tx = t
  BY DEF Prepared, TransactionsWith, Range
<1>5. UnterminatedPrepared \subseteq Prepared
  BY DEF UnterminatedPrepared
<1>6. IsFiniteSet(Prepared) /\ IsFiniteSet(UnterminatedPrepared)
  BY <1>1, <1>3, <1>5, FS_Subset
<1>7. QED
  BY <1>1, <1>3, <1>4, <1>5, <1>6, FS_CardinalityType

\* What the journal says after one more event.
LEMMA AppendFacts ==
    ASSUME Types, NEW e \in Event, journal' = Append(journal, e)
    PROVE  /\ journal' \in Seq(Event)
           /\ Len(journal) \in Nat /\ Len(journal') = Len(journal) + 1
           /\ DOMAIN journal = 1 .. Len(journal) /\ DOMAIN journal' = 1 .. Len(journal) + 1
           /\ \A k \in 1 .. Len(journal) : journal'[k] = journal[k]
           /\ journal'[Len(journal) + 1] = e
           /\ Range(journal)' = Range(journal) \cup {e}
<1>1. journal \in Seq(Event)
  BY DEF Types
<1>2. /\ journal' \in Seq(Event)
      /\ Len(journal) \in Nat /\ Len(journal') = Len(journal) + 1
      /\ DOMAIN journal = 1 .. Len(journal) /\ DOMAIN journal' = 1 .. Len(journal) + 1
      /\ \A k \in 1 .. Len(journal) : journal'[k] = journal[k]
      /\ journal'[Len(journal) + 1] = e
  BY <1>1
<1>3. Range(journal)' = Range(journal) \cup {e}
  BY <1>2 DEF Range
<1>4. QED
  BY <1>2, <1>3

LEMMA AppendTransactions ==
    ASSUME Types, NEW e \in Event, journal' = Append(journal, e)
    PROVE  /\ Prepared' = Prepared \cup (IF e.event = "ACTION_PREPARED" THEN {e.tx} ELSE {})
           /\ Committed' = Committed \cup (IF e.event = "ACTION_COMMITTED" THEN {e.tx} ELSE {})
           /\ RolledBack' = RolledBack \cup (IF e.event = "ACTION_ROLLED_BACK" THEN {e.tx} ELSE {})
<1>1. ASSUME NEW kind
      PROVE  TransactionsWith({kind})'
               = TransactionsWith({kind}) \cup (IF e.event = kind THEN {e.tx} ELSE {})
  <2>1. Range(journal)' = Range(journal) \cup {e}
    BY AppendFacts
  <2>2. QED
    BY <2>1 DEF TransactionsWith
<1>2. QED
  BY <1>1 DEF Prepared, Committed, RolledBack

\* The events the journal had still verify.
LEMMA EarlierVerified ==
    ASSUME Types, JournalVerifies, NEW e \in Event, journal' = Append(journal, e),
           NEW k \in DOMAIN journal
    PROVE  LET earlier == {j \in 1 .. k - 1 : journal'[j].tx = journal'[k].tx}
           IN  IF journal'[k].event = "ACTION_PREPARED"
               THEN earlier = {}
               ELSE \E j \in earlier : /\ earlier = {j}
                                       /\ journal'[j].event = "ACTION_PREPARED"
<1> DEFINE earlier == {j \in 1 .. k - 1 : journal[j].tx = journal[k].tx}
<1>1. /\ k \in 1 .. Len(journal) /\ journal'[k] = journal[k]
      /\ \A j \in 1 .. k - 1 : journal'[j] = journal[j]
  BY AppendFacts
<1>2. {j \in 1 .. k - 1 : journal'[j].tx = journal'[k].tx} = earlier
  BY <1>1
<1>3. CASE journal[k].event = "ACTION_PREPARED"
  BY <1>1, <1>2, <1>3 DEF JournalVerifies
<1>4. CASE journal[k].event # "ACTION_PREPARED"
  <2>1. PICK j \in earlier : earlier = {j} /\ journal[j].event = "ACTION_PREPARED"
    BY <1>4 DEF JournalVerifies
  <2>2. journal'[j].event = "ACTION_PREPARED"
    BY <1>1, <2>1
  <2> HIDE DEF earlier
  <2>3. QED
    BY <1>1, <1>2, <1>4, <2>1, <2>2
<1>5. QED
  BY <1>3, <1>4

\* Preparing a transaction numbered above the journal.
LEMMA PrepareFacts ==
    ASSUME IInv, NEW e \in Event, journal' = Append(journal, e),
           e.event = "ACTION_PREPARED", e.tx = Len(journal) + 1,
           Cardinality(Prepared) < MaxTransactions
    PROVE  /\ UnterminatedPrepared' = UnterminatedPrepared \cup {e.tx}
           /\ Numbered' /\ Counted' /\ JournalVerifies'
<1>1. Types /\ Numbered /\ Counted /\ JournalVerifies
  BY DEF IInv
<1> USE <1>1
<1>2. \A k \in DOMAIN journal : journal[k].tx <= k /\ k <= Len(journal) /\ k \in Nat
                                /\ journal[k].tx \in Nat
  <2>1. \A k \in DOMAIN journal : journal[k] \in Event
    BY DEF Types
  <2>2. QED
    BY <2>1, AppendFacts, TransactionFacts DEF Numbered, Event
<1>3. \A k \in DOMAIN journal : journal[k].tx # e.tx
  BY <1>2, AppendFacts
<1>4. e.tx \notin Prepared /\ e.tx \notin Committed /\ e.tx \notin RolledBack
  BY <1>3 DEF Prepared, Committed, RolledBack, TransactionsWith, Range
<1>5. Prepared' = Prepared \cup {e.tx} /\ Committed' = Committed /\ RolledBack' = RolledBack
  BY AppendTransactions
<1>6. /\ UnterminatedPrepared' = UnterminatedPrepared \cup {e.tx}
      /\ e.tx \notin UnterminatedPrepared
  BY <1>4, <1>5 DEF UnterminatedPrepared
<1>7. Numbered'
  BY <1>2, AppendFacts DEF Numbered
<1>8. Counted'
  <2>1. /\ Cardinality(Prepared') = Cardinality(Prepared) + 1
        /\ Cardinality(UnterminatedPrepared') = Cardinality(UnterminatedPrepared) + 1
    BY <1>4, <1>5, <1>6, TransactionFacts, FS_AddElement
  <2>2. Cardinality(Prepared) \in Nat /\ Cardinality(UnterminatedPrepared) \in Nat
    BY TransactionFacts
  <2>3. QED
    BY <2>1, <2>2, AppendFacts, BoundsAssumption DEF Counted
<1>9. JournalVerifies'
  <2> SUFFICES ASSUME NEW k \in DOMAIN journal'
               PROVE  LET earlier == {j \in 1 .. k - 1 : journal'[j].tx = journal'[k].tx}
                      IN  IF journal'[k].event = "ACTION_PREPARED"
                          THEN earlier = {}
                          ELSE \E j \in earlier : /\ earlier = {j}
                                                  /\ journal'[j].event = "ACTION_PREPARED"
    BY DEF JournalVerifies
  <2>1. CASE k = Len(journal) + 1
    BY <1>3, <2>1, AppendFacts
  <2>2. CASE k # Len(journal) + 1
    <3>1. k \in DOMAIN journal
      BY <2>2, AppendFacts
    <3>2. QED
      BY <3>1, EarlierVerified, Zenon
  <2>3. QED
    BY <2>1, <2>2
<1>10. QED
  BY <1>6, <1>7, <1>8, <1>9

\* Terminating a transaction that was prepared and not terminated.
LEMMA TerminateFacts ==
    ASSUME IInv, NEW e \in Event, journal' = Append(journal, e),
           e.event # "ACTION_PREPARED", e.tx \in UnterminatedPrepared
    PROVE  /\ UnterminatedPrepared' = UnterminatedPrepared \ {e.tx}
           /\ Numbered' /\ Counted' /\ JournalVerifies'
<1>1. Types /\ Numbered /\ Counted /\ JournalVerifies
  BY DEF IInv
<1> USE <1>1
<1>2. \A k \in DOMAIN journal : journal[k] \in Event /\ k \in 1 .. Len(journal)
                                /\ journal[k].tx <= k /\ journal[k].tx \in Nat
  <2>1. \A k \in DOMAIN journal : journal[k] \in Event
    BY DEF Types
  <2>2. QED
    BY <2>1, AppendFacts, TransactionFacts DEF Numbered, Event
<1>3. e.event \in {"ACTION_COMMITTED", "ACTION_ROLLED_BACK"}
  BY DEF Event
<1>4. Prepared' = Prepared /\ (Committed \cup RolledBack)' = Committed \cup RolledBack \cup {e.tx}
  BY <1>3, AppendTransactions
<1>5. UnterminatedPrepared' = UnterminatedPrepared \ {e.tx}
  BY <1>4 DEF UnterminatedPrepared
<1>6. PICK p \in DOMAIN journal : journal[p].event = "ACTION_PREPARED" /\ journal[p].tx = e.tx
  BY TransactionFacts
<1>7. Numbered'
  BY <1>2, <1>6, AppendFacts DEF Numbered
<1>8. Counted'
  <2>1. Cardinality(UnterminatedPrepared') = Cardinality(UnterminatedPrepared) - 1
    BY <1>5, TransactionFacts, FS_RemoveElement
  <2>2. Cardinality(Prepared) \in Nat /\ Cardinality(UnterminatedPrepared) \in Nat
    BY TransactionFacts
  <2>3. QED
    BY <1>4, <2>1, <2>2, AppendFacts, BoundsAssumption DEF Counted
\* Its preparation is the only event of the transaction so far.
<1>9. \A j \in DOMAIN journal : journal[j].tx = e.tx => j = p
  <2> SUFFICES ASSUME NEW j \in DOMAIN journal, journal[j].tx = e.tx, j # p PROVE FALSE
    OBVIOUS
  <2>1. CASE j < p
    <3>1. {i \in 1 .. p - 1 : journal[i].tx = journal[p].tx} = {}
      BY <1>6 DEF JournalVerifies
    <3>2. j \in 1 .. p - 1
      BY <1>2, <2>1
    <3>3. QED
      BY <1>6, <3>1, <3>2
  <2>2. CASE p < j
    <3>1. p \in {i \in 1 .. j - 1 : journal[i].tx = journal[j].tx}
      BY <1>2, <1>6, <2>2
    <3>2. journal[j].event # "ACTION_PREPARED"
      BY <3>1 DEF JournalVerifies
    <3>3. e.tx \in Committed \cup RolledBack
      BY <1>2, <3>2 DEF Committed, RolledBack, TransactionsWith, Range, Event
    <3>4. QED
      BY <3>3 DEF UnterminatedPrepared
  <2>3. QED
    BY <1>2, <2>1, <2>2
<1>10. JournalVerifies'
  <2> SUFFICES ASSUME NEW k \in DOMAIN journal'
               PROVE  LET earlier == {j \in 1 .. k - 1 : journal'[j].tx = journal'[k].tx}
                      IN  IF journal'[k].event = "ACTION_PREPARED"
                          THEN earlier = {}
                          ELSE \E j \in earlier : /\ earlier = {j}
                                                  /\ journal'[j].event = "ACTION_PREPARED"
    BY DEF JournalVerifies
  <2>1. CASE k = Len(journal) + 1
    <3>1. {j \in 1 .. k - 1 : journal'[j].tx = journal'[k].tx} = {p}
      BY <1>6, <1>9, <2>1, AppendFacts
    <3>2. journal'[p].event = "ACTION_PREPARED" /\ journal'[k].event # "ACTION_PREPARED"
      BY <1>6, <2>1, AppendFacts
    <3>3. QED
      BY <3>1, <3>2
  <2>2. CASE k # Len(journal) + 1
    <3>1. k \in DOMAIN journal
      BY <2>2, AppendFacts
    <3>2. QED
      BY <3>1, EarlierVerified, Zenon
  <2>3. QED
    BY <2>1, <2>2
<1>11. QED
  BY <1>5, <1>7, <1>8, <1>10

LEMMA JournalKept ==
    ASSUME UNCHANGED journal
    PROVE  /\ UnterminatedPrepared' = UnterminatedPrepared /\ Prepared' = Prepared
           /\ Numbered => Numbered'
           /\ Counted => Counted'
           /\ JournalVerifies => JournalVerifies'
BY DEF UnterminatedPrepared, Prepared, Committed, RolledBack, TransactionsWith, Range,
       Numbered, Counted, JournalVerifies

-----------------------------------------------------------------------------
(* The types of what a worker reads and writes *)

LEMMA JobFacts ==
    ASSUME Types, NEW w \in Worker, WorkerOK(w), pc[w] \in OnTransaction
    PROVE  /\ job[w].request \in Request /\ job[w].intent \in Intent
           /\ job[w].tx \in Transaction /\ job[w].tx # 0
BY TransactionFacts DEF WorkerOK, TransactionJob

LEMMA EventType ==
    ASSUME Types, NEW w \in Worker, WorkerOK(w), pc[w] \in OnTransaction,
           NEW kind \in {"ACTION_PREPARED", "ACTION_COMMITTED", "ACTION_ROLLED_BACK"}
    PROVE  [event |-> kind, tx |-> job[w].tx, request |-> job[w].request,
            intent |-> job[w].intent] \in Event
BY JobFacts DEF Event

LEMMA PlaceNames ==
    /\ {"down", "idle", "writing", "recovering", "verifying"} \subseteq Place
    /\ OnTransaction \subseteq Place
    /\ OnTransaction \cap Outside = {} /\ "recovering" \notin Outside
    /\ Body \subseteq OnTransaction /\ Restoring \subseteq OnTransaction
    /\ {"bundling", "bundled", "committed", "rolled_back"} \subseteq OnTransaction
    /\ {"prepared", "stored", "approved", "sealed", "replayable"} \subseteq Body
    /\ {"restoring", "half_restored", "restored"} \subseteq Restoring
BY DEF Place, OnTransaction, Body, Restoring, Outside

\* The record a sealing write leaves.
LEMMA RecordFacts ==
    ASSUME NEW rec \in Record, NEW t \in Transaction
    PROVE  /\ [rec EXCEPT !.commit = t] \in Record
           /\ [rec EXCEPT !.commit = t].intent = rec.intent
           /\ [rec EXCEPT !.commit = t].commit = t
           /\ [rec EXCEPT !.commit = t].idempotency = rec.idempotency
           /\ [rec EXCEPT !.idempotency = t] \in Record
           /\ [rec EXCEPT !.idempotency = t].intent = rec.intent
           /\ [rec EXCEPT !.idempotency = t].commit = rec.commit
           /\ [rec EXCEPT !.idempotency = t].idempotency = t
<1>1. t \in Transaction \cup {0}
  OBVIOUS
<1>2. [rec EXCEPT !.commit = t] \in Record /\ [rec EXCEPT !.idempotency = t] \in Record
  BY <1>1, Zenon DEF Record
<1>3. QED
  BY <1>2 DEF Record

LEMMA NewRecord ==
    ASSUME NEW i \in Intent, NEW t \in Transaction \cup {0}, NEW u \in Transaction \cup {0}
    PROVE  [intent |-> i, commit |-> t, idempotency |-> u] \in Record
BY DEF Record

LEMMA ConsumedFacts ==
    ASSUME NEW ledger \in ApprovalLedger, NEW r \in Request
    PROVE  /\ [ledger EXCEPT !.consumed = @ \cup {r}] \in ApprovalLedger
           /\ [ledger EXCEPT !.consumed = @ \cup {r}].consumed = ledger.consumed \cup {r}
<1>1. ledger.consumed \cup {r} \in SUBSET Request
  BY DEF ApprovalLedger
<1>2. [ledger EXCEPT !.consumed = @ \cup {r}] \in ApprovalLedger
  BY <1>1, Zenon DEF ApprovalLedger
<1>3. QED
  BY <1>2 DEF ApprovalLedger

LEMMA TornFacts ==
    ASSUME NEW ledger \in ApprovalLedger, NEW tears \in BOOLEAN
    PROVE  /\ [ledger EXCEPT !.torn = @ \/ tears] \in ApprovalLedger
           /\ [ledger EXCEPT !.torn = @ \/ tears].consumed = ledger.consumed
<1>1. ledger.torn \in BOOLEAN /\ (ledger.torn \/ tears) \in BOOLEAN
  BY DEF ApprovalLedger
<1>2. [ledger EXCEPT !.torn = @ \/ tears] \in ApprovalLedger
  BY <1>1, Zenon DEF ApprovalLedger
<1>3. QED
  BY <1>2 DEF ApprovalLedger

LEMMA BundleFacts ==
    ASSUME Types
    PROVE  /\ CapturedFiles \in Bundle /\ CapturedFiles # None
           /\ CapturedFiles.state = state /\ CapturedFiles.approvals = approvals
           /\ \A t : Complete(t) => /\ bundles[t] \in Bundle
                                    /\ bundles[t].state \in StateFile
                                    /\ bundles[t].approvals \in ApprovalLedger
<1>1. CapturedFiles \in Bundle
  BY DEF CapturedFiles, Bundle, Types
<1>2. CapturedFiles # None
  BY <1>1, NoneAssumption
<1>3. CapturedFiles.state = state /\ CapturedFiles.approvals = approvals
  BY DEF CapturedFiles
<1>4. \A t : Complete(t) => bundles[t] \in Bundle
  BY DEF Complete, Types
<1>5. QED
  BY <1>1, <1>2, <1>3, <1>4 DEF Bundle

-----------------------------------------------------------------------------
(* A step of one worker and the others *)

\* A step leaves the other workers where they are and, when one of them holds
\* the lock, leaves it the lock, the journal and the bundles.
Frame(w) ==
    /\ \A v \in Worker \ {w} :
         pc'[v] = pc[v] /\ job'[v] = job[v] /\ snapshot'[v] = snapshot[v]
    /\ lock \notin {None, w} => UNCHANGED <<journal, bundles, lock>>

LEMMA OthersOK ==
    ASSUME IInv, NEW w \in Worker, Frame(w), NEW v \in Worker \ {w}
    PROVE  WorkerOK(v)'
<1>1. WorkerOK(v) /\ v # None
  BY NoneAssumption DEF IInv
<1>2. pc'[v] = pc[v] /\ job'[v] = job[v] /\ snapshot'[v] = snapshot[v]
  BY DEF Frame
<1>3. CASE pc[v] \in Outside
  BY <1>1, <1>2, <1>3 DEF WorkerOK, Outside, OnTransaction, Body, Restoring
<1>4. CASE pc[v] \notin Outside
  <2>1. lock = v /\ lock \notin {None, w}
    BY <1>1, <1>4 DEF WorkerOK
  <2>2. journal' = journal /\ bundles' = bundles /\ lock' = lock
    BY <2>1 DEF Frame
  <2>3. UnterminatedPrepared' = UnterminatedPrepared /\ Prepared' = Prepared
    BY <2>2, JournalKept
  <2>4. QED
    BY <1>1, <1>2, <2>2, <2>3 DEF WorkerOK
<1>5. QED
  BY <1>3, <1>4

\* What is left to show of a step: the types, the worker, its frame, and the
\* journal and the bundles when it changes them.
LEMMA StepSuffices ==
    ASSUME IInv, NEW w \in Worker, Types', WorkerOK(w)', Frame(w),
           \/ UNCHANGED journal
           \/ Numbered' /\ Counted' /\ JournalVerifies',
           \/ UNCHANGED <<journal, bundles>>
           \/ UnterminatedRecoverable'
    PROVE  IInv'
<1>1. \A v \in Worker : WorkerOK(v)'
  BY OthersOK
<1>2. Numbered' /\ Counted' /\ JournalVerifies'
  BY JournalKept DEF IInv
<1>3. UnterminatedRecoverable'
  BY JournalKept DEF IInv, UnterminatedRecoverable
<1>4. QED
  BY <1>1, <1>2, <1>3 DEF IInv

-----------------------------------------------------------------------------
(* The steps that take the lock or need none *)

\* The places and the work of a worker after a step that moves it.
LEMMA MoveFacts ==
    ASSUME Types, NEW w \in Worker, NEW place \in Place, NEW j \in Job
    PROVE  /\ [pc EXCEPT ![w] = place] \in [Worker -> Place]
           /\ [pc EXCEPT ![w] = place][w] = place
           /\ \A v \in Worker \ {w} : [pc EXCEPT ![w] = place][v] = pc[v]
           /\ [job EXCEPT ![w] = j] \in [Worker -> Job]
           /\ [job EXCEPT ![w] = j][w] = j
           /\ \A v \in Worker \ {w} : [job EXCEPT ![w] = j][v] = job[v]
BY DEF Types

LEMMA NoJobFacts == NoJob \in Job /\ TransactionJob \subseteq Job
BY DEF Job, TransactionJob

LEMMA ReplayStep ==
    ASSUME IInv, NEW w \in Worker, NEW r \in Request, NEW i \in Intent, Replay(w, r, i)
    PROVE  IInv'
<1>1. Types /\ WorkerOK(w)
  BY DEF IInv
<1>2. UNCHANGED <<state, approvals, journal, journalTmp, bundles, lock, pc, job, snapshot, crashes>>
  BY DEF Replay
<1>3. state[r].commit \in Transaction
  BY <1>1 DEF Replay, ExistingIdempotentResult, Sealed, Types, StateFile, Record
<1>4. answered' \subseteq [request : Request, intent : Intent, tx : Transaction]
  BY <1>1, <1>3 DEF Replay, Types
<1>5. Types'
  BY <1>1, <1>2, <1>4 DEF Types
<1>6. WorkerOK(w)' /\ Frame(w)
  BY <1>1, <1>2, JournalKept DEF WorkerOK, Frame
<1>7. QED
  BY <1>2, <1>5, <1>6, StepSuffices

LEMMA BeginStep ==
    ASSUME IInv, NEW w \in Worker, NEW r \in Request, NEW i \in Intent, BeginAction(w, r, i)
    PROVE  IInv'
<1> DEFINE t == NextTransactionId
           j == [request |-> r, intent |-> i, tx |-> t, restart |-> FALSE]
<1>1. Types /\ WorkerOK(w) /\ Counted
  BY DEF IInv
<1>2. /\ UNCHANGED <<state, approvals, journal, journalTmp, snapshot, answered, crashes>>
      /\ lock = None /\ lock' = w
      /\ pc' = [pc EXCEPT ![w] = "bundling"] /\ job' = [job EXCEPT ![w] = j]
      /\ bundles' = [u \in DOMAIN bundles \cup {t} |-> IF u = t THEN None ELSE bundles[u]]
      /\ t \notin DOMAIN bundles
      /\ Cardinality(Prepared) < MaxTransactions
  BY DEF BeginAction
<1>3. t = Len(journal) + 1 /\ t \in Transaction
  <2>1. /\ Len(journal) \in Nat
        /\ Cardinality(Prepared) \in Nat /\ Cardinality(UnterminatedPrepared) \in Nat
    BY <1>1, TransactionFacts DEF Types
  <2>2. Len(journal) + 1 <= 2 * MaxTransactions
    BY <1>1, <1>2, <2>1, BoundsAssumption DEF Counted
  <2>3. QED
    BY <2>1, <2>2, BoundsAssumption DEF NextTransactionId, Transaction
<1>4. j \in TransactionJob
  BY <1>3 DEF TransactionJob
<1>5. /\ pc' \in [Worker -> Place] /\ job' \in [Worker -> Job]
      /\ pc'[w] = "bundling" /\ job'[w] = j
      /\ \A v \in Worker \ {w} : pc'[v] = pc[v] /\ job'[v] = job[v]
  BY <1>1, <1>2, <1>4, MoveFacts, NoJobFacts, PlaceNames
<1>6. /\ DOMAIN bundles' = DOMAIN bundles \cup {t}
      /\ \A u \in DOMAIN bundles : bundles'[u] = bundles[u]
      /\ bundles'[t] = None
  BY <1>2
<1>7. Types'
  <2>1. /\ DOMAIN bundles' \subseteq Transaction
        /\ \A u \in DOMAIN bundles' : bundles'[u] \in Bundle \cup {None}
    BY <1>1, <1>3, <1>6 DEF Types
  <2>2. QED
    BY <1>1, <1>2, <1>5, <2>1 DEF Types
<1>8. WorkerOK(w)'
  BY <1>2, <1>3, <1>4, <1>5, <1>6, JournalKept
     DEF WorkerOK, Body, Restoring, OnTransaction
<1>9. Frame(w)
  BY <1>2, <1>5 DEF Frame
<1>10. UnterminatedRecoverable'
  BY <1>2, <1>6, JournalKept DEF IInv, UnterminatedRecoverable
<1>11. QED
  BY <1>2, <1>7, <1>8, <1>9, <1>10, StepSuffices

LEMMA StartStep ==
    ASSUME IInv, NEW w \in Worker, Start(w) \/ StartRaises(w) PROVE IInv'
<1>1. Types /\ WorkerOK(w)
  BY DEF IInv
<1>2. CASE Start(w)
  <2>1. /\ UNCHANGED <<state, approvals, journal, bundles, job, snapshot, answered, crashes>>
        /\ lock = None /\ lock' = w /\ journalTmp' = FALSE
        /\ pc' = [pc EXCEPT ![w] = "recovering"]
    BY <1>2 DEF Start, Advance
  <2>2. /\ pc' \in [Worker -> Place] /\ pc'[w] = "recovering"
        /\ \A v \in Worker \ {w} : pc'[v] = pc[v]
    BY <1>1, <2>1, MoveFacts, NoJobFacts, PlaceNames
  <2>3. Types'
    BY <1>1, <2>1, <2>2 DEF Types
  <2>4. WorkerOK(w)' /\ Frame(w)
    BY <2>1, <2>2 DEF WorkerOK, Frame, Outside, OnTransaction, Body, Restoring
  <2>5. QED
    BY <2>1, <2>3, <2>4, StepSuffices
<1>3. CASE StartRaises(w)
  <2>1. /\ UNCHANGED <<state, approvals, journal, bundles, lock, pc, job, snapshot,
                       answered, crashes>>
        /\ journalTmp' = FALSE
    BY <1>3 DEF StartRaises
  <2>2. Types'
    BY <1>1, <2>1 DEF Types
  <2>3. WorkerOK(w)' /\ Frame(w)
    BY <1>1, <2>1, JournalKept DEF WorkerOK, Frame
  <2>4. QED
    BY <2>1, <2>2, <2>3, StepSuffices
<1>4. QED
  BY <1>2, <1>3

LEMMA CrashStep ==
    ASSUME IInv, NEW w \in Worker, Crash(w) PROVE IInv'
<1>1. Types /\ WorkerOK(w)
  BY DEF IInv
<1>2. /\ UNCHANGED <<state, journal, bundles, answered>>
      /\ lock' = IF lock = w THEN None ELSE lock
      /\ pc' = [pc EXCEPT ![w] = "down"] /\ job' = [job EXCEPT ![w] = NoJob]
      /\ snapshot' = [snapshot EXCEPT ![w] = None]
      /\ crashes < MaxCrashes /\ crashes' = crashes + 1
  BY DEF Crash
<1>3. journalTmp' \in BOOLEAN
  BY <1>1 DEF Crash, Types
<1>4. approvals' \in ApprovalLedger
  <2>1. PICK tears \in BOOLEAN : approvals' = [approvals EXCEPT !.torn = @ \/ tears]
    BY DEF Crash
  <2>2. QED
    BY <1>1, <2>1, TornFacts DEF Types
<1>5. /\ pc' \in [Worker -> Place] /\ job' \in [Worker -> Job] /\ pc'[w] = "down"
      /\ \A v \in Worker \ {w} : pc'[v] = pc[v] /\ job'[v] = job[v]
  BY <1>1, <1>2, MoveFacts, NoJobFacts, PlaceNames
<1>6. Types'
  BY <1>1, <1>2, <1>3, <1>4, <1>5, BoundsAssumption DEF Types
<1>7. WorkerOK(w)'
  BY <1>5 DEF WorkerOK, Outside, OnTransaction, Body, Restoring
<1>8. Frame(w)
  BY <1>1, <1>2, <1>5 DEF Frame, Types
<1>9. QED
  BY <1>2, <1>6, <1>7, <1>8, StepSuffices

LEMMA UnlockedStep ==
    ASSUME IInv, NEW w \in Worker, UnlockedRead(w) \/ UnlockedWrite(w) PROVE IInv'
<1>1. Types /\ WorkerOK(w)
  BY DEF IInv
<1>2. CASE UnlockedRead(w)
  <2>1. /\ UNCHANGED <<state, approvals, journal, journalTmp, bundles, lock, job, answered, crashes>>
        /\ pc' = [pc EXCEPT ![w] = "writing"] /\ snapshot' = [snapshot EXCEPT ![w] = state]
    BY <1>2 DEF UnlockedRead, Advance
  <2>2. /\ pc' \in [Worker -> Place] /\ pc'[w] = "writing"
        /\ \A v \in Worker \ {w} : pc'[v] = pc[v]
    BY <1>1, <2>1, MoveFacts, NoJobFacts, PlaceNames
  <2>3. Types' /\ snapshot'[w] \in StateFile
    BY <1>1, <2>1, <2>2 DEF Types
  <2>4. WorkerOK(w)' /\ Frame(w)
    BY <1>1, <2>1, <2>2, <2>3 DEF Types, WorkerOK, Frame, Outside, OnTransaction, Body, Restoring
  <2>5. QED
    BY <2>1, <2>3, <2>4, StepSuffices
<1>3. CASE UnlockedWrite(w)
  <2>1. /\ UNCHANGED <<approvals, journal, journalTmp, bundles, lock, job, answered, crashes>>
        /\ pc[w] = "writing" /\ pc' = [pc EXCEPT ![w] = "idle"]
        /\ state' = snapshot[w] /\ snapshot' = [snapshot EXCEPT ![w] = None]
    BY <1>3 DEF UnlockedWrite, Advance
  <2>2. /\ pc' \in [Worker -> Place] /\ pc'[w] = "idle"
        /\ \A v \in Worker \ {w} : pc'[v] = pc[v]
    BY <1>1, <2>1, MoveFacts, NoJobFacts, PlaceNames
  <2>3. state' \in StateFile
    BY <1>1, <2>1 DEF WorkerOK
  <2>4. Types'
    BY <1>1, <2>1, <2>2, <2>3 DEF Types
  <2>5. WorkerOK(w)' /\ Frame(w)
    BY <1>1, <2>1, <2>2 DEF Types, WorkerOK, Frame, Outside, OnTransaction, Body, Restoring
  <2>6. QED
    BY <2>1, <2>4, <2>5, StepSuffices
<1>4. QED
  BY <1>2, <1>3

-----------------------------------------------------------------------------
(* The steps of the worker that holds the lock *)

\* A worker that leaves the lock: it is idle or down, without a job.
LEMMA ReleaseFacts ==
    ASSUME IInv, NEW w \in Worker, pc[w] \notin Outside,
           NEW place \in {"idle", "verifying"}, NEW work \in {job, [job EXCEPT ![w] = NoJob]},
           lock' = None, pc' = [pc EXCEPT ![w] = place], job' = work, UNCHANGED snapshot
    PROVE  /\ lock' \in Worker \cup {None}
           /\ pc' \in [Worker -> Place] /\ job' \in [Worker -> Job]
           /\ WorkerOK(w)' /\ Frame(w)
<1>1. Types /\ WorkerOK(w) /\ lock = w
  BY DEF IInv, WorkerOK
<1>2. /\ pc' \in [Worker -> Place] /\ pc'[w] = place
      /\ \A v \in Worker \ {w} : pc'[v] = pc[v] /\ job'[v] = job[v]
      /\ job' \in [Worker -> Job]
  BY <1>1, MoveFacts, NoJobFacts, PlaceNames DEF Types
<1>3. WorkerOK(w)'
  BY <1>2 DEF WorkerOK, Outside, OnTransaction, Body, Restoring
<1>4. Frame(w)
  BY <1>1, <1>2 DEF Frame
<1>5. QED
  BY <1>2, <1>3, <1>4

\* A step inside a prepared transaction that writes one of the files.
LEMMA InsideStep ==
    ASSUME IInv, NEW w \in Worker, pc[w] \in Body \cup Restoring,
           NEW place \in Body \cup Restoring, pc' = [pc EXCEPT ![w] = place],
           state' \in StateFile, approvals' \in ApprovalLedger,
           UNCHANGED <<journal, journalTmp, bundles, lock, job, snapshot, answered, crashes>>
    PROVE  IInv'
<1>1. Types /\ WorkerOK(w)
  BY DEF IInv
<1>2. /\ pc' \in [Worker -> Place] /\ pc'[w] = place
      /\ \A v \in Worker \ {w} : pc'[v] = pc[v]
  BY <1>1, MoveFacts, NoJobFacts, PlaceNames
<1>3. Types'
  BY <1>1, <1>2 DEF Types
<1>4. WorkerOK(w)'
  <2>1. lock = w /\ job[w] \in TransactionJob /\ job[w].tx \in UnterminatedPrepared
    BY <1>1 DEF WorkerOK, Outside, OnTransaction, Body, Restoring
  <2>2. QED
    BY <1>2, <2>1, JournalKept DEF WorkerOK, Outside, OnTransaction, Body, Restoring
<1>5. Frame(w)
  BY <1>1, <1>2 DEF Frame, WorkerOK, Outside, Body, Restoring
<1>6. QED
  BY <1>3, <1>4, <1>5, StepSuffices

LEMMA SubmitStep == ASSUME IInv, NEW w \in Worker, SubmitServiceRequest(w) PROVE IInv'
<1>1. Types /\ WorkerOK(w) /\ pc[w] = "prepared"
  BY DEF IInv, SubmitServiceRequest, Advance
<1>2. job[w].request \in Request /\ job[w].intent \in Intent
  BY <1>1, JobFacts, PlaceNames
<1>3. [intent |-> job[w].intent, commit |-> 0, idempotency |-> 0] \in Record
  BY <1>2, NewRecord
<1>4. state' \in StateFile
  BY <1>1, <1>2, <1>3 DEF SubmitServiceRequest, StateFile, Types
<1>5. QED
  BY <1>1, <1>4, InsideStep DEF SubmitServiceRequest, Advance, Types, Body

LEMMA ApproveStep == ASSUME IInv, NEW w \in Worker, RecordApproval(w) PROVE IInv'
<1>1. Types /\ WorkerOK(w) /\ pc[w] = "stored"
  BY DEF IInv, RecordApproval, Advance
<1>2. job[w].request \in Request
  BY <1>1, JobFacts, PlaceNames
<1>3. approvals' \in ApprovalLedger
  BY <1>1, <1>2, ConsumedFacts DEF RecordApproval, Types
<1>4. QED
  BY <1>1, <1>3, InsideStep DEF RecordApproval, Advance, Types, Body

LEMMA SealStep ==
    ASSUME IInv, NEW w \in Worker, SealStateObject(w) \/ SealIdempotency(w) PROVE IInv'
<1>1. Types /\ WorkerOK(w) /\ pc[w] \in {"approved", "sealed"}
  BY DEF IInv, SealStateObject, SealIdempotency, Advance
<1>2. job[w].request \in Request /\ job[w].tx \in Transaction
  BY <1>1, JobFacts, PlaceNames
<1>3. state[job[w].request] \in Record
  BY <1>1, <1>2 DEF SealStateObject, SealIdempotency, Types, StateFile
<1>4. \/ state' = [state EXCEPT ![job[w].request] =
                     [state[job[w].request] EXCEPT !.commit = job[w].tx]]
      \/ state' = [state EXCEPT ![job[w].request] =
                     [state[job[w].request] EXCEPT !.idempotency = job[w].tx]]
  BY DEF SealStateObject, SealIdempotency
<1>5. state' \in StateFile
  BY <1>1, <1>2, <1>3, <1>4, RecordFacts DEF StateFile, Types
<1>6. QED
  BY <1>1, <1>5, InsideStep DEF SealStateObject, SealIdempotency, Advance, Types, Body

LEMMA RollbackStep ==
    ASSUME IInv, NEW w \in Worker, Fail(w) \/ RestoreState(w) \/ RestoreApprovals(w)
    PROVE  IInv'
<1>1. Types /\ WorkerOK(w)
  BY DEF IInv
<1>2. CASE Fail(w)
  BY <1>1, <1>2, InsideStep DEF Fail, Types, Restoring
<1>3. CASE RestoreState(w) \/ RestoreApprovals(w)
  <2>1. pc[w] \in Restoring
    BY <1>3 DEF RestoreState, RestoreApprovals, Advance, Restoring
  <2>2. job[w].tx \in UnterminatedPrepared
    BY <1>1, <2>1 DEF WorkerOK
  <2>3. Complete(job[w].tx)
    BY <2>2 DEF Complete, IInv, UnterminatedRecoverable
  <2>4. bundles[job[w].tx].state \in StateFile /\ bundles[job[w].tx].approvals \in ApprovalLedger
    BY <1>1, <2>3, BundleFacts
  <2>5. QED
    BY <1>1, <1>3, <2>1, <2>4, InsideStep
       DEF RestoreState, RestoreApprovals, Advance, Types, Restoring
<1>4. QED
  BY <1>2, <1>3

LEMMA BundleStep == ASSUME IInv, NEW w \in Worker, PrepareRecoveryBundle(w) PROVE IInv'
<1> DEFINE t == job[w].tx
<1>1. /\ Types /\ WorkerOK(w) /\ pc[w] = "bundling" /\ lock = w
      /\ t = Len(journal) + 1 /\ t \in DOMAIN bundles /\ Cardinality(Prepared) < MaxTransactions
      /\ job[w] \in TransactionJob
  BY DEF IInv, PrepareRecoveryBundle, Advance, WorkerOK, Outside, OnTransaction
<1>2. /\ UNCHANGED <<state, approvals, journal, journalTmp, lock, job, snapshot, answered, crashes>>
      /\ pc' = [pc EXCEPT ![w] = "bundled"]
      /\ bundles' = [bundles EXCEPT ![t] = CapturedFiles]
  BY DEF PrepareRecoveryBundle, Advance
<1>3. /\ pc' \in [Worker -> Place] /\ pc'[w] = "bundled"
      /\ \A v \in Worker \ {w} : pc'[v] = pc[v]
  BY <1>1, <1>2, MoveFacts, NoJobFacts, PlaceNames
<1>4. /\ DOMAIN bundles' = DOMAIN bundles
      /\ \A u \in DOMAIN bundles : bundles'[u] = IF u = t THEN CapturedFiles ELSE bundles[u]
  BY <1>2
<1>5. CapturedFiles \in Bundle /\ CapturedFiles # None
  BY <1>1, BundleFacts
<1>6. Types'
  BY <1>1, <1>2, <1>3, <1>4, <1>5 DEF Types
<1>7. WorkerOK(w)' /\ Frame(w)
  BY <1>1, <1>2, <1>3, <1>4, <1>5, JournalKept
     DEF WorkerOK, Frame, OnTransaction, Body, Restoring
<1>8. UnterminatedRecoverable'
  BY <1>2, <1>4, <1>5, JournalKept DEF IInv, UnterminatedRecoverable
<1>9. QED
  BY <1>2, <1>6, <1>7, <1>8, StepSuffices

LEMMA PrepareStep == ASSUME IInv, NEW w \in Worker, PrepareAction(w) PROVE IInv'
<1> DEFINE t == job[w].tx
           e == [event |-> "ACTION_PREPARED", tx |-> t, request |-> job[w].request,
                 intent |-> job[w].intent]
<1>1. /\ Types /\ WorkerOK(w) /\ pc[w] = "bundled" /\ lock = w
      /\ t = Len(journal) + 1 /\ Complete(t) /\ Cardinality(Prepared) < MaxTransactions
      /\ job[w] \in TransactionJob
  BY DEF IInv, PrepareAction, Advance, WorkerOK, Outside, OnTransaction, Complete
<1>2. /\ UNCHANGED <<state, approvals, journalTmp, bundles, lock, job, snapshot, answered, crashes>>
      /\ pc' = [pc EXCEPT ![w] = "prepared"]
      /\ journal' = Append(journal, e)
  BY DEF PrepareAction, Advance, AppendTransactionEvent
<1>3. e \in Event /\ e.event = "ACTION_PREPARED" /\ e.tx = t
  BY <1>1, EventType, PlaceNames
<1>4. /\ pc' \in [Worker -> Place] /\ pc'[w] = "prepared"
      /\ \A v \in Worker \ {w} : pc'[v] = pc[v]
  BY <1>1, <1>2, MoveFacts, NoJobFacts, PlaceNames
<1> HIDE DEF e
<1>5. /\ UnterminatedPrepared' = UnterminatedPrepared \cup {t}
      /\ Numbered' /\ Counted' /\ JournalVerifies'
  BY <1>1, <1>2, <1>3, PrepareFacts
<1>6. journal' \in Seq(Event)
  BY <1>1, <1>2, <1>3, AppendFacts
<1>7. Types'
  BY <1>1, <1>2, <1>4, <1>6 DEF Types
<1>8. WorkerOK(w)' /\ Frame(w)
  BY <1>1, <1>2, <1>4, <1>5 DEF WorkerOK, Frame, OnTransaction, Body, Restoring
<1>9. UnterminatedRecoverable'
  BY <1>1, <1>2, <1>5 DEF IInv, UnterminatedRecoverable, Complete
<1>10. QED
  BY <1>5, <1>7, <1>8, <1>9, StepSuffices

\* A terminal event: a commit, or the end of a rollback.
LEMMA TerminateStep ==
    ASSUME IInv, NEW w \in Worker, CommitAction(w) \/ AppendRolledBack(w) PROVE IInv'
<1> DEFINE t == job[w].tx
           Terminal(kind) == [event |-> kind, tx |-> t, request |-> job[w].request,
                              intent |-> job[w].intent]
<1>1. /\ Types /\ WorkerOK(w) /\ pc[w] \in {"replayable", "restored"} /\ lock = w
      /\ t \in UnterminatedPrepared /\ job[w] \in TransactionJob
  BY DEF IInv, CommitAction, AppendRolledBack, Advance, WorkerOK, Outside, OnTransaction,
         Body, Restoring
<1>2. UNCHANGED <<state, approvals, journalTmp, bundles, lock, job, snapshot, answered, crashes>>
  BY DEF CommitAction, AppendRolledBack
<1>3. PICK kind \in {"ACTION_COMMITTED", "ACTION_ROLLED_BACK"},
           place \in {"committed", "rolled_back"} :
        journal' = Append(journal, Terminal(kind)) /\ pc' = [pc EXCEPT ![w] = place]
  BY DEF CommitAction, AppendRolledBack, Advance, AppendTransactionEvent
<1> DEFINE e == Terminal(kind)
<1>4. e \in Event /\ e.event # "ACTION_PREPARED" /\ e.tx = t
  BY <1>1, EventType, PlaceNames
<1>5. /\ pc' \in [Worker -> Place] /\ pc'[w] = place
      /\ \A v \in Worker \ {w} : pc'[v] = pc[v]
  BY <1>1, <1>3, MoveFacts, NoJobFacts, PlaceNames
<1>6. journal' = Append(journal, e)
  BY <1>3
<1> HIDE DEF e
<1>7. /\ UnterminatedPrepared' = UnterminatedPrepared \ {t}
      /\ Numbered' /\ Counted' /\ JournalVerifies'
  BY <1>1, <1>4, <1>6, TerminateFacts
<1>8. journal' \in Seq(Event)
  BY <1>1, <1>4, <1>6, AppendFacts
<1>9. Types'
  BY <1>1, <1>2, <1>5, <1>8 DEF Types
<1>10. WorkerOK(w)' /\ Frame(w)
  BY <1>1, <1>2, <1>5, <1>7 DEF WorkerOK, Frame, OnTransaction, Body, Restoring
<1>11. UnterminatedRecoverable'
  BY <1>2, <1>7 DEF IInv, UnterminatedRecoverable
<1>12. QED
  BY <1>7, <1>9, <1>10, <1>11, StepSuffices

\* The steps that only give up the lock.
LEMMA AbandonStep ==
    ASSUME IInv, NEW w \in Worker, AbandonBeforePrepare(w) \/ RollbackFails(w) PROVE IInv'
<1>1. Types /\ pc[w] \notin Outside
  BY PlaceNames DEF IInv, AbandonBeforePrepare, RollbackFails
<1>2. /\ UNCHANGED <<state, approvals, journal, journalTmp, bundles, snapshot, answered, crashes>>
      /\ lock' = None /\ pc' = [pc EXCEPT ![w] = "idle"] /\ job' = [job EXCEPT ![w] = NoJob]
  BY DEF AbandonBeforePrepare, RollbackFails, BackToIdle, Release
<1>3. /\ lock' \in Worker \cup {None}
      /\ pc' \in [Worker -> Place] /\ job' \in [Worker -> Job]
      /\ WorkerOK(w)' /\ Frame(w)
  BY <1>1, <1>2, ReleaseFacts
<1>4. Types'
  BY <1>1, <1>2, <1>3 DEF Types
<1>5. QED
  BY <1>2, <1>3, <1>4, StepSuffices

\* A bundle is only removed when its transaction is terminated.
LEMMA RemovalFacts ==
    ASSUME IInv, NEW t, t \notin UnterminatedPrepared, UNCHANGED journal,
           bundles' \in {bundles, WithoutBundle(t)}
    PROVE  /\ DOMAIN bundles' \subseteq Transaction
           /\ \A u \in DOMAIN bundles' : bundles'[u] \in Bundle \cup {None}
           /\ UnterminatedRecoverable'
<1>1. Types
  BY DEF IInv
<1>2. \A u \in DOMAIN bundles' : u \in DOMAIN bundles /\ bundles'[u] = bundles[u]
  BY DEF WithoutBundle, Restrict
<1>3. \A u \in DOMAIN bundles \ {t} : u \in DOMAIN bundles' /\ bundles'[u] = bundles[u]
  BY DEF WithoutBundle, Restrict
<1>4. UnterminatedRecoverable'
  BY <1>3, JournalKept DEF IInv, UnterminatedRecoverable
<1>5. QED
  BY <1>1, <1>2, <1>4 DEF Types

LEMMA OrphansFacts ==
    ASSUME IInv, UNCHANGED journal,
           bundles' = Restrict(bundles, DOMAIN bundles \cap UnterminatedPrepared)
    PROVE  /\ DOMAIN bundles' \subseteq Transaction
           /\ \A u \in DOMAIN bundles' : bundles'[u] \in Bundle \cup {None}
           /\ UnterminatedRecoverable'
<1>1. Types
  BY DEF IInv
<1>2. /\ DOMAIN bundles' = DOMAIN bundles \cap UnterminatedPrepared
      /\ \A u \in DOMAIN bundles' : bundles'[u] = bundles[u]
  BY DEF Restrict
<1>3. UnterminatedRecoverable'
  BY <1>2, JournalKept DEF IInv, UnterminatedRecoverable
<1>4. QED
  BY <1>1, <1>2, <1>3 DEF Types

LEMMA FinishStep == ASSUME IInv, NEW w \in Worker, FinishAction(w) PROVE IInv'
<1>1. /\ Types /\ WorkerOK(w) /\ pc[w] = "committed" /\ pc[w] \notin Outside
      /\ job[w].tx \notin UnterminatedPrepared
  BY PlaceNames DEF IInv, FinishAction, WorkerOK
<1>2. /\ UNCHANGED <<state, approvals, journal, journalTmp, snapshot, crashes>>
      /\ lock' = None /\ pc' = [pc EXCEPT ![w] = "idle"] /\ job' = [job EXCEPT ![w] = NoJob]
      /\ bundles' \in {bundles, WithoutBundle(job[w].tx)}
      /\ answered' = answered \cup {[request |-> job[w].request, intent |-> job[w].intent,
                                     tx |-> job[w].tx]}
  BY DEF FinishAction, BackToIdle, Release
<1>3. /\ lock' \in Worker \cup {None}
      /\ pc' \in [Worker -> Place] /\ job' \in [Worker -> Job]
      /\ WorkerOK(w)' /\ Frame(w)
  BY <1>1, <1>2, ReleaseFacts
<1>4. /\ DOMAIN bundles' \subseteq Transaction
      /\ \A u \in DOMAIN bundles' : bundles'[u] \in Bundle \cup {None}
      /\ UnterminatedRecoverable'
  BY <1>1, <1>2, RemovalFacts
<1>5. answered' \subseteq [request : Request, intent : Intent, tx : Transaction]
  <2>1. job[w].request \in Request /\ job[w].intent \in Intent /\ job[w].tx \in Transaction
    BY <1>1, JobFacts, PlaceNames
  <2>2. QED
    BY <1>1, <1>2, <2>1 DEF Types
<1>6. Types'
  BY <1>1, <1>2, <1>3, <1>4, <1>5 DEF Types
<1>7. QED
  BY <1>2, <1>3, <1>4, <1>6, StepSuffices

LEMMA FinishRollbackStep == ASSUME IInv, NEW w \in Worker, FinishRollback(w) PROVE IInv'
<1>1. /\ Types /\ WorkerOK(w) /\ pc[w] = "rolled_back" /\ pc[w] \notin Outside
      /\ job[w].tx \notin UnterminatedPrepared /\ lock = w
  BY PlaceNames DEF IInv, FinishRollback, WorkerOK
<1>2. /\ UNCHANGED <<state, approvals, journal, journalTmp, snapshot, answered, crashes>>
      /\ bundles' \in {bundles, WithoutBundle(job[w].tx)}
      /\ job' = [job EXCEPT ![w] = NoJob]
      /\ \/ lock' = lock /\ pc' = [pc EXCEPT ![w] = "recovering"]
         \/ lock' = None /\ pc' = [pc EXCEPT ![w] = "idle"]
  BY DEF FinishRollback, BackToIdle, Release
<1>3. /\ lock' \in Worker \cup {None}
      /\ pc' \in [Worker -> Place] /\ job' \in [Worker -> Job]
      /\ WorkerOK(w)' /\ Frame(w)
  <2>1. CASE lock' = None /\ pc' = [pc EXCEPT ![w] = "idle"]
    BY <1>1, <1>2, <2>1, ReleaseFacts
  <2>2. CASE lock' = lock /\ pc' = [pc EXCEPT ![w] = "recovering"]
    <3>1. /\ pc' \in [Worker -> Place] /\ job' \in [Worker -> Job] /\ pc'[w] = "recovering"
          /\ \A v \in Worker \ {w} : pc'[v] = pc[v] /\ job'[v] = job[v]
      BY <1>1, <1>2, <2>2, MoveFacts, NoJobFacts, PlaceNames
    <3>2. WorkerOK(w)' /\ Frame(w)
      BY <1>1, <1>2, <2>2, <3>1 DEF WorkerOK, Frame, OnTransaction, Body, Restoring
    <3>3. QED
      BY <1>1, <2>2, <3>1, <3>2
  <2>3. QED
    BY <1>2, <2>1, <2>2
<1>4. /\ DOMAIN bundles' \subseteq Transaction
      /\ \A u \in DOMAIN bundles' : bundles'[u] \in Bundle \cup {None}
      /\ UnterminatedRecoverable'
  BY <1>1, <1>2, RemovalFacts
<1>5. Types'
  BY <1>1, <1>2, <1>3, <1>4 DEF Types
<1>6. QED
  BY <1>2, <1>3, <1>4, <1>5, StepSuffices

\* V9's part of the startup ends.
LEMMA CleanupStep == ASSUME IInv, NEW w \in Worker, CleanupOrphanBundles(w) PROVE IInv'
<1>1. Types /\ pc[w] \notin Outside
  BY PlaceNames DEF IInv, CleanupOrphanBundles, Advance
<1>2. /\ UNCHANGED <<state, approvals, journal, journalTmp, job, snapshot, answered, crashes>>
      /\ bundles' = Restrict(bundles, DOMAIN bundles \cap UnterminatedPrepared)
      /\ lock' = None /\ pc' = [pc EXCEPT ![w] = "verifying"]
  BY DEF CleanupOrphanBundles, Release, Advance
<1>3. /\ lock' \in Worker \cup {None}
      /\ pc' \in [Worker -> Place] /\ job' \in [Worker -> Job]
      /\ WorkerOK(w)' /\ Frame(w)
  BY <1>1, <1>2, ReleaseFacts
<1>4. /\ DOMAIN bundles' \subseteq Transaction
      /\ \A u \in DOMAIN bundles' : bundles'[u] \in Bundle \cup {None}
      /\ UnterminatedRecoverable'
  BY <1>2, OrphansFacts
<1>5. Types'
  BY <1>1, <1>2, <1>3, <1>4 DEF Types
<1>6. QED
  BY <1>2, <1>3, <1>4, <1>5, StepSuffices

\* The seals verify, or the startup is refused.
LEMMA VerifyStep ==
    ASSUME IInv, NEW w \in Worker, VerifyIdempotencyState(w) \/ StartupRefused(w) PROVE IInv'
<1>1. Types /\ WorkerOK(w)
  BY DEF IInv
<1>2. PICK place \in {"idle", "down"} : pc' = [pc EXCEPT ![w] = place]
  BY DEF VerifyIdempotencyState, StartupRefused, Advance
<1>3. UNCHANGED <<state, approvals, journal, journalTmp, bundles, lock, job, snapshot,
                  answered, crashes>>
  BY DEF VerifyIdempotencyState, StartupRefused
<1>4. /\ pc' \in [Worker -> Place] /\ pc'[w] \in Outside \ {"writing"}
      /\ \A v \in Worker \ {w} : pc'[v] = pc[v]
  BY <1>1, <1>2, MoveFacts, NoJobFacts, PlaceNames DEF Outside
<1>5. Types'
  BY <1>1, <1>3, <1>4 DEF Types
<1>6. WorkerOK(w)' /\ Frame(w)
  BY <1>3, <1>4 DEF WorkerOK, Frame, Outside, OnTransaction, Body, Restoring
<1>7. QED
  BY <1>3, <1>5, <1>6, StepSuffices

\* Restart recovery takes a transaction that is prepared and not terminated.
LEMMA RecoveredTransaction ==
    ASSUME Types, UnterminatedPrepared # {}
    PROVE  /\ OldestUnterminated \in UnterminatedPrepared
           /\ PreparedEvent(OldestUnterminated) \in Event
           /\ PreparedEvent(OldestUnterminated).tx = OldestUnterminated
<1>1. UnterminatedPrepared \subseteq Nat
  BY TransactionFacts
<1>2. PICK t \in UnterminatedPrepared :
        \A u \in UnterminatedPrepared : <<u, t>> \notin OpToRel(<, Nat)
  BY <1>1, NatLessThanWellFounded, WFMin
<1>3. ASSUME NEW u \in UnterminatedPrepared PROVE t <= u
  <2>1. u \in Nat /\ t \in Nat
    BY <1>1
  <2>2. <<u, t>> \notin {ss \in Nat \X Nat : ss[1] < ss[2]}
    BY <1>2, Zenon DEF OpToRel
  <2>3. ~(u < t)
    BY <2>1, <2>2
  <2>4. QED
    BY <2>1, <2>3
<1>4. OldestUnterminated \in UnterminatedPrepared
  BY <1>3 DEF OldestUnterminated
<1>5. \E e \in Range(journal) : e.event = "ACTION_PREPARED" /\ e.tx = OldestUnterminated
  BY <1>4, TransactionFacts DEF Range
<1>6. /\ PreparedEvent(OldestUnterminated) \in Range(journal)
      /\ PreparedEvent(OldestUnterminated).tx = OldestUnterminated
  BY <1>5 DEF PreparedEvent
<1>7. Range(journal) \subseteq Event
  BY DEF Range, Types
<1>8. QED
  BY <1>4, <1>6, <1>7

LEMMA RecoverStep == ASSUME IInv, NEW w \in Worker, RecoverUnterminated(w) PROVE IInv'
<1> DEFINE e == PreparedEvent(OldestUnterminated)
           j == [request |-> e.request, intent |-> e.intent, tx |-> e.tx, restart |-> TRUE]
<1>1. Types /\ WorkerOK(w) /\ pc[w] = "recovering" /\ lock = w
  BY PlaceNames DEF IInv, RecoverUnterminated, Advance, WorkerOK
<1>2. /\ UNCHANGED <<state, approvals, journal, journalTmp, bundles, lock, snapshot, answered,
                     crashes>>
      /\ pc' = [pc EXCEPT ![w] = "restoring"] /\ job' = [job EXCEPT ![w] = j]
  BY DEF RecoverUnterminated, Advance
<1>3. e \in Event /\ e.tx \in UnterminatedPrepared
  BY <1>1, RecoveredTransaction DEF RecoverUnterminated
<1> HIDE DEF e
<1>4. j \in TransactionJob /\ j.tx = e.tx
  BY <1>3 DEF Event, TransactionJob
<1> HIDE DEF j
<1>5. /\ pc' \in [Worker -> Place] /\ job' \in [Worker -> Job]
      /\ pc'[w] = "restoring" /\ job'[w] = j
      /\ \A v \in Worker \ {w} : pc'[v] = pc[v] /\ job'[v] = job[v]
  BY <1>1, <1>2, <1>4, MoveFacts, NoJobFacts, PlaceNames
<1>6. Types'
  BY <1>1, <1>2, <1>5 DEF Types
<1>7. WorkerOK(w)' /\ Frame(w)
  BY <1>1, <1>2, <1>3, <1>4, <1>5, JournalKept
     DEF WorkerOK, Frame, OnTransaction, Body, Restoring
<1>8. QED
  BY <1>2, <1>6, <1>7, StepSuffices

-----------------------------------------------------------------------------
(* The inductive invariant of any number of processes *)

LEMMA InitInv == Init => IInv
<1> SUFFICES ASSUME Init PROVE IInv
  OBVIOUS
<1>1. Types
  <2>1. state \in StateFile /\ approvals \in ApprovalLedger
    BY DEF Init, StateFile, ApprovalLedger
  <2>2. journal \in Seq(Event) /\ journalTmp \in BOOLEAN
    BY EmptySeq DEF Init
  <2>3. DOMAIN bundles = {}
    BY DEF Init
  <2>4. pc \in [Worker -> Place] /\ job \in [Worker -> Job]
    BY NoJobFacts, PlaceNames DEF Init
  <2>5. /\ lock \in Worker \cup {None} /\ snapshot \in [Worker -> StateFile \cup {None}]
        /\ answered = {} /\ crashes \in 0 .. MaxCrashes
    BY BoundsAssumption DEF Init
  <2>6. QED
    BY <2>1, <2>2, <2>3, <2>4, <2>5 DEF Types
<1>2. \A w \in Worker : WorkerOK(w)
  BY DEF Init, WorkerOK, Outside, OnTransaction, Body, Restoring
<1>3. journal = <<>> /\ DOMAIN journal = {} /\ Len(journal) = 0
  BY DEF Init
<1>4. Prepared = {} /\ UnterminatedPrepared = {}
  BY <1>3 DEF Prepared, UnterminatedPrepared, TransactionsWith, Range
<1>5. Counted
  BY <1>3, <1>4, FS_EmptySet, BoundsAssumption DEF Counted
<1>6. Numbered /\ JournalVerifies /\ UnterminatedRecoverable
  BY <1>3, <1>4 DEF Numbered, JournalVerifies, UnterminatedRecoverable
<1>7. QED
  BY <1>1, <1>2, <1>5, <1>6 DEF IInv

LEMMA InvStep == ASSUME IInv, [Next]_vars PROVE IInv'
<1>1. CASE UNCHANGED vars
  <2>1. Types'
    BY <1>1 DEF IInv, Types, vars
  <2>2. \A w \in Worker : WorkerOK(w)'
    BY <1>1, JournalKept DEF IInv, WorkerOK, vars
  <2>3. QED
    BY <1>1, <2>1, <2>2, JournalKept DEF IInv, UnterminatedRecoverable, vars
<1>2. ASSUME NEW w \in Worker, Step(w) PROVE IInv'
  BY <1>2, BundleStep, PrepareStep, AbandonStep, SubmitStep, ApproveStep, SealStep,
     TerminateStep, FinishStep, RollbackStep, FinishRollbackStep, RecoverStep,
     CleanupStep, VerifyStep, UnlockedStep DEF Step
<1>3. ASSUME NEW w \in Worker,
             \/ RollbackFails(w) \/ Start(w) \/ StartRaises(w) \/ Crash(w) \/ UnlockedRead(w)
      PROVE  IInv'
  BY <1>3, AbandonStep, StartStep, CrashStep, UnlockedStep
<1>4. ASSUME NEW w \in Worker, NEW r \in Request, NEW i \in Intent,
             Replay(w, r, i) \/ BeginAction(w, r, i)
      PROVE  IInv'
  BY <1>4, ReplayStep, BeginStep
<1>5. QED
  BY <1>1, <1>2, <1>3, <1>4 DEF Next

LEMMA InvAlways == Spec => []IInv
BY InitInv, InvStep, PTL DEF Spec

LEMMA InvTypeOK == IInv => TypeOK
<1> SUFFICES ASSUME IInv PROVE TypeOK
  OBVIOUS
<1>1. Types /\ Counted
  BY DEF IInv
<1>2. /\ Len(journal) \in Nat
      /\ Cardinality(Prepared) \in Nat /\ Cardinality(UnterminatedPrepared) \in Nat
  BY <1>1, TransactionFacts DEF Types
<1>3. Len(journal) <= 2 * MaxTransactions
  BY <1>1, <1>2, BoundsAssumption DEF Counted
<1>4. QED
  BY <1>1, <1>3 DEF Types, TypeOK

\* Every file and field has its type in every reachable state, and the journal
\* at most two events for each transaction, however many processes crash,
\* restart, roll back and write without the lock.
THEOREM TypeCorrect == Spec => []TypeOK
BY InvAlways, InvTypeOK, PTL

\* While a worker is inside a transaction its event stays unterminated and its
\* bundle complete, whatever other processes start or crash meanwhile.
THEOREM LiveTransactionsUntouched == Spec => []LiveTransactionUntouched
<1>1. IInv => LiveTransactionUntouched
  BY DEF IInv, WorkerOK, LiveTransactionUntouched, UnterminatedRecoverable, Complete
<1>2. QED
  BY <1>1, InvAlways, PTL

\* Restart recovery never meets a transaction without its complete bundle, at
\* any crash point of any process, also after a rollback that failed.
THEOREM AlwaysRecoverable == Spec => []UnterminatedRecoverable
<1>1. IInv => UnterminatedRecoverable
  BY DEF IInv
<1>2. QED
  BY <1>1, InvAlways, PTL

\* The journal passes _verify_transaction_ledger in every reachable state: each
\* transaction is prepared once, and terminated once and after that.
THEOREM JournalAlwaysVerifies == Spec => []JournalVerifies
<1>1. IInv => JournalVerifies
  BY DEF IInv
<1>2. QED
  BY <1>1, InvAlways, PTL

-----------------------------------------------------------------------------
(* One process: what does not change with the journal *)

GlobalOK == AtMostOne /\ BundlesClean /\ FilesClean /\ CommittedOnce /\ AnswersAreCommitted

LEMMA DoneKept ==
    ASSUME UNCHANGED journal
    PROVE  CommittedEvents' = CommittedEvents /\ \A r : Done(r)' = Done(r)
BY DEF Done, CommittedEvents, Range

LEMMA DoneFacts ==
    ASSUME Types, NEW r \in Request, NEW e \in Done(r)
    PROVE  /\ e \in Event /\ e.request = r /\ e.tx \in Transaction /\ e.tx # 0
           /\ e.intent \in Intent
<1>1. e \in Event /\ e.request = r
  BY DEF Done, CommittedEvents, Range, Types
<1>2. QED
  BY <1>1, TransactionFacts DEF Event

\* A step that writes no event, keeps the bundles of unterminated transactions
\* and, when there is none, the files.
LEMMA QuietStep ==
    ASSUME AInv, UNCHANGED journal,
           \A t \in UnterminatedPrepared : bundles'[t] = bundles[t],
           \/ UnterminatedPrepared # {}
           \/ state' = state /\ approvals'.consumed = approvals.consumed,
           answered' = answered \/ AnswersAreCommitted'
    PROVE  GlobalOK'
<1>1. AtMostOne /\ BundlesClean /\ FilesClean /\ CommittedOnce /\ AnswersAreCommitted
  BY DEF AInv
<1>2. AtMostOne' /\ CommittedOnce'
  BY <1>1, JournalKept, DoneKept DEF AtMostOne, CommittedOnce
<1>3. AnswersAreCommitted'
  BY <1>1, DoneKept DEF AnswersAreCommitted
<1>4. BundlesClean'
  BY <1>1, JournalKept, DoneKept DEF BundlesClean, Clean, CleanAt
<1>5. FilesClean'
  BY <1>1, JournalKept, DoneKept DEF FilesClean, Clean, CleanAt
<1>6. QED
  BY <1>2, <1>3, <1>4, <1>5 DEF GlobalOK

LEMMA AloneSuffices ==
    ASSUME OneProcess, AInv, Next, NEW w \in Worker, AloneOK(w)', GlobalOK'
    PROVE  AInv'
<1>1. IInv'
  BY InvStep DEF AInv
<1>2. \A v \in Worker : AloneOK(v)'
  BY DEF OneProcess
<1>3. QED
  BY <1>1, <1>2 DEF AInv, GlobalOK

-----------------------------------------------------------------------------
(* One process: the steps *)

LEMMA ReplayAlone ==
    ASSUME AInv, NEW w \in Worker, NEW r \in Request, NEW i \in Intent, Replay(w, r, i)
    PROVE  AloneOK(w)' /\ GlobalOK'
<1>1. UNCHANGED <<state, approvals, journal, bundles, pc, job, snapshot>>
  BY DEF Replay
<1>2. AloneOK(w)'
  BY <1>1, JournalKept, DoneKept
     DEF AInv, AloneOK, ProgressOf, CleanAt, CapturedFiles, Range
<1>3. AnswersAreCommitted'
  <2>1. UnterminatedPrepared = {} /\ Sealed(state[r]) /\ state[r].intent = i /\ state[r] # None
    BY DEF AInv, AloneOK, Replay, ExistingIdempotentResult, Sealed
  <2>2. CleanAt(state, approvals.consumed, r)
    BY <2>1 DEF AInv, FilesClean, Clean
  <2>3. PICK e \in Done(r) :
          state[r] = [intent |-> e.intent, commit |-> e.tx, idempotency |-> e.tx]
    BY <2>1, <2>2 DEF CleanAt
  <2>4. /\ e \in CommittedEvents' /\ e.request = r /\ e.intent = i /\ e.tx = state[r].commit
    BY <1>1, <2>1, <2>3, DoneKept DEF Done
  <2>5. answered' = answered \cup {[request |-> r, intent |-> i, tx |-> state[r].commit]}
    BY DEF Replay
  <2>6. AnswersAreCommitted
    BY DEF AInv
  <2>7. QED
    BY <1>1, <2>4, <2>5, <2>6, DoneKept DEF AnswersAreCommitted
<1>4. QED
  BY <1>1, <1>2, <1>3, QuietStep

LEMMA BeginAlone ==
    ASSUME AInv, NEW w \in Worker, NEW r \in Request, NEW i \in Intent, BeginAction(w, r, i)
    PROVE  AloneOK(w)' /\ GlobalOK'
<1>1. Types /\ UnterminatedPrepared = {}
  BY DEF AInv, IInv, AloneOK, BeginAction
<1>2. /\ UNCHANGED <<state, approvals, journal, snapshot, answered>>
      /\ pc' = [pc EXCEPT ![w] = "bundling"]
      /\ job' = [job EXCEPT ![w] = [request |-> r, intent |-> i, tx |-> NextTransactionId,
                                    restart |-> FALSE]]
  BY DEF BeginAction
<1>3. pc'[w] = "bundling" /\ job'[w].request = r
  BY <1>1, <1>2 DEF Types
\* A request that was committed would carry both seals.
<1>4. state[r] = None
  <2> SUFFICES ASSUME state[r] # None PROVE FALSE
    OBVIOUS
  <2>1. CleanAt(state, approvals.consumed, r)
    BY <1>1 DEF AInv, FilesClean, Clean
  <2>2. PICK e \in Done(r) :
          state[r] = [intent |-> e.intent, commit |-> e.tx, idempotency |-> e.tx]
    BY <2>1 DEF CleanAt
  <2>3. state[r].commit # 0
    BY <1>1, <2>2, DoneFacts
  <2>4. QED
    BY <2>3 DEF BeginAction, NoExistingResult
<1>5. AloneOK(w)'
  BY <1>1, <1>2, <1>3, <1>4, JournalKept DEF AloneOK, Body
<1>6. QED
  BY <1>1, <1>2, <1>5, QuietStep

LEMMA ResetAlone ==
    ASSUME AInv, NEW w \in Worker,
           \/ Start(w) \/ StartRaises(w) \/ Crash(w)
           \/ AbandonBeforePrepare(w) \/ FinishRollback(w)
           \/ CleanupOrphanBundles(w) \/ VerifyIdempotencyState(w) \/ StartupRefused(w)
           \/ RecoverUnterminated(w)
    PROVE  AloneOK(w)' /\ GlobalOK'
<1>1. Types /\ WorkerOK(w) /\ AloneOK(w)
  BY DEF AInv, IInv
<1>2. UNCHANGED <<state, journal, answered>>
  BY DEF Start, StartRaises, Crash, AbandonBeforePrepare, FinishRollback,
         CleanupOrphanBundles, VerifyIdempotencyState, StartupRefused, RecoverUnterminated
<1>3. approvals'.consumed = approvals.consumed
  BY <1>1, TornFacts
     DEF Start, StartRaises, Crash, AbandonBeforePrepare, FinishRollback,
         CleanupOrphanBundles, VerifyIdempotencyState, StartupRefused,
         RecoverUnterminated, Types
<1>4. \A t \in UnterminatedPrepared : bundles'[t] = bundles[t]
  <2>1. CASE FinishRollback(w)
    <3>1. job[w].tx \notin UnterminatedPrepared /\ bundles' \in {bundles, WithoutBundle(job[w].tx)}
      BY <1>1, <2>1 DEF FinishRollback, WorkerOK
    <3>2. QED
      BY <3>1 DEF WithoutBundle, Restrict, AInv, IInv, UnterminatedRecoverable
  <2>2. CASE CleanupOrphanBundles(w)
    BY <2>2 DEF CleanupOrphanBundles, Restrict
  <2>3. QED
    BY <2>1, <2>2 DEF Start, StartRaises, Crash, AbandonBeforePrepare,
         VerifyIdempotencyState, StartupRefused, RecoverUnterminated
<1>5. /\ pc'[w] \in {"idle", "down", "recovering", "restoring", "verifying"}
      /\ pc'[w] \in {"idle", "verifying"} => UnterminatedPrepared = {}
  BY <1>1 DEF Start, StartRaises, Crash, AbandonBeforePrepare, FinishRollback,
         CleanupOrphanBundles, VerifyIdempotencyState, StartupRefused,
         RecoverUnterminated, Advance, BackToIdle, Types, AloneOK
<1>6. AloneOK(w)'
  BY <1>2, <1>5, JournalKept DEF AloneOK, Body
<1>7. QED
  BY <1>2, <1>3, <1>4, <1>6, QuietStep

LEMMA UnlockedAlone ==
    ASSUME AInv, NEW w \in Worker, UnlockedRead(w) \/ UnlockedWrite(w)
    PROVE  AloneOK(w)' /\ GlobalOK'
<1>1. Types /\ AloneOK(w)
  BY DEF AInv, IInv
<1>2. UNCHANGED <<approvals, journal, bundles, job, answered>>
  BY DEF UnlockedRead, UnlockedWrite
<1>3. UnterminatedPrepared = {} /\ state' = state
  BY <1>1 DEF UnlockedRead, UnlockedWrite, Advance, AloneOK
<1>4. \/ pc'[w] = "writing" /\ snapshot'[w] = state
      \/ pc'[w] = "idle"
  BY <1>1 DEF UnlockedRead, UnlockedWrite, Advance, Types
<1>5. AloneOK(w)'
  BY <1>2, <1>3, <1>4, JournalKept DEF AloneOK, Body
<1>6. QED
  BY <1>2, <1>3, <1>5, QuietStep

LEMMA BundleAlone ==
    ASSUME AInv, NEW w \in Worker, PrepareRecoveryBundle(w)
    PROVE  AloneOK(w)' /\ GlobalOK'
<1>1. /\ Types /\ pc[w] = "bundling" /\ job[w].tx \in DOMAIN bundles
      /\ UnterminatedPrepared = {} /\ state[job[w].request] = None
  BY DEF AInv, IInv, PrepareRecoveryBundle, Advance, AloneOK, WorkerOK
<1>2. /\ UNCHANGED <<state, approvals, journal, job, snapshot, answered>>
      /\ pc'[w] = "bundled" /\ bundles'[job[w].tx] = CapturedFiles
  BY <1>1 DEF PrepareRecoveryBundle, Advance, Types
<1>3. AloneOK(w)'
  BY <1>1, <1>2, JournalKept DEF AloneOK, Body, CapturedFiles
<1>4. QED
  BY <1>1, <1>2, <1>3, QuietStep

LEMMA SubmitAlone ==
    ASSUME AInv, NEW w \in Worker, SubmitServiceRequest(w)
    PROVE  AloneOK(w)' /\ GlobalOK'
<1> DEFINE r == job[w].request
<1>1. /\ Types /\ pc[w] = "prepared" /\ job[w].tx \in UnterminatedPrepared
      /\ ProgressOf(w) /\ \A q \in Request \ {r} : CleanAt(state, approvals.consumed, q)
  BY DEF AInv, IInv, SubmitServiceRequest, Advance, AloneOK, WorkerOK, Body
<1>2. r \in Request
  BY <1>1, JobFacts, PlaceNames DEF AInv, IInv
<1>3. /\ UNCHANGED <<approvals, journal, bundles, job, snapshot, answered>>
      /\ pc'[w] = "stored"
  BY <1>1 DEF SubmitServiceRequest, Advance, Types
<1>4. state' = [state EXCEPT ![r] = [intent |-> job[w].intent, commit |-> 0, idempotency |-> 0]]
  BY <1>1 DEF SubmitServiceRequest, ProgressOf
<1>5. /\ state'[r] = [intent |-> job[w].intent, commit |-> 0, idempotency |-> 0]
      /\ \A q \in Request \ {r} : state'[q] = state[q]
  BY <1>1, <1>2, <1>4 DEF Types, StateFile
<1>6. ProgressOf(w)'
  BY <1>1, <1>3, <1>5, DoneKept DEF ProgressOf
<1>7. \A q \in Request \ {r} : CleanAt(state, approvals.consumed, q)'
  BY <1>1, <1>3, <1>5, DoneKept DEF CleanAt
<1>8. AloneOK(w)'
  BY <1>3, <1>6, <1>7 DEF AloneOK, Body
<1>9. QED
  BY <1>1, <1>3, <1>8, QuietStep

LEMMA ApproveAlone ==
    ASSUME AInv, NEW w \in Worker, RecordApproval(w)
    PROVE  AloneOK(w)' /\ GlobalOK'
<1> DEFINE r == job[w].request
<1>1. /\ Types /\ pc[w] = "stored" /\ job[w].tx \in UnterminatedPrepared
      /\ ProgressOf(w) /\ \A q \in Request \ {r} : CleanAt(state, approvals.consumed, q)
  BY DEF AInv, IInv, RecordApproval, Advance, AloneOK, WorkerOK, Body
<1>2. r \in Request
  BY <1>1, JobFacts, PlaceNames DEF AInv, IInv
<1>3. /\ UNCHANGED <<state, journal, bundles, job, snapshot, answered>>
      /\ pc'[w] = "approved"
  BY <1>1 DEF RecordApproval, Advance, Types
<1>4. approvals'.consumed = approvals.consumed \cup {r}
  BY <1>1, <1>2, ConsumedFacts DEF RecordApproval, Types
<1>5. ProgressOf(w)'
  BY <1>1, <1>3, <1>4, DoneKept DEF ProgressOf
<1>6. \A q \in Request \ {r} : CleanAt(state, approvals.consumed, q)'
  BY <1>1, <1>3, <1>4, DoneKept DEF CleanAt
<1>7. AloneOK(w)'
  BY <1>3, <1>5, <1>6 DEF AloneOK, Body
<1>8. QED
  BY <1>1, <1>3, <1>7, QuietStep

LEMMA SealAlone ==
    ASSUME AInv, NEW w \in Worker, SealStateObject(w) \/ SealIdempotency(w)
    PROVE  AloneOK(w)' /\ GlobalOK'
<1> DEFINE r == job[w].request
           t == job[w].tx
<1>1. /\ Types /\ pc[w] \in {"approved", "sealed"} /\ t \in UnterminatedPrepared
      /\ ProgressOf(w) /\ \A q \in Request \ {r} : CleanAt(state, approvals.consumed, q)
  BY DEF AInv, IInv, SealStateObject, SealIdempotency, Advance, AloneOK, WorkerOK, Body
<1>2. r \in Request
  BY <1>1, JobFacts, PlaceNames DEF AInv, IInv
<1>3. /\ UNCHANGED <<approvals, journal, bundles, job, snapshot, answered>>
      /\ pc'[w] = IF pc[w] = "approved" THEN "sealed" ELSE "replayable"
  BY <1>1 DEF SealStateObject, SealIdempotency, Advance, Types
<1>4. /\ state'[r] = IF pc[w] = "approved"
                     THEN [intent |-> job[w].intent, commit |-> t, idempotency |-> 0]
                     ELSE [intent |-> job[w].intent, commit |-> t, idempotency |-> t]
      /\ \A q \in Request \ {r} : state'[q] = state[q]
  <2>1. CASE SealStateObject(w)
    <3>1. pc[w] = "approved" /\ state' = [state EXCEPT ![r] = [state[r] EXCEPT !.commit = t]]
      BY <2>1 DEF SealStateObject, Advance
    <3>2. state[r] = [intent |-> job[w].intent, commit |-> 0, idempotency |-> 0]
      BY <1>1, <3>1 DEF ProgressOf
    <3>3. [state[r] EXCEPT !.commit = t]
            = [intent |-> job[w].intent, commit |-> t, idempotency |-> 0]
      BY <3>2
    <3>4. QED
      BY <1>1, <1>2, <3>1, <3>3 DEF Types, StateFile
  <2>2. CASE SealIdempotency(w)
    <3>1. pc[w] = "sealed" /\ state' = [state EXCEPT ![r] = [state[r] EXCEPT !.idempotency = t]]
      BY <2>2 DEF SealIdempotency, Advance
    <3>2. state[r] = [intent |-> job[w].intent, commit |-> t, idempotency |-> 0]
      BY <1>1, <3>1 DEF ProgressOf
    <3>3. [state[r] EXCEPT !.idempotency = t]
            = [intent |-> job[w].intent, commit |-> t, idempotency |-> t]
      BY <3>2
    <3>4. QED
      BY <1>1, <1>2, <3>1, <3>3 DEF Types, StateFile
  <2>3. QED
    BY <2>1, <2>2
<1>5. ProgressOf(w)'
  BY <1>1, <1>3, <1>4, DoneKept DEF ProgressOf
<1>6. \A q \in Request \ {r} : CleanAt(state, approvals.consumed, q)'
  BY <1>1, <1>3, <1>4, DoneKept DEF CleanAt
<1>7. AloneOK(w)'
  BY <1>1, <1>3, <1>5, <1>6 DEF AloneOK, Body
<1>8. QED
  BY <1>1, <1>3, <1>7, QuietStep

LEMMA RollbackAlone ==
    ASSUME AInv, NEW w \in Worker, Fail(w) \/ RestoreState(w) \/ RestoreApprovals(w)
    PROVE  AloneOK(w)' /\ GlobalOK'
<1>1. /\ Types /\ AloneOK(w) /\ pc[w] \in Body \cup Restoring
      /\ job[w].tx \in UnterminatedPrepared
  BY DEF AInv, IInv, Fail, RestoreState, RestoreApprovals, Advance, WorkerOK, Restoring
<1>2. UNCHANGED <<journal, bundles, job, snapshot, answered>>
  BY DEF Fail, RestoreState, RestoreApprovals
<1>3. \/ pc'[w] = "restoring"
      \/ pc'[w] = "half_restored" /\ state' = bundles[job[w].tx].state
      \/ /\ pc[w] = "half_restored" /\ pc'[w] = "restored"
         /\ UNCHANGED state /\ approvals' = bundles[job[w].tx].approvals
  BY <1>1 DEF Fail, RestoreState, RestoreApprovals, Advance, Types
<1>4. AloneOK(w)'
  BY <1>1, <1>2, <1>3 DEF AloneOK, Body
<1>5. QED
  BY <1>1, <1>2, <1>4, QuietStep

LEMMA FinishAlone ==
    ASSUME AInv, NEW w \in Worker, FinishAction(w)
    PROVE  AloneOK(w)' /\ GlobalOK'
<1>1. /\ Types /\ pc[w] = "committed" /\ UnterminatedPrepared = {}
      /\ [event |-> "ACTION_COMMITTED", tx |-> job[w].tx, request |-> job[w].request,
          intent |-> job[w].intent] \in Range(journal)
  BY DEF AInv, IInv, FinishAction, AloneOK
<1>2. UNCHANGED <<state, approvals, journal, snapshot>> /\ pc'[w] = "idle"
  BY <1>1 DEF FinishAction, BackToIdle, Types
<1>3. AloneOK(w)'
  BY <1>1, <1>2, JournalKept DEF AloneOK, Body
<1>4. AnswersAreCommitted'
  <2>1. answered' = answered \cup {[request |-> job[w].request, intent |-> job[w].intent,
                                    tx |-> job[w].tx]}
    BY DEF FinishAction
  <2>2. \E e \in CommittedEvents : /\ e.tx = job[w].tx /\ e.request = job[w].request
                                   /\ e.intent = job[w].intent
    BY <1>1 DEF CommittedEvents
  <2>3. AnswersAreCommitted
    BY DEF AInv
  <2>4. QED
    BY <1>2, <2>1, <2>2, <2>3, DoneKept DEF AnswersAreCommitted
<1>5. QED
  BY <1>1, <1>2, <1>3, <1>4, QuietStep

\* Preparing or rolling back changes what is unterminated, not what is done.
LEMMA NotCommitted ==
    ASSUME Types, NEW e \in Event, journal' = Append(journal, e),
           e.event # "ACTION_COMMITTED"
    PROVE  CommittedEvents' = CommittedEvents /\ \A r : Done(r)' = Done(r)
BY AppendFacts DEF Done, CommittedEvents

LEMMA PrepareAlone ==
    ASSUME AInv, NEW w \in Worker, PrepareAction(w)
    PROVE  AloneOK(w)' /\ GlobalOK'
<1> DEFINE t == job[w].tx
           r == job[w].request
           e == [event |-> "ACTION_PREPARED", tx |-> t, request |-> r, intent |-> job[w].intent]
<1>1. /\ Types /\ IInv /\ pc[w] = "bundled" /\ UnterminatedPrepared = {}
      /\ state[r] = None /\ bundles[t] = CapturedFiles
      /\ t = Len(journal) + 1 /\ Cardinality(Prepared) < MaxTransactions
      /\ Clean(state, approvals.consumed)
  BY DEF AInv, IInv, PrepareAction, Advance, AloneOK, WorkerOK, FilesClean
<1>2. /\ UNCHANGED <<state, approvals, bundles, job, snapshot, answered>>
      /\ pc'[w] = "prepared" /\ journal' = Append(journal, e)
  BY <1>1 DEF PrepareAction, Advance, AppendTransactionEvent, Types
<1>3. /\ e \in Event /\ e.event = "ACTION_PREPARED" /\ e.tx = t /\ r \in Request
  BY <1>1, EventType, JobFacts, PlaceNames DEF IInv
<1> HIDE DEF e
<1>4. UnterminatedPrepared' = {t}
  BY <1>1, <1>2, <1>3, PrepareFacts
<1>5. CommittedEvents' = CommittedEvents /\ \A q : Done(q)' = Done(q)
  BY <1>1, <1>2, <1>3, NotCommitted
<1>6. /\ \A q \in Request : CleanAt(state, approvals.consumed, q)'
      /\ Clean(state, approvals.consumed)'
  BY <1>1, <1>2, <1>5 DEF Clean, CleanAt
<1>7. ProgressOf(w)'
  <2>1. Done(r) = {} /\ r \notin approvals.consumed
    BY <1>1, <1>3 DEF Clean, CleanAt
  <2>2. QED
    BY <1>1, <1>2, <1>5, <2>1 DEF ProgressOf
<1>8. AloneOK(w)'
  BY <1>2, <1>6, <1>7 DEF AloneOK, Body
<1>9. AtMostOne' /\ FilesClean'
  BY <1>4 DEF AtMostOne, FilesClean
<1>10. BundlesClean'
  <2>1. bundles'[t].state = state' /\ bundles'[t].approvals = approvals'
    BY <1>1, <1>2, BundleFacts
  <2>2. QED
    BY <1>4, <1>6, <2>1 DEF BundlesClean, Clean, CleanAt
<1>11. CommittedOnce' /\ AnswersAreCommitted'
  BY <1>2, <1>5 DEF AInv, CommittedOnce, AnswersAreCommitted
<1>12. QED
  BY <1>8, <1>9, <1>10, <1>11 DEF GlobalOK

LEMMA RolledBackAlone ==
    ASSUME AInv, NEW w \in Worker, AppendRolledBack(w)
    PROVE  AloneOK(w)' /\ GlobalOK'
<1> DEFINE t == job[w].tx
           e == [event |-> "ACTION_ROLLED_BACK", tx |-> t, request |-> job[w].request,
                 intent |-> job[w].intent]
<1>1. /\ Types /\ IInv /\ pc[w] = "restored" /\ t \in UnterminatedPrepared /\ AtMostOne
      /\ state = bundles[t].state /\ approvals = bundles[t].approvals
      /\ Clean(bundles[t].state, bundles[t].approvals.consumed)
  BY DEF AInv, IInv, AppendRolledBack, Advance, AloneOK, WorkerOK, Restoring, BundlesClean
<1>2. /\ UNCHANGED <<state, approvals, bundles, job, snapshot, answered>>
      /\ pc'[w] = "rolled_back" /\ journal' = Append(journal, e)
  BY <1>1 DEF AppendRolledBack, Advance, AppendTransactionEvent, Types
<1>3. e \in Event /\ e.event = "ACTION_ROLLED_BACK" /\ e.tx = t
  BY <1>1, EventType, PlaceNames DEF IInv
<1> HIDE DEF e
<1>4. UnterminatedPrepared' = {}
  <2>1. UnterminatedPrepared' = UnterminatedPrepared \ {t}
    BY <1>1, <1>2, <1>3, TerminateFacts
  <2>2. QED
    BY <1>1, <2>1 DEF AtMostOne
<1>5. CommittedEvents' = CommittedEvents /\ \A q : Done(q)' = Done(q)
  BY <1>1, <1>2, <1>3, NotCommitted
<1>6. AloneOK(w)'
  BY <1>2, <1>4 DEF AloneOK, Body
<1>7. AtMostOne' /\ BundlesClean'
  BY <1>4 DEF AtMostOne, BundlesClean
<1>8. FilesClean'
  BY <1>1, <1>2, <1>5 DEF FilesClean, Clean, CleanAt
<1>9. CommittedOnce' /\ AnswersAreCommitted'
  BY <1>2, <1>5 DEF AInv, CommittedOnce, AnswersAreCommitted
<1>10. QED
  BY <1>6, <1>7, <1>8, <1>9 DEF GlobalOK

\* The commit makes done what the body has written, and nothing else.
LEMMA CommitAlone ==
    ASSUME AInv, NEW w \in Worker, CommitAction(w)
    PROVE  AloneOK(w)' /\ GlobalOK'
<1> DEFINE t == job[w].tx
           r == job[w].request
           e == [event |-> "ACTION_COMMITTED", tx |-> t, request |-> r, intent |-> job[w].intent]
<1>1. /\ Types /\ IInv /\ pc[w] = "replayable" /\ t \in UnterminatedPrepared /\ AtMostOne
      /\ ProgressOf(w) /\ \A q \in Request \ {r} : CleanAt(state, approvals.consumed, q)
  BY DEF AInv, IInv, CommitAction, Advance, AloneOK, WorkerOK, Body
<1>2. /\ UNCHANGED <<state, approvals, bundles, job, snapshot, answered>>
      /\ pc'[w] = "committed" /\ journal' = Append(journal, e)
  BY <1>1 DEF CommitAction, Advance, AppendTransactionEvent, Types
<1>3. /\ r \in Request /\ e \in Event /\ e.event = "ACTION_COMMITTED" /\ e.tx = t
      /\ e.request = r /\ e.intent = job[w].intent
  BY <1>1, EventType, JobFacts, PlaceNames DEF IInv
<1>4. /\ Done(r) = {} /\ r \in approvals.consumed
      /\ state[r] = [intent |-> e.intent, commit |-> e.tx, idempotency |-> e.tx]
      /\ state[r] # None
  <2>1. /\ Done(r) = {} /\ r \in approvals.consumed
        /\ state[r] = [intent |-> job[w].intent, commit |-> t, idempotency |-> t]
    BY <1>1 DEF ProgressOf
  <2>2. state[r] # None
    BY DEF CommitAction
  <2>3. QED
    BY <1>3, <2>1, <2>2
<1>5. e \in Range(journal)'
  BY <1>1, <1>2, <1>3, AppendFacts
<1>6. AloneOK(w)' /\ UnterminatedPrepared' = {}
  <2>1. UnterminatedPrepared' = UnterminatedPrepared \ {t}
    BY <1>1, <1>2, <1>3, TerminateFacts
  <2>2. UnterminatedPrepared' = {}
    BY <1>1, <2>1 DEF AtMostOne
  <2>3. QED
    BY <1>2, <1>5, <2>2 DEF AloneOK, Body
<1> HIDE DEF e
<1>7. /\ CommittedEvents' = CommittedEvents \cup {e}
      /\ Done(r)' = {e} /\ \A q \in Request \ {r} : Done(q)' = Done(q)
  <2>1. CommittedEvents' = CommittedEvents \cup {e}
    BY <1>1, <1>2, <1>3, AppendFacts DEF CommittedEvents
  <2>2. QED
    BY <1>2, <1>3, <1>4, <2>1 DEF Done
<1>8. AtMostOne' /\ BundlesClean'
  BY <1>6 DEF AtMostOne, BundlesClean
<1>9. FilesClean'
  <2>1. \A q \in Request \ {r} : CleanAt(state, approvals.consumed, q)'
    BY <1>1, <1>2, <1>7 DEF CleanAt
  <2>2. CleanAt(state, approvals.consumed, r)'
    BY <1>2, <1>4, <1>7 DEF CleanAt
  <2>3. QED
    BY <1>2, <2>1, <2>2 DEF FilesClean, Clean
<1>10. CommittedOnce'
  <2>1. \A d \in CommittedEvents : d.request # r
    BY <1>4 DEF Done
  <2>2. QED
    BY <1>3, <1>7, <2>1 DEF AInv, CommittedOnce
<1>11. AnswersAreCommitted'
  BY <1>2, <1>7 DEF AInv, AnswersAreCommitted
<1>12. QED
  BY <1>6, <1>8, <1>9, <1>10, <1>11 DEF GlobalOK

-----------------------------------------------------------------------------
(* One process: the inductive invariant and what a caller is promised *)

LEMMA AInit == Init => AInv
<1> SUFFICES ASSUME Init PROVE AInv
  OBVIOUS
<1>1. IInv
  BY InitInv
<1>2. \A w \in Worker : AloneOK(w)
  BY DEF Init, AloneOK, Body
<1>3. Range(journal) = {}
  BY DEF Init, Range
<1>4. UnterminatedPrepared = {} /\ CommittedEvents = {} /\ \A r \in Request : Done(r) = {}
  BY <1>3 DEF UnterminatedPrepared, Prepared, TransactionsWith, CommittedEvents, Done
<1>5. Clean(state, approvals.consumed)
  BY <1>4 DEF Init, Clean, CleanAt
<1>6. AtMostOne /\ BundlesClean /\ FilesClean /\ CommittedOnce
  BY <1>4, <1>5 DEF AtMostOne, BundlesClean, FilesClean, CommittedOnce
<1>7. AnswersAreCommitted
  BY DEF Init, AnswersAreCommitted
<1>8. QED
  BY <1>1, <1>2, <1>6, <1>7 DEF AInv

LEMMA AStep == ASSUME OneProcess, AInv, [Next]_vars PROVE AInv'
<1>1. CASE UNCHANGED vars
  <2>1. IInv'
    BY <1>1, InvStep DEF AInv
  <2>2. \A w \in Worker : AloneOK(w)'
    BY <1>1, JournalKept, DoneKept
       DEF AInv, AloneOK, ProgressOf, CleanAt, CapturedFiles, Range, vars
  <2>3. GlobalOK'
    BY <1>1, QuietStep DEF vars
  <2>4. QED
    BY <2>1, <2>2, <2>3 DEF AInv, GlobalOK
<1>2. CASE Next
  <2>1. PICK w \in Worker :
          \/ Step(w) \/ RollbackFails(w) \/ Start(w) \/ StartRaises(w) \/ Crash(w)
          \/ UnlockedRead(w)
          \/ \E r \in Request, i \in Intent : Replay(w, r, i) \/ BeginAction(w, r, i)
    BY <1>2 DEF Next
  <2>2. ~RollbackFails(w)
    BY DEF OneProcess, RollbackFails
  <2>3. AloneOK(w)' /\ GlobalOK'
    <3>1. CASE Step(w)
      BY <3>1, BundleAlone, PrepareAlone, SubmitAlone, ApproveAlone, SealAlone, CommitAlone,
         FinishAlone, RollbackAlone, RolledBackAlone, ResetAlone, UnlockedAlone DEF Step
    <3>2. CASE Start(w) \/ StartRaises(w) \/ Crash(w) \/ UnlockedRead(w)
      BY <3>2, ResetAlone, UnlockedAlone
    <3>3. CASE \E r \in Request, i \in Intent : Replay(w, r, i) \/ BeginAction(w, r, i)
      BY <3>3, ReplayAlone, BeginAlone
    <3>4. QED
      BY <2>1, <2>2, <3>1, <3>2, <3>3
  <2>4. QED
    BY <1>2, <2>3, AloneSuffices
<1>3. QED
  BY <1>1, <1>2

LEMMA AInvAlways == ASSUME OneProcess PROVE Spec => []AInv
<1>1. AInv /\ [Next]_vars => AInv'
  BY AStep
<1>2. QED
  BY <1>1, AInit, PTL DEF Spec

\* One process that crashes and restarts at any step: once nothing waits for
\* recovery, a request is stored, sealed and approved exactly when a transaction
\* of it committed.
THEOREM AlwaysAllOrNothing == ASSUME OneProcess PROVE Spec => []AllOrNothing
<1>1. AInv => AllOrNothing
  BY DEF AInv, FilesClean, Clean, CleanAt, Done, AllOrNothing, Settled
<1>2. QED
  BY <1>1, AInvAlways, PTL

\* One process: what a caller was answered, first or on an exact retry, is the
\* record of a committed transaction, and stays it.
THEOREM AnswersAlwaysCommitted == ASSUME OneProcess PROVE Spec => []AnswersAreCommitted
<1>1. AInv => AnswersAreCommitted
  BY DEF AInv
<1>2. QED
  BY <1>1, AInvAlways, PTL

\* One process: a request is committed once, however often it is submitted.
THEOREM AlwaysCommittedOnce == ASSUME OneProcess PROVE Spec => []CommittedOnce
<1>1. AInv => CommittedOnce
  BY DEF AInv
<1>2. QED
  BY <1>1, AInvAlways, PTL

\* One process: no action is prepared while a crashed one waits for recovery.
THEOREM RecoveryAlwaysFirst == ASSUME OneProcess PROVE Spec => []RecoveryBeforeNewActions
<1>1. AInv => RecoveryBeforeNewActions
  <2> SUFFICES ASSUME AInv PROVE Cardinality(UnterminatedPrepared) <= 1
    BY DEF RecoveryBeforeNewActions
  <2>1. AtMostOne
    BY DEF AInv
  <2>2. CASE UnterminatedPrepared = {}
    BY <2>2, FS_EmptySet
  <2>3. CASE UnterminatedPrepared # {}
    <3>1. PICK t : UnterminatedPrepared = {t}
      BY <2>1, <2>3 DEF AtMostOne
    <3>2. QED
      BY <3>1, FS_Singleton
  <2>4. QED
    BY <2>2, <2>3
<1>2. QED
  BY <1>1, AInvAlways, PTL

=============================================================================
