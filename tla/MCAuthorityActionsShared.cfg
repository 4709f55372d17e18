\* Two processes, crashes, failing rollbacks and operations outside the lock.
SPECIFICATION Spec
CONSTANTS
    Worker = {w1, w2}
    Request = {r1}
    Intent = {a}
    None = None
    MaxTransactions = 2
    MaxCrashes = 2
    RestoreMayFail = TRUE
    TornAppends = TRUE
    UnlockedWrites = TRUE
SYMMETRY Symmetric
INVARIANTS
    LiveTransactionUntouched
    UnterminatedRecoverable
    JournalVerifies
CHECK_DEADLOCK FALSE
