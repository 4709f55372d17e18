\* A running process acts while a crashed one waits for recovery.
SPECIFICATION Spec
CONSTANTS
    Worker = {w1, w2}
    Request = {r1, r2}
    Intent = {a}
    None = None
    MaxTransactions = 2
    MaxCrashes = 1
    RestoreMayFail = FALSE
    TornAppends = FALSE
    UnlockedWrites = FALSE
INVARIANTS
    RecoveryBeforeNewActions
CHECK_DEADLOCK FALSE
