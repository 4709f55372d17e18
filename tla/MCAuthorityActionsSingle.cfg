\* One process at a time on the state directory, crashing and restarting.
SPECIFICATION Spec
CONSTANTS
    Worker = {w1}
    Request = {r1, r2}
    Intent = {a, b}
    None = None
    MaxTransactions = 4
    MaxCrashes = 3
    RestoreMayFail = FALSE
    TornAppends = TRUE
    UnlockedWrites = FALSE
SYMMETRY Symmetric
INVARIANTS
    TypeOK
    AllOrNothing
    AnswersAreCommitted
    CommittedOnce
    RecoveryBeforeNewActions
CHECK_DEADLOCK FALSE
