SPECIFICATION Spec
CONSTANTS
    w1 = w1
    w2 = w2
    Workers = {w1, w2}
    LeaseSeconds = {2}
    TtlSeconds = {1}
    MaxLockWait = 1
    MaxClock = 3
    MaxAttempts = 2
SYMMETRY MCSymmetry
CHECK_DEADLOCK FALSE
INVARIANTS
    TypeOK
    RestartAccepted
    OneCurrentClaim
    EpochsFollowClaims
    SubmittedNotWrittenOff
    ReceiptOfNewestClaim
    ResolutionChallenged
PROPERTIES
    QuarantineHolds
    EffectsInClaimOrder
