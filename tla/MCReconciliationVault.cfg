\* Two attempts, resolutions interrupted and resumed, pruning, and a startup beside them.
SPECIFICATION VaultSpec
CONSTANTS
    Workers = {w1}
    LeaseSeconds = {1}
    TtlSeconds = {1}
    MaxLockWait = 0
    MaxClock = 2
    MaxAttempts = 2
    MaxStartups = 1
CHECK_DEADLOCK FALSE
INVARIANTS
    VaultTypeOK
    ReferencedEvidenceRetained
    CompletedReceiptsVerify
    RestartAccepted
PROPERTIES
    InterruptedStaysResumable
