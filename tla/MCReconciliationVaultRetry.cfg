\* The receipt of a recovered NO_EFFECT, and a second quarantine.
SPECIFICATION VaultSpec
CONSTANTS
    Workers = {w1}
    LeaseSeconds = {1}
    TtlSeconds = {1}
    MaxLockWait = 0
    MaxClock = 2
    MaxAttempts = 2
    MaxStartups = 0
CHECK_DEADLOCK FALSE
INVARIANT ExactRetryReturnsReceipt
