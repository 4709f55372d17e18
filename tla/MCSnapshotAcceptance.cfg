\* Two processes, three identities, two source heads, one crash.
SPECIFICATION Spec
CONSTANTS
    Worker = {w1, w2}
    Id = {a, b, c}
    SourceHead = {h1, h2}
    None = None
    Lifetime = 1
    MaxClock = 2
    MaxCrashes = 1
    MaxCommits = 2
SYMMETRY Symmetric
INVARIANTS
    TypeOK
    LedgerOnlyAdvances
    AuthorityNeverGoesBack
PROPERTIES
    CommitsUnderLatest
CHECK_DEADLOCK FALSE
