\* Two nodes, three paths of which one is global.
SPECIFICATION Spec
CONSTANTS
    Node = {n1, n2}
    Path = {x, y, g}
    GlobalPath = {g}
    None = None
    MaxLegacy = 3
    MaxEarly = 2
    MaxGeneration = 7
SYMMETRY Symmetric
INVARIANTS
    TypeOK
    OneRegime
    FrozenResumable
    NoFenceForgotten
    AdmissionHolds
PROPERTIES
    CutoverFromSeed
    UnexpiredIsKept
    ImplementsScopedLocks
CHECK_DEADLOCK FALSE
