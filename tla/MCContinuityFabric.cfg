\* Two workers, one of which records the readbacks.
SPECIFICATION Spec
CONSTANTS
    c1 = c1
    c2 = c2
    draft = draft
    effect = effect
    report = report
    Command = {c1, c2}
    Lane = {draft, effect, report}
    CommandOf <- MCCommandOf
    DependsOn <- MCDependsOn
    EffectClass <- MCEffectClass
    Worker = {w1, w2}
    Reader = {w1}
    None = None
    MaxLeases = 2
    Permit = {p1}
    MaxUnused = 2
INVARIANTS
    TypeOK
    UncertainEffectKept
    DependencyOrder
    LeasePerBinding
    CompleteIsFinished
CHECK_DEADLOCK FALSE
