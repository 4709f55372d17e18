\* Both workers record readbacks.
SPECIFICATION Spec
CONSTANTS
    c1 = c1
    c2 = c2
    draft = draft
    effect = effect
    report = report
    Command = {c1, c2}
    Lane = {effect}
    CommandOf <- MCCommandOf
    DependsOn <- MCDependsOn
    EffectClass <- MCEffectClass
    Worker = {w1, w2}
    Reader = {w1, w2}
    None = None
    MaxLeases = 3
    Permit = {p1}
    MaxUnused = 2
INVARIANT UncertainEffectKept
CHECK_DEADLOCK FALSE
