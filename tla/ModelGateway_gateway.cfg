\* Four calls of one use case over two cooldowns.
SPECIFICATION Spec
CONSTANTS
    UseCases = {k1}
    Calls = {c1, c2, c3, c4}
    Attempts <- AttemptsOf
    Cooldown = 2
    MaxTime = 4
CHECK_DEADLOCK FALSE
SYMMETRY Symmetry
INVARIANTS
    TypeOK
    RefusalsFollowHistory
    LapseIsQuiet
