\* Two calls, scans with a pass in them or the connectors' task, whose connectors
\* find both postings of a feed; either process may die.
SPECIFICATION Spec
CONSTANTS
    adzuna = adzuna
    greenhouse = greenhouse
    a1 = a1
    a2 = a2
    f1 = f1
    f2 = f2
    odd1 = odd1
    None = None
    Providers = {adzuna, greenhouse}
    Source <- SourceOf
    Keys = {a1, a2}
    Calls = {c1, c2}
    Pages = {1, 2, 3}
    Texts = {f1}
    Fps = {f1}
    Fp <- Normal
    Plain = {f1}
    Legacy = {a1, a2}
    Plans <- TwoProviders
    MaxJobs = 1
    Kinds = {"scan", "engine"}
    MayCrash = TRUE
CHECK_DEADLOCK FALSE
SYMMETRY Symmetry
INVARIANTS
    RunningIsTrue
    CleanAuditIsTrue
