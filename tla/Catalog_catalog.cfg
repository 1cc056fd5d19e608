\* Two calls that ingest, passes over providers of which the first repeats its own
\* postings, in one spelling or another, and overruns a request, or the connectors'
\* task; either process may die.
SPECIFICATION Spec
CONSTANTS
    adzuna = adzuna
    greenhouse = greenhouse
    a1 = a1
    a2 = a2
    f1 = f1
    f2 = f2
    odd1 = odd1
    None = None
    Providers = {adzuna, greenhouse}
    Source <- SourceOf
    Keys = {a1, a2}
    Calls = {c1, c2}
    Pages = {1, 2, 3}
    Texts = {f1, f2, odd1}
    Fps = {f1, f2}
    Fp <- Normal
    Plain = {f1, f2}
    Legacy = {a2}
    Plans <- TwoProviders
    MaxJobs = 1
    Kinds = {"pass", "engine"}
    MayCrash = TRUE
CHECK_DEADLOCK FALSE
SYMMETRY Symmetry
INVARIANTS
    TypeOK
    DuplicatesOnlyByOverlap
    CompletedIsListed
    PageIsAudited
