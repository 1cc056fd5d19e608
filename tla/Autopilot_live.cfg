\* A start and two resumes of its run over Celery, one at a time, with crashes and a
\* failing store.
SPECIFICATION FairSpec
CONSTANTS
    Starts = {s1}
    Resumes = {u1, u2}
    Runs = {r1}
    Keys = {k1}
    Payloads = {p1}
    None = None
    UseCelery = TRUE
    BrokerFails = TRUE
    DurableOnly = TRUE
    LangGraph = TRUE
    Checkpointing = TRUE
    Interrupts = TRUE
    MaxRetries = 1
    MayCrash = TRUE
    FaultAt = {"begin", "resolve_targets", "marker", "clear", "handler"}
    StoreFails = TRUE
CHECK_DEADLOCK FALSE
CONSTRAINT Serial
PROPERTIES
    HandedOverRunSettles
    RefusedForAResume
