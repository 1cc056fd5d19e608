\* Two resumes of one run, one after the other, with the workers of production.
SPECIFICATION Spec
CONSTANTS
    Starts = {s1}
    Resumes = {u1, u2}
    Runs = {r1}
    Keys = {k1}
    Payloads = {p1}
    None = None
    UseCelery = TRUE
    BrokerFails = FALSE
    DurableOnly = TRUE
    LangGraph = TRUE
    Checkpointing = TRUE
    Interrupts = TRUE
    MaxRetries = 0
    MayCrash = FALSE
    FaultAt = {}
    StoreFails = FALSE
CHECK_DEADLOCK FALSE
PROPERTIES
    InProgressIsTrue
