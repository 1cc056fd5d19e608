\* Two starts with one key and two resumes in the API process.
SPECIFICATION Spec
CONSTANTS
    Starts = {s1, s2}
    Resumes = {u1, u2}
    Runs = {r1, r2}
    Keys = {k1}
    Payloads = {p1, p2}
    None = None
    UseCelery = FALSE
    BrokerFails = FALSE
    DurableOnly = FALSE
    LangGraph = TRUE
    Checkpointing = TRUE
    Interrupts = TRUE
    MaxRetries = 1
    MayCrash = TRUE
    FaultAt = {"resolve_targets", "save"}
    StoreFails = FALSE
CHECK_DEADLOCK FALSE
SYMMETRY Symmetric
INVARIANTS
    TypeOK
    GateIsHonoured
    DoneReportsItems
PROPERTIES
    KeyStartsOnce
    RefusedForAResume
