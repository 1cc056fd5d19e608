\* A 503 after the commit, then the retry it asks for.
SPECIFICATION FairSpec
CONSTANTS
    Applications = {p1}
    Approvals = {a1}
    Drafters = {d1}
    Requests = {r1, r2}
    Rejecters = {}
    Keys = {k1}
    Edits = {}
    None = None
    Channels = {"email"}
    Handoff = "send"
    UseCelery = TRUE
    BrokerFails = TRUE
    DurableOnly = TRUE
    SmtpEnabled = TRUE
    MayCrash = FALSE
CHECK_DEADLOCK FALSE
PROPERTIES
    RetryReachesDispatch
