\* Two racing drafts of one application become two email approvals, and two approve
\* calls that may share a key decide about them; the broker may refuse tasks, the API
\* process runs them instead, and no process dies.
SPECIFICATION FairSpec
CONSTANTS
    Applications = {p1}
    Approvals = {a1, a2}
    Drafters = {d1, d2}
    Requests = {r1, r2}
    Rejecters = {}
    Keys = {k1}
    Edits = {}
    None = None
    Channels = {"email"}
    Handoff = "send"
    UseCelery = TRUE
    BrokerFails = TRUE
    DurableOnly = FALSE
    SmtpEnabled = TRUE
    MayCrash = FALSE
CHECK_DEADLOCK FALSE
INVARIANT NotesBacked
PROPERTIES
    QueuedIsResolved
