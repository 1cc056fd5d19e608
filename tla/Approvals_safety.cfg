\* Two overlapping approves and a reject of one email approval.
SPECIFICATION Spec
CONSTANTS
    Applications = {p1}
    Approvals = {a1}
    Drafters = {d1}
    Requests = {r1, r2}
    Rejecters = {q1}
    Keys = {k1}
    Edits = {e1}
    None = None
    Channels = {"email", "linkedin", "company_site"}
    Handoff = "draft"
    UseCelery = TRUE
    BrokerFails = TRUE
    DurableOnly = TRUE
    SmtpEnabled = TRUE
    MayCrash = TRUE
SYMMETRY Symmetry
CHECK_DEADLOCK FALSE
INVARIANTS
    TypeOK
    PendingIsUntouched
    DeliveryClaimsBacked
    LaterApproveIsNotAccepted
PROPERTIES
    NothingSentUnapproved
    RejectedStaysSilent
