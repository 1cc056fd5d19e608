\* Two calls of any kind about two jobs, with a failing Redis and dying processes.
SPECIFICATION FairSpec
CONSTANTS
    Jobs = {j1, j2}
    Calls = {c1, c2}
    Views = {v1}
    None = None
    Ops = {"list", "recompute", "upload", "discover", "dismiss"}
    RedisFails = TRUE
    MayCrash = TRUE
CHECK_DEADLOCK FALSE
INVARIANTS
    TypeOK
    StaleOnlyByRace
    DismissalIsFinal
    UploadedIsScored
PROPERTIES
    ScoresAreKept
    CallsReturn
    CacheSettles
