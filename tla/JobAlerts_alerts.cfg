\* Two overlapping digests for a user whose jobs show late and whose settings change.
SPECIFICATION Spec
CONSTANTS
    j1 = j1
    j2 = j2
    None = None
    Users = {u1}
    Jobs = {j1, j2}
    Tasks = {t1, t2}
    Fit <- FitOf
    Choices <- AllChoices
    Window = 1
    MaxTime = 2
    MayFail = TRUE
CHECK_DEADLOCK FALSE
SYMMETRY Symmetry
INVARIANTS
    TypeOK
    MailedIsRecorded
    RecordedWasMailed
    WindowLosesNothing
