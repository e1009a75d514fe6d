SPECIFICATION Spec
CONSTANTS
    a = a  b = b  c = c
    Job = {a, b}
    Thread = {t1, t2}
    Nil = Nil
    Request <- Recurring
    MaxSubmits = 1
    MaxTasks = 1
    MaxErrors = 1
    MaxCrashes = 0
    MaxStepDowns = 1
    Replicated <- Shipped
    Canceling = FALSE
INVARIANTS
    CronKeepsRunning
PROPERTIES
    FailedIsDeadLettered
SYMMETRY ThreadSymmetry
CHECK_DEADLOCK FALSE
