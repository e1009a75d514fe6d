SPECIFICATION Spec
CONSTANTS
    a = a  b = b  c = c
    Job = {a, b}
    Thread = {t1, t2}
    Nil = Nil
    Request <- Chain
    MaxSubmits = 1
    MaxTasks = 3
    MaxErrors = 0
    MaxCrashes = 0
    MaxStepDowns = 0
    Replicated = {}
    Canceling = FALSE
INVARIANTS
    PendingIsWaiting
CHECK_DEADLOCK FALSE
