SPECIFICATION Spec
CONSTANTS
    a = a  b = b  c = c
    Job = {a, b}
    Thread = {t1, t2}
    Nil = Nil
    Request <- Chain
    MaxSubmits = 1
    MaxTasks = 3
    MaxErrors = 1
    MaxCrashes = 0
    MaxStepDowns = 0
    Replicated = {}
    Canceling = TRUE
INVARIANTS
    
    RunsAfterDependencies
SYMMETRY ThreadSymmetry
CHECK_DEADLOCK FALSE
