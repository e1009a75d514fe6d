SPECIFICATION FairSpec
CONSTANTS
    a = a  b = b  c = c
    Job = {a, b, c}
    Thread = {t1}
    Nil = Nil
    Request <- Graphs
    MaxSubmits = 1
    MaxTasks = 5
    MaxErrors = 0
    MaxCrashes = 1
    MaxStepDowns = 0
    Replicated = {}
    Canceling = TRUE
INVARIANTS
    QueuedIsScheduled
    RunningIsLeased
    PendingIsWaiting
    JobGraphIsAcyclic
PROPERTIES
    TerminalIsFinal
    JobsFinish
CHECK_DEADLOCK FALSE
