\* One worker whose calls may overlap, one task, one fault.
SPECIFICATION LiveSpec
CONSTANTS
    w1 = w1  h1 = h1  h2 = h2  t1 = t1
    Worker <- OneWorker
    Handler <- TwoHandlers
    Task <- OneTask
    Timeout = 1
    TTL = 1
    MaxFaults = 1
INVARIANTS VerdictIsEarned DeadLeavesNoLease
PROPERTIES AliveAgain SilentIsDead LeasesEnd
