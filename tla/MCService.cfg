\* Two schedulers, two commands, one stop, two elections, one lost call, one failing write.
SPECIFICATION LiveSpec
CONSTANTS
    s1 = s1  s2 = s2  j1 = j1  None = None
    Seeds <- TwoSeeds
    Job <- OneJob
    MaxCommands = 2
    MaxStops = 1
    MaxChanges = 2
    MaxLosses = 1
    MaxErrors = 1
INVARIANTS HandlersHaveStore StopsLoseNothing InOrderIsServed
PROPERTIES CommandsEnd StopEnds
CHECK_DEADLOCK FALSE
