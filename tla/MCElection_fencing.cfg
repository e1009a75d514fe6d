SPECIFICATION FairSpec
CONSTANTS
    Node = {n1, n2, n3}
    Nil = Nil
    MaxTerm = 2
    MaxFaults = 0
    MaxTicks = 0
    Campaigner = {n1, n2}
    FaultyDisk = {}
    Lossy = {n1}
PROPERTIES
    StaleLeaderStepsDown
    ElectionEnds
CHECK_DEADLOCK FALSE
