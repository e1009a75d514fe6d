SPECIFICATION Spec
CONSTANTS
    Node = {n1, n2, n3}
    Nil = Nil
    MaxTerm = 2
    MaxFaults = 2
    MaxTicks = 1
    Campaigner = {n1, n2}
    FaultyDisk = {}
    Lossy = {}
SYMMETRY NodeSymmetry
INVARIANTS
    TypeOK
    OneLeaderPerTerm
    OneVotePerTerm
    LeaderWonItsTerm
PROPERTIES
    StepDownOnlyForNewerTerm
    KeepsPromise
CHECK_DEADLOCK FALSE
