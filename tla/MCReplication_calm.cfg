SPECIFICATION LiveSpec
CONSTANTS
  a = a
  b = b
  j1 = j1
  j2 = j2
  Node <- Two
  Key <- TwoKeys
  Calm = TRUE
  MaxTerm = 2
  MaxWrites = 2
  MaxFaults = 1
  MaxErrors = 0
INVARIANTS
  FollowerHoldsAcknowledged
  CaughtUpIsEqual
PROPERTY
  Converges
CHECK_DEADLOCK FALSE
