SPECIFICATION Spec
CONSTANTS
  a = a
  b = b
  j1 = j1
  j2 = j2
  Node <- Two
  Key <- TwoKeys
  Calm = FALSE
  MaxTerm = 3
  MaxWrites = 2
  MaxFaults = 0
  MaxErrors = 0
INVARIANT
  CaughtUpIsEqual
CHECK_DEADLOCK FALSE
