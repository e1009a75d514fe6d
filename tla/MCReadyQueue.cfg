SPECIFICATION BothSpec
CONSTANTS
  Job <- Jobs
  Priority <- Priorities
  Created <- Times
  Submitted <- Items
  Policies <- SomePolicies
  Random <- Randoms
INVARIANTS
  MapMatchesHeap
  DelayIsDocumented
PROPERTY
  ImplementsReadyOrder
