SPECIFICATION LiveSpec
CONSTANTS
  s1 = s1
  s2 = s2
  t1 = t1
  t2 = t2
  None = None
  Main = Main
  Schedulers <- Seeds
  Task <- Tasks
  Capacity = 1
  ReportAttempts = 2
  MaxChanges = 1
  MaxLosses = 1
  MaxRepeats = 1
INVARIANTS
  NoTaskRefused
  ExecutedOnce
PROPERTIES
  OneIdentity
  Rejoins
  Stops
  TasksEnd
CHECK_DEADLOCK FALSE
