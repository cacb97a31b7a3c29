SPECIFICATION Spec
CONSTANTS
  t1 = t1
  t2 = t2
  t3 = t3
  NoTask = NoTask
  Tasks <- TwoTasks
  N = 2
  Threshold = 2
  Cooldown = 2
  MaxRetries = 1
SYMMETRY Symmetry
INVARIANTS
  TypeOK
  ClosedBelowThreshold
PROPERTIES
  OpensForCause
  TrippedDrains
  ProbesSpaced
CHECK_DEADLOCK FALSE
