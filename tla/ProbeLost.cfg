SPECIFICATION FairSpec
CONSTANTS
  t1 = t1
  t2 = t2
  t3 = t3
  NoTask = NoTask
  Tasks <- TwoTasks
  N = 2
  Threshold = 1
  Cooldown = 1
  MaxRetries = 1
PROPERTY
  ProbeIsDecided
CHECK_DEADLOCK FALSE
