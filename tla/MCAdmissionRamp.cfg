CONSTANTS
  t1 = t1
  t2 = t2
  a1 = a1
  Task <- TwoTasks
  Account <- OneAccount
  Policy <- SlowOnly
  RetryAfter = {1, 2}
  Absorb = 1
  Floor = 1
  Interval = 2
  Horizon = 3
SPECIFICATION Spec

PROPERTIES RampLastsItsWindow
SYMMETRY Symmetry
CHECK_DEADLOCK FALSE
