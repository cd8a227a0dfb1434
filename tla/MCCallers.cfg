CONSTANTS
  t1 = t1
  t2 = t2
  a1 = a1
  Task <- TwoTasks
  Account <- OneAccount
  Policy <- SlowOnly
  RetryAfter = {1, 2}
  Absorb = 1
  Floor = 1
  Interval = 2
  Horizon = 2
SPECIFICATION CallersSpec
INVARIANTS SlotsExact
PROPERTIES PausePauses PausePaced 
CHECK_DEADLOCK FALSE
