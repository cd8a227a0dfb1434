SPECIFICATION Spec
CONSTANTS
  Room = 1
  Retained = 2
  Count = 1
  MaxRecord = 4
  MaxFault = 2
PROPERTIES LeavesNothing
CHECK_DEADLOCK FALSE
