CONSTANTS
  h1 = h1
  c1 = c1
  c2 = c2
  r1 = r1
  r2 = r2
  Account <- OneAccount
  ApiKey <- NoAccount
  Caller <- OneCaller
  Runner <- OneRunner
  Lifetime = 2
  Margin = 1
  SuccessFloor = 1
  TransientFloor = 1
  InlineWait = 1
  Calls = 1
  Horizon = 1
  MaxVersion = 1
SPECIFICATION Spec
PROPERTIES TransientRefreshNeverErrors
CHECK_DEADLOCK FALSE
