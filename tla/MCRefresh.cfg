CONSTANTS
  h1 = h1
  c1 = c1
  c2 = c2
  r1 = r1
  r2 = r2
  Account <- OneAccount
  ApiKey <- NoAccount
  Caller <- TwoCallers
  Runner <- TwoRunners
  Lifetime = 2
  Margin = 1
  SuccessFloor = 1
  TransientFloor = 1
  InlineWait = 1
  Calls = 2
  Horizon = 1
  MaxVersion = 2
SPECIFICATION Spec
INVARIANTS NoStrandedFamily
 
SYMMETRY Symmetry
CHECK_DEADLOCK FALSE
