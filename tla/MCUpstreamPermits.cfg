SPECIFICATION FairSpec
CONSTANTS
  Exchange = {e1, e2}
  Account = {a1, a2}
  Timed = {refresh}
  Untimed = {}
  MaxConnections = 2
PROPERTIES AttemptsEnd
