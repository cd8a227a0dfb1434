SPECIFICATION LiveFairSpec
CONSTANTS
  m1 = m1
  e1 = e1
  e2 = e2
  c1 = c1
  c2 = c2
  s1 = s1
  a1 = a1
  a2 = a2
  a3 = a3
  NoHandle = NoHandle
  NoSession = NoSession
  NoModel = NoModel
  NoRelease = NoRelease
  NoKey = NoKey
  Torn = Torn
  OwnClient = OwnClient
  Launches = {l1}
  Calls = {r1}
  MaxSwitch = 2
  MaxLaunch = 1
  MaxFault = 1
  MaxReload = 0
  MaxConnections = 1
  Handle <- TwoAccounts
  Provider = {"anthropic"}
  ProviderOf <- AllAnthropic
  OAuth = {}
  Ref = {"one", "two"}
  IdentOf <- NoIdent
  RouteKey = {"haiku"}
  Spelling = {"haiku"}
  Config <- Configs
  Session = {}
  Exchange = {x1}
  Request = {}
  MaxWaits = 1
  Bar = {"none", "held"}
  Model <- HaikuOrNone
  Intent = {"none", "pin"}
PROPERTIES LaunchSettles GateEnds StopEnds SweepsGoOn ExchangesEnd  
CHECK_DEADLOCK FALSE
