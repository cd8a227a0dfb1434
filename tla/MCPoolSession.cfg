CONSTANTS
  h1 = h1
  h2 = h2
  h3 = h3
  s1 = s1
  x1 = x1
  x2 = x2
  q1 = q1
  NoHandle = NoHandle
  NoSession = NoSession
  NoModel = NoModel
  Handle <- TwoHandles
  Provider <- OneProvider
  ProviderOf <- AllAnthropic
  OAuth <- NoHandles
  Ref <- Names
  IdentOf <- FirstIsOne
  RouteKey <- OneRoute
  Spelling <- OneSpelling
  Config <- ExchangeConfigs
  Session <- OneSession
  Exchange <- TwoExchanges
  Request <- NoRequests
  Model <- PlainModel
  MaxWaits = 0
  Bar = {"none", "held"}
  Intent = {"preference"}
SPECIFICATION Spec
INVARIANTS SessionsExact
PROPERTIES SessionMovesByFailover NeverTwice
SYMMETRY Symmetry
