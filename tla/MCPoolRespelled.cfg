CONSTANTS
  h1 = h1
  h2 = h2
  h3 = h3
  s1 = s1
  x1 = x1
  x2 = x2
  q1 = q1
  NoHandle = NoHandle
  NoSession = NoSession
  NoModel = NoModel
  Handle <- TwoHandles
  Provider <- OneProvider
  ProviderOf <- AllAnthropic
  OAuth <- NoHandles
  Ref <- Names
  IdentOf <- NoIdent
  RouteKey <- OneRoute
  Spelling <- TwoSpellings
  Config <- Respellings
  Session <- NoSessions
  Exchange <- NoExchanges
  Request <- OneRequest
  Model <- RoutedModel
  MaxWaits = 0
  Bar = {"none"}
  Intent = {"none"}
SPECIFICATION Spec
INVARIANT KeptPreferenceInForce
CHECK_DEADLOCK FALSE
