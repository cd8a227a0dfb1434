SPECIFICATION MCSpec
CONSTANTS
  i1 = i1
  i2 = i2
  i3 = i3
  Actors = {x1, x2}
  \* Accounts
  Request = {r1}
  Handle = {h1, h2}
  Identity <- Identities
  NoIdentity = NoIdentity
  NoAccount = NoAccount
  NoFact = NoFact
  Derive = Derive
  EmailOf <- OneEmail
  OrgNameOf <- Organisations
  OrgUuidOf <- OrganisationIds
  ProviderOf <- Providers
  GivenName <- TwoNames
  \* Quota: two requests on one account
  Metered = {q1}
  Asker = {x1, x2}
  Window = 2
  Fallback = 1
  MaxClock = 2
  \* Egress: two exchanges and two addresses, of which one is pinned
  Exchange = {x1, x2}
  Address = {"home", "away"}
  Pinned = {"home"}
  MaxReload = 1
  \* ConfigFile
  Command = {x1, x2}
  Entry <- Entries
  KindOf <- KindOfEntry
  RefOf <- RefOfEntry
  Account = {"a"}
  NoRef = NoRef
  Clash <- OneClash
  Verb = {"set", "unset", "add", "remove", "priority", "clear", "edit", "offline"}
  MaxEdit = 2
  MaxConfigFault = 1
  \* Kit: two launches of one machine
  Machine = {"m"}
  Launch = {x1, x2}
  MachineOf <- OneMachine
  Release <- Releases
  Key = {"old", "new"}
  KeyOf <- SignedBy
  NextOf <- ThenSignedBy
  NoRelease = NoRelease
  NoKey = NoKey
  Torn = Torn
  OwnClient = OwnClient
  MaxSwitch = 2
  MaxLaunch = 2
  MaxKitFault = 1
  \* Login: two flows that may end as the same account, one client that logs in
  \* accounts of its own
  Flow = {x1, x2}
  Person = {i1}
  Client = {c1}
  MaxEvent = 1
  MaxTerm = 0
  Operator = "operator"
  \* Serving: two connections of either kind and two client secrets
  Conn = {x1, x2}
  Secret = {s1, s2}
  \* Authority: one machine that follows
  Follower = {f1}
  Overlap = 1
  Validity = 2
  MaxCa = 3
  MaxTime = 3
  MaxCaFault = 2
INVARIANTS  StartFindsCa  OneAccountPerIdentity PolicyIsItsOwn RestartSafe 
PROPERTIES OwnersKept FamilyIsItsOwn 
SYMMETRY Symmetry
CHECK_DEADLOCK FALSE
