SPECIFICATION MCSpec
CONSTANTS
  m1 = m1
  e1 = e1
  e2 = e2
  k1 = k1
  k2 = k2
  Twins = {p1, p2}
  \* Store
  Client <- OneClient
  Requests <- Ops
  MaxSecret = 3
  MaxCred = 1
  MaxQuota = 1
  MaxFault = 1
  \* Release
  Job = {j1}
  Dir = {d1}
  Edition <- Editions
  Version = {1}
  VersionOf <- OneVersion
  Key = {k1, k2}
  NoKey = NoKey
  KeyOf <- FirstKey
  NextOf <- NextKey
  Malformed = {e2}
  Absent = Absent
  Torn = Torn
  MaxUpload = 1
  MaxJob = 2
  \* Desktop: one mode and two gateway entries of its own
  Mode = {"none", "a"}
  Entry = {3, 4}
  MaxId = 2
  MaxPick = 2
  MaxAppFault = 2
  \* Machine: two processes that run the commands of one machine
  Process = {p1, p2}
  Enrolled = {m1}
  Me = m1
  MaxIssued = 2
  MaxVersion = 2
  MaxEdit = 1
  MaxMachineFault = 1
  \* Deploy
  ServerJob = {j1}
  ServerVersion <- Selectable
  Broken <- NewerOne
  Config = {p1, p2}
  MaxStart = 2
  MaxWrite = 1
  MaxServerFault = 1
  \* LogFile: one record a file, two rotated ones kept
  Room = 1
  Retained = 2
  Count = 1
  MaxRecord = 4
  MaxLogFault = 2
INVARIANTS DisclosedSurvives CodeSpentOnce QuotaReachesFile  ChoiceReturns   StagedIsOneEdition PrintedInOrder
PROPERTIES KeepsPromise 
SYMMETRY Symmetry
CHECK_DEADLOCK FALSE
