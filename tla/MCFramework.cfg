SPECIFICATION FrameSpec
CONSTANTS
  p1 = p1
  p2 = p2
  a1 = a1
  a2 = a2
  a3 = a3
  Procs = {p1, p2}
  Accounts = {a1, a2, a3}
  Roles = {"member", "x", "admin"}
  admin_role = "admin"
  AccountsFile <- SmallFile
  RoleOfType <- SmallTypes
  Lists <- SmallLists
  None = None
  MaxClasses = 3
  MaxFaults = 1
  MaxCrashes = 1
  IsoProcs = {p1, p2}
  IsoClasses <- SmallClasses
  MaxFailed = 2
  Projects = {p, q}
  Nil = Nil
  Lives = {3, 5}
  Latency = 1
  MaxIdle = 3
  RetryAfter = {1, 3}
  Catalogs <- SmallCatalogs
  region = "r1"
  endpoint_type = "public"
  build_timeout = 4
  build_interval = 2
  MaxAnswer = 1
  MaxBaseFaults = 1
  MaxBasePolls = 2
  Managers = {os, alt}
  CloudUsers <- CloudPeople
  CloudProjects <- CloudScopes
  Default = "d1"
  Configured <- SetOptions
  PassedFields <- Dictionaries
  Unknown = Unknown
INVARIANTS LockedWhileUsed LocksAccounted CleanExit ZoneHasHosts WellAddressed DoneIsReported AlteredUnlessRetried Timeouts TidiesUp FieldsHold
PROPERTIES ScopeStays FrameEnds
CHECK_DEADLOCK FALSE
