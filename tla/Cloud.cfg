SPECIFICATION CloudSpec
CONSTANTS
  None = None
  Past = Past
  Rotted = Rotted
  Contents = {"c1", "c2", "c3", "d3", "forged"}
  IdOf <- MCIdOf
  AgentOf <- MCAgentOf
  CustomerOf <- MCCustomerOf
  Retention <- MCRetention
  Included <- MCIncluded
  DayLength = 2
  Scenes <- MCScenes
  MaxTime = 5
  Requests <- MCRequests
  Clients = {"k1", "k2", "k3", "k4", "k5", "k6"}
  MaxAttempts <- MCMaxAttempts
  Post <- MCPost
  Genuine = {"c1", "c2", "c3", "d3"}
  MaxErrors = 1
  Reader = {"v1"}
  Filter <- MCFilter
  PageLimit = 1
  ShareLimit = 2
  LinkDays = 1
  MaxLinks = 1
  Signups = {"s1", "s2"}
  EmailOf <- MCEmailOf
  Callers = {"v2", "v3"}
  Events = {"checkout", "again", "renewal", "invoice"}
  Payload <- MCPayload
  MaxDeliveries = 2
  Secret = "old"
  Headers <- MCHeaders
  Tolerance = 5
  Bills = {"b1", "b2"}
  Periods <- MCPeriods
  MonthLength = 1
  UnitSize = 2
INVARIANTS
  CloudTypeOK
  StoredWhole
  UsageAccounted
  WalkComplete
  PagesSound
  SignupsOwn
  CheckoutsProvision
  OverageCharged
PROPERTIES
  RetentionKept
  KeysGuarded
CHECK_DEADLOCK FALSE
