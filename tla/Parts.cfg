SPECIFICATION PartsSpec
CONSTANTS
  None = None
  Contents = {"c1", "c2", "c3", "d3"}
  IdOf <- MCIdOf
  AgentOf <- MCAgentOf
  CustomerOf <- MCCustomerOf
  Retention <- MCRetention
  Included <- MCIncluded
  DayLength = 2
  Emails = {"e1", "e2"}
  Customers = {"u1"}
  Subscriptions = {"s1"}
  BilledDays = {1}
  Hashes = {"h1", "h2"}
  Installs = {1, 2}
  Counts = {0, 1, 2}
  Sinks = {"FileSink", "CloudSink"}
  Times = {1, 2, 3}
  Windows <- MCWindows
  DefaultWindowDays = 1
  MaxWindowDays = 2
  DefaultThreshold = 2
  DefaultLimit = 1
  MaxLimit = 2
  Owners <- MCOwners
  MaxRows <- MCMaxRows
  MaxCount = 2
  Calls = {"a", "b", "c"}
  Earlier = Earlier
  NoKey = NoKey
  Processes = {"p", "q"}
  Nobody = Nobody
  MaxDay = 1
  MaxMade = 1
  Numerals = {"0", "2", "3", "1.2.3"}
  ValueOf <- MCValueOf
  Scale = 10
  Pieces <- MCPieces
  MaxPieces = 5
  Expressions <- MCExpressions
  KycRequests <- MCKycRequests
  Payloads = {"p"}
  HighRisk = {"XX"}
  FlagAmount = 1
  WireRejectAmount = 2
  GraphNodes = {"pure", "counts", "shares"}
  KindOf <- MCKindOf
  Opaque = {"pure"}
  Uncopyable = {"counts"}
  NodeCalls = {"n1", "n2", "n3", "n4"}
  NodeOf <- MCNodeOf
  Dual = TRUE
  LeafHashes = {l1, l2}
  MaxLeaves = 9
INVARIANTS
  StoresAgree
  IdentityConverges
  ReportsOneDay
  CalculatorRight
  VerdictsRight
  ReceiptsSound
  HashesAligned
  ProofsConvince
  FoldIsReplacement
CHECK_DEADLOCK FALSE
