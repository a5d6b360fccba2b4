SPECIFICATION NodesSpec
CONSTANTS
  GraphNodes = {"counts"}
  KindOf <- MCKindOf
  Opaque = {}
  Uncopyable = {}
  NodeCalls = {"n1", "n2"}
  NodeOf <- MCNodeOf
  Dual = TRUE
INVARIANT GraphPreserved
CHECK_DEADLOCK FALSE
