SPECIFICATION MCSpec
CONSTANTS
  n1 = n1 n2 = n2 n3 = n3 n4 = n4 e1 = e1 e2 = e2 e3 = e3 e4 = e4
  NodeType <- Types
  Group = "group"
  PortId <- Ports
  Kind <- Kinds
  Inputs <- In
  Outputs <- Out
  KindOf <- Kinded
  Single <- Singles
  Required <- NoneRequired
  Title = {"t"}
  NoTitle = ""
  Result = {"R"}
  Error = {"E"}
  Idle = "idle"
  NodeState = {"idle", "pending", "running", "succeeded", "failed"}
  Key = {"text"}
  Value = {"a", "b"}
  None = None
  Rejected = Rejected
  CoordMin <- Leftmost
  CoordMax = 4
  SizeMin = 1
  SizeMax = 6
  Pad = 1
  BlankValue = "a"
  NodeId = {n1, n2, n3, n4}
  EdgeId = {e1, e2, e3, e4}
  MaxNodes = 4
  MaxEdges = 3
  MaxGroupDepth = 3
  OpPool <- KeepingOps
  Uses = {"wiring", "nesting", "content", "state"}
SYMMETRY Renaming
INVARIANTS DocTypeOK EdgesAttached SingleInputs Acyclic ParentsAreGroups GroupsNest OpsReversible
