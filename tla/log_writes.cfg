SPECIFICATION Spec
CONSTANTS
  n1 = n1 n2 = n2 e1 = e1 c1 = c1 c2 = c2 s1 = s1 s2 = s2
  NodeId = {n1}
  EdgeId = {e1}
  NodeType = {"gen", "group"}
  Group = "group"
  PortId <- Ports
  Kind = {"text"}
  Inputs <- NoPorts
  Outputs <- NoPorts
  KindOf <- NoKinds
  Single = {}
  Key = {"text"}
  Value = {"a", "b"}
  Required <- NoneRequired
  Title = {"t", "u"}
  NoTitle = ""
  Result = {"R"}
  Error = {"E"}
  Idle = "idle"
  NodeState = {"idle", "succeeded", "failed"}
  None = None
  Rejected = Rejected
  CoordMin = 0
  CoordMax = 9
  SizeMin = 1
  SizeMax = 6
  Pad = 1
  MaxNodes = 4
  MaxEdges = 4
  MaxGroupDepth = 8
  Client = {c1, c2}
  Server = {s1, s2}
  InitialValue = "a"
  MaxVersion = 3
  Slack = 16
  OpPool <- EditPool
  Batches <- MixedBatches
SYMMETRY Renaming
INVARIANTS SnapshotIsReplay NoSilentOverwrite
PROPERTIES ImplementsHistory
CHECK_DEADLOCK FALSE
