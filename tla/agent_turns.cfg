SPECIFICATION Spec
CONSTANTS
  NodeId = {1, 2, 3, 4, 5}
  EdgeId = {1, 2, 3}
  NodeType <- Types
  Group = "group"
  PortId <- Ports
  Kind <- Kinds
  Inputs <- In
  Outputs <- Out
  KindOf <- Kinded
  Single = {}
  InputOrder <- Order
  Required <- Needed
  Key = {"text", "capability", "assetId"}
  Value = {"a", "b", "image.generate", "video.generate"}
  Title = {"t", "a"}
  NoTitle = ""
  Result = {}
  Error = {}
  Idle = "idle"
  NodeState = {"idle"}
  None = None
  Rejected = Rejected
  NoArguments = NoArguments
  CoordMin = 0
  CoordMax = 20
  SizeMin = 1
  SizeMax = 6
  Pad = 1
  MaxNodes = 4
  MaxEdges = 3
  MaxGroupDepth = 2
  OpPool = {}
  DefaultWidth <- Widths
  PlaceGap = 1
  MaxItems = 2
  Worker = {w1, w2}
  MaxTurns = 1
  Answers <- SomeAnswers
  McpCalls <- SomeMcp
  UserOps <- SomeEdits
  Granting = {TRUE, FALSE}
  OneApprover = TRUE
  InitialDoc <- Canvas
  InitialIds <- Ids
  MaxSkills = 1
  MaxEdits = 1
  MaxFaults = 1
INVARIANTS OnlyApproved ExecutedOnce OkMeansRun ErrorsLeaveCanvas
PROPERTIES Settles
CHECK_DEADLOCK FALSE
