SPECIFICATION FairSpec
CONSTANTS
  Run = {11, 12}
  Node = {1, 2, 3, 4}
  Slot = {w1, w2}
  Requests <- Faults
  Feeds <- Pairs
  Answer = {"product", "task", "unstored", "transient", "permanent"}
  QuietStart = TRUE
  MaxCrashes = 2
  MaxAttempts = 2
  None = None
PROPERTIES
  ExecutionEnds
  RunningEnds
CHECK_DEADLOCK FALSE
