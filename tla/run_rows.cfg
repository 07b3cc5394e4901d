SPECIFICATION Spec
CONSTANTS
  Run = {11, 12}
  Node = {1, 2, 3, 4}
  Slot = {w1, w2}
  Requests <- Apart
  Feeds <- Pairs
  Answer = {"product", "unstored", "transient", "permanent"}
  QuietStart = TRUE
  MaxCrashes = 1
  MaxAttempts = 2
  None = None
INVARIANTS
  SettledSteps
  PaidOnce
  StartsAfterInputs
  SkippedOnlyForFailure
PROPERTIES
  TerminalStays
  FinishedStepsStay
CHECK_DEADLOCK FALSE
