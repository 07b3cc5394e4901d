SPECIFICATION Spec
CONSTANTS
  Client = {c1, c2}
  Field = {f, g}
  Buffer = 2
  MaxEdits = 3
  MaxTroubles = 1
  None = None
SYMMETRY Symmetry
INVARIANTS AtMostOnce CommitsInOrder VersionIsSeen 
CHECK_DEADLOCK FALSE
