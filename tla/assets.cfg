SPECIFICATION Spec
CONSTANTS
  Workspace = {w1, w2}
  Content = {h}
  Uploader = {u1, u2}
  Referrer = {r}
  BatchSize = 2
  MaxAssets = 3
  MaxFailures = 1
  None = None
INVARIANTS  OrphansOnlyByFailure
PROPERTIES CollectsUnreferenced
CHECK_DEADLOCK FALSE
