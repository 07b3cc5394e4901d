SPECIFICATION Spec
CONSTANTS
  w1 = w1
  w2 = w2
  p1 = p1
  p2 = p2
  image = image
  text = text
  m1 = m1
  Workspace = {w1, w2}
  ProviderId = {p1, p2}
  Model = {m1}
  Creates <- OwnIds
  Kind = {"script", "other"}
  Registered = {"script"}
  Capability = {image, text}
  Declarable <- SomeDeclared
  Guess <- Guessed
  Priority = {0, 1}
  Request = {r1, r2}
  Filters <- Asked
  Connections = 2
  Limit = 2
  MaxCredentials = 2
  MaxChanges = 1
  None = None
SYMMETRY Alike
INVARIANTS ResolveFinds SameCredential 
CHECK_DEADLOCK FALSE
