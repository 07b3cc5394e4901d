SPECIFICATION Spec
CONSTANTS
  theme = theme  direct = direct  token = token
  light = light  dark = dark  q1 = q1  q2 = q2
  Client = {c1}
  Key = {theme, direct}
  SecretKey = {token, other}
  Value = {light, dark}
  Limit = {q1, q2}
  None = None
  Refused = Refused
  Reason = Reason
  Requests <- Changes
  FirstRows <- Rows
  Apart = TRUE
  MaxLimits = 2
PROPERTIES ImplementsSettings DeletedStays
