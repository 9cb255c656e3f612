SPECIFICATION ConnectedSpec
CONSTANTS
  Browsers = {b1}
  Chars = {c1, c2}
  NoChar = none
  Known = c1
  Requests = {q1, q2}
  Rotates = TRUE
  MaxNonces = 4
  MaxTokens = 4
  MaxErrors = 1
CONSTANTS
  b1 = b1
  c1 = c1
  c2 = c2
  q1 = q1
  q2 = q2
SYMMETRY Interchangeable
CHECK_DEADLOCK FALSE
INVARIANT ConnectedHasCorporation
