SPECIFICATION Spec
CONSTANTS
  Attempts = {a1}
  Sessions = {s1}
  Controls = {c1, c2, c3, c4}
  Copies = {k1}
  None = None
  ExpiresWhileProcessing = FALSE
  CancelAllowed = TRUE
  ClockSkew = FALSE
  ReviewBound = 2
SYMMETRY Symmetries
INVARIANT
  ClosureHidesPayment
CHECK_DEADLOCK FALSE
