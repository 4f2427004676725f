SPECIFICATION Spec
CONSTANTS
  Attempts = {a1, a2}
  Sessions = {s1, s2}
  Controls = {c1, c2}
  Copies = {k1, k2}
  None = None
  ExpiresWhileProcessing = TRUE
  CancelAllowed = TRUE
  ClockSkew = TRUE
  ReviewBound = 3
SYMMETRY Symmetries
INVARIANTS
  PaymentInv
  OneWayToPay
  PaidIffSettled
  ConfirmedClosureIsReal
  OnlyExpiryStrandsMoney
PROPERTIES
  ImplementsLedger
  HooksNeverRefuse
CHECK_DEADLOCK FALSE
