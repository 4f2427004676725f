SPECIFICATION FairReviewSpec
CONSTANTS
  Attempts = {a1}
  Sessions = {s1}
  Controls = {c1}
  Copies = {1}
  None = None
  ExpiresWhileProcessing = FALSE
  CancelAllowed = TRUE
  ClockSkew = FALSE
  ReviewBound = 5
  Tabs = {t1}
  Staff = {t2}
  QuoteBound = 2
INVARIANTS
  ReviewInv
  ChargedAsAgreed
  ProposalIsNotBypassed
PROPERTIES
  ChangesAreCurrent
  ExpiryIsDue
  ImplementsPayment
  OverdueIsExpired
  CaptureIsAcknowledged
CHECK_DEADLOCK FALSE
