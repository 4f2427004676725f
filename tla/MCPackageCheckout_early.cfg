SPECIFICATION CheckoutSpec
CONSTANTS
  Payments = {p1, p2}
  Copies = {d1, d2}
  Handlers = {h1, h2}
  None = None
  EarlyEvents = TRUE
SYMMETRY Symmetries
INVARIANTS
  PaidIsAnnounced
  ShownCodeIsMatched
  CheckoutInv
PROPERTY OutcomeStands
CHECK_DEADLOCK FALSE
