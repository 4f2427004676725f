SPECIFICATION Spec
CONSTANTS
  Payments = {p1, p2}
  Copies = {d1}
  Handlers = {h1}
  None = None
  EarlyEvents = FALSE
  Senders = {w1, w2}
  NoClaim = NoClaim
  Limit = 2
  SlowSenders = FALSE
  MishapBound = 1
SYMMETRY Symmetries
INVARIANTS
  EventsAreMatched
  OneSenderPerPhase
  PurchaseInv
PROPERTY ImplementsSale
CHECK_DEADLOCK FALSE
