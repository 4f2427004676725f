SPECIFICATION FairSpec
CONSTANTS
  Payments = {p1}
  Copies = {d1}
  Handlers = {h1}
  None = None
  EarlyEvents = FALSE
  Senders = {w1}
  NoClaim = NoClaim
  Limit = 2
  SlowSenders = TRUE
  MishapBound = 1
PROPERTY CaptureIsTold
CHECK_DEADLOCK FALSE
