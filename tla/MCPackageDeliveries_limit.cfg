SPECIFICATION DeliveriesSpec
CONSTANTS
  Senders = {w1, w2}
  NoClaim = NoClaim
  Limit = 2
  SlowSenders = FALSE
  MishapBound = 2
PROPERTY TenAttemptsStop
CHECK_DEADLOCK FALSE
