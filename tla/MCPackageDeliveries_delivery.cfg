SPECIFICATION FairDeliveriesSpec
CONSTANTS
  Senders = {w1, w2}
  NoClaim = NoClaim
  Limit = 3
  SlowSenders = TRUE
  MishapBound = 3
INVARIANTS
  DeliveredWasAccepted
  DeliveriesInv
  AttemptsArePaidFor
PROPERTIES
  OnlyTheClaimHolderEnds
  QueuedIsSettled
CHECK_DEADLOCK FALSE
