SPECIFICATION FairNoticesSpec
CONSTANTS
  Jobs = {j1, j2}
  None = None
  Tries = 3
  MishapBound = 5
INVARIANTS
  OneMailPerReceipt
PROPERTIES
  EndIsFinal
  NotificationEnds
CHECK_DEADLOCK FALSE
