SPECIFICATION IdempotencySpec
CONSTANTS
  Requests = {r1, r2, r3, r4, r5}
  Different = {r4, r5}
  None = None
SYMMETRY Symmetries
INVARIANTS
  OneRunAtATime
  AnswerIsOwn
  IdempotencyInv
PROPERTY CompletedIsKept
CHECK_DEADLOCK FALSE
