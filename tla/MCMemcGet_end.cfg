SPECIFICATION Spec
CONSTANTS
  Backends = {b1, b2}
  MaxValues = 1
  LoneEnd = TRUE
  None = None
INVARIANTS ReplyComplete
CHECK_DEADLOCK FALSE
