SPECIFICATION FairSpec
CONSTANTS
  Backends = {b1, b2, b3}
  MaxValues = 2
  LoneEnd = FALSE
  None = None
INVARIANTS NothingAfterEnd ReplyComplete BackendsNotInterleaved 
PROPERTIES CommandEnds
CHECK_DEADLOCK FALSE
