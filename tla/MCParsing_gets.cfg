SPECIFICATION Spec
CONSTANTS  Messages <- GetsOnly  Stale <- MCStale  buffer_size = 40
INVARIANTS ParsedAsSent
CHECK_DEADLOCK FALSE
