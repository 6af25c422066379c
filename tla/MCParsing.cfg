SPECIFICATION Spec
CONSTANTS  Messages <- MCMessages  Stale <- MCStale  buffer_size = 40
INVARIANTS ParsedAsSent
CHECK_DEADLOCK FALSE
