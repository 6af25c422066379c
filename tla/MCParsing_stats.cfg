SPECIFICATION Spec
CONSTANTS  Messages <- StatsLine  Stale <- MCStale  buffer_size = 40
INVARIANTS ParsedAsSent
CHECK_DEADLOCK FALSE
