SPECIFICATION Spec
CONSTANTS
  Queries <- MCQueries
  Cuts <- Anywhere
INVARIANT ReplyMovesOn
CHECK_DEADLOCK FALSE
