SPECIFICATION FairSpec
CONSTANTS
  Queries <- MCQueries
  Cuts <- Anywhere
INVARIANTS NoAssertFails ValuesInKeyOrder CompleteIsExact 
PROPERTIES CommandEnds
CHECK_DEADLOCK FALSE
