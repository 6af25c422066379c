SPECIFICATION FairSpec
CONSTANT Queries <- MCQueries
INVARIANTS NoAssertFails SumIsComplete LockPerQuery
PROPERTIES CommandEnds
CHECK_DEADLOCK FALSE
