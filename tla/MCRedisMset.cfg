SPECIFICATION FairSpec
CONSTANT Queries <- MCQueries
INVARIANTS NoAssertFails ReplyIsLast TailWaits 
PROPERTIES CommandEnds
CHECK_DEADLOCK FALSE
