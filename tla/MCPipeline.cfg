SPECIFICATION FairSpec
CONSTANTS
  BufferSize = 9
  kPipelineActiveLimit = 3
  ReplyLen = 3
  Scripts <- SmallHeads
  EofPoints <- AtRequestEnds
INVARIANTS NoAssertFails QueriesInPlace ReplyAfterQuery NeverStuck
PROPERTIES RepliesInOrder EveryCommandEnds
CHECK_DEADLOCK FALSE
