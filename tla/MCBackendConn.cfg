SPECIFICATION FairSpec
CONSTANTS
  BufferSize = 6
  ErrorLen = 2
  Replies <- MCReplies
INVARIANTS TypeOK IoInPlace PooledClean NoLockAtRotation 
PROPERTIES RepliesNeverMixed CompleteOnRotation CommandEnds
