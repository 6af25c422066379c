SPECIFICATION FairSpec
CONSTANTS
  BufferSize = 9
  kPipelineActiveLimit = 2
  ReplyLen = 3
  Scripts <- LongHead
  EofPoints <- Never
INVARIANTS ReadKeepsConnection
CHECK_DEADLOCK FALSE
