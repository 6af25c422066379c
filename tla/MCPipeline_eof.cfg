SPECIFICATION FairSpec
CONSTANTS
  BufferSize = 9
  kPipelineActiveLimit = 2
  ReplyLen = 3
  Scripts <- OneSet
  EofPoints <- Anywhere
PROPERTIES IdleConnectionCloses
CHECK_DEADLOCK FALSE
