SPECIFICATION FairSpec
CONSTANTS
  BufferSize = 9
  kPipelineActiveLimit = 2
  ReplyLen = 3
  Scripts <- LongHeader
  EofPoints <- Never
PROPERTIES IdleConnectionCloses
CHECK_DEADLOCK FALSE
