SPECIFICATION Spec
CONSTANTS
  BufferSize = 6
  ErrorLen = 2
  Replies <- MCReplies
PROPERTIES CancelledTimerTakesNoAction
