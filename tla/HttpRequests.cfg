CONSTANTS
  MaxReply = 4
  BufLen = 4
  MaxLost = 1
SPECIFICATION Spec
INVARIANT ReplyIsRead
INVARIANT UploadReplyWhole
INVARIANT OnlyFailedUpdatesLeak
PROPERTY DecidesOnReply
PROPERTY CallsEnd
CHECK_DEADLOCK FALSE
