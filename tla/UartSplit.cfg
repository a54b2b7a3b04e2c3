SPECIFICATION Spec
CONSTANTS
  Written <- MCWritten
  Read <- MCRead
  Values <- MCValues
  Moving <- MCMoving
  SplitReplies = TRUE
  MaxFrames = 2
INVARIANT ReadsOwnReply
