SPECIFICATION FairSpec
CONSTANTS
  Written <- MCWritten
  Read <- MCRead
  Values <- MCValues
  Moving <- MCMoving
  SplitReplies = FALSE
  MaxFrames = 2
INVARIANTS
  ReadsOwnReply
  CommandsArrive
PROPERTY ReadsReturn
