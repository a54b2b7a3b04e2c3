SPECIFICATION Spec
CONSTANTS
  s1 = s1
  s2 = s2
  s3 = s3
  none = none
  Surfaces <- MCSurfaces
  NoSurface <- none
  Options <- Dumping
INVARIANT ProcessedThenReturned
\* the process ends
CHECK_DEADLOCK FALSE
