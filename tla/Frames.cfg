SPECIFICATION FairSpec
CONSTANTS
  s1 = s1
  s2 = s2
  s3 = s3
  none = none
  Surfaces <- MCSurfaces
  NoSurface <- none
  Options <- MCOptions
INVARIANTS
  TypeOK
  ReadsHeldSurface
  NeverReadsNull
  ReturnsOnlyHeld
  MixerShowsOnlyHeld
  PoolNeverEmpty
  NoLeftOverFrames
  AtMostOneLateCommand
PROPERTIES
  FramesInOrder
  Terminates
\* the process ends
CHECK_DEADLOCK FALSE
