SPECIFICATION Spec
CONSTANTS
  ThreeWays = FALSE
  Marks <- LaneMarks
  BackMarks <- HillMarks
  low_speed_limit = 1
  second_limit = 0
  LaneAngles <- StraightLane
  MeasuredSpeeds <- AnyMeasure
  Levels <- Gaps
  Missions <- NoMission
  RedFrames <- AnyRed
  EndAngles <- StraightEnd
INVARIANTS
  HillSpeedOnlyOnHill
  StagesInOrder
  LockIsSlow
PROPERTIES
  NoBackingAfterRed
  NoStepFromZero
CHECK_DEADLOCK FALSE
