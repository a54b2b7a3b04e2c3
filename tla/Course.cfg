SPECIFICATION FairCourseSpec
CONSTANTS
  ThreeWays = TRUE
  Marks <- CourseMarks
  BackMarks <- CourseBackMarks
  low_speed_limit = 0
  second_limit = 0
  LaneAngles <- StraightLane
  MeasuredSpeeds <- Hilly
  Levels <- SteadyWall
  Missions <- NoMission
  RedFrames <- AnyRed
  EndAngles <- StraightEnd
INVARIANTS
  LegCountsItsOwn
  ReverseTakenBack
PROPERTIES
  CourseEnds
  WaitEnds
CHECK_DEADLOCK FALSE
