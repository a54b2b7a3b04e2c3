SPECIFICATION FairSpec
CONSTANTS
  ThreeWays = FALSE
  Marks <- LaneMarks
  BackMarks <- NoMarks
  low_speed_limit = 1
  second_limit = 0
  LaneAngles <- StraightLane
  MeasuredSpeeds <- NeverSlow
  Levels <- Walls
  Missions <- NoMission
  RedFrames <- NoRed
  EndAngles <- StraightEnd
PROPERTY ParkingStarts
CHECK_DEADLOCK FALSE
