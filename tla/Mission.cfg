SPECIFICATION FairSpec
CONSTANTS
  ThreeWays = FALSE
  Marks <- MissionMarks
  BackMarks <- HillMarks
  low_speed_limit = 0
  second_limit = 0
  LaneAngles <- StraightLane
  MeasuredSpeeds <- Hilly
  Levels <- SteadyWall
  Missions <- BothMissions
  RedFrames <- AnyRed
  EndAngles <- MCEndAngles
INVARIANTS
  TypeOK
  RedStopsMainLoop
  MissionClearsStopCheck
  FinishedStands
  SteersWithinRange
PROPERTIES
  FirstJudgedWhileStopped
  WaitEnds
CHECK_DEADLOCK FALSE
