------------------------ MODULE MissionControlProofs ------------------------
(***************************************************************************)
(* Proofs about MissionControl.  Every action but those that hand the      *)
(* thread to a loop ends in EndOfFrame, and WriteSpeed follows it, so most *)
(* of what is proved is one inductive invariant of the variables that the  *)
(* two write and of the stage the thread is in; the parking search, which  *)
(* touches none of them, has one of its own, as have the legs of the       *)
(* three-lane course; the types rest on the latter two.                    *)
(***************************************************************************)
EXTENDS MissionControl, TLAPS

Locked == turn_left_max \/ turn_right_max

\* What a frame of lane keeping leaves behind, whatever the image.
Left(sp) ==
    /\ sp = hill_speed => climing_hill_flag'
    /\ Locked' => sp # straight_speed
    /\ angle' \in 1000..2000

LEMMA LaneFrameLeaves ==
    ASSUME NEW counter, NEW sp, NEW backs, LaneFrame(counter, sp, backs)
    PROVE  Left(sp)
<1>1. PICK measured \in MeasuredSpeeds :
         /\ climing_hill_flag' = Climbs(measured, counter)
         /\ LockLeft \/ LockRight \/ FollowLane \/ LookAhead
         /\ sp = DrivenSpeed(Climbs(measured, counter))
  BY Zenon DEF LaneFrame, Hill
<1>2. sp = hill_speed => climing_hill_flag'
  <2>1. CASE Climbs(measured, counter)
    BY <1>1, <2>1, Zenon
  <2>2. CASE ~Climbs(measured, counter)
    <3>1. sp = LaneSpeed
      BY <1>1, <2>2, Zenon DEF DrivenSpeed
    <3> QED
      BY <3>1 DEF LaneSpeed, hill_speed, curve_speed, straight_speed
  <2> QED
    BY <2>1, <2>2
<1>3. Locked' => sp # straight_speed
  <2>1. sp = hill_speed \/ sp = LaneSpeed
    BY <1>1, Zenon DEF DrivenSpeed
  <2>2. Locked' => angle' = 2000 \/ angle' = 1000
    BY <1>1 DEF Locked, LockLeft, LockRight, FollowLane, LookAhead
  <2>3. Locked' => LaneSpeed = curve_speed
    BY <2>2 DEF LaneSpeed
  <2> QED
    BY <2>1, <2>3 DEF hill_speed, curve_speed, straight_speed
<1>4. angle' \in 1000..2000
  <2>1. CASE LockLeft \/ LockRight
    BY <2>1 DEF LockLeft, LockRight
  <2>2. CASE FollowLane
    BY <2>2, LaneAngleAssumption DEF FollowLane
  <2>3. CASE LookAhead
    BY <2>3, LaneAngleAssumption DEF LookAhead
  <2> QED
    BY <1>1, <2>1, <2>2, <2>3
<1> QED
  BY <1>2, <1>3, <1>4 DEF Left

LEMMA LaneLeaves ==
    ASSUME NEW counter, NEW sp, Find_Center(counter, sp)
    PROVE  /\ sp = hill_speed => climing_hill_flag'
           /\ Locked' => sp # straight_speed
           /\ angle' \in 1000..2000
<1>1. Left(sp)
  BY LaneFrameLeaves, Zenon DEF Find_Center
<1> QED
  BY <1>1 DEF Left

\* The same of a frame that backs off.
LEMMA BacksLeaves ==
    ASSUME NEW counter, NEW caller, Backs(counter, caller)
    PROVE  /\ at' = caller /\ encoder' = 0 /\ steering' = 1500 /\ HILLDISABLE' = HILLDISABLE
           /\ speed' \in LaneSpeeds /\ angle' \in 1000..2000
           /\ HillSpeedOnlyOnHill' /\ LockIsSlow'
<1>1. /\ at' = caller /\ encoder' = 0 /\ steering' = 1500 /\ HILLDISABLE' = HILLDISABLE
      /\ \E sp \in LaneSpeeds : LaneFrame(counter, sp, TRUE) /\ speed' = sp
  BY Zenon DEF Backs
<1>2. speed' \in LaneSpeeds /\ Left(speed')
  BY <1>1, LaneFrameLeaves, Zenon
<1>3. at' = caller /\ encoder' = 0 /\ steering' = 1500 /\ HILLDISABLE' = HILLDISABLE
  BY <1>1, Zenon
<1> QED
  BY <1>2, <1>3 DEF Left, HillSpeedOnlyOnHill, LockIsSlow, Locked

\* The legs are driven at speeds that no lane is driven at.
LEMMA LegSpeed ==
    /\ \A s \in 1..9 : LegOf(Out, s).speed \in {70, 65, 115}
    /\ \A s \in 1..12 : LegOf(Back, s).speed \in {70, 65, 115, -70}
<1>1. \A k \in 1..5 : Out[k].speed \in {70, 65, 115}
  BY DEF Out, Leg
<1>2. \A k \in 1..6 : Back[k].speed \in {65, 115, -70}
  BY DEF Back, Leg
<1>3. (\A s \in 1..9 : (s + 1) \div 2 \in 1..5) /\ (\A s \in 1..12 : (s + 1) \div 2 \in 1..6)
  OBVIOUS
<1> QED
  BY <1>1, <1>2, <1>3 DEF LegOf

\* A frame of the legs keeps the lane's memory and speed, starts a leg, or keeps
\* the lane at the speed of the last leg out.
LEMMA LegLeaves ==
    ASSUME NEW sp, Threeway_hardcoding(sp)
    PROVE  \/ sp = speed /\ UNCHANGED laneVars
           \/ sp \in {70, 65, 115, -70}
<1>1. CASE OutStep(sp)
  BY <1>1, LegSpeed DEF OutStep, StartLeg, DriveLeg
<1>2. CASE ToYellowLine(sp)
  BY <1>2 DEF ToYellowLine
<1>3. CASE BackStep(sp)
  BY <1>3, LegSpeed DEF BackStep, StartLeg, DriveLeg
<1> QED
  BY <1>1, <1>2, <1>3 DEF Threeway_hardcoding

----------------------------------------------------------------------------
(* The invariant *)

\* A car that stopped at its first line stands there until it has judged.
StandsAtLine ==
    stop_line_detected /\ pass < PassBound =>
       /\ flag = 0 /\ stop_check /\ speed = 0
       /\ at = "speed" \/ (at = "frame" /\ desired = 0)

\* Too much red stops the car by the speed that is about to be written.
RedStopping == at = "speed" /\ red => speed = 0

\* The loops belong to their missions, and detectStop's to an unfinished approach.
InMission ==
    /\ at \in {"center", "center_steer", "backing", "look", "hill_center", "hill_course"}
          => flag = 2
    /\ at \in {"rotary", "rotary_speed", "hill_rotary"} => flag = 1
    /\ at \in {"hill_lane", "hill_line", "hill_restart"} => flag = 0
    /\ at = "hill_line" => DrivesOn

\* Only the legs leave a negative speed, and only the course and hill_sequence
\* back off.
Backing ==
    /\ speed < 0 => flag = 2 /\ at \in {"frame", "speed"} /\ threeway_flag = 1
    /\ ReverseTakenBack

IInv ==
    /\ RedStopsMainLoop /\ RedStopping /\ MissionClearsStopCheck /\ FinishedStands
    /\ HillSpeedOnlyOnHill /\ LockIsSlow
    /\ StandsAtLine /\ InMission /\ Backing

LEMMA InitInv == Init => IInv
BY DEF Init, CarInit, LaneInit, ParkInit, CourseInit, IInv, RedStopsMainLoop, RedStopping,
       MissionClearsStopCheck, FinishedStands, HillSpeedOnlyOnHill, LockIsSlow,
       StandsAtLine, InMission, DrivesOn, Backing, ReverseTakenBack, hill_speed, straight_speed,
       PassBound

LEMMA NextInv ==
    ASSUME IInv, [Next]_vars
    PROVE  IInv'
<1> USE DEF IInv, RedStopsMainLoop, RedStopping, MissionClearsStopCheck, FinishedStands,
        HillSpeedOnlyOnHill, LockIsSlow, StandsAtLine, InMission, Backing, ReverseTakenBack,
        hill_speed, straight_speed, curve_speed, PassBound, EndOfFrame, NoLane, NoCourse,
        missionVars, laneVars, turnVars, hillVars, carVars, courseVars, LaneSpeeds,
        SpeedWrites, Hills, DrivesOn
<1>1. CASE NoCourse /\ FrameKeepLane
  <2>1. CASE \E e \in {0, encoder} : Backs(e, "hill_lane")
    BY <1>1, <2>1, BacksLeaves DEF FrameKeepLane, Idle
  <2>2. CASE \E e \in {0, encoder} : \E sp \in LaneSpeeds :
                Find_Center(e, sp) /\ (EndOfFrame(sp) \/ EndOfFrame(60))
    BY <1>1, <2>2, LaneLeaves DEF FrameKeepLane, Idle, Locked
  <2> QED
    BY <1>1, <2>1, <2>2 DEF FrameKeepLane
<1>2. CASE NoCourse /\ FramePark
  BY <1>2 DEF FramePark, Idle
<1>3. CASE NoCourse /\ FrameWhiteLine
  BY <1>3 DEF FrameWhiteLine, Idle
<1>4. CASE NoCourse /\ FrameStopAtLine
  BY <1>4 DEF FrameStopAtLine, Approaching, AtLine, RaiseCamera
<1>5. CASE NoCourse /\ FrameToLine
  <2>1. CASE Backs(encoder, "hill_line") /\ UNCHANGED stop_camera
    BY <1>5, <2>1, BacksLeaves DEF FrameToLine, Approaching
  <2>2. CASE \E sp \in LaneSpeeds : Find_Center(encoder, sp) /\ ToLine(encoder)
    BY <1>5, <2>2, LaneLeaves DEF FrameToLine, Approaching, ToLine, Locked
  <2> QED
    BY <1>5, <2>1, <2>2 DEF FrameToLine
<1>6. CASE NoCourse /\ FrameRestart
  <2>1. CASE Backs(encoder, "hill_restart")
    BY <1>6, <2>1, BacksLeaves DEF FrameRestart, Approaching
  <2>2. CASE \E sp \in LaneSpeeds : Find_Center(encoder, sp) /\ EndOfFrame(sp)
    BY <1>6, <2>2, LaneLeaves DEF FrameRestart, Approaching, Locked
  <2> QED
    BY <1>6, <2>1, <2>2 DEF FrameRestart
<1>7. CASE NoCourse /\ FrameJudge
  <2>1. CASE pass' < PassBound
    <3>1. pass < PassBound /\ UNCHANGED <<flag, stop_check>>
      BY <1>7, <2>1 DEF FrameJudge
    <3> QED
      BY <1>7, <3>1 DEF FrameJudge, RaiseCamera
  <2>2. CASE ~(pass' < PassBound)
    <3>1. ~stop_check'
      BY <1>7, <2>2 DEF FrameJudge, Judged
    <3> QED
      BY <1>7, <2>2, <3>1 DEF FrameJudge, RaiseCamera
  <2> QED
    BY <2>1, <2>2
<1>8. CASE NoCourse /\ FrameRotary
  BY <1>8 DEF FrameRotary
<1>9. CASE NoCourse /\ RotaryWait
  BY <1>9 DEF RotaryWait
<1>10. CASE NoCourse /\ RotaryDrive
  <2>1. CASE Backs(encoder, "hill_rotary")
    BY <1>10, <2>1, BacksLeaves DEF RotaryDrive
  <2>2. CASE NoLane /\ EndOfRotaryFrame({0})
    BY <1>10, <2>2 DEF RotaryDrive, EndOfRotaryFrame
  <2>3. CASE EndOfRotaryFrame({0, 40, 80}) /\ (\E sp \in LaneSpeeds : Find_Center(encoder, sp))
    BY <1>10, <2>3, LaneLeaves DEF RotaryDrive, EndOfRotaryFrame, Locked
  <2> QED
    BY <1>10, <2>1, <2>2, <2>3 DEF RotaryDrive
<1>11. CASE NoCourse /\ RotaryExit
  BY <1>11 DEF RotaryExit
<1>12. CASE NoCourse /\ FrameLight
  BY <1>12 DEF FrameLight, InLight
<1>13. CASE NoCourse /\ FrameLightCrash
  BY <1>13 DEF FrameLightCrash, InLight
<1>14. CASE NoCourse /\ FrameLightGo
  BY <1>14 DEF FrameLightGo, InLight
<1>15. CASE NoCourse /\ FrameLightWait
  BY <1>15 DEF FrameLightWait, InLight
<1>16. CASE NoCourse /\ FrameEndMission
  BY <1>16 DEF FrameEndMission, InLight, Finish
<1>17. CASE NoCourse /\ FrameFinished
  BY <1>17 DEF FrameFinished, InLight
<1>18. CASE FrameThreeLanes
  BY <1>18 DEF FrameThreeLanes, Idle
<1>19. CASE FrameFindObstacle
  BY <1>19 DEF FrameFindObstacle, InCourse
<1>20. CASE CenterLane
  <2>1. CASE Backs(encoder, "hill_center")
    BY <1>20, <2>1, BacksLeaves DEF CenterLane
  <2>2. CASE /\ \E sp \in LaneSpeeds : Find_Center(encoder, sp) /\ speed' = sp
             /\ desired' = 70 /\ at' = "center_steer"
    BY <1>20, <2>2, LaneLeaves DEF CenterLane, Locked
  <2> QED
    BY <1>20, <2>1, <2>2 DEF CenterLane
<1>21. CASE CenterDrive \/ CenterObstacle
  BY <1>21 DEF CenterDrive, CenterObstacle
<1>22. CASE CenterLeave
  BY <1>22 DEF CenterLeave
<1>23. CASE LookForObstacle
  BY <1>23 DEF LookForObstacle
<1>24. CASE FrameLegs
  <2>1. PICK sp \in Speeds : (Threeway_hardcoding(sp) \/ CourseDone(sp)) /\ EndOfFrame(sp)
    BY <1>24 DEF FrameLegs
  <2>2. CASE Threeway_hardcoding(sp)
    BY <1>24, <2>1, <2>2, LegLeaves DEF FrameLegs, InCourse, Threeway_hardcoding
  <2>3. CASE CourseDone(sp)
    BY <1>24, <2>1, <2>3 DEF FrameLegs, InCourse, CourseDone
  <2> QED
    BY <2>1, <2>2, <2>3
<1>25. CASE FrameCourseOver
  BY <1>25 DEF FrameCourseOver, InCourse
<1>26. CASE FrameLegHill
  <2>1. Backs(encoder, "hill_course") /\ flag = 2 /\ UNCHANGED missionVars
    BY <1>26 DEF FrameLegHill, InCourse
  <2>2. ~(desired' < 0) \/ flag' = 2
    BY <2>1
  <2> QED
    BY <2>1, <2>2, BacksLeaves
<1>27. CASE NoCourse /\ StraightDone
  BY <1>27 DEF StraightDone
<1>28. CASE NoCourse /\ TurnDone
  BY <1>28 DEF TurnDone
<1>29. CASE BackedOff
  BY <1>29 DEF BackedOff
<1>30. CASE HillDrives
  BY <1>30 DEF HillDrives
<1>31. CASE HillFrameEnds
  BY <1>31 DEF HillFrameEnds, HillDone, ClimbBegins
<1>32. CASE HillToLine
  BY <1>32 DEF HillToLine, HillDone, ClimbBegins, ToLine
<1>33. CASE HillRotary
  BY <1>33 DEF HillRotary, HillDone, ClimbBegins, EndOfRotaryFrame
<1>34. CASE HillCenter
  BY <1>34 DEF HillCenter, HillDone, ClimbBegins
<1>35. CASE WriteSpeed
  BY <1>35 DEF WriteSpeed
<1>36. CASE CarRolls
  BY <1>36 DEF CarRolls
<1>37. CASE UNCHANGED vars
  BY <1>37 DEF vars
<1> QED
  BY <1>1, <1>2, <1>3, <1>4, <1>5, <1>6, <1>7, <1>8, <1>9, <1>10, <1>11, <1>12, <1>13,
     <1>14, <1>15, <1>16, <1>17, <1>18, <1>19, <1>20, <1>21, <1>22, <1>23, <1>24, <1>25,
     <1>26, <1>27, <1>28, <1>29, <1>30, <1>31, <1>32, <1>33, <1>34, <1>35, <1>36, <1>37
     DEF Next, Course, WaitDone, HillReturns

LEMMA Invariance == Spec => []IInv
<1>1. Init => IInv
  BY InitInv
<1>2. IInv /\ [Next]_vars => IInv'
  BY NextInv
<1> QED
  BY <1>1, <1>2, PTL DEF Spec

----------------------------------------------------------------------------
(* What follows from it *)

\* Too much red stops the car in every frame of the main loop, whatever the
\* mission of the frame decided: the check of ControlThread comes last.
THEOREM RedStops == Spec => []RedStopsMainLoop
<1>1. IInv => RedStopsMainLoop
  BY DEF IInv
<1> QED
  BY <1>1, Invariance, PTL

\* No mission runs with its stop line still pending: detect_signal's answer and
\* the reset of stop_check in ControlThread go together.
THEOREM StopCheckCleared == Spec => []MissionClearsStopCheck
<1>1. IInv => MissionClearsStopCheck
  BY DEF IInv
<1> QED
  BY <1>1, Invariance, PTL

\* Once endMission has finished, the car stands, in the mission's last stage.
THEOREM StandsForGood == Spec => []FinishedStands
<1>1. IInv => FinishedStands
  BY DEF IInv
<1> QED
  BY <1>1, Invariance, PTL

\* hill_speed of Find_Center never outlives the climb, for any limits of the
\* hill counters and whatever speed is measured.
THEOREM HillSpeedEndsWithHill == Spec => []HillSpeedOnlyOnHill
<1>1. IInv => HillSpeedOnlyOnHill
  BY DEF IInv
<1> QED
  BY <1>1, Invariance, PTL

\* Find_Center never leaves full lock together with the speed of a straight.
THEOREM LocksAreSlow == Spec => []LockIsSlow
<1>1. IInv => LockIsSlow
  BY DEF IInv
<1> QED
  BY <1>1, Invariance, PTL

\* A command to drive backwards, of hill_sequence or of a leg, is taken back at the
\* end of its frame or, at the latest, in the three-lane course.
THEOREM ReverseEnds == Spec => []ReverseTakenBack
<1>1. IInv => ReverseTakenBack
  BY DEF IInv, Backing
<1> QED
  BY <1>1, Invariance, PTL

\* The first judgement of detect_signal is made by a car that stands, for any
\* missions: until pass has reached its bound nothing but FrameJudge is possible
\* once the car has stopped at the line.
THEOREM JudgesStanding == Spec => FirstJudgedWhileStopped
<1>1. ASSUME IInv, [Next]_vars, flag = 0, flag' \in {1, 3}, pass < PassBound
      PROVE  desired = 0
  <2> USE <1>1 DEF missionVars
  <2>1. CASE NoCourse /\ FrameJudge
    BY <2>1 DEF FrameJudge, IInv, StandsAtLine
  <2>2. CASE Course
    BY <2>2 DEF Course, FrameFindObstacle, CenterLane, CenterDrive, CenterObstacle, CenterLeave,
         LookForObstacle, FrameLegs, FrameLegHill, FrameCourseOver, FrameThreeLanes
  <2>3. CASE FrameKeepLane \/ FramePark \/ FrameWhiteLine \/ FrameStopAtLine
                \/ FrameToLine \/ FrameRestart
    BY <2>3 DEF FrameKeepLane, FramePark, FrameWhiteLine, FrameStopAtLine, FrameToLine,
         FrameRestart
  <2>4. CASE FrameRotary \/ RotaryWait \/ RotaryDrive \/ RotaryExit
    <3>1. CASE FrameRotary
      BY <3>1 DEF FrameRotary
    <3>2. CASE RotaryWait
      BY <3>2 DEF RotaryWait
    <3>3. CASE RotaryDrive
      BY <3>3 DEF RotaryDrive
    <3>4. CASE RotaryExit
      BY <3>4 DEF RotaryExit
    <3> QED
      BY <2>4, <3>1, <3>2, <3>3, <3>4
  <2>5. CASE FrameLight \/ FrameLightCrash \/ FrameLightGo \/ FrameLightWait
                \/ FrameEndMission \/ FrameFinished
    BY <2>5 DEF FrameLight, FrameLightCrash, FrameLightGo, FrameLightWait, FrameEndMission,
         FrameFinished, InLight
  <2>6. CASE StraightDone \/ TurnDone \/ BackedOff \/ CarRolls \/ UNCHANGED vars
    <3>1. flag' = flag
      BY <2>6 DEF StraightDone, TurnDone, BackedOff, CarRolls, vars
    <3> QED
      BY <3>1
  <2>7. CASE WriteSpeed \/ HillDrives \/ HillReturns
    <3>1. flag' = flag
      BY <2>7 DEF WriteSpeed, HillDrives, HillReturns, HillFrameEnds, HillToLine, HillRotary,
           HillCenter
    <3> QED
      BY <3>1
  <2> QED
    BY <2>1, <2>2, <2>3, <2>4, <2>5, <2>6, <2>7 DEF Next, WaitDone
<1>2. IInv /\ [Next]_vars =>
        [flag = 0 /\ flag' \in {1, 3} /\ pass < PassBound => desired = 0]_vars
  BY <1>1
<1> QED
  BY <1>2, Invariance, PTL DEF Spec, FirstJudgedWhileStopped

----------------------------------------------------------------------------
(* The parking search *)

\* The stages, and what warming up has seen.
ParkInv ==
    /\ StagesInOrder /\ channel_warmming \in BOOLEAN
    /\ channel_warmming => channel_rightPrev # 0
    /\ ~channel_warmming => difference_right = 0

LEMMA ParkStep ==
    ASSUME ParkInv,
           UNCHANGED parkVars \/ (\E e : CheckParking(e)) \/ SpaceFound
    PROVE  ParkInv' /\ (right_flag = 0 /\ right_flag' = 1 => channel_rightPrev # 0)
<1>1. CASE UNCHANGED parkVars
  <2>1. /\ UNCHANGED <<right_flag, first_right_detect, second_right_detect,
                         third_right_detect>>
        /\ UNCHANGED <<channel_rightPrev, channel_warmming, difference_right>>
    BY <1>1 DEF parkVars
  <2>2. StagesInOrder'
    BY <2>1, Zenon DEF ParkInv, StagesInOrder
  <2> QED
    BY <2>1, <2>2 DEF ParkInv
<1>2. ASSUME NEW now \in Levels, Measure(now)
      PROVE  /\ channel_warmming' \in BOOLEAN
             /\ channel_warmming' => channel_rightPrev' # 0 /\ channel_rightPrev # 0
             /\ ~channel_warmming' => difference_right' = 0
  BY <1>2 DEF Measure, ParkInv
<1>3. CASE \E e : CheckParking(e)
  <2>1. /\ channel_warmming' \in BOOLEAN
        /\ channel_warmming' => channel_rightPrev' # 0 /\ channel_rightPrev # 0
        /\ ~channel_warmming' => difference_right' = 0
    BY <1>2, <1>3 DEF CheckParking
  <2>2. StagesInOrder'
    <3> DEFINE Stays == UNCHANGED <<first_right_detect, second_right_detect,
                                    third_right_detect>>
    <3>1. \/ WallBegins /\ right_flag' = 1 /\ Stays
          \/ WallSeen /\ right_flag' = right_flag
                /\ Detected(TRUE, second_right_detect, third_right_detect)
          \/ GapBegins /\ right_flag' = 2 /\ Stays
          \/ GapSeen /\ right_flag' = right_flag
                /\ Detected(first_right_detect, TRUE, third_right_detect)
          \/ EndBegins /\ right_flag' = 3 /\ Stays
          \/ right_flag' = 0 /\ Detected(FALSE, FALSE, FALSE)
          \/ right_flag' = right_flag /\ Stays
      BY <1>3 DEF CheckParking, GiveUp, Detected
    <3> QED
      BY <3>1 DEF ParkInv, StagesInOrder, Detected, WallBegins, WallSeen, GapBegins, GapSeen,
           EndBegins
  <2>3. right_flag = 0 /\ right_flag' = 1 => difference_right' > 100
    BY <1>3 DEF CheckParking, WallBegins, WallSeen, GapBegins, GapSeen, EndBegins, GiveUp
  <2> QED
    BY <2>1, <2>2, <2>3 DEF ParkInv
<1>4. CASE SpaceFound
  <2>1. /\ channel_warmming' \in BOOLEAN
        /\ channel_warmming' => channel_rightPrev' # 0
        /\ ~channel_warmming' => difference_right' = 0
    BY <1>2, <1>4 DEF SpaceFound
  <2> QED
    BY <1>4, <2>1 DEF SpaceFound, EndSeen, Detected, ParkInv, StagesInOrder
<1> QED
  BY <1>1, <1>3, <1>4

\* Only two actions touch the search.
LEMMA ParkNext ==
    ASSUME [Next]_vars
    PROVE  UNCHANGED parkVars \/ (\E e : CheckParking(e)) \/ SpaceFound
<1>1. CASE FrameKeepLane
  BY <1>1 DEF FrameKeepLane
<1>2. CASE FramePark
  BY <1>2 DEF FramePark
<1>3. CASE FrameWhiteLine \/ FrameStopAtLine \/ FrameJudge
  BY <1>3 DEF FrameWhiteLine, FrameStopAtLine, FrameJudge
<1>4. CASE FrameToLine
  BY <1>4 DEF FrameToLine
<1>5. CASE FrameRestart
  BY <1>5 DEF FrameRestart
<1>6. CASE FrameRotary \/ RotaryWait \/ RotaryExit
  <2>1. FrameRotary => UNCHANGED parkVars
    BY DEF FrameRotary
  <2>2. RotaryWait => UNCHANGED parkVars
    BY DEF RotaryWait
  <2>3. RotaryExit => UNCHANGED parkVars
    BY DEF RotaryExit
  <2> QED
    BY <1>6, <2>1, <2>2, <2>3
<1>7. CASE RotaryDrive
  BY <1>7 DEF RotaryDrive
<1>8. CASE FrameLight \/ FrameLightCrash \/ FrameLightGo \/ FrameLightWait
              \/ FrameEndMission \/ FrameFinished
  BY <1>8 DEF FrameLight, FrameLightCrash, FrameLightGo, FrameLightWait, FrameEndMission,
       FrameFinished
<1>9. CASE FrameThreeLanes \/ FrameFindObstacle \/ LookForObstacle \/ FrameLegs
              \/ FrameLegHill \/ FrameCourseOver
  BY <1>9 DEF FrameThreeLanes, FrameFindObstacle, LookForObstacle, FrameLegs, FrameLegHill,
       FrameCourseOver
<1>10. CASE CenterLane \/ CenterDrive \/ CenterObstacle \/ CenterLeave
  BY <1>10 DEF CenterLane, CenterDrive, CenterObstacle, CenterLeave
<1>11. CASE StraightDone \/ TurnDone \/ BackedOff \/ CarRolls \/ UNCHANGED vars
  BY <1>11 DEF StraightDone, TurnDone, BackedOff, CarRolls, vars
<1>12. CASE WriteSpeed \/ HillDrives \/ HillReturns
  BY <1>12 DEF WriteSpeed, HillDrives, HillReturns, HillFrameEnds, HillToLine, HillRotary,
       HillCenter, HillDone
<1> QED
  BY <1>1, <1>2, <1>3, <1>4, <1>5, <1>6, <1>7, <1>8, <1>9, <1>10, <1>11, <1>12
     DEF Next, Course, WaitDone

LEMMA ParkInvariance == Spec => []ParkInv
<1>1. Init => ParkInv
  BY DEF Init, ParkInit, ParkInv, StagesInOrder
<1>2. ParkInv /\ [Next]_vars => ParkInv'
  BY ParkNext, ParkStep
<1> QED
  BY <1>1, <1>2, PTL DEF Spec

\* The stage of check_parking and the flags it is spread over never disagree,
\* for any distances.
THEOREM SearchInOrder == Spec => []StagesInOrder
<1>1. ParkInv => StagesInOrder
  BY DEF ParkInv
<1> QED
  BY <1>1, ParkInvariance, PTL

\* check_parking never starts its search on the step from a reading of 0.
THEOREM WarmBeforeSearch == Spec => NoStepFromZero
<1>1. ParkInv /\ [Next]_vars =>
        [right_flag = 0 /\ right_flag' = 1 => channel_rightPrev # 0]_<<carVars, parkVars>>
  BY ParkNext, ParkStep
<1> QED
  BY <1>1, ParkInvariance, PTL DEF Spec, NoStepFromZero

----------------------------------------------------------------------------
(* Hills and red *)

\* In the main loop HILLDISABLE tells what the frame before has shown.
RedInv == at \in {"frame", "speed"} => (HILLDISABLE <=> red)

\* A frame that has seen red lets Find_Center not begin to back off.
LEMMA LaneHolds ==
    ASSUME NEW counter, NEW caller, HILLDISABLE
    PROVE  ~Backs(counter, caller)
BY Zenon DEF Backs, LaneFrame, Hill, BacksOff

LEMMA RedNext ==
    ASSUME RedInv, [Next]_vars
    PROVE  RedInv' /\ (red /\ at = "frame" => at' \notin Hills)
<1> USE DEF RedInv, Hills
<1>1. ASSUME NEW sp, EndOfFrame(sp)
      PROVE  RedInv' /\ at' \notin Hills
  BY <1>1 DEF EndOfFrame
<1>2. ASSUME NEW counter, NEW caller \in Hills, Backs(counter, caller), at = "frame"
      PROVE  RedInv' /\ ~red
  BY <1>2, LaneHolds, BacksLeaves
<1>3. CASE FrameKeepLane
  BY <1>1, <1>2, <1>3 DEF FrameKeepLane, Idle
<1>4. CASE FrameToLine
  BY <1>1, <1>2, <1>4 DEF FrameToLine, Approaching, ToLine
<1>5. CASE FrameRestart
  BY <1>1, <1>2, <1>5 DEF FrameRestart, Approaching
<1>6. CASE FrameLegs \/ FrameLegHill
  BY <1>1, <1>2, <1>6 DEF FrameLegs, FrameLegHill, InCourse
<1>7. CASE FrameWhiteLine \/ FrameStopAtLine \/ FrameJudge \/ RotaryExit
  BY <1>1, <1>7 DEF FrameWhiteLine, FrameStopAtLine, FrameJudge, AtLine, RotaryExit
<1>8. CASE FramePark \/ FrameFindObstacle
  BY <1>8 DEF FramePark, FrameFindObstacle
<1>9. CASE FrameRotary \/ RotaryWait
  BY <1>9 DEF FrameRotary, RotaryWait
<1>10. CASE RotaryDrive
  BY <1>10, BacksLeaves DEF RotaryDrive, EndOfRotaryFrame
<1>11. CASE FrameLight \/ FrameLightGo \/ FrameFinished \/ FrameCourseOver \/ FrameThreeLanes
  BY <1>1, <1>11 DEF FrameLight, FrameLightGo, FrameFinished, FrameCourseOver, FrameThreeLanes
<1>12. CASE FrameLightCrash \/ FrameLightWait
  BY <1>12 DEF FrameLightCrash, FrameLightWait
<1>13. CASE FrameEndMission
  BY <1>1, <1>13 DEF FrameEndMission, Finish
<1>14. CASE CenterLane
  BY <1>14, BacksLeaves DEF CenterLane
<1>15. CASE CenterDrive \/ CenterObstacle \/ BackedOff
  BY <1>15 DEF CenterDrive, CenterObstacle, BackedOff
<1>16. CASE CenterLeave \/ LookForObstacle
  BY <1>1, <1>16 DEF CenterLeave, LookForObstacle
<1>17. CASE StraightDone \/ TurnDone
  BY <1>1, <1>17 DEF StraightDone, TurnDone
<1>18. CASE HillFrameEnds \/ HillToLine
  BY <1>1, <1>18 DEF HillFrameEnds, HillToLine, ToLine
<1>19. CASE HillRotary \/ HillCenter \/ HillDrives
  BY <1>19 DEF HillRotary, EndOfRotaryFrame, HillCenter, HillDone, HillDrives
<1>20. CASE WriteSpeed
  BY <1>20 DEF WriteSpeed, SpeedWrites
<1>21. CASE CarRolls
  BY <1>21 DEF CarRolls
<1>22. CASE UNCHANGED vars
  BY <1>22 DEF vars, carVars
<1> QED
  BY <1>3, <1>4, <1>5, <1>6, <1>7, <1>8, <1>9, <1>10, <1>11, <1>12, <1>13, <1>14,
     <1>15, <1>16, <1>17, <1>18, <1>19, <1>20, <1>21, <1>22
     DEF Next, Course, WaitDone, HillReturns

\* A car that stands for red never begins to back off as if stuck on a hill.
THEOREM StandsForRed == Spec => NoBackingAfterRed
<1>1. Init => RedInv
  BY DEF Init, CarInit, RedInv
<1>2. RedInv /\ [Next]_vars => RedInv'
  BY RedNext
<1>3. RedInv /\ [Next]_vars => [red /\ at = "frame" => at' \notin Hills]_vars
  BY RedNext
<1> QED
  BY <1>1, <1>2, <1>3, PTL DEF Spec, NoBackingAfterRed

----------------------------------------------------------------------------
(* Steering, as long as the three-lane course is not reached: an obstacle in *)
(* the centre makes destiny 4 and steers out of the range.                   *)

SteerInv ==
    /\ flag # 2
    /\ at \notin {"center", "center_steer", "backing", "look", "hill_center", "hill_course"}
    /\ traffic # 5 => angle \in 1000..2000 /\ steering \in 1000..2000

LEMMA BoundedInRange == \A a \in Int : Bounded(a) \in 1000..2000
BY DEF Bounded

LEMMA SteerNext ==
    ASSUME ThreeWays = FALSE, IInv, SteerInv, [Next]_vars
    PROVE  SteerInv'
<1> USE DEF SteerInv, EndOfFrame, missionVars, carVars
<1>1. CASE FrameKeepLane
  BY <1>1, LaneLeaves, BacksLeaves DEF FrameKeepLane, Idle
<1>2. CASE FrameToLine
  BY <1>2, LaneLeaves, BacksLeaves DEF FrameToLine, Approaching, ToLine
<1>3. CASE FrameRestart
  BY <1>3, LaneLeaves, BacksLeaves DEF FrameRestart, Approaching
<1>4. CASE RotaryDrive
  BY <1>4, LaneLeaves, BacksLeaves DEF RotaryDrive, EndOfRotaryFrame
<1>5. CASE FramePark \/ FrameWhiteLine \/ FrameStopAtLine
  BY <1>5 DEF FramePark, FrameWhiteLine, FrameStopAtLine, AtLine
<1>6. CASE FrameJudge
  <2>1. flag' = flag \/ flag' \in Missions
    <3>1. CASE pass' < PassBound
      BY <1>6, <3>1 DEF FrameJudge
    <3>2. CASE ~(pass' < PassBound)
      BY <1>6, <3>2 DEF FrameJudge, Judged
    <3> QED
      BY <3>1, <3>2
  <2> QED
    BY <1>6, <2>1, MissionAssumption DEF FrameJudge
<1>7. CASE FrameRotary \/ RotaryWait \/ RotaryExit
  <2>1. CASE FrameRotary
    BY <2>1 DEF FrameRotary
  <2>2. CASE RotaryWait
    BY <2>2 DEF RotaryWait
  <2>3. CASE RotaryExit
    BY <2>3 DEF RotaryExit
  <2> QED
    BY <1>7, <2>1, <2>2, <2>3
<1>8. CASE FrameLight \/ FrameLightCrash \/ FrameLightGo \/ FrameLightWait \/ FrameFinished
  BY <1>8 DEF FrameLight, FrameLightCrash, FrameLightGo, FrameLightWait, FrameFinished, InLight
<1>9. CASE FrameEndMission
  <2>1. flag' = flag /\ at' = "speed" /\ steering' = angle'
    BY <1>9 DEF FrameEndMission, Finish
  <2>2. CASE angle' \in {Bounded(a) : a \in EndAngles}
    <3>1. angle' \in 1000..2000
      BY <2>2, EndAngleAssumption, BoundedInRange
    <3> QED
      BY <2>1, <3>1
  <2>3. CASE Finish
    BY <2>1, <2>3 DEF Finish
  <2> QED
    BY <1>9, <2>2, <2>3 DEF FrameEndMission
<1>10. CASE Course
  BY <1>10 DEF Course, FrameThreeLanes, FrameFindObstacle, CenterLane, CenterDrive,
       CenterObstacle, CenterLeave, LookForObstacle, FrameLegs, FrameLegHill, FrameCourseOver,
       InCourse
<1>11. CASE StraightDone \/ TurnDone
  BY <1>11 DEF StraightDone, TurnDone, IInv, FinishedStands
<1>12. CASE BackedOff \/ CarRolls \/ UNCHANGED vars
  BY <1>12 DEF BackedOff, CarRolls, vars
<1>13. CASE WriteSpeed
  BY <1>13 DEF WriteSpeed, SpeedWrites
<1>14. CASE HillDrives
  BY <1>14 DEF HillDrives
<1>15. CASE HillFrameEnds \/ HillToLine
  BY <1>15 DEF HillFrameEnds, HillToLine, HillDone, ToLine, IInv, FinishedStands
<1>16. CASE HillRotary \/ HillCenter
  BY <1>16 DEF HillRotary, HillCenter, HillDone, EndOfRotaryFrame, IInv, FinishedStands
<1> QED
  BY <1>1, <1>2, <1>3, <1>4, <1>5, <1>6, <1>7, <1>8, <1>9, <1>10, <1>11, <1>12, <1>13, <1>14,
     <1>15, <1>16
     DEF Next, WaitDone, HillReturns

\* An angle outside the range of the servo is written only in the frame that stops
\* the car, whose next command is speed 0, for any angles the lane or endMission
\* asks for.
THEOREM SteersInRange == ASSUME ThreeWays = FALSE PROVE Spec => []SteersWithinRange
<1>1. Init => SteerInv
  BY DEF Init, CarInit, SteerInv
<1>2. IInv /\ SteerInv /\ [Next]_vars => SteerInv'
  BY SteerNext
<1>3. IInv /\ SteerInv => SteersWithinRange
  BY DEF IInv, FinishedStands, SteerInv, SteersWithinRange
<1> QED
  BY <1>1, <1>2, <1>3, Invariance, PTL DEF Spec

----------------------------------------------------------------------------
(* The legs of the three-lane course *)

Backwards == flag_YL \in {2, 12}
Forwards  == flag_YL \in {4, 6, 8, 10} \/ flag_tw \in {2, 4, 6, 8, 10}

\* The legs keep the thread, but for a hill on the last leg out, and in their
\* frames the counter is on the side to which the car was told to drive.
LegInv ==
    /\ encoder \in Int /\ flag_tw \in 0..10 /\ flag_YL \in 0..13
    /\ flag_tw # 0 => flag_YL = 0
    /\ threeway_flag = 0 => flag_tw = 1
    /\ at \in {"center", "center_steer", "backing", "look", "hill_center"}
          => flag = 2 /\ threeway_flag = 0
    /\ at = "hill_course" => /\ flag = 2 /\ threeway_flag = 1
                             /\ flag_tw = 10 \/ (flag_tw = 0 /\ flag_YL = 1)
    /\ threeway_flag = 1 =>
         /\ flag = 2 /\ at \in {"frame", "speed", "hill_course"}
         /\ Backwards /\ at # "hill_course" =>
               encoder <= 0 /\ ~(speed > 0) /\ (at = "frame" => ~(desired > 0))
         /\ Forwards /\ at # "hill_course" =>
               encoder >= 0 /\ ~(speed < 0) /\ (at = "frame" => ~(desired < 0))

LEMMA LegSides ==
    /\ \A s \in {1, 3, 5, 7, 9} : LegOf(Out, s).speed \in 1..115
    /\ \A s \in {3, 5, 7, 9} : LegOf(Back, s).speed \in 1..115
    /\ \A s \in {1, 11} : LegOf(Back, s).speed \in -70..-1
<1>1. \A k \in 1..5 : Out[k].speed \in 1..115
  BY DEF Out, Leg
<1>2. \A k \in {2, 3, 4, 5} : Back[k].speed \in 1..115
  BY DEF Back, Leg
<1>3. \A k \in {1, 6} : Back[k].speed \in -70..-1
  BY DEF Back, Leg
<1>4. /\ \A s \in {1, 3, 5, 7, 9} : (s + 1) \div 2 \in 1..5
      /\ \A s \in {3, 5, 7, 9} : (s + 1) \div 2 \in {2, 3, 4, 5}
      /\ \A s \in {1, 11} : (s + 1) \div 2 \in {1, 6}
  OBVIOUS
<1> QED
  BY <1>1, <1>2, <1>3, <1>4 DEF LegOf

LEMMA StartStages ==
    /\ \A s \in 1..9 : Starts(s) <=> s \in {1, 3, 5, 7, 9}
    /\ \A s \in 1..12 : Starts(s) <=> s \in {1, 3, 5, 7, 9, 11}
BY DEF Starts

\* One frame of the legs.
LEMMA LegFrame ==
    ASSUME LegInv, FrameLegs
    PROVE  LegInv'
<1> USE DEF LegInv, Backwards, Forwards, EndOfFrame
<1>1. PICK sp \in Speeds : (Threeway_hardcoding(sp) \/ CourseDone(sp)) /\ EndOfFrame(sp)
  BY DEF FrameLegs
<1>2. flag' = 2 /\ flag = 2 /\ threeway_flag = 1 /\ at = "frame"
  BY DEF FrameLegs, InCourse, missionVars
<1>3. CASE CourseDone(sp)
  BY <1>1, <1>2, <1>3 DEF CourseDone
<1>4. CASE Threeway_hardcoding(sp) /\ OutStep(sp)
  <2>1. CASE Starts(flag_tw)
    <3>1. flag_tw \in {1, 3, 5, 7, 9} /\ sp = LegOf(Out, flag_tw).speed
      BY <1>4, <2>1, StartStages DEF OutStep, StartLeg
    <3>2. sp \in 1..115
      BY <3>1, LegSides
    <3> QED
      BY <1>1, <1>2, <1>4, <2>1, <3>1, <3>2 DEF OutStep, StartLeg, Threeway_hardcoding
  <2>2. CASE ~Starts(flag_tw)
    <3>1. flag_tw \in {2, 4, 6, 8}
      BY <1>4, <2>2, StartStages DEF OutStep
    <3>2. sp = speed /\ encoder' = encoder /\ flag_tw' \in {flag_tw, flag_tw + 1}
            /\ flag_YL' = flag_YL
      BY <1>4, <2>2 DEF OutStep, DriveLeg
    <3> QED
      BY <1>1, <1>2, <1>4, <3>1, <3>2 DEF Threeway_hardcoding
  <2> QED
    BY <2>1, <2>2
<1>5. CASE Threeway_hardcoding(sp) /\ ToYellowLine(sp)
  <2>1. /\ flag_tw = 10 /\ flag_YL = 0 /\ encoder' = encoder /\ sp = 115
        /\ threeway_flag' = threeway_flag
    BY <1>5 DEF ToYellowLine, MeetYellowLine, Threeway_hardcoding
  <2>2. (flag_tw' = 0 /\ flag_YL' = 1) \/ (flag_tw' = 10 /\ flag_YL' = 0)
    BY <1>5, <2>1 DEF ToYellowLine, MeetYellowLine
  <2> QED
    BY <1>1, <1>2, <2>1, <2>2
<1>6. CASE Threeway_hardcoding(sp) /\ BackStep(sp)
  <2>1. CASE Starts(flag_YL)
    <3>1. flag_YL \in {1, 3, 5, 7, 9, 11} /\ sp = LegOf(Back, flag_YL).speed
      BY <1>6, <2>1, StartStages DEF BackStep, StartLeg
    <3>2. IF flag_YL \in {1, 11} THEN sp \in -70..-1 ELSE sp \in 1..115
      BY <3>1, LegSides
    <3> QED
      BY <1>1, <1>2, <1>6, <2>1, <3>1, <3>2 DEF BackStep, StartLeg, Threeway_hardcoding
  <2>2. CASE ~Starts(flag_YL)
    <3>1. flag_YL \in {2, 4, 6, 8, 10, 12}
      BY <1>6, <2>2, StartStages DEF BackStep
    <3>2. sp = speed /\ encoder' = encoder /\ flag_YL' \in {flag_YL, flag_YL + 1}
            /\ flag_tw' = flag_tw /\ flag_tw = 0
      BY <1>6, <2>2 DEF BackStep, DriveLeg
    <3> QED
      BY <1>1, <1>2, <1>6, <3>1, <3>2 DEF Threeway_hardcoding
  <2> QED
    BY <2>1, <2>2
<1> QED
  BY <1>1, <1>3, <1>4, <1>5, <1>6 DEF Threeway_hardcoding

\* A hill on the last leg out.
LEMMA LegHill ==
    ASSUME LegInv, FrameLegHill
    PROVE  LegInv'
<1>1. /\ flag = 2 /\ flag' = 2 /\ threeway_flag = 1 /\ threeway_flag' = 1
      /\ at' = "hill_course" /\ encoder' = 0
  BY BacksLeaves DEF FrameLegHill, InCourse, missionVars
<1>2. flag_tw = 10 /\ flag_YL = 0
  BY DEF FrameLegHill, MeetYellowLine, LegInv
<1>3. (flag_tw' = 10 /\ flag_YL' = 0) \/ (flag_tw' = 0 /\ flag_YL' = 1)
  BY <1>2 DEF FrameLegHill, MeetYellowLine
<1> QED
  BY <1>1, <1>3 DEF LegInv

\* Everything else leaves the stages alone, and nothing but the legs and the
\* rolling car happens while the legs are driven.
LEMMA LegNext ==
    ASSUME LegInv, [Next]_vars
    PROVE  LegInv'
<1> USE DEF LegInv, Backwards, Forwards, EndOfFrame, NoCourse, courseVars, missionVars, carVars
<1>1. CASE NoCourse /\ FrameKeepLane
  BY <1>1, BacksLeaves DEF FrameKeepLane, Idle
<1>2. CASE NoCourse /\ FramePark
  BY <1>2 DEF FramePark, Idle
<1>3. CASE NoCourse /\ FrameWhiteLine
  BY <1>3 DEF FrameWhiteLine, Idle
<1>4. CASE NoCourse /\ FrameStopAtLine
  BY <1>4 DEF FrameStopAtLine, Approaching, AtLine, RaiseCamera
<1>5. CASE NoCourse /\ FrameToLine
  BY <1>5, BacksLeaves DEF FrameToLine, Approaching, ToLine
<1>6. CASE NoCourse /\ FrameRestart
  BY <1>6, BacksLeaves DEF FrameRestart, Approaching
<1>7. CASE NoCourse /\ FrameJudge
  BY <1>7 DEF FrameJudge, RaiseCamera
<1>8. CASE NoCourse /\ FrameRotary
  BY <1>8 DEF FrameRotary
<1>9. CASE NoCourse /\ RotaryWait
  BY <1>9 DEF RotaryWait
<1>10. CASE NoCourse /\ RotaryDrive
  BY <1>10, BacksLeaves DEF RotaryDrive, EndOfRotaryFrame
<1>11. CASE NoCourse /\ RotaryExit
  BY <1>11 DEF RotaryExit
<1>12. CASE NoCourse /\ FrameLight
  BY <1>12 DEF FrameLight, InLight
<1>13. CASE NoCourse /\ FrameLightCrash
  BY <1>13 DEF FrameLightCrash, InLight
<1>14. CASE NoCourse /\ FrameLightGo
  BY <1>14 DEF FrameLightGo, InLight
<1>15. CASE NoCourse /\ FrameLightWait
  BY <1>15 DEF FrameLightWait, InLight
<1>16. CASE NoCourse /\ FrameEndMission
  BY <1>16 DEF FrameEndMission, InLight, Finish
<1>17. CASE NoCourse /\ FrameFinished
  BY <1>17 DEF FrameFinished, InLight
<1>18. CASE NoCourse /\ StraightDone
  BY <1>18 DEF StraightDone
<1>19. CASE NoCourse /\ TurnDone
  BY <1>19 DEF TurnDone
<1>20. CASE FrameThreeLanes
  BY <1>20 DEF FrameThreeLanes, Idle
<1>21. CASE FrameFindObstacle
  BY <1>21 DEF FrameFindObstacle, InCourse
<1>22. CASE CenterLane
  BY <1>22, BacksLeaves DEF CenterLane
<1>23. CASE CenterDrive \/ CenterObstacle
  BY <1>23 DEF CenterDrive, CenterObstacle
<1>24. CASE CenterLeave
  BY <1>24 DEF CenterLeave
<1>25. CASE BackedOff
  BY <1>25 DEF BackedOff
<1>26. CASE LookForObstacle
  BY <1>26 DEF LookForObstacle
<1>27. CASE FrameCourseOver
  BY <1>27 DEF FrameCourseOver, InCourse
<1>28. CASE FrameLegs \/ FrameLegHill
  BY <1>28, LegFrame, LegHill
<1>29. CASE CarRolls
  <2>1. UNCHANGED <<flag_tw, flag_YL, threeway_flag, flag, at, desired, speed>> /\ at # "speed"
    BY <1>29 DEF CarRolls
  <2>2. (desired > 0 /\ encoder' = encoder + 1) \/ (desired < 0 /\ encoder' = encoder - 1)
    BY <1>29 DEF CarRolls, Rolls
  <2> QED
    BY <2>1, <2>2
<1>30. CASE UNCHANGED vars
  BY <1>30 DEF vars
<1>31. CASE WriteSpeed
  BY <1>31 DEF WriteSpeed, SpeedWrites
<1>32. CASE HillDrives
  BY <1>32 DEF HillDrives, Hills
<1>33. CASE HillFrameEnds
  BY <1>33 DEF HillFrameEnds, HillDone
<1>34. CASE HillToLine
  BY <1>34 DEF HillToLine, HillDone, ToLine
<1>35. CASE HillRotary
  BY <1>35 DEF HillRotary, HillDone, EndOfRotaryFrame
<1>36. CASE HillCenter
  BY <1>36 DEF HillCenter, HillDone
<1> QED
  BY <1>1, <1>2, <1>3, <1>4, <1>5, <1>6, <1>7, <1>8, <1>9, <1>10, <1>11, <1>12, <1>13,
     <1>14, <1>15, <1>16, <1>17, <1>18, <1>19, <1>20, <1>21, <1>22, <1>23, <1>24, <1>25,
     <1>26, <1>27, <1>28, <1>29, <1>30, <1>31, <1>32, <1>33, <1>34, <1>35, <1>36
     DEF Next, Course, WaitDone, HillReturns

LEMMA LegInvariance == Spec => []LegInv
<1>1. Init => LegInv
  BY DEF Init, CarInit, CourseInit, LegInv, Backwards, Forwards
<1>2. LegInv /\ [Next]_vars => LegInv'
  BY LegNext
<1> QED
  BY <1>1, <1>2, PTL DEF Spec

\* Every leg of Threeway_hardcoding counts its own distance, for any marks.
THEOREM LegsCount == Spec => []LegCountsItsOwn
<1>1. LegInv => LegCountsItsOwn
  BY DEF LegInv, Backwards, Forwards, LegCountsItsOwn
<1> QED
  BY <1>1, LegInvariance, PTL

----------------------------------------------------------------------------
(* The types.  The speeds are those of the lanes, the legs and the commands  *)
(* of ControlThread itself; the stages of the legs are bounded by LegInv.    *)

Counts == -Len(BackMarks)..Len(Marks)

LEMMA CountsFacts == Counts \subseteq Int /\ 0 \in Counts
<1>1. Len(Marks) \in Nat /\ Len(BackMarks) \in Nat
  BY MarksAssumption
<1> QED
  BY <1>1 DEF Counts

LEMMA SpeedFacts ==
    /\ LaneSpeeds \subseteq Speeds
    /\ {0, 40, 50, 60, 80, 70, 65, 115, -70, -50} \subseteq Speeds
BY DEF LaneSpeeds, Speeds

\* What ControlThread shares with the car.
DriveTypes ==
    /\ red \in BOOLEAN /\ HILLDISABLE \in BOOLEAN
    /\ color \in 0..4
    /\ angle \in Int /\ steering \in Int
    /\ speed \in Speeds /\ desired \in Speeds
    /\ encoder \in Counts

\* Its own variables.
StageTypes ==
    /\ at \in {"frame", "rotary", "parked", "crashed", "center", "center_steer", "look"}
               \cup SpeedWrites \cup Waits
    /\ flag \in 0..3 /\ traffic \in {0, 1, 2, 3, 5}
    /\ stop_check \in BOOLEAN /\ stop_line_detected \in BOOLEAN
    /\ Departure \in BOOLEAN /\ CourseOut \in BOOLEAN
    /\ stop_camera \in 0..3 /\ pass \in 0..PassBound /\ endStop \in 0..5

LEMMA TypeParts ==
    TypeOK <=> DriveTypes /\ StageTypes /\ LaneTypeOK /\ ParkTypeOK /\ CourseTypeOK
BY DEF TypeOK, DriveTypes, StageTypes, Counts

\* What the end of a frame leaves.
LEMMA FrameEnds ==
    ASSUME NEW sp \in Speeds, EndOfFrame(sp), red' \in BOOLEAN, angle' \in Int,
           color' \in 0..4, encoder' \in Counts, desired' \in Speeds
    PROVE  DriveTypes'
<1>1. HILLDISABLE' \in BOOLEAN
  BY Zenon DEF EndOfFrame
<1>2. speed' \in Speeds /\ steering' \in Int
  BY SpeedFacts DEF EndOfFrame
<1> QED
  BY <1>1, <1>2 DEF DriveTypes

\* What a frame of the lane leaves.
LEMMA LaneTypes ==
    ASSUME LaneTypeOK, NEW counter, NEW sp, NEW backs, LaneFrame(counter, sp, backs)
    PROVE  LaneTypeOK'
<1>1. \A limit \in Nat : \A n \in 0..(limit + 1) :
         CountTo(limit, n) \in 0..(limit + 1) /\ 0 \in 0..(limit + 1)
  BY DEF CountTo
<1>2. PICK measured \in MeasuredSpeeds :
         /\ Hill(measured, counter, backs)
         /\ LockLeft \/ LockRight \/ FollowLane \/ LookAhead
  BY Zenon DEF LaneFrame
<1>3. /\ low_speed_count' \in 0..(low_speed_limit + 1)
      /\ second_count' \in 0..(second_limit + 1)
  BY <1>1, <1>2, LimitAssumption DEF Hill, LaneTypeOK
<1>4. climing_hill_flag' \in BOOLEAN
  BY <1>2 DEF Hill, Climbs
<1>5. /\ turn_left_max' \in BOOLEAN /\ turn_right_max' \in BOOLEAN
      /\ max_turn_ready_left' \in BOOLEAN /\ max_turn_ready_right' \in BOOLEAN
  <2>1. max_turn_ready_left \in BOOLEAN /\ max_turn_ready_right \in BOOLEAN
    BY DEF LaneTypeOK
  <2>2. CASE LockLeft
    BY <2>1, <2>2 DEF LockLeft
  <2>3. CASE LockRight
    BY <2>1, <2>3 DEF LockRight
  <2>4. CASE FollowLane
    BY <2>1, <2>4 DEF FollowLane
  <2>5. CASE LookAhead
    <3>1. turn_left_max' = FALSE /\ turn_right_max' = FALSE
      BY <2>5 DEF LookAhead
    <3>2. \/ max_turn_ready_left' = TRUE /\ max_turn_ready_right' = max_turn_ready_right
          \/ max_turn_ready_right' = TRUE /\ max_turn_ready_left' = max_turn_ready_left
          \/ max_turn_ready_left' = FALSE /\ max_turn_ready_right' = FALSE
      BY <2>5 DEF LookAhead
    <3> QED
      BY <2>1, <3>1, <3>2, Zenon
  <2> QED
    BY <1>2, <2>2, <2>3, <2>4, <2>5
<1> QED
  BY <1>3, <1>4, <1>5 DEF LaneTypeOK

LEMMA ClimbTypes ==
    ASSUME LaneTypeOK, ClimbBegins
    PROVE  LaneTypeOK'
<1>1. climing_hill_flag' \in BOOLEAN
  BY Zenon DEF ClimbBegins
<1>2. UNCHANGED <<turn_left_max, turn_right_max, max_turn_ready_left, max_turn_ready_right,
                  low_speed_count>> /\ second_count' \in 0..(second_limit + 1)
  BY LimitAssumption DEF ClimbBegins, turnVars
<1> QED
  BY <1>1, <1>2 DEF LaneTypeOK

LEMMA LaneNext ==
    ASSUME [Next]_vars
    PROVE  \/ UNCHANGED laneVars
           \/ \E counter, sp : Find_Center(counter, sp)
           \/ \E counter, caller : Backs(counter, caller)
           \/ ClimbBegins
<1> USE DEF NoLane
<1>1. CASE FrameKeepLane \/ FrameToLine \/ FrameRestart \/ RotaryDrive
  BY <1>1 DEF FrameKeepLane, FrameToLine, FrameRestart, RotaryDrive
<1>2. CASE FramePark \/ FrameWhiteLine \/ FrameStopAtLine \/ FrameJudge
  BY <1>2 DEF FramePark, FrameWhiteLine, FrameStopAtLine, FrameJudge
<1>3. CASE FrameRotary \/ RotaryWait \/ RotaryExit
  <2>1. CASE FrameRotary
    BY <2>1 DEF FrameRotary
  <2>2. CASE RotaryWait
    BY <2>2 DEF RotaryWait
  <2>3. CASE RotaryExit
    BY <2>3 DEF RotaryExit
  <2> QED
    BY <1>3, <2>1, <2>2, <2>3
<1>4. CASE FrameLight \/ FrameLightCrash \/ FrameLightGo \/ FrameLightWait
              \/ FrameEndMission \/ FrameFinished
  BY <1>4 DEF FrameLight, FrameLightCrash, FrameLightGo, FrameLightWait, FrameEndMission,
       FrameFinished
<1>5. CASE FrameLegs
  BY <1>5 DEF FrameLegs, Threeway_hardcoding, OutStep, ToYellowLine, BackStep, CourseDone
<1>6. CASE CenterLane \/ FrameLegHill
  BY <1>6 DEF CenterLane, FrameLegHill
<1>7. CASE CenterDrive \/ CenterObstacle \/ CenterLeave
  BY <1>7 DEF CenterDrive, CenterObstacle, CenterLeave
<1>8. CASE FrameThreeLanes \/ FrameFindObstacle \/ LookForObstacle \/ FrameCourseOver
  BY <1>8 DEF FrameThreeLanes, FrameFindObstacle, LookForObstacle, FrameCourseOver
<1>9. CASE StraightDone \/ TurnDone \/ BackedOff \/ CarRolls \/ UNCHANGED vars
  BY <1>9 DEF StraightDone, TurnDone, BackedOff, CarRolls, vars
<1>10. CASE WriteSpeed \/ HillDrives
  BY <1>10 DEF WriteSpeed, HillDrives
<1>11. CASE HillReturns
  BY <1>11, Zenon DEF HillReturns, HillFrameEnds, HillToLine, HillRotary, HillCenter, HillDone
<1> QED
  BY <1>1, <1>2, <1>3, <1>4, <1>5, <1>6, <1>7, <1>8, <1>9, <1>10, <1>11
     DEF Next, Course, WaitDone

\* What a call of check_parking leaves; its stages are ordered by ParkInv.
LEMMA ParkTypes ==
    ASSUME ParkTypeOK, ParkInv', [Next]_vars
    PROVE  ParkTypeOK'
<1>1. channel_rightPrev' \in Levels /\ difference_right' \in Int
  <2>1. CASE UNCHANGED parkVars
    BY <2>1 DEF parkVars, ParkTypeOK
  <2>2. ASSUME NEW now \in Levels, Measure(now)
        PROVE  channel_rightPrev' \in Levels /\ difference_right' \in Int
    BY <2>2, LevelAssumption DEF Measure, ParkTypeOK
  <2>3. ASSUME NEW e, CheckParking(e)
        PROVE  \E now \in Levels : Measure(now)
    BY <2>3 DEF CheckParking
  <2>4. SpaceFound => \E now \in Levels : Measure(now)
    BY DEF SpaceFound
  <2> QED
    BY <2>1, <2>2, <2>3, <2>4, ParkNext
<1>2. /\ right_flag' \in 0..4 /\ first_right_detect' \in BOOLEAN
      /\ second_right_detect' \in BOOLEAN /\ third_right_detect' \in BOOLEAN
      /\ channel_warmming' \in BOOLEAN
  <2>1. /\ \/ right_flag' = 0 \/ right_flag' = 1 \/ right_flag' = 2
           \/ right_flag' = 3 \/ right_flag' = 4
        /\ first_right_detect' = TRUE \/ first_right_detect' = FALSE
        /\ second_right_detect' = TRUE \/ second_right_detect' = FALSE
        /\ third_right_detect' = TRUE \/ third_right_detect' = FALSE
    BY Zenon DEF ParkInv, StagesInOrder
  <2>2. right_flag' \in 0..4
    BY <2>1
  <2> QED
    BY <2>1, <2>2, Zenon DEF ParkInv
<1> QED
  BY <1>1, <1>2 DEF ParkTypeOK

\* What the course leaves; its legs are bounded by LegInv.
LEMMA CourseTypes ==
    ASSUME CourseTypeOK, LegInv', [Next]_vars
    PROVE  CourseTypeOK'
<1>1. /\ threeway_flag' \in 0..2 /\ destiny' \in Destinies \cup {0}
      /\ center_flag' \in BOOLEAN
  <2> USE DEF CourseTypeOK
  <2>1. CASE UNCHANGED courseVars
    BY <2>1 DEF courseVars
  <2>2. CASE FrameFindObstacle
    BY <2>2 DEF FrameFindObstacle
  <2>3. CASE CenterDrive
    <3>1. threeway_flag' = threeway_flag /\ destiny' = destiny
      BY <2>3 DEF CenterDrive
    <3>2. center_flag' = (center_flag \/ Passed(encoder, 20000))
      BY <2>3 DEF CenterDrive
    <3>3. center_flag' \in BOOLEAN
      <4>1. CASE center_flag \/ Passed(encoder, 20000)
        BY <3>2, <4>1
      <4>2. CASE ~(center_flag \/ Passed(encoder, 20000))
        BY <3>2, <4>2
      <4> QED
        BY <4>1, <4>2
    <3> QED
      BY <3>1, <3>3
  <2>4. CASE LookForObstacle
    BY <2>4 DEF LookForObstacle
  <2>5. CASE FrameLegs
    BY <2>5 DEF FrameLegs, Threeway_hardcoding, CourseDone
  <2>6. CASE FrameLegHill
    BY <2>6 DEF FrameLegHill
  <2>7. CASE UNCHANGED vars
    BY <2>7 DEF vars, courseVars
  <2>8. CenterLane \/ CenterObstacle \/ CenterLeave \/ FrameThreeLanes \/ FrameCourseOver
           \/ BackedOff \/ CarRolls => UNCHANGED courseVars
    BY DEF CenterLane, CenterObstacle, CenterLeave, FrameThreeLanes, FrameCourseOver,
       BackedOff, CarRolls, NoCourse
  <2>9. WriteSpeed \/ HillDrives \/ HillReturns => UNCHANGED courseVars
    BY DEF WriteSpeed, HillDrives, HillReturns, HillFrameEnds, HillToLine, HillRotary,
       HillCenter, HillDone, NoCourse
  <2> QED
    BY <2>1, <2>2, <2>3, <2>4, <2>5, <2>6, <2>7, <2>8, <2>9
       DEF Next, Course, WaitDone, NoCourse
<1> QED
  BY <1>1 DEF LegInv, CourseTypeOK

LEMMA SeesRed == Sees => red' \in BOOLEAN
BY RedAssumption DEF Sees

LEMMA LaneAngle ==
    ASSUME NEW counter, NEW sp, Find_Center(counter, sp)
    PROVE  angle' \in Int
BY LaneLeaves

\* What a frame leaves that backs off.
LEMMA BacksTypes ==
    ASSUME DriveTypes, NEW counter, NEW caller, Backs(counter, caller)
    PROVE  /\ HILLDISABLE' \in BOOLEAN /\ angle' \in Int /\ steering' \in Int
           /\ speed' \in Speeds /\ encoder' \in Counts
<1>1. HILLDISABLE' = HILLDISABLE
  BY BacksLeaves
<1>2. HILLDISABLE' \in BOOLEAN
  BY <1>1, Zenon DEF DriveTypes
<1> QED
  BY <1>2, BacksLeaves, SpeedFacts, CountsFacts

LEMMA LegAngles ==
    ASSUME destiny \in Int
    PROVE  /\ \A s \in 1..9 : LegOf(Out, s).angle \in Int
           /\ \A s \in 1..12 : LegOf(Back, s).angle \in Int
<1>1. \A k \in 1..5 : Out[k].angle \in Int
  BY DEF Out, Leg
<1>2. \A k \in 1..6 : Back[k].angle \in Int
  BY DEF Back, Leg
<1>3. (\A s \in 1..9 : (s + 1) \div 2 \in 1..5) /\ (\A s \in 1..12 : (s + 1) \div 2 \in 1..6)
  OBVIOUS
<1> QED
  BY <1>1, <1>2, <1>3 DEF LegOf

\* What a frame of the legs leaves.
LEMMA LegTypes ==
    ASSUME DriveTypes, CourseTypeOK, NEW sp, Threeway_hardcoding(sp) \/ CourseDone(sp)
    PROVE  /\ angle' \in Int /\ encoder' \in Counts /\ color' \in 0..4
           /\ desired' = desired \/ desired' = 0
<1>1. encoder \in Counts /\ 0 \in Counts /\ angle \in Int
  BY CountsFacts DEF DriveTypes
<1>2. destiny \in Int
  BY DEF CourseTypeOK, Destinies
<1>3. color' \in 0..4 /\ (desired' = desired \/ desired' = 0)
  BY DEF Threeway_hardcoding, OutStep, ToYellowLine, MeetYellowLine, BackStep, CourseDone
<1>4. CASE OutStep(sp)
  <2>1. \/ StartLeg(LegOf(Out, flag_tw), sp) /\ flag_tw \in 1..9
        \/ DriveLeg(sp)
    BY <1>4, Zenon DEF OutStep
  <2> QED
    BY <1>1, <1>2, <1>3, <2>1, LegAngles DEF StartLeg, DriveLeg
<1>5. CASE ToYellowLine(sp)
  <2>1. PICK lane \in LaneSpeeds : Find_Center(encoder, lane)
    BY <1>5, Zenon DEF ToYellowLine
  <2> QED
    BY <1>1, <1>3, <1>5, <2>1, LaneAngle DEF ToYellowLine
<1>6. CASE BackStep(sp)
  <2>1. \/ StartLeg(LegOf(Back, flag_YL), sp) /\ flag_YL \in 1..12
        \/ DriveLeg(sp)
    BY <1>6, Zenon DEF BackStep
  <2> QED
    BY <1>1, <1>2, <1>3, <2>1, LegAngles DEF StartLeg, DriveLeg
<1>7. CASE CourseDone(sp)
  BY <1>1, <1>7 DEF CourseDone
<1> QED
  BY <1>3, <1>4, <1>5, <1>6, <1>7 DEF Threeway_hardcoding

\* The end of detectStop's frames on the way to the line.
LEMMA ToLineTypes ==
    ASSUME NEW e \in Counts, ToLine(e)
    PROVE  EndOfFrame(50) /\ encoder' \in Counts
BY CountsFacts DEF ToLine

LEMMA DriveNext ==
    ASSUME DriveTypes, CourseTypeOK, [Next]_vars
    PROVE  DriveTypes'
<1> USE DEF DriveTypes, AtLine
<1>1. encoder \in Counts /\ 0 \in Counts /\ Counts \subseteq Int
  BY CountsFacts
<1>2. LaneSpeeds \subseteq Speeds
  BY SpeedFacts
<1>3. /\ 0 \in Speeds /\ 40 \in Speeds /\ 50 \in Speeds /\ 60 \in Speeds /\ 80 \in Speeds
      /\ 70 \in Speeds /\ -50 \in Speeds /\ 115 \in Speeds
  BY SpeedFacts
<1>4. CASE FrameKeepLane
  <2>1. red' \in BOOLEAN /\ UNCHANGED <<color, desired>>
    BY <1>4, SeesRed DEF FrameKeepLane
  <2>2. CASE \E e \in {0, encoder} : Backs(e, "hill_lane")
    BY <2>1, <2>2, BacksTypes
  <2>3. CASE \E e \in {0, encoder}, sp \in LaneSpeeds :
                 /\ Find_Center(e, sp) /\ encoder' = e
                 /\ EndOfFrame(sp) \/ EndOfFrame(60)
    <3>1. encoder' \in Counts /\ angle' \in Int
      BY <1>1, <2>3, LaneAngle
    <3> QED
      BY <1>2, <1>3, <2>1, <2>3, <3>1, FrameEnds
  <2> QED
    BY <1>4, <2>2, <2>3 DEF FrameKeepLane
<1>5. CASE FrameToLine
  <2>1. red' \in BOOLEAN /\ UNCHANGED <<color, desired>>
    BY <1>5, SeesRed DEF FrameToLine
  <2>2. CASE Backs(encoder, "hill_line")
    BY <2>1, <2>2, BacksTypes
  <2>3. CASE ToLine(encoder) /\ \E sp \in LaneSpeeds : Find_Center(encoder, sp)
    BY <1>1, <1>3, <2>1, <2>3, LaneAngle, ToLineTypes, FrameEnds
  <2> QED
    BY <1>5, <2>2, <2>3 DEF FrameToLine
<1>6. CASE FrameRestart
  <2>1. red' \in BOOLEAN /\ UNCHANGED <<color, desired>>
    BY <1>6, SeesRed DEF FrameRestart
  <2>2. CASE Backs(encoder, "hill_restart")
    BY <2>1, <2>2, BacksTypes
  <2>3. CASE UNCHANGED encoder /\ \E sp \in LaneSpeeds : Find_Center(encoder, sp) /\ EndOfFrame(sp)
    BY <1>1, <1>2, <2>1, <2>3, LaneAngle, FrameEnds
  <2> QED
    BY <1>6, <2>2, <2>3 DEF FrameRestart
<1>7. CASE FrameWhiteLine \/ RotaryExit \/ FrameThreeLanes \/ FrameCourseOver
  <2>1. EndOfFrame(speed) /\ Sees /\ UNCHANGED <<angle, color, desired, encoder>>
    BY <1>7 DEF FrameWhiteLine, RotaryExit, FrameThreeLanes, FrameCourseOver
  <2> QED
    BY <2>1, SeesRed, FrameEnds
<1>8. CASE LookForObstacle
  <2>1. EndOfFrame(speed) /\ Sees /\ UNCHANGED <<angle, color, desired, encoder>>
    BY <1>8 DEF LookForObstacle
  <2> QED
    BY <2>1, SeesRed, FrameEnds
<1>9. CASE FrameStopAtLine
  <2>1. EndOfFrame(0) /\ Sees /\ UNCHANGED <<angle, encoder>>
    BY <1>9 DEF FrameStopAtLine
  <2>2. color' \in {1, color} /\ desired' \in {0, desired}
    BY <1>9 DEF FrameStopAtLine, RaiseCamera
  <2> QED
    BY <1>3, <2>1, <2>2, SeesRed, FrameEnds
<1>10. CASE FrameJudge
  <2>1. EndOfFrame(speed) /\ Sees /\ UNCHANGED <<angle, encoder>>
    BY <1>10 DEF FrameJudge
  <2>2. color' \in {1, color} /\ desired' \in {0, desired}
    BY <1>10 DEF FrameJudge, RaiseCamera
  <2> QED
    BY <1>3, <2>1, <2>2, SeesRed, FrameEnds
<1>11. CASE FramePark
  BY <1>3, <1>11, SeesRed DEF FramePark
<1>12. CASE FrameRotary
  BY <1>1, <1>12, SeesRed DEF FrameRotary
<1>13. CASE RotaryWait
  BY <1>13, SeesRed DEF RotaryWait
<1>14. CASE RotaryDrive
  <2>1. red' \in BOOLEAN /\ UNCHANGED <<color, desired, HILLDISABLE>>
    BY <1>14, SeesRed DEF RotaryDrive
  <2>2. CASE Backs(encoder, "hill_rotary")
    BY <2>1, <2>2, BacksTypes
  <2>3. CASE ~Backs(encoder, "hill_rotary")
    <3>1. speed' \in {0, 40, 80} /\ encoder' = encoder /\ steering' = angle'
      BY <1>14, <2>3 DEF RotaryDrive, EndOfRotaryFrame
    <3>2. angle' \in Int
      BY <1>14, <2>3, LaneAngle DEF RotaryDrive
    <3> QED
      BY <1>3, <2>1, <3>1, <3>2
  <2> QED
    BY <2>2, <2>3
<1>15. CASE FrameLight
  <2>1. EndOfFrame(speed) /\ Sees /\ UNCHANGED <<angle, desired, encoder>>
    BY <1>15 DEF FrameLight
  <2>2. color' \in 0..4
    BY <1>15 DEF FrameLight
  <2> QED
    BY <2>1, <2>2, SeesRed, FrameEnds
<1>16. CASE FrameLightCrash \/ FrameLightWait
  <2>1. Sees /\ UNCHANGED carVars
    BY <1>16 DEF FrameLightCrash, FrameLightWait
  <2> QED
    BY <2>1, SeesRed DEF carVars
<1>17. CASE FrameLightGo
  <2>1. EndOfFrame(50) /\ Sees /\ color' = 4 /\ angle' = 1500 /\ encoder' = 0 /\ desired' = desired
    BY <1>17 DEF FrameLightGo
  <2> QED
    BY <1>1, <1>3, <2>1, SeesRed, FrameEnds
<1>18. CASE FrameEndMission
  <2>1. Sees /\ UNCHANGED <<color, desired, encoder>>
    BY <1>18 DEF FrameEndMission
  <2>2. angle' \in Int
    <3>1. angle' \in {Bounded(a) : a \in EndAngles} \/ angle' \in EndAngles
      BY <1>18, Zenon DEF FrameEndMission
    <3>2. CASE angle' \in EndAngles
      BY <3>2, EndAngleAssumption
    <3>3. CASE angle' \in {Bounded(a) : a \in EndAngles}
      <4>1. angle' \in 1000..2000
        BY <3>3, EndAngleAssumption, BoundedInRange
      <4> QED
        BY <4>1
    <3> QED
      BY <3>1, <3>2, <3>3
  <2>3. EndOfFrame(50) \/ EndOfFrame(0)
    BY <1>18 DEF FrameEndMission, Finish
  <2> QED
    BY <1>3, <2>1, <2>2, <2>3, SeesRed, FrameEnds
<1>19. CASE FrameFinished
  <2>1. EndOfFrame(0) /\ Sees /\ UNCHANGED <<angle, color, desired, encoder>>
    BY <1>19 DEF FrameFinished
  <2> QED
    BY <1>3, <2>1, SeesRed, FrameEnds
<1>20. CASE FrameFindObstacle
  BY <1>1, <1>3, <1>20, SeesRed DEF FrameFindObstacle
<1>21. CASE CenterLane
  <2>1. red' \in BOOLEAN /\ UNCHANGED color
    BY <1>21, SeesRed DEF CenterLane
  <2>2. CASE Backs(encoder, "hill_center") /\ UNCHANGED desired
    BY <2>1, <2>2, BacksTypes
  <2>3. CASE /\ \E sp \in LaneSpeeds : Find_Center(encoder, sp) /\ speed' = sp
             /\ desired' = 70 /\ UNCHANGED <<HILLDISABLE, steering, encoder>>
    BY <1>2, <1>3, <2>1, <2>3, LaneAngle
  <2> QED
    BY <1>21, <2>2, <2>3 DEF CenterLane
<1>22. CASE CenterDrive
  BY <1>22 DEF CenterDrive
<1>23. CASE CenterObstacle
  BY <1>1, <1>3, <1>23 DEF CenterObstacle
<1>24. CASE CenterLeave
  <2>1. EndOfFrame(speed) /\ UNCHANGED <<red, angle, color, desired, encoder>>
    BY <1>24 DEF CenterLeave
  <2> QED
    BY <2>1, FrameEnds
<1>25. CASE FrameLegs
  <2>1. PICK sp \in Speeds : (Threeway_hardcoding(sp) \/ CourseDone(sp)) /\ EndOfFrame(sp)
    BY <1>25 DEF FrameLegs
  <2>2. angle' \in Int /\ encoder' \in Counts /\ color' \in 0..4 /\ desired' \in Speeds
    BY <1>3, <2>1, LegTypes
  <2>3. red' \in BOOLEAN
    BY <1>25, SeesRed DEF FrameLegs
  <2> QED
    BY <2>1, <2>2, <2>3, FrameEnds
<1>26. CASE FrameLegHill
  <2>1. red' \in BOOLEAN /\ color' = 4 /\ (desired' = 0 \/ desired' = desired)
    BY <1>26, SeesRed DEF FrameLegHill, MeetYellowLine
  <2> QED
    BY <1>3, <1>26, <2>1, BacksTypes DEF FrameLegHill
<1>27. CASE StraightDone
  <2>1. EndOfFrame(speed) /\ UNCHANGED <<red, color, desired>> /\ encoder' = 0
    BY <1>27 DEF StraightDone
  <2>2. angle' = 2000 \/ angle' = 1000
    BY <1>27 DEF StraightDone
  <2> QED
    BY <1>1, <2>1, <2>2, FrameEnds
<1>28. CASE TurnDone
  <2>1. EndOfFrame(0) /\ UNCHANGED <<red, angle, color, desired, encoder>>
    BY <1>28 DEF TurnDone
  <2> QED
    BY <1>3, <2>1, FrameEnds
<1>29. CASE BackedOff
  BY <1>3, <1>29 DEF BackedOff
<1>30. CASE HillDrives
  BY <1>3, <1>30 DEF HillDrives
<1>31. CASE HillFrameEnds
  <2>1. EndOfFrame(speed) \/ EndOfFrame(60) \/ EndOfFrame(115)
    BY <1>31 DEF HillFrameEnds
  <2>2. encoder' = 0 /\ UNCHANGED <<red, angle, color, desired>>
    BY <1>31 DEF HillFrameEnds, HillDone
  <2> QED
    BY <1>1, <1>3, <2>1, <2>2, FrameEnds
<1>32. CASE HillToLine
  <2>1. ToLine(0) /\ UNCHANGED <<red, angle, color, desired>>
    BY <1>32 DEF HillToLine, HillDone
  <2> QED
    BY <1>1, <1>3, <2>1, ToLineTypes, FrameEnds
<1>33. CASE HillRotary
  <2>1. /\ speed' \in {0, 40, 80} /\ encoder' = 0 /\ steering' = angle
        /\ UNCHANGED <<red, angle, color, desired, HILLDISABLE>>
    BY <1>33 DEF HillRotary, HillDone, EndOfRotaryFrame
  <2> QED
    BY <1>1, <1>3, <2>1
<1>34. CASE HillCenter
  <2>1. /\ desired' = 70 /\ encoder' = 0
        /\ UNCHANGED <<red, angle, color, speed, HILLDISABLE, steering>>
    BY <1>34 DEF HillCenter, HillDone
  <2> QED
    BY <1>1, <1>3, <2>1
<1>35. CASE WriteSpeed
  BY <1>35 DEF WriteSpeed
<1>36. CASE CarRolls
  <2>1. UNCHANGED <<red, angle, speed, color, HILLDISABLE, desired, steering>>
    BY <1>36 DEF CarRolls
  <2>2. encoder' \in Counts
    <3>1. Len(Marks) \in Nat /\ Len(BackMarks) \in Nat
      BY MarksAssumption
    <3> QED
      BY <1>1, <1>36, <3>1 DEF CarRolls, Rolls, Counts
  <2> QED
    BY <2>1, <2>2
<1>37. CASE UNCHANGED vars
  BY <1>37 DEF vars, carVars
<1> QED
  BY <1>4, <1>5, <1>6, <1>7, <1>8, <1>9, <1>10, <1>11, <1>12, <1>13, <1>14, <1>15, <1>16,
     <1>17, <1>18, <1>19, <1>20, <1>21, <1>22, <1>23, <1>24, <1>25, <1>26, <1>27, <1>28,
     <1>29, <1>30, <1>31, <1>32, <1>33, <1>34, <1>35, <1>36, <1>37
     DEF Next, Course, WaitDone, HillReturns

Places == {"frame", "rotary", "parked", "crashed", "center", "center_steer", "look"}
             \cup SpeedWrites \cup Waits

LEMMA StageNext ==
    ASSUME StageTypes, InMission, [Next]_vars
    PROVE  StageTypes'
<1> USE DEF StageTypes, EndOfFrame, missionVars, AtLine
<1>1. /\ {"frame", "rotary", "parked", "crashed", "center", "center_steer", "look", "speed",
           "rotary_speed", "straight", "turn", "backing"} \subseteq Places
      /\ Hills \subseteq Places
  BY DEF Places, SpeedWrites, Waits
<1>2. ASSUME NEW counter, NEW caller \in Hills, Backs(counter, caller)
      PROVE  at' \in Places
  BY <1>1, <1>2, BacksLeaves
<1>3. at \in Places
  BY DEF Places
<1>4. ASSUME UNCHANGED missionVars, at' \in Places
      PROVE  StageTypes'
  BY <1>4 DEF Places, missionVars
<1>5. CASE FrameKeepLane
  BY <1>1, <1>2, <1>4, <1>5 DEF FrameKeepLane, Hills
<1>6. CASE FramePark \/ FrameFindObstacle
  BY <1>1, <1>4, <1>6 DEF FramePark, FrameFindObstacle
<1>7. CASE FrameRestart
  BY <1>1, <1>2, <1>4, <1>7 DEF FrameRestart, Hills
<1>8. CASE FrameLegs \/ FrameLegHill
  BY <1>1, <1>2, <1>4, <1>8 DEF FrameLegs, FrameLegHill, Hills
<1>9. CASE CenterLane
  BY <1>1, <1>2, <1>4, <1>9 DEF CenterLane, Hills
<1>10. CASE CenterDrive \/ CenterObstacle \/ LookForObstacle
  BY <1>1, <1>4, <1>10 DEF CenterDrive, CenterObstacle, LookForObstacle
<1>11. CASE FrameLightCrash \/ FrameLightGo \/ FrameLightWait \/ FrameFinished
  BY <1>1, <1>4, <1>11 DEF FrameLightCrash, FrameLightGo, FrameLightWait, FrameFinished
<1>12. CASE StraightDone \/ BackedOff
  BY <1>1, <1>4, <1>12 DEF StraightDone, BackedOff
<1>13. CASE HillDrives \/ WriteSpeed
  BY <1>1, <1>3, <1>4, <1>13 DEF HillDrives, WriteSpeed
<1>14. CASE HillFrameEnds \/ HillRotary \/ HillCenter
  BY <1>1, <1>4, <1>14 DEF HillFrameEnds, HillRotary, HillCenter, EndOfRotaryFrame
<1>15. CASE CarRolls \/ UNCHANGED vars
  BY <1>3, <1>4, <1>15 DEF CarRolls, vars
<1>16. ASSUME at' = "speed" PROVE at' \in SpeedWrites
  BY <1>16 DEF SpeedWrites
<1>17. CASE FrameWhiteLine
  BY <1>16, <1>17 DEF FrameWhiteLine
<1>18. CASE FrameStopAtLine
  BY <1>16, <1>18 DEF FrameStopAtLine
<1>19. CASE FrameToLine \/ HillToLine
  <2>1. CASE UNCHANGED stop_camera /\ Backs(encoder, "hill_line") /\ FrameToLine
    BY <1>1, <1>2, <1>4, <2>1 DEF FrameToLine, Hills
  <2>2. CASE \E e : ToLine(e)
    <3>1. at' = "speed" /\ stop_camera' \in {stop_camera, stop_camera + 1}
      BY <2>2 DEF ToLine
    <3>2. UNCHANGED <<flag, stop_check, stop_line_detected, pass, traffic, endStop,
                      Departure, CourseOut>>
      BY <1>19 DEF FrameToLine, HillToLine
    <3>3. stop_camera < 3
      BY <1>19 DEF FrameToLine, HillToLine, HillDone, InMission, DrivesOn
    <3> QED
      BY <1>16, <3>1, <3>2, <3>3
  <2> QED
    BY <1>19, <2>1, <2>2 DEF FrameToLine, HillToLine
<1>20. CASE FrameJudge
  <2>1. /\ at' = "speed" /\ pass' \in 0..PassBound
        /\ UNCHANGED <<stop_line_detected, stop_camera, traffic, endStop, Departure, CourseOut>>
    BY <1>20 DEF FrameJudge, PassBound
  <2>2. \/ UNCHANGED <<flag, stop_check>>
        \/ flag' \in Missions /\ stop_check' = FALSE
    BY <1>20 DEF FrameJudge, Judged
  <2>3. flag' \in 0..3
    <3>1. flag' = flag \/ flag' \in Missions
      BY <2>2, Zenon
    <3>2. \A m \in Missions : m \in 0..3
      BY MissionAssumption
    <3> QED
      BY <3>1, <3>2
  <2>4. stop_check' \in BOOLEAN
    BY <2>2, Zenon
  <2> QED
    BY <1>16, <2>1, <2>3, <2>4
<1>21. CASE FrameRotary
  BY <1>21 DEF FrameRotary
<1>22. CASE RotaryWait
  <2>1. UNCHANGED <<at, flag, stop_check, stop_line_detected, stop_camera, pass, traffic,
                    endStop, CourseOut>>
    BY <1>22 DEF RotaryWait
  <2>2. Departure' \in BOOLEAN
    <3>1. CASE Departure' = TRUE
      BY <3>1, Zenon
    <3>2. CASE Departure' = Departure
      BY <3>2, Zenon
    <3>3. Departure' = TRUE \/ Departure' = Departure
      BY <1>22 DEF RotaryWait
    <3> QED
      BY <3>1, <3>2, <3>3
  <2> QED
    BY <2>1, <2>2
<1>23. CASE RotaryDrive \/ RotaryExit
  <2>1. /\ flag' \in {flag, 0}
        /\ UNCHANGED <<stop_check, stop_line_detected, stop_camera, pass, traffic, endStop,
                       Departure>>
    BY <1>23 DEF RotaryDrive, RotaryExit
  <2>2. CourseOut' \in BOOLEAN
    BY <1>23, Zenon DEF RotaryDrive, RotaryExit
  <2>3. at' \in Places
    BY <1>1, <1>2, <1>23 DEF RotaryDrive, RotaryExit, EndOfRotaryFrame, Hills
  <2> QED
    BY <2>1, <2>2, <2>3 DEF Places
<1>24. CASE FrameLight
  <2>1. /\ at' = "speed" /\ traffic' \in {0, 1, 2}
        /\ UNCHANGED <<flag, stop_check, stop_line_detected, stop_camera, pass, endStop,
                       Departure, CourseOut>>
    BY <1>24 DEF FrameLight, InLight
  <2> QED
    BY <1>16, <2>1
<1>25. CASE FrameEndMission
  <2>1. /\ at' = "speed" /\ traffic' \in {traffic, 5} /\ endStop' \in 0..5
        /\ UNCHANGED <<flag, stop_check, stop_line_detected, stop_camera, pass, Departure,
                       CourseOut>>
    BY <1>25 DEF FrameEndMission, Finish
  <2> QED
    BY <1>16, <2>1
<1>26. CASE FrameThreeLanes \/ CenterLeave \/ FrameCourseOver
  <2>1. /\ at' = "speed" /\ flag' \in {0, 2}
        /\ UNCHANGED <<stop_check, stop_line_detected, stop_camera, pass, traffic, endStop,
                       Departure, CourseOut>>
    BY <1>26 DEF FrameThreeLanes, CenterLeave, FrameCourseOver
  <2> QED
    BY <1>16, <2>1
<1>27. CASE TurnDone
  BY <1>16, <1>27 DEF TurnDone
<1> QED
  BY <1>5, <1>6, <1>7, <1>8, <1>9, <1>10, <1>11, <1>12, <1>13, <1>14, <1>15, <1>17, <1>18,
     <1>19, <1>20, <1>21, <1>22, <1>23, <1>24, <1>25, <1>26, <1>27
     DEF Next, Course, WaitDone, HillReturns

\* Every variable keeps its range, for any marks, limits, angles and distances:
\* detectStop's count of close frames, the stages of the legs, the encoder
\* between the marks, and speeds that only the listed commands ask for.
THEOREM TypeCorrect == Spec => []TypeOK
<1>1. Init => TypeOK
  <2> SUFFICES ASSUME Init
               PROVE  DriveTypes /\ StageTypes /\ LaneTypeOK /\ ParkTypeOK /\ CourseTypeOK
    BY TypeParts
  <2> USE DEF Init, CarInit, LaneInit, ParkInit, CourseInit
  <2>1. DriveTypes
    <3>1. red \in BOOLEAN /\ HILLDISABLE \in BOOLEAN
      BY Zenon
    <3> QED
      BY <3>1, CountsFacts, SpeedFacts DEF DriveTypes
  <2>2. StageTypes
    <3>1. /\ stop_check \in BOOLEAN /\ stop_line_detected \in BOOLEAN
          /\ Departure \in BOOLEAN /\ CourseOut \in BOOLEAN
      BY Zenon
    <3> QED
      BY <3>1 DEF StageTypes, PassBound, SpeedWrites, Waits
  <2>3. LaneTypeOK
    <3>1. {turn_left_max, turn_right_max, max_turn_ready_left, max_turn_ready_right,
           climing_hill_flag} \subseteq BOOLEAN
      BY Zenon
    <3> QED
      BY <3>1, LimitAssumption DEF LaneTypeOK
  <2>4. ParkTypeOK
    <3>1. {first_right_detect, second_right_detect, third_right_detect, channel_warmming}
             \subseteq BOOLEAN
      BY Zenon
    <3> QED
      BY <3>1 DEF ParkTypeOK
  <2>5. CourseTypeOK
    <3>1. center_flag \in BOOLEAN
      BY Zenon
    <3> QED
      BY <3>1 DEF CourseTypeOK
  <2> QED
    BY <2>1, <2>2, <2>3, <2>4, <2>5
<1>2. TypeOK /\ IInv /\ ParkInv' /\ LegInv' /\ [Next]_vars => TypeOK'
  <2> SUFFICES ASSUME TypeOK, IInv, ParkInv', LegInv', [Next]_vars
               PROVE  TypeOK'
    OBVIOUS
  <2>1. DriveTypes /\ StageTypes /\ LaneTypeOK /\ ParkTypeOK /\ CourseTypeOK
    BY TypeParts
  <2>2. LaneTypeOK'
    <3>1. CASE UNCHANGED laneVars
      BY <2>1, <3>1 DEF LaneTypeOK, laneVars, turnVars, hillVars
    <3>2. ASSUME NEW counter, NEW sp, Find_Center(counter, sp)
          PROVE  LaneTypeOK'
      BY <2>1, <3>2, LaneTypes, Zenon DEF Find_Center
    <3>3. ASSUME NEW counter, NEW caller, Backs(counter, caller)
          PROVE  LaneTypeOK'
      BY <2>1, <3>3, LaneTypes, Zenon DEF Backs
    <3> QED
      BY <2>1, <3>1, <3>2, <3>3, LaneNext, ClimbTypes
  <2>3. DriveTypes' /\ StageTypes' /\ ParkTypeOK' /\ CourseTypeOK'
    BY <2>1, DriveNext, StageNext, ParkTypes, CourseTypes DEF IInv
  <2> QED
    BY <2>2, <2>3 DEF TypeOK, DriveTypes, StageTypes, Counts
<1> QED
  BY <1>1, <1>2, Invariance, ParkInvariance, LegInvariance, PTL DEF Spec
=============================================================================
