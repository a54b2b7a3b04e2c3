--------------------------- MODULE MissionControl ---------------------------
(***************************************************************************)
(* ControlThread of captureOpenCV.c, frame by frame: lane keeping, the     *)
(* search for a parking space, the stop line, the choice between rotary    *)
(* and traffic light, and the two missions behind it.  A frame is two      *)
(* steps, since its steering is written before its speed; the frames that  *)
(* rotary() and find_center_in_3way() fetch themselves and the loops in    *)
(* which the code waits for the encoder are steps of their own.            *)
(***************************************************************************)
EXTENDS ThreeWay, Parking

CONSTANTS
    RedFrames,    \* whether a frame may show more than 560 red pixels
    Missions,     \* what may stand behind a stop line: 1 rotary, 3 light
    EndAngles,    \* angles endMission computes before it bounds them
    ThreeWays     \* whether white_line_process may answer 2, three lanes: never
                  \* at this commit, since its return 2 stands behind a break

ASSUME RedAssumption == RedFrames \subseteq BOOLEAN
ASSUME MissionAssumption == Missions \subseteq {1, 3}
ASSUME ThreeWayAssumption == ThreeWays \in BOOLEAN
ASSUME EndAngleAssumption == EndAngles \subseteq Int

PassBound == 3    \* bound of detect_signal's counter of calls

VARIABLES
    at,                  \* "frame", a write of the speed to come, or the loop
                         \* the thread is in; for hill_sequence also its caller
    flag,                \* 0: no mission, 1: rotary, 2: three lanes, 3: light
    stop_check,          \* a stop line was seen ahead
    stop_line_detected,  \* the car has stopped at a stop line
    stop_camera,         \* detectStop: frames that showed the line close by
    pass,                \* detect_signal: frames looked at, up to PassBound
    traffic,             \* flag_module: the stage of the light mission
    endStop,             \* endMission: frames of mostly white road
    Departure, CourseOut,\* rotary: the car has left, its exit was seen
    red                  \* the last frame showed too much red

missionVars == <<flag, stop_check, stop_line_detected, stop_camera, pass, traffic,
                 endStop, Departure, CourseOut>>
vars == <<at, red, missionVars, carVars, laneVars, parkVars, courseVars>>

Init ==
    /\ CarInit /\ LaneInit /\ ParkInit /\ CourseInit
    /\ at = "frame" /\ flag = 0 /\ traffic = 0
    /\ stop_check = FALSE /\ stop_line_detected = FALSE
    /\ stop_camera = 0 /\ pass = 0 /\ endStop = 0
    /\ Departure = FALSE /\ CourseOut = FALSE
    /\ red = FALSE

----------------------------------------------------------------------------
(* The end of every frame: too much red stops the car whatever was decided, *)
(* and steering and speed are written, one after the other.                 *)

SpeedWrites == {"speed", "rotary_speed"}
Hills == {"hill_lane", "hill_line", "hill_restart", "hill_rotary", "hill_center",
          "hill_course"}

\* Mutant: the flag of the frame before is looked at.
EndOfFrame_Stale(sp) ==
    /\ at' = "speed"
    /\ HILLDISABLE' = red'
    /\ speed' = IF HILLDISABLE THEN 0 ELSE sp
    /\ steering' = angle'

\* sp is the speed that the mission of the frame has decided on.
EndOfFrame(sp) ==
    /\ at' = "speed"
    /\ HILLDISABLE' = red'
    /\ speed' = IF red' THEN 0 ELSE sp
    /\ steering' = angle'

NoLane == UNCHANGED laneVars
NoCourse == UNCHANGED courseVars

\* The last command of a frame, of the main loop or of rotary.
WriteSpeed ==
    /\ at \in SpeedWrites
    /\ at' = IF at = "speed" THEN "frame" ELSE "rotary"
    /\ desired' = speed
    /\ NoLane /\ NoCourse
    /\ UNCHANGED <<red, angle, speed, color, HILLDISABLE, steering, encoder, missionVars,
                   parkVars>>

\* Find_Center calls hill_sequence: the counter and the servo are set, and the
\* thread waits there. caller names the frame that goes on afterwards.
Backs(counter, caller) ==
    /\ \E sp \in LaneSpeeds : LaneFrame(counter, sp, TRUE) /\ speed' = sp
    /\ at' = caller /\ encoder' = 0 /\ steering' = 1500
    /\ UNCHANGED HILLDISABLE

Sees == red' \in RedFrames       \* Frame2Ipl counts the red pixels

Idle == at = "frame" /\ flag = 0 /\ ~stop_check     \* nothing special ahead

(* No white line in sight, or one that white_line_process makes nothing of: *)
(* look for a parking space and keep the lane, in the second case slowly.   *)
FrameKeepLane ==
    /\ Idle /\ ~Parked /\ Sees
    /\ \E e \in {0, encoder} :
          /\ CheckParking(e)
          /\ \/ Backs(e, "hill_lane")
             \/ \E sp \in LaneSpeeds :
                   /\ Find_Center(e, sp)
                   /\ encoder' = e
                   /\ EndOfFrame(sp) \/ EndOfFrame(60)
    /\ UNCHANGED <<color, desired, missionVars>>

\* check_parking has found a space and does not come back.
FramePark ==
    /\ Idle /\ ~Parked /\ Sees
    /\ SpaceFound
    /\ at' = "parked" /\ desired' = 0
    /\ NoLane /\ UNCHANGED <<angle, speed, color, HILLDISABLE, steering, encoder, missionVars>>

\* white_line_process found three rows of white: a stop line lies ahead.
FrameWhiteLine ==
    /\ Idle /\ Sees
    /\ stop_check' = TRUE
    /\ NoLane
    /\ UNCHANGED <<angle, color, desired, encoder, parkVars, flag, stop_line_detected,
                   stop_camera, pass, traffic, endStop, Departure, CourseOut>>
    /\ EndOfFrame(speed)

----------------------------------------------------------------------------
(* The stop line *)

Approaching == at = "frame" /\ flag = 0 /\ stop_check /\ ~stop_line_detected

\* Mutant: the car is not stopped at the line.
AtLine_Drives == stop_line_detected' = TRUE /\ stop_camera' = 0 /\ EndOfFrame(speed)

AtLine == stop_line_detected' = TRUE /\ stop_camera' = 0 /\ EndOfFrame(0)

\* The end of the branch: the car is stopped at once, too.
RaiseCamera(raises) ==
    IF raises THEN color' = 1 /\ desired' = 0 ELSE UNCHANGED <<color, desired>>

\* detectStop stops after the third close frame, or after two at the line
\* sensor's word; the camera is raised and the next images look for red.
FrameStopAtLine ==
    /\ Approaching /\ speed > 0 /\ stop_camera > 1 /\ Sees
    /\ RaiseCamera(color = 0)
    /\ NoLane
    /\ UNCHANGED <<angle, encoder, parkVars, flag, stop_check, pass, traffic, endStop,
                   Departure, CourseOut>>
    /\ AtLine

\* Mutant: > for >=.
DrivesOn_Later == stop_camera <= 3
DrivesOn == stop_camera < 3

\* What detectStop does after Find_Center: frames with the line close by are
\* counted, and each resets the encoder, which stands at e.
ToLine(e) ==
    /\ \E close \in BOOLEAN :
          /\ stop_camera' = stop_camera + IF close THEN 1 ELSE 0
          /\ encoder' = IF close THEN 0 ELSE e
    /\ EndOfFrame(50)

\* Otherwise it drives on slowly.
FrameToLine ==
    /\ Approaching /\ speed > 0 /\ DrivesOn /\ Sees
    /\ \/ Backs(encoder, "hill_line") /\ UNCHANGED stop_camera
       \/ (\E sp \in LaneSpeeds : Find_Center(encoder, sp)) /\ ToLine(encoder)
    /\ UNCHANGED <<color, desired, parkVars, flag, stop_check, stop_line_detected, pass,
                   traffic, endStop, Departure, CourseOut>>

\* A car that red has stopped on the way starts again.
FrameRestart ==
    /\ Approaching /\ speed <= 0 /\ Sees
    /\ \/ Backs(encoder, "hill_restart")
       \/ /\ \E sp \in LaneSpeeds : Find_Center(encoder, sp) /\ EndOfFrame(sp)
          /\ UNCHANGED encoder
    /\ UNCHANGED <<color, desired, missionVars, parkVars>>

\* Mutant: a rotary leaves the stop line pending.
Judged_Pending(mission) == flag' = mission /\ stop_check' = (mission = 1)

Judged(mission) == flag' = mission /\ stop_check' = FALSE

\* detect_signal judges from its third call on: circles in the image mean a
\* traffic light, none a rotary, for which color is first set to 0.
FrameJudge ==
    /\ at = "frame" /\ flag = 0 /\ stop_check /\ stop_line_detected /\ Sees
    /\ pass' = IF pass < PassBound THEN pass + 1 ELSE pass
    /\ IF pass' < PassBound
          THEN UNCHANGED <<flag, stop_check>>
          ELSE \E mission \in Missions : Judged(mission)
    /\ RaiseCamera(flag' = 1 \/ color = 0)
    /\ NoLane
    /\ UNCHANGED <<angle, encoder, parkVars, stop_line_detected, stop_camera, traffic,
                   endStop, Departure, CourseOut>>
    /\ EndOfFrame(speed)

----------------------------------------------------------------------------
(* flag 1: rotary() keeps the thread and fetches its own frames. Its camera *)
(* positions go through the global angle, and red is not looked at.         *)

FrameRotary ==
    /\ at = "frame" /\ flag = 1 /\ Sees
    /\ at' = "rotary" /\ Departure' = FALSE /\ CourseOut' = FALSE
    /\ angle' = 1700 /\ encoder' = 0
    /\ NoLane
    /\ UNCHANGED <<speed, color, HILLDISABLE, desired, steering, parkVars, flag, stop_check,
                   stop_line_detected, stop_camera, pass, traffic, endStop>>

\* Wait until the shadow of the car ahead has passed.
RotaryWait ==
    /\ at = "rotary" /\ ~Departure /\ Sees
    /\ \/ Departure' = TRUE /\ angle' = 1800
       \/ UNCHANGED <<Departure, angle>>
    /\ NoLane
    /\ UNCHANGED <<at, speed, color, HILLDISABLE, desired, steering, encoder, parkVars, flag,
                   stop_check, stop_line_detected, stop_camera, pass, traffic, endStop,
                   CourseOut>>

\* The end of a frame of rotary; red is not looked at.
EndOfRotaryFrame(speeds) ==
    speed' \in speeds /\ steering' = angle' /\ at' = "rotary_speed"

\* Something close in front: hold; or follow the lane, slower the more shadow.
RotaryDrive ==
    /\ at = "rotary" /\ Departure /\ Sees
    /\ CourseOut' \in {CourseOut, TRUE}
    /\ \/ NoLane /\ UNCHANGED <<angle, encoder>> /\ EndOfRotaryFrame({0})
       \/ /\ \E sp \in LaneSpeeds : Find_Center(encoder, sp)
          /\ EndOfRotaryFrame({0, 40, 80}) /\ UNCHANGED encoder
       \/ Backs(encoder, "hill_rotary")
    /\ UNCHANGED <<color, desired, HILLDISABLE, parkVars, flag, stop_check,
                   stop_line_detected, stop_camera, pass, traffic, endStop, Departure>>

\* Something close behind, or the exit seen and no shadow: leave the rotary.
RotaryExit ==
    /\ at = "rotary" /\ Departure /\ Sees
    /\ CourseOut' \in {CourseOut, TRUE}
    /\ flag' = 0
    /\ NoLane
    /\ UNCHANGED <<angle, color, desired, encoder, parkVars, stop_check, stop_line_detected,
                   stop_camera, pass, traffic, endStop, Departure>>
    /\ EndOfFrame(speed)

----------------------------------------------------------------------------
(* flag 3: the traffic light *)

InLight(stage) == at = "frame" /\ flag = 3 /\ traffic = stage

\* Traffic_Light finds the red, then the yellow lamp, then tells the green
\* ones apart. With color 3 and no green it goes on to a circle list that this
\* call never made: whatever the stack holds is read.
FrameLight ==
    /\ InLight(0) /\ Sees
    /\ \/ color \in {1, 2} /\ color' \in {color, color + 1} /\ UNCHANGED traffic
       \/ color = 3 /\ traffic' \in {0, 1, 2} /\ UNCHANGED color
    /\ NoLane
    /\ UNCHANGED <<angle, desired, encoder, parkVars, flag, stop_check, stop_line_detected,
                   stop_camera, pass, endStop, Departure, CourseOut>>
    /\ EndOfFrame(speed)

\* ... which may also be the end of the process.
FrameLightCrash ==
    /\ InLight(0) /\ color = 3 /\ Sees
    /\ at' = "crashed"
    /\ NoLane /\ UNCHANGED <<carVars, parkVars, missionVars>>

\* AfterTraffic: a car that stands drives straight on ...
FrameLightGo ==
    /\ (InLight(1) \/ InLight(2)) /\ Sees
    /\ color = 3 /\ speed = 0
    /\ color' = 4 /\ angle' = 1500 /\ encoder' = 0
    /\ NoLane /\ UNCHANGED <<desired, parkVars, missionVars>>
    /\ EndOfFrame(50)

\* ... otherwise the thread waits in a loop for the encoder: straight ahead
\* until it turns, turned until the turn is done.
FrameLightWait ==
    /\ (InLight(1) \/ InLight(2)) /\ Sees
    /\ ~(color = 3 /\ speed = 0)
    /\ at' = IF angle = 1500 THEN "straight" ELSE "turn"
    /\ NoLane /\ UNCHANGED <<carVars, parkVars, missionVars>>

\* Mutant: the loop waits for the counter to fall.
StraightDone_Back ==
    /\ at = "straight" /\ PassedBack(encoder, 4500)
    /\ angle' = IF traffic = 1 THEN 2000 ELSE 1000
    /\ encoder' = 0
    /\ UNCHANGED red
    /\ NoLane /\ UNCHANGED <<color, desired, parkVars, missionVars>>
    /\ EndOfFrame(speed)

StraightDone ==
    /\ at = "straight" /\ Passed(encoder, 4500)
    /\ angle' = IF traffic = 1 THEN 2000 ELSE 1000
    /\ encoder' = 0
    /\ UNCHANGED red
    /\ NoLane /\ UNCHANGED <<color, desired, parkVars, missionVars>>
    /\ EndOfFrame(speed)

TurnDone ==
    /\ at = "turn" /\ Passed(encoder, 8050)
    /\ traffic' = 3
    /\ UNCHANGED red
    /\ NoLane
    /\ UNCHANGED <<angle, color, desired, encoder, parkVars, flag, stop_check, stop_line_detected,
                   stop_camera, pass, endStop, Departure, CourseOut>>
    /\ EndOfFrame(0)

\* Mutant: the angle is bounded on the left only.
Bounded_Left(a) == IF a >= 2000 THEN 2000 ELSE a

Bounded(a) == IF a >= 2000 THEN 2000 ELSE IF a <= 1000 THEN 1000 ELSE a

\* Mutant: the end is noticed, the car drives on for a frame.
Finish_Drives == traffic' = 5 /\ EndOfFrame(50)

Finish == traffic' = 5 /\ EndOfFrame(0)

\* endMission steers between the lines until five frames were mostly white
\* and one after them mostly black. Only its ordinary return bounds the angle.
FrameEndMission ==
    /\ InLight(3) /\ Sees
    /\ \/ /\ angle' \in {Bounded(a) : a \in EndAngles}
          /\ endStop' \in {endStop, IF endStop < 5 THEN endStop + 1 ELSE endStop}
          /\ EndOfFrame(50) /\ UNCHANGED traffic
       \/ /\ endStop = 5
          /\ angle' \in EndAngles
          /\ UNCHANGED endStop /\ Finish
    /\ NoLane
    /\ UNCHANGED <<color, desired, encoder, parkVars, flag, stop_check, stop_line_detected,
                   stop_camera, pass, Departure, CourseOut>>

FrameFinished ==
    /\ InLight(5) /\ Sees
    /\ NoLane /\ UNCHANGED <<angle, color, desired, encoder, parkVars, missionVars>>
    /\ EndOfFrame(0)

----------------------------------------------------------------------------
(* flag 2: the three-lane course. find_center_in_3way keeps the thread and   *)
(* fetches its own frames; red is not looked at inside.                     *)

InCourse(stage) == at = "frame" /\ flag = 2 /\ threeway_flag = stage

\* The white line is the beginning of three lanes.
FrameThreeLanes ==
    /\ Idle /\ ThreeWays /\ Sees
    /\ flag' = 2
    /\ NoLane /\ NoCourse
    /\ UNCHANGED <<angle, color, desired, encoder, parkVars, stop_check, stop_line_detected,
                   stop_camera, pass, traffic, endStop, Departure, CourseOut>>
    /\ EndOfFrame(speed)

FrameFindObstacle ==
    /\ InCourse(0) /\ Sees
    /\ at' = "center" /\ center_flag' = FALSE
    /\ desired' = 0 /\ encoder' = 0
    /\ NoLane
    /\ UNCHANGED <<angle, speed, color, HILLDISABLE, steering, parkVars, missionVars,
                   threeway_flag, destiny, flag_tw, flag_YL>>

\* One frame of the loop keeps the lane; here the speed is written first.
CenterLane ==
    /\ at = "center" /\ Sees
    /\ \/ Backs(encoder, "hill_center") /\ UNCHANGED desired
       \/ /\ \E sp \in LaneSpeeds : Find_Center(encoder, sp) /\ speed' = sp
          /\ desired' = 70 /\ at' = "center_steer"
          /\ UNCHANGED <<HILLDISABLE, steering, encoder>>
    /\ NoCourse /\ UNCHANGED <<color, parkVars, missionVars>>

\* Nothing in front, or 20000 steps without an obstacle: drive on.
CenterDrive ==
    /\ at = "center_steer"
    /\ at' = "center" /\ steering' = angle
    /\ center_flag' = (center_flag \/ Passed(encoder, 20000))
    /\ NoLane
    /\ UNCHANGED <<red, angle, speed, color, HILLDISABLE, desired, encoder, parkVars,
                   missionVars, threeway_flag, destiny, flag_tw, flag_YL>>

\* filteredIR(1) is above 400: back off by ten counts for each unit of the
\* distance, 4010 at least. The car is stopped before servo and counter are set.
CenterObstacle ==
    /\ at = "center_steer" /\ ~center_flag /\ ~Passed(encoder, 20000)
    /\ at' = "backing"
    /\ encoder' = 0 /\ steering' = 1500 /\ desired' = -50
    /\ NoLane /\ NoCourse
    /\ UNCHANGED <<red, angle, speed, color, HILLDISABLE, parkVars, missionVars>>

\* Past 20000 steps a white line ends the course: return 0.
CenterLeave ==
    /\ at = "center_steer" /\ center_flag
    /\ flag' = 0
    /\ NoLane /\ NoCourse
    /\ UNCHANGED <<red, angle, color, desired, encoder, parkVars, stop_check,
                   stop_line_detected, stop_camera, pass, traffic, endStop, Departure, CourseOut>>
    /\ EndOfFrame(speed)

\* Mutant: the loop waits for the counter to rise.
BackedOff_Forward ==
    /\ at = "backing" /\ Passed(encoder, 4010)
    /\ at' = "look" /\ desired' = 0
    /\ NoLane /\ NoCourse
    /\ UNCHANGED <<red, angle, speed, color, HILLDISABLE, steering, encoder, parkVars,
                   missionVars>>

\* The loop that waits for the counter to fall looks at nothing else.
BackedOff ==
    /\ at = "backing" /\ PassedBack(encoder, 4010)
    /\ at' = "look" /\ desired' = 0
    /\ NoLane /\ NoCourse
    /\ UNCHANGED <<red, angle, speed, color, HILLDISABLE, steering, encoder, parkVars,
                   missionVars>>

\* detect_obstacle2 on one more frame. The speed that Find_Center left before
\* the car stopped is written at the end of it.
LookForObstacle ==
    /\ at = "look" /\ Sees
    /\ destiny' \in Destinies /\ threeway_flag' = 1
    /\ NoLane
    /\ UNCHANGED <<angle, color, desired, encoder, parkVars, missionVars, center_flag, flag_tw,
                   flag_YL>>
    /\ EndOfFrame(speed)

FrameLegs ==
    /\ InCourse(1) /\ Sees
    /\ UNCHANGED <<parkVars, missionVars>>
    /\ \E sp \in Speeds : (Threeway_hardcoding(sp) \/ CourseDone(sp)) /\ EndOfFrame(sp)

\* The lane of the last leg out leads onto a hill.
FrameLegHill ==
    /\ InCourse(1) /\ Sees
    /\ MeetYellowLine /\ color' = 4
    /\ Backs(encoder, "hill_course")
    /\ UNCHANGED <<parkVars, missionVars, threeway_flag, destiny, center_flag>>

\* The course was driven: return 0, here and each time it is met again.
FrameCourseOver ==
    /\ InCourse(2) /\ Sees
    /\ flag' = 0
    /\ NoLane /\ NoCourse
    /\ UNCHANGED <<angle, color, desired, encoder, parkVars, stop_check, stop_line_detected,
                   stop_camera, pass, traffic, endStop, Departure, CourseOut>>
    /\ EndOfFrame(speed)

----------------------------------------------------------------------------
(* hill_sequence: the loop that backs the car off writes the speed again and *)
(* again and looks at nothing but the counter.                               *)

HillDrives ==
    /\ at \in Hills /\ desired # -50
    /\ desired' = -50
    /\ NoLane /\ NoCourse
    /\ UNCHANGED <<at, red, angle, speed, color, HILLDISABLE, steering, encoder, missionVars,
                   parkVars>>

\* The car is back far enough: Find_Center resets the counter and returns.
HillDone(caller) ==
    /\ at = caller /\ PassedBack(encoder, HillBottom)
    /\ ClimbBegins /\ NoCourse
    /\ UNCHANGED <<red, angle, color, parkVars>>

\* The frames in which nothing is left but their end.
HillFrameEnds ==
    /\ \/ HillDone("hill_lane") /\ (EndOfFrame(speed) \/ EndOfFrame(60))
       \/ HillDone("hill_restart") /\ EndOfFrame(speed)
       \/ HillDone("hill_course") /\ EndOfFrame(115)
    /\ encoder' = 0 /\ UNCHANGED <<desired, missionVars>>

HillToLine ==
    /\ HillDone("hill_line") /\ ToLine(0)
    /\ UNCHANGED <<desired, flag, stop_check, stop_line_detected, pass, traffic, endStop,
                   Departure, CourseOut>>

HillRotary ==
    /\ HillDone("hill_rotary") /\ EndOfRotaryFrame({0, 40, 80})
    /\ encoder' = 0 /\ UNCHANGED <<desired, HILLDISABLE, missionVars>>

HillCenter ==
    /\ HillDone("hill_center")
    /\ at' = "center_steer" /\ desired' = 70
    /\ encoder' = 0 /\ UNCHANGED <<speed, HILLDISABLE, steering, missionVars>>

HillReturns == HillFrameEnds \/ HillToLine \/ HillRotary \/ HillCenter

----------------------------------------------------------------------------
\* The car drives on under its last command, whatever the thread does; but it
\* passes no mark between the two writes that end a frame of the main loop.
CarRolls ==
    /\ Rolls /\ at # "speed"
    /\ NoCourse
    /\ UNCHANGED <<at, red, missionVars, angle, speed, color, HILLDISABLE,
                   desired, steering, laneVars, parkVars>>

Course ==
    \/ FrameThreeLanes \/ FrameFindObstacle
    \/ CenterLane \/ CenterDrive \/ CenterObstacle \/ CenterLeave
    \/ LookForObstacle \/ FrameLegs \/ FrameLegHill \/ FrameCourseOver

WaitDone ==
    \/ NoCourse /\ (StraightDone \/ TurnDone)
    \/ BackedOff
    \/ HillDrives \/ HillReturns

Next == \/ /\ NoCourse
           /\ \/ FrameKeepLane \/ FramePark \/ FrameWhiteLine
              \/ FrameStopAtLine \/ FrameToLine \/ FrameRestart \/ FrameJudge
              \/ FrameRotary \/ RotaryWait \/ RotaryDrive \/ RotaryExit
              \/ FrameLight \/ FrameLightCrash \/ FrameLightGo \/ FrameLightWait
              \/ FrameEndMission \/ FrameFinished
        \/ Course
        \/ WriteSpeed
        \/ WaitDone
        \/ CarRolls

Spec == Init /\ [][Next]_vars

\* A car told to drive moves, also over those moments at which it passes no
\* mark; a waiting loop sees the encoder change; and a frame is brought to its
\* end.
FairSpec == Spec /\ SF_vars(CarRolls) /\ WF_vars(WaitDone) /\ WF_vars(WriteSpeed)

\* While frames come, ControlThread handles those in which it drives the legs.
FairCourseSpec == FairSpec /\ WF_vars(FrameLegs)

----------------------------------------------------------------------------
(* Properties *)

\* The places in which the thread waits for nothing but the encoder.
Waits == {"straight", "turn", "backing"} \cup Hills

TypeOK ==
    /\ at \in {"frame", "rotary", "parked", "crashed", "center", "center_steer", "look"}
               \cup SpeedWrites \cup Waits
    /\ flag \in 0..3 /\ traffic \in {0, 1, 2, 3, 5}
    /\ {stop_check, stop_line_detected, Departure, CourseOut, red, HILLDISABLE}
          \subseteq BOOLEAN
    /\ stop_camera \in 0..3 /\ pass \in 0..PassBound /\ endStop \in 0..5
    /\ color \in 0..4
    /\ angle \in Int /\ steering \in Int
    /\ speed \in Speeds /\ desired \in Speeds
    /\ encoder \in -Len(BackMarks)..Len(Marks)
    /\ LaneTypeOK /\ ParkTypeOK /\ CourseTypeOK

\* "Stop unconditionally on a sudden stop": outside the rotary, which does not
\* look at red, the check after the dispatch overrides whatever the mission of
\* the frame has decided.
RedStopsMainLoop == red /\ at = "frame" => desired = 0

\* "Up to the stop line, and judging crossroads and light after stopping":
\* rotary or traffic light is decided on by a car that stands. So it is the
\* first time only, before stop_line_detected and pass are left set for good.
FirstJudgedWhileStopped ==
    [][flag = 0 /\ flag' \in {1, 3} /\ pass < PassBound => desired = 0]_vars

\* A car that stands for red is not taken for one that is stuck on a hill: the
\* frame after one with too much red never begins to back off, whichever mission
\* either of them belongs to.
NoBackingAfterRed == [][red /\ at = "frame" => at' \notin Hills]_vars

\* A mission starts only after the stop line has been dealt with, so that the
\* next stop line is looked for when the mission ends.
MissionClearsStopCheck == flag # 0 => ~stop_check

\* Once the end is reached the car is stopped, at the end of that frame, and
\* stands for good, still in its mission.
FinishedStands ==
    traffic = 5 => /\ flag = 3 /\ speed = 0
                   /\ at = "speed" \/ (at = "frame" /\ desired = 0)

\* A loop in which the thread waits for the encoder ends: backing off, on a hill
\* or in the three-lane course, always, and after the traffic light if the car
\* was told to drive when the thread entered it. Nothing in the loop stops the
\* car or turns it round.
WaitEnds ==
    (at \in {"straight", "turn"} /\ desired > 0) \/ at = "backing" \/ at \in Hills
       ~> at \notin Waits

\* Of a car that drives the servo is given angles of its range, 1000 to 2000: the
\* one angle endMission leaves unbounded is written in the frame that stops the
\* car, although before its speed.
SteersWithinRange ==
    steering \notin 1000..2000 => desired = 0 \/ (at = "speed" /\ speed = 0)

\* A command to drive backwards does not outlive the frame that gave it,
\* hill_sequence's in the middle of a frame, nor, where each frame of a leg gives
\* it again, the three-lane course.
ReverseTakenBack == desired < 0 => flag = 2 \/ at \in Hills \cup SpeedWrites

\* A leg counts its own distance only, in its own direction, although hills,
\* the parking search and the other legs share the counter with it: in the
\* frames of a leg driven backwards the count is never ahead of its start, in
\* the others never behind. While a frame of the last leg out backs off a hill,
\* the counter is hill_sequence's, which resets it when it is done.
LegCountsItsOwn ==
    threeway_flag = 1 /\ at # "hill_course" =>
       /\ flag_YL \in {2, 12} => encoder <= 0
       /\ flag_YL \in {4, 6, 8, 10} \/ flag_tw \in {2, 4, 6, 8, 10} => encoder >= 0

\* From the yellow line on the course is driven to its end, unless too much red
\* stops the car in a leg: then nothing starts it again.
CourseEnds == flag_YL = 1 ~> flag = 0 \/ speed = 0
=============================================================================
