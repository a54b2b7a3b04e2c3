------------------------------ MODULE ThreeWay ------------------------------
(***************************************************************************)
(* The three-lane course of captureOpenCV.c: find_center_in_3way drives up *)
(* to the obstacle, backs off and tells which lane is blocked, and         *)
(* Threeway_hardcoding then drives round it leg by leg, each leg a speed   *)
(* and a steering angle held for an encoder distance, and back into the    *)
(* lane from the yellow line.                                              *)
(***************************************************************************)
EXTENDS LaneKeeping

VARIABLES
    threeway_flag,  \* flag_module: 0 looking, 1 driving the legs, 2 done
    destiny,        \* which way round, 4 for an obstacle in the centre, 0 unknown
    center_flag,    \* find_center_in_3way: 20000 steps without an obstacle
    flag_tw,        \* stage of the way out; odd: start a leg, even: drive it
    flag_YL         \* stage of the way back, the same

courseVars == <<threeway_flag, destiny, center_flag, flag_tw, flag_YL>>

CourseInit ==
    /\ threeway_flag = 0 /\ destiny = 0 /\ center_flag = FALSE
    /\ flag_tw = 1 /\ flag_YL = 0

\* detect_obstacle2: the part of the image with the fewest white pixels is on
\* the left, on the right or in the centre.
Destinies == {-1, 1, 4}

Leg(a, sp, count) == [angle |-> a, speed |-> sp, count |-> count]

\* Out of the lane, along the next one, back beside it, and on.
Out == <<Leg(1500, 70, 800), Leg(1500 - 430 * destiny, 65, 4500), Leg(1500, 115, 2400),
         Leg(1500 + 430 * destiny, 65, 4500), Leg(1500, 115, 6400)>>

\* From the yellow line: backwards, into the first lane, and into its place.
Back == <<Leg(1500, -70, -5600), Leg(1500 + 450 * destiny, 65, 3000), Leg(1500, 115, 1600),
          Leg(1500 - 450 * destiny, 65, 4500), Leg(1500, 65, 800), Leg(1500, -70, -800)>>

LegOf(legs, stage) == legs[(stage + 1) \div 2]

\* Mutant: the distance of a leg driven backwards is compared like the others.
Reached_Forward(count) == Passed(encoder, count)

Reached(count) == IF count < 0 THEN PassedBack(encoder, -count) ELSE Passed(encoder, count)

Starts(stage) == stage % 2 = 1

\* Mutant: the counter is not reset for the leg.
StartLeg_Counting(leg, sp) ==
    angle' = leg.angle /\ sp = leg.speed /\ UNCHANGED encoder

\* The start of a leg; sp is the speed it leaves.
StartLeg(leg, sp) ==
    angle' = leg.angle /\ sp = leg.speed /\ encoder' = 0

\* The frames of a leg: nothing but the counter is looked at.
DriveLeg(sp) == sp = speed /\ UNCHANGED <<angle, encoder>>

\* Out, the legs before the last: flag_tw 1 to 9, where 9 starts the last.
OutStep(sp) ==
    /\ flag_tw \in 1..9
    /\ LET leg == LegOf(Out, flag_tw)
       IN  \/ Starts(flag_tw) /\ StartLeg(leg, sp) /\ flag_tw' = flag_tw + 1
          \/ /\ ~Starts(flag_tw) /\ DriveLeg(sp)
             /\ flag_tw' = flag_tw + IF Reached(leg.count) THEN 1 ELSE 0
    /\ UNCHANGED <<desired, laneVars, flag_YL>>

\* The last leg keeps the lane until the yellow line, where the car is stopped;
\* the speed of the same frame overrides the stop.
MeetYellowLine ==
    /\ flag_tw = 10
    /\ \/ Reached(6400) /\ flag_tw' = 0 /\ flag_YL' = flag_YL + 1 /\ desired' = 0
       \/ UNCHANGED <<flag_tw, flag_YL, desired>>

\* The frame goes on with the lane, here without backing off a hill.
ToYellowLine(sp) ==
    /\ MeetYellowLine /\ sp = 115
    /\ \E lane \in LaneSpeeds : Find_Center(encoder, lane)
    /\ UNCHANGED encoder

BackStep(sp) ==
    /\ flag_tw = 0 /\ flag_YL \in 1..12
    /\ LET leg == LegOf(Back, flag_YL)
       IN  \/ Starts(flag_YL) /\ StartLeg(leg, sp) /\ flag_YL' = flag_YL + 1
          \/ /\ ~Starts(flag_YL) /\ DriveLeg(sp)
             /\ flag_YL' = flag_YL + IF Reached(leg.count) THEN 1 ELSE 0
    /\ UNCHANGED <<desired, laneVars, flag_tw>>

\* One call of Threeway_hardcoding that does not end the course.
Threeway_hardcoding(sp) ==
    /\ OutStep(sp) \/ ToYellowLine(sp) \/ BackStep(sp)
    /\ color' = 4
    /\ UNCHANGED <<threeway_flag, destiny, center_flag>>

\* Mutant: the last leg is left at its speed.
CourseDone_Drives(sp) ==
    /\ flag_tw = 0 /\ flag_YL = 13
    /\ sp = speed /\ desired' = 0 /\ color' = 0 /\ threeway_flag' = 2
    /\ UNCHANGED <<angle, encoder, laneVars, destiny, center_flag, flag_tw, flag_YL>>

\* The call that ends it. The stages keep their last values for good.
CourseDone(sp) ==
    /\ flag_tw = 0 /\ flag_YL = 13
    /\ sp = 0 /\ desired' = 0 /\ color' = 0 /\ threeway_flag' = 2
    /\ UNCHANGED <<angle, encoder, laneVars, destiny, center_flag, flag_tw, flag_YL>>

----------------------------------------------------------------------------
(* CourseTypeOK is part of the type invariant of MissionControl. *)

CourseTypeOK ==
    /\ threeway_flag \in 0..2 /\ destiny \in Destinies \cup {0}
    /\ center_flag \in BOOLEAN
    /\ flag_tw \in 0..10 /\ flag_YL \in 0..13
=============================================================================
