-------------------------- MODULE MCMissionControl --------------------------
(* Missions for TLC. The sets keep each run to the part it is about: a      *)
(* single infrared level switches the parking search off, a car that always *)
(* measures fast never backs off a hill.                                    *)
EXTENDS MissionControl
MCLaneAngles == {1500, 1900}
StraightLane == {1500}
MCEndAngles == {700, 1500, 2300}
StraightEnd == {1500}
SteadyWall == {100}
Walls == {100, 250}
NeverSlow == {"fast"}
Hilly == {"still", "fast"}
AnyMeasure == {"still", "slow", "fast"}
NoRed == {FALSE}
OnlyLight == {3}
NoMission == {}
Gaps == {0, 100, 250}
BothMissions == {1, 3}
AnyRed == BOOLEAN
\* The counts of every mission but the three-lane course, and those of the course.
LaneMarks == <<4500, 8050, 12000, 20000>>
MissionMarks == <<4500, 8050, 20000>>
HillMarks == <<14000, 16000>>
NoMarks == <<>>
CourseMarks == <<800, 1600, 2400, 3000, 4500, 6400, 20000>>
CourseBackMarks == <<800, 4010, 5600, 14000, 16000>>
=============================================================================
