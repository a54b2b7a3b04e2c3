---------------------------- MODULE LaneKeeping ----------------------------
(***************************************************************************)
(* Find_Center and hill_sequence of captureOpenCV.c: the decisions one     *)
(* lane image leads to.  The image is abstracted to what it makes the code *)
(* decide: a line so close that the car turns at full lock, a slope of the *)
(* near lane, or a slope of the far lane.  hill_sequence, which Find_Center *)
(* may call in the middle of a frame, waits for the encoder: its steps are  *)
(* those of MissionControl, which knows the frames that call it.            *)
(***************************************************************************)
EXTENDS CarState

CONSTANTS
    low_speed_limit,  \* slow frames before the car backs off a hill: 10
    second_limit,     \* slow frames on the climb before it backs again: 30
    LaneAngles,       \* steering angles the near lane may ask for
    MeasuredSpeeds    \* what DesireSpeed_Read may report

ASSUME LimitAssumption == low_speed_limit \in Nat /\ second_limit \in Nat
ASSUME LaneAngleAssumption == LaneAngles \subseteq 1000..2000
ASSUME MeasuredAssumption == MeasuredSpeeds \subseteq {"still", "slow", "fast"}

VARIABLES
    turn_left_max, turn_right_max,              \* turning at full lock
    max_turn_ready_left, max_turn_ready_right,  \* the far lane bends sharply
    low_speed_count,    \* Find_Center frames in a row that found the car slow
    second_count,       \* the same, while it climbs
    climing_hill_flag

turnVars == <<turn_left_max, turn_right_max, max_turn_ready_left, max_turn_ready_right>>
hillVars == <<low_speed_count, second_count, climing_hill_flag>>
laneVars == <<turnVars, hillVars>>

LaneInit ==
    /\ turn_left_max = FALSE /\ turn_right_max = FALSE
    /\ max_turn_ready_left = FALSE /\ max_turn_ready_right = FALSE
    /\ low_speed_count = 0 /\ second_count = 0
    /\ climing_hill_flag = FALSE

----------------------------------------------------------------------------
(* Steering *)

\* A right line near the middle of the image starts a full left turn, unless
\* the car turns right; the turn is kept until the line is back at the side.
LockLeft ==
    /\ ~turn_right_max
    /\ turn_left_max' = TRUE /\ turn_right_max' = FALSE
    /\ angle' = 2000
    /\ UNCHANGED <<max_turn_ready_left, max_turn_ready_right>>

LockRight ==
    /\ ~turn_left_max
    /\ turn_right_max' = TRUE /\ turn_left_max' = FALSE
    /\ angle' = 1000
    /\ UNCHANGED <<max_turn_ready_left, max_turn_ready_right>>

\* The slopes of the near lane steer, bounded to 1000..2000.
FollowLane ==
    /\ turn_left_max' = FALSE /\ turn_right_max' = FALSE
    /\ angle' \in LaneAngles
    /\ UNCHANGED <<max_turn_ready_left, max_turn_ready_right>>

\* No slope near by: a far slope beyond high_ignore_angle is only remembered,
\* a gentle one steers by at most high_ignore_angle and clears the memory.
LookAhead ==
    /\ turn_left_max' = FALSE /\ turn_right_max' = FALSE
    /\ \/ /\ angle' = 1500
          /\ \/ max_turn_ready_left' = TRUE /\ UNCHANGED max_turn_ready_right
             \/ max_turn_ready_right' = TRUE /\ UNCHANGED max_turn_ready_left
       \/ /\ angle' \in {a \in LaneAngles \cup {1500} : a \in 1400..1600}
          /\ max_turn_ready_left' = FALSE /\ max_turn_ready_right' = FALSE

\* Mutant: the thresholds for a curve lie at the locks.
LaneSpeed_Late ==
    IF angle' < 1000 \/ angle' > 2000 THEN curve_speed ELSE straight_speed

\* Curves are driven slower than straights.
LaneSpeed ==
    IF angle' < 1200 \/ angle' > 1800 THEN curve_speed
    ELSE IF max_turn_ready_left' \/ max_turn_ready_right'
    THEN (straight_speed + curve_speed) \div 2
    ELSE straight_speed

LaneSpeeds == {curve_speed, (straight_speed + curve_speed) \div 2, straight_speed, hill_speed}

----------------------------------------------------------------------------
(* Hills *)

CountTo(limit, n) == IF n > limit THEN n ELSE n + 1   \* counters saturate

\* Over the top: fast, and 20000 encoder steps after the climb began.
OverHill(measured, counter) == measured = "fast" /\ Passed(counter, 20000)

\* Mutant: hill_speed while the flag is set, over the top as well.
DrivenSpeed_Flag(climbs) == IF climing_hill_flag THEN hill_speed ELSE LaneSpeed

DrivenSpeed(climbs) == IF climbs THEN hill_speed ELSE LaneSpeed

\* Mutant: red in the last frame is not looked at.
BacksOff_Red(low, second) == low > low_speed_limit \/ second > second_limit

BacksOff(low, second) ==
    (low > low_speed_limit \/ second > second_limit) /\ ~HILLDISABLE

\* The climb goes on. counter is the encoder that Find_Center reads.
Climbs(measured, counter) == climing_hill_flag /\ ~OverHill(measured, counter)

\* The counters of a frame; backs tells whether the car that should drive but
\* hardly moves backs off, by a call of hill_sequence.
Hill(measured, counter, backs) ==
    LET slow   == measured = "still"
        climbs == Climbs(measured, counter)
        low    == IF slow /\ ~climbs THEN CountTo(low_speed_limit, low_speed_count) ELSE 0
        kept   == IF slow THEN second_count ELSE 0
        second == IF climbs THEN CountTo(second_limit, kept)
                  ELSE IF climing_hill_flag THEN 0 ELSE kept
    IN  /\ backs <=> BacksOff(low, second)
        /\ low_speed_count' = low
        /\ second_count' = second
        /\ climing_hill_flag' = climbs

\* hill_sequence backs off further the second time.
HillBottom == IF second_count > 0 THEN 16000 ELSE 14000

\* Its end: the car climbs.
ClimbBegins ==
    /\ climing_hill_flag' = TRUE /\ second_count' = 0
    /\ UNCHANGED <<turnVars, low_speed_count>>

\* One image of the lane, up to the call of hill_sequence if backs. sp is the
\* speed it leaves.
LaneFrame(counter, sp, backs) ==
    \E measured \in MeasuredSpeeds :
       /\ Hill(measured, counter, backs)
       /\ LockLeft \/ LockRight \/ FollowLane \/ LookAhead
       /\ sp = DrivenSpeed(Climbs(measured, counter))

\* All of Find_Center, in a frame in which the car does not back off.
Find_Center(counter, sp) == LaneFrame(counter, sp, FALSE)

----------------------------------------------------------------------------
(* Properties; LaneTypeOK is part of the type invariant of MissionControl. *)

LaneTypeOK ==
    /\ {turn_left_max, turn_right_max, max_turn_ready_left, max_turn_ready_right,
        climing_hill_flag} \subseteq BOOLEAN
    /\ low_speed_count \in 0..(low_speed_limit + 1)
    /\ second_count \in 0..(second_limit + 1)

\* hill_speed, more than three times the speed on a straight, is left with the
\* climb: no frame leaves it behind as the speed of an ordinary lane.
HillSpeedOnlyOnHill == speed = hill_speed => climing_hill_flag

\* Full lock is never driven at the speed of a straight.
LockIsSlow == turn_left_max \/ turn_right_max => speed # straight_speed
=============================================================================
