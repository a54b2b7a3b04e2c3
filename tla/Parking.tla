------------------------------ MODULE Parking ------------------------------
(***************************************************************************)
(* check_parking of captureOpenCV.c: walls and the gap between them are    *)
(* recognised from the steps of the filtered right infrared distance.      *)
(***************************************************************************)
EXTENDS CarState

CONSTANT Levels    \* what filteredIR(RIGHT) may return, 0 while warming up

ASSUME LevelAssumption == Levels \subseteq Nat

VARIABLES
    right_flag,           \* the stage of the search, 4: a space was found
    first_right_detect, second_right_detect, third_right_detect,
    channel_rightPrev,    \* the previous distance
    channel_warmming,     \* two distances that are not 0 were seen
    difference_right      \* the last step of the distance

parkVars == <<right_flag, first_right_detect, second_right_detect, third_right_detect,
              channel_rightPrev, channel_warmming, difference_right>>

\* ControlThread reads the sensor once before its loop.
ParkInit ==
    /\ right_flag = 0
    /\ first_right_detect = FALSE /\ second_right_detect = FALSE
    /\ third_right_detect = FALSE
    /\ channel_rightPrev \in Levels
    /\ channel_warmming = FALSE /\ difference_right = 0

\* Mutant: one reading is enough to warm up.
Measure_Cold(now) ==
    /\ channel_rightPrev # 0 => now # 0
    /\ channel_warmming' = (channel_warmming \/ now # 0)
    /\ difference_right' = IF channel_warmming' THEN now - channel_rightPrev
                           ELSE difference_right
    /\ channel_rightPrev' = now

\* The step of the distance; before two readings count it keeps its value.
Measure(now) ==
    /\ channel_rightPrev # 0 => now # 0    \* as RangeSensor promises
    /\ channel_warmming' = (channel_warmming \/ (now # 0 /\ channel_rightPrev # 0))
    /\ difference_right' = IF channel_warmming' THEN now - channel_rightPrev
                           ELSE difference_right
    /\ channel_rightPrev' = now

Detected(first, second, third) ==
    /\ first_right_detect' = first
    /\ second_right_detect' = second
    /\ third_right_detect' = third

\* The conditions of the if-else ladder; at most one of them holds.
WallBegins == ~first_right_detect /\ difference_right' > 100
WallSeen   == right_flag = 1 /\ ~first_right_detect /\ difference_right' < 30
GapBegins  == right_flag = 1 /\ first_right_detect /\ ~second_right_detect
              /\ difference_right' < -60
GapSeen    == right_flag = 2 /\ first_right_detect /\ ~second_right_detect
              /\ difference_right' > -30
EndBegins  == right_flag = 2 /\ first_right_detect /\ second_right_detect
              /\ ~third_right_detect /\ difference_right' > 60
EndSeen    == right_flag = 3 /\ first_right_detect /\ second_right_detect
              /\ ~third_right_detect /\ difference_right' < 30
NothingSeen == ~(WallBegins \/ WallSeen \/ GapBegins \/ GapSeen \/ EndBegins \/ EndSeen)

\* Mutant: the gap is remembered when the search is given up.
GiveUp_Half ==
    right_flag' = 0 /\ Detected(FALSE, second_right_detect, FALSE)

\* The search is given up when the encoder has passed 12000 steps.
GiveUp ==
    right_flag' = 0 /\ Detected(FALSE, FALSE, FALSE)

\* One call that returns; e is the encoder it leaves.
CheckParking(e) ==
    /\ \E now \in Levels : Measure(now)
    /\ \/ /\ WallBegins
          /\ right_flag' = 1 /\ e = 0
          /\ UNCHANGED <<first_right_detect, second_right_detect, third_right_detect>>
       \/ /\ WallSeen
          /\ Detected(TRUE, second_right_detect, third_right_detect) /\ e = 0
          /\ UNCHANGED right_flag
       \/ /\ GapBegins
          /\ right_flag' = 2 /\ e = encoder
          /\ UNCHANGED <<first_right_detect, second_right_detect, third_right_detect>>
       \/ /\ GapSeen
          /\ Detected(first_right_detect, TRUE, third_right_detect) /\ e = 0
          /\ UNCHANGED right_flag
       \/ /\ EndBegins
          /\ right_flag' = 3 /\ e = encoder
          /\ UNCHANGED <<first_right_detect, second_right_detect, third_right_detect>>
       \/ /\ NothingSeen /\ Passed(encoder, 12000)
          /\ GiveUp /\ e = encoder
       \/ /\ NothingSeen /\ ~Passed(encoder, 12000)
          /\ e = encoder
          /\ UNCHANGED <<right_flag, first_right_detect, second_right_detect,
                         third_right_detect>>

\* The call that finds the end of the gap never returns: it writes speed 0 for
\* ever, so the branch for right_flag = 4, which parks, is never reached.
SpaceFound ==
    /\ \E now \in Levels : Measure(now)
    /\ EndSeen
    /\ right_flag' = 4
    /\ Detected(first_right_detect, second_right_detect, TRUE)

Parked == right_flag = 4

----------------------------------------------------------------------------
(* Properties; ParkTypeOK is part of the type invariant of MissionControl. *)

ParkTypeOK ==
    /\ right_flag \in 0..4
    /\ {first_right_detect, second_right_detect, third_right_detect, channel_warmming}
          \subseteq BOOLEAN
    /\ channel_rightPrev \in Levels /\ difference_right \in Int

\* The stage and the three detect flags, which are spread over globals and a
\* static, never disagree: wall, gap, wall are recognised in this order, and
\* giving up leaves nothing of an earlier search behind.
StagesInOrder ==
    <<right_flag, first_right_detect, second_right_detect, third_right_detect>> \in
       {<<0, FALSE, FALSE, FALSE>>,
        <<1, FALSE, FALSE, FALSE>>, <<1, TRUE, FALSE, FALSE>>,
        <<2, TRUE, FALSE, FALSE>>, <<2, TRUE, TRUE, FALSE>>,
        <<3, TRUE, TRUE, FALSE>>, <<4, TRUE, TRUE, TRUE>>}

\* The readings of 0 that filteredIR returns while DistanceThread fills its
\* first window are not taken for a far wall: the search never starts on the
\* step from 0 to the first distance (what channel_warmming is there for).
NoStepFromZero ==
    [][right_flag = 0 /\ right_flag' = 1 => channel_rightPrev # 0]_<<carVars, parkVars>>

\* The comment at the branch for right_flag = 4: a recognised space starts the
\* parking, so the call that recognised it must come back.
ParkingStarts == third_right_detect ~> ~Parked
=============================================================================
