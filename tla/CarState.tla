------------------------------ MODULE CarState ------------------------------
(***************************************************************************)
(* The globals of captureOpenCV.c that its driving functions share, and    *)
(* the registers of the car behind the UART that they write and read.      *)
(***************************************************************************)
EXTENDS Integers, Sequences

CONSTANTS Marks, BackMarks

straight_speed == 150
curve_speed    == 100
hill_speed     == 500

VARIABLES
    angle,        \* the global angle: steering, or a camera position
    speed,        \* the global speed
    color,        \* the threshold Frame2Ipl uses for the next image
    HILLDISABLE,  \* set for one frame after a frame with too much red
    desired,      \* the car's desired speed: the last DesireSpeed_Write
    steering,     \* the last SteeringServoControl_Write
    encoder       \* the encoder counter, as the number of marks it has passed

carVars == <<angle, speed, color, HILLDISABLE, desired, steering, encoder>>

\* The encoder counts the program compares with, in increasing order, forward
\* and backward: the straight and the turn after the traffic light, the end of
\* a parking search, the top of a hill, the legs of the three-lane course. A
\* run lists those its missions look at. The counter is modelled by how many
\* marks it has passed.
Increasing(counts) == \A m, n \in 1..Len(counts) : m < n => counts[m] < counts[n]
ASSUME MarksAssumption ==
    /\ Marks \in Seq(Nat \ {0}) /\ BackMarks \in Seq(Nat \ {0})
    /\ Increasing(Marks) /\ Increasing(BackMarks)

Passed(counter, count) == \E m \in 1..Len(Marks) : m <= counter /\ Marks[m] = count
PassedBack(counter, count) ==
    \E m \in 1..Len(BackMarks) : m <= -counter /\ BackMarks[m] = count

Speeds == {0, 40, 50, 60, 80, curve_speed, (straight_speed + curve_speed) \div 2,
           straight_speed, hill_speed, 70, 65, 115, -70, -50}

\* Driving takes the encoder past the next mark.
Rolls ==
    \/ desired > 0 /\ encoder < Len(Marks) /\ encoder' = encoder + 1
    \/ desired < 0 /\ encoder > -Len(BackMarks) /\ encoder' = encoder - 1

CarInit ==
    /\ angle = 1500 /\ speed = 0 /\ color = 0 /\ HILLDISABLE = FALSE
    /\ desired = 0 /\ steering = 1500 /\ encoder = 0
=============================================================================
