---------------------------- MODULE RangeSensor ----------------------------
(***************************************************************************)
(* What check_parking may rely on when it calls filteredIR: 0 until the    *)
(* sensor has warmed up, then for ever a distance the sensor can measure.  *)
(***************************************************************************)
EXTENDS Integers

CONSTANTS Low, High    \* the nearest and the farthest distance

VARIABLE channel       \* the value of the last call

Init == channel = 0

\* Once warm it is never 0 again: the step from a 0 to the first distance is
\* seen once.
filteredIR ==
    \/ channel = 0 /\ channel' = 0
    \/ channel' \in Low..High

Spec == Init /\ [][filteredIR]_channel
=============================================================================
