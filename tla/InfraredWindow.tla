--------------------------- MODULE InfraredWindow ---------------------------
(***************************************************************************)
(* DistanceThread and filteredIR of captureOpenCV.c: one thread overwrites *)
(* the readings of an infrared sensor slot by slot for ever, another one   *)
(* averages them whenever it likes, and no lock stands between them.  One  *)
(* channel stands for the four; distanceFlag is never changed.             *)
(***************************************************************************)
EXTENDS Integers

CONSTANTS
    Window,       \* slots of DistanceValue, 15 in the code
    Low, High,    \* DistanceSensor returns a number of this range
    Readings      \* the numbers tried

\* The sensor answers and never measures 0.
ASSUME WindowAssumption ==
    /\ Window \in Nat \ {0}
    /\ Low \in Nat \ {0} /\ High \in Nat /\ Low <= High
    /\ Readings \subseteq Low..High

Slots == 0..Window - 1

VARIABLES
    DistanceValue,        \* the readings, global and unlocked
    i,                    \* the slot DistanceThread writes next
    distance_warmming,    \* DistanceThread has been through all slots
    pc,                   \* filteredIR: "idle" or "sum"
    j, sensorValue,       \* its slot and its sum
    channel               \* what it returned last

threadVars == <<DistanceValue, i, distance_warmming>>
filterVars == <<pc, j, sensorValue, channel>>
vars == <<threadVars, filterVars>>

Init ==
    /\ DistanceValue = [k \in Slots |-> 0]
    /\ i = 0 /\ distance_warmming = FALSE
    /\ pc = "idle" /\ j = 0 /\ sensorValue = 0 /\ channel = 0

----------------------------------------------------------------------------
(* DistanceThread *)

\* One pass of the inner loop.
Fill(r) ==
    /\ i < Window
    /\ DistanceValue' = [DistanceValue EXCEPT ![i] = r]
    /\ i' = i + 1
    /\ UNCHANGED <<distance_warmming, filterVars>>

\* Mutant: the flag is set one slot too early.
Warmed_Early ==
    /\ i >= Window - 1
    /\ distance_warmming' = TRUE
    /\ i' = 0
    /\ UNCHANGED <<DistanceValue, filterVars>>

\* The flag is set once the loop over the slots is over.
Warmed ==
    /\ i = Window
    /\ distance_warmming' = TRUE
    /\ i' = 0
    /\ UNCHANGED <<DistanceValue, filterVars>>

DistanceThread == (\E r \in Readings : Fill(r)) \/ Warmed

----------------------------------------------------------------------------
(* filteredIR, called by ControlThread *)

Cold ==
    /\ pc = "idle" /\ ~distance_warmming
    /\ channel' = 0
    /\ UNCHANGED <<threadVars, pc, j, sensorValue>>

Begin ==
    /\ pc = "idle" /\ distance_warmming
    /\ pc' = "sum" /\ j' = 0 /\ sensorValue' = 0
    /\ UNCHANGED <<threadVars, channel>>

Add ==
    /\ pc = "sum" /\ j < Window
    /\ sensorValue' = sensorValue + DistanceValue[j]
    /\ j' = j + 1
    /\ UNCHANGED <<threadVars, pc, channel>>

\* Mutant: one slot is left out of the average.
Average_Short ==
    /\ pc = "sum" /\ j = Window - 1
    /\ channel' = sensorValue \div Window
    /\ pc' = "idle"
    /\ UNCHANGED <<threadVars, j, sensorValue>>

Average ==
    /\ pc = "sum" /\ j = Window
    /\ channel' = sensorValue \div Window
    /\ pc' = "idle"
    /\ UNCHANGED <<threadVars, j, sensorValue>>

filteredIR == Cold \/ Begin \/ Add \/ Average

Next == DistanceThread \/ filteredIR

\* Both threads run; ControlThread asks again and again.
Spec == Init /\ [][Next]_vars
FairSpec == Spec /\ WF_vars(DistanceThread) /\ WF_vars(filteredIR)

----------------------------------------------------------------------------
(* Properties *)

\* The average runs over slots that exist, and the sum never outgrows them.
TypeOK ==
    /\ DistanceValue \in [Slots -> Low..High \cup {0}]
    /\ i \in 0..Window
    /\ distance_warmming \in BOOLEAN
    /\ pc \in {"idle", "sum"}
    /\ j \in 0..Window
    /\ sensorValue \in Nat
    /\ channel \in Nat

\* Although the readings change under the average, the caller sees a sensor:
\* the values of the comment at distance_warmming (0 until all slots were
\* written) and never a sum over slots that are still 0.
Sensor == INSTANCE RangeSensor
ImplementsSensor == Sensor!Spec

\* The warm-up ends for the caller: from some call on it gets distances.
WarmsUp == <>[](channel # 0)
=============================================================================
