------------------------ MODULE InfraredWindowProofs ------------------------
(***************************************************************************)
(* The unlocked window of infrared readings is a sensor to its reader, for *)
(* every size of the window and every range of distances.                  *)
(***************************************************************************)
EXTENDS InfraredWindow, TLAPS

\* The slots that DistanceThread has been through hold a distance.
Filled == \A k \in Slots : distance_warmming \/ k < i => DistanceValue[k] \in Low..High

\* A sum is only taken of a warm window, and of j distances.
SumInRange ==
    pc = "sum" => /\ distance_warmming
                  /\ j * Low <= sensorValue /\ sensorValue <= j * High

\* While the window is cold the caller has been given 0.
ColdReads == ~distance_warmming => channel = 0

Inv == TypeOK /\ Filled /\ SumInRange /\ ColdReads

\* The rounded average of n numbers of a range is in that range.
LEMMA AverageInRange ==
    ASSUME NEW n \in Nat \ {0}, NEW lo \in Nat, NEW hi \in Nat, NEW sum \in Nat,
           n * lo <= sum, sum <= n * hi
    PROVE  sum \div n \in lo..hi
<1> DEFINE q == sum \div n
           r == sum % n
<1>1. q \in Int /\ r \in 0..n - 1 /\ sum = n * q + r
  BY SMT
<1>2. lo <= q
  <2>1. SUFFICES ASSUME q + 1 <= lo PROVE FALSE
    BY <1>1, SMT
  <2>2. n * (q + 1) <= n * lo
    BY <1>1, <2>1, SMT
  <2>3. n * (q + 1) = n * q + n
    BY <1>1, SMT
  <2> QED
    BY <1>1, <2>2, <2>3, SMT
<1>3. q <= hi
  <2>1. SUFFICES ASSUME hi + 1 <= q PROVE FALSE
    BY <1>1, SMT
  <2>2. n * (hi + 1) <= n * q
    BY <1>1, <2>1, SMT
  <2>3. n * (hi + 1) = n * hi + n
    BY SMT
  <2> QED
    BY <1>1, <2>2, <2>3, SMT
<1> QED
  BY <1>1, <1>2, <1>3

\* The invariant holds at the start.
LEMMA InvInit == Init => Inv
<1> SUFFICES ASSUME Init PROVE Inv
  OBVIOUS
<1>1. TypeOK
  <2>1. i \in 0..Window /\ j \in 0..Window /\ sensorValue \in Nat /\ channel \in Nat
    BY WindowAssumption DEF Init
  <2>2. DistanceValue \in [Slots -> Low..High \cup {0}]
    BY DEF Init
  <2>3. distance_warmming \in BOOLEAN /\ pc \in {"idle", "sum"}
    BY DEF Init
  <2> QED
    BY <2>1, <2>2, <2>3 DEF TypeOK
<1>2. Filled
  BY DEF Init, Filled, Slots
<1>3. SumInRange /\ ColdReads
  BY DEF Init, SumInRange, ColdReads
<1> QED
  BY <1>1, <1>2, <1>3 DEF Inv

\* No step of either thread, at any point of the other, breaks the invariant.
LEMMA InvNext == Inv /\ [Next]_vars => Inv'
<1> SUFFICES ASSUME Inv, [Next]_vars PROVE Inv'
  OBVIOUS
<1> USE WindowAssumption
<1>1. ASSUME NEW r \in Readings, Fill(r) PROVE Inv'
  BY <1>1 DEF Inv, TypeOK, Filled, SumInRange, ColdReads, Slots, Fill, filterVars
<1>2. CASE Warmed
  BY <1>2 DEF Inv, TypeOK, Filled, SumInRange, ColdReads, Slots, Warmed, filterVars
<1>3. CASE Cold
  BY <1>3 DEF Inv, TypeOK, Filled, SumInRange, ColdReads, Slots, Cold, threadVars
<1>4. CASE Begin
  BY <1>4 DEF Inv, TypeOK, Filled, SumInRange, ColdReads, Slots, Begin, threadVars
<1>5. CASE Add
  <2>1. DistanceValue[j] \in Low..High /\ j \in Slots
    BY <1>5 DEF Inv, TypeOK, Filled, SumInRange, Slots, Add
  <2>2. (j + 1) * Low = j * Low + Low /\ (j + 1) * High = j * High + High
    BY DEF Inv, TypeOK
  <2>3. SumInRange'
    BY <1>5, <2>1, <2>2 DEF Inv, TypeOK, SumInRange, Add, threadVars
  <2> QED
    BY <1>5, <2>1, <2>3 DEF Inv, TypeOK, Filled, ColdReads, Slots, Add, threadVars
<1>6. CASE Average
  <2>1. channel' \in Low..High
    BY <1>6, AverageInRange DEF Inv, TypeOK, SumInRange, Average
  <2> QED
    BY <1>6, <2>1 DEF Inv, TypeOK, Filled, SumInRange, ColdReads, Slots, Average, threadVars
<1>7. CASE UNCHANGED vars
  BY <1>7 DEF Inv, TypeOK, Filled, SumInRange, ColdReads, vars, threadVars, filterVars
<1> QED
  BY <1>1, <1>2, <1>3, <1>4, <1>5, <1>6, <1>7 DEF Next, DistanceThread, filteredIR

\* The average runs over the slots of the window and the sum stays a number,
\* whatever the size of the window.
THEOREM TypeCorrect == Spec => []TypeOK
<1>1. Inv => TypeOK
  BY DEF Inv
<1> QED
  BY <1>1, InvInit, InvNext, PTL DEF Spec

\* filteredIR, with its window rewritten under it, is the sensor of
\* RangeSensor: 0 until every slot was written, then distances only.
THEOREM Refinement == Spec => ImplementsSensor
<1>1. Init => Sensor!Init
  BY DEF Init, Sensor!Init
<1>2. Inv /\ [Next]_vars => [Sensor!filteredIR]_channel
  <2> SUFFICES ASSUME Inv, [Next]_vars PROVE [Sensor!filteredIR]_channel
    OBVIOUS
  <2>1. CASE Cold
    BY <2>1 DEF Cold, Inv, ColdReads, Sensor!filteredIR
  <2>2. CASE Average
    BY <2>2, AverageInRange, WindowAssumption
       DEF Average, Inv, TypeOK, SumInRange, Sensor!filteredIR
  <2>3. CASE DistanceThread \/ Begin \/ Add \/ UNCHANGED vars
    BY <2>3 DEF DistanceThread, Fill, Warmed, Begin, Add, vars, filterVars
  <2> QED
    BY <2>1, <2>2, <2>3 DEF Next, filteredIR
<1> QED
  BY <1>1, <1>2, InvInit, InvNext, PTL DEF Spec, ImplementsSensor, Sensor!Spec
=============================================================================
