------------------------- MODULE NvSemaphoreProofs -------------------------
(***************************************************************************)
(* Proofs about NvSemaphore for every number of threads, every maximum and *)
(* every width of the counter: the wake-up is never lost, and the          *)
(* implementation refines the abstract semaphore.                          *)
(***************************************************************************)
EXTENDS NvSemaphore, TLAPS

\* Only a call with a finite timeout gets to the end of its time.
ExpiredIsTimed == \A t \in Takers : pc[t] = "expired" => call[t] = "finite"

\* NoSleeperWithTokens needs the type to be inductive, nothing more; the
\* refinement needs ExpiredIsTimed for the step that fails.
Inv == TypeOK /\ NoSleeperWithTokens /\ ExpiredIsTimed

\* NvSemaphoreCreate leaves a semaphore that satisfies the invariant.
LEMMA InitInv == Init => Inv
  BY CountAssumption DEF Init, Inv, TypeOK, NoSleeperWithTokens, ExpiredIsTimed, Least, Timeouts

\* Below the maximum an increment adds one and cannot wrap; at the maximum it
\* is put back. This is where the assumption on the maximum is needed.
LEMMA Added ==
  ASSUME count \in 0..maxCount
  PROVE  (count + 1) % Modulus = count + 1
  <1>1. count + 1 \in Nat /\ count + 1 < Modulus /\ Modulus \in Nat
    BY CountAssumption
  <1> QED BY <1>1

\* What one increment does, without the arithmetic of the counter.
LEMMA IncrementEffect ==
  ASSUME Inv, NvSemaphoreIncrement
  PROVE  /\ \/ count = maxCount /\ count' = count /\ pc' = pc
            \/ count < maxCount /\ count' = count + 1 /\ pc' = Woken
         /\ call' = call
  <1>1. count \in 0..maxCount /\ (count + 1) % Modulus = count + 1
    BY Added DEF Inv, TypeOK
  <1>2. call' = call
    BY DEF NvSemaphoreIncrement
  <1>3. CASE count + 1 > maxCount /\ count' = maxCount /\ UNCHANGED pc
    BY <1>1, <1>2, <1>3, CountAssumption
  <1>4. CASE count + 1 <= maxCount /\ count' = count + 1 /\ pc' = Woken
    BY <1>1, <1>2, <1>4, CountAssumption
  <1> QED BY <1>1, <1>3, <1>4 DEF NvSemaphoreIncrement

\* Every step keeps the invariant.
LEMMA StepInv == Inv /\ [Next]_vars => Inv'
  <1> SUFFICES ASSUME Inv, [Next]_vars PROVE Inv'
    OBVIOUS
  <1> USE CountAssumption DEF Inv, TypeOK, NoSleeperWithTokens, ExpiredIsTimed, Timeouts
  <1>1. CASE NvSemaphoreIncrement
    BY <1>1, IncrementEffect DEF Woken
  <1>2. ASSUME NEW t \in Takers, NEW m \in Timeouts, Decrement(t, m) PROVE Inv'
    BY <1>2 DEF Decrement
  <1>3. ASSUME NEW t \in Takers, Take(t) PROVE Inv'
    BY <1>3 DEF Take, Return
  <1>4. ASSUME NEW t \in Takers, Refuse(t) PROVE Inv'
    BY <1>4 DEF Refuse, Return
  <1>5. ASSUME NEW t \in Takers, Wait(t) PROVE Inv'
    BY <1>5 DEF Wait
  <1>6. ASSUME NEW t \in Takers, Fail(t) PROVE Inv'
    BY <1>6 DEF Fail, Return
  <1>7. ASSUME NEW t \in Takers, Spurious(t) PROVE Inv'
    BY <1>7 DEF Spurious
  <1>8. ASSUME NEW t \in Takers, Expire(t) PROVE Inv'
    BY <1>8 DEF Expire
  <1>9. CASE UNCHANGED vars
    BY <1>9 DEF vars
  <1> QED
    BY <1>1, <1>2, <1>3, <1>4, <1>5, <1>6, <1>7, <1>8, <1>9 DEF Next, Proceed

\* The invariant holds throughout.
LEMMA Invariant == Spec => []Inv
  BY InitInv, StepInv, PTL DEF Spec

\* The wake-up of Increment is never lost: no thread sleeps in
\* NvSemaphoreDecrement while the semaphore has a token.
THEOREM NoLostWakeup == Spec => []NoSleeperWithTokens
  <1>1. Inv => NoSleeperWithTokens
    BY DEF Inv
  <1> QED BY <1>1, Invariant, PTL

\* Every step of the implementation is a step of the abstract semaphore or
\* changes nothing of it.
LEMMA StepSimulation ==
  Inv /\ [Next]_vars => [Abstract!Next]_<<count, call>>
  <1> SUFFICES ASSUME Inv, [Next]_vars PROVE [Abstract!Next]_<<count, call>>
    OBVIOUS
  <1> USE DEF Inv, TypeOK, Timeouts, Abstract!Timeouts, Abstract!Next
  <1>1. CASE NvSemaphoreIncrement
    BY <1>1, IncrementEffect DEF Abstract!Increment
  <1>2. ASSUME NEW t \in Takers, NEW m \in Timeouts, Decrement(t, m)
        PROVE  Abstract!Next
    BY <1>2 DEF Decrement, Abstract!Begin
  <1>3. ASSUME NEW t \in Takers, Take(t) PROVE Abstract!Next
    BY <1>3 DEF Take, Return, Abstract!Take
  <1>4. ASSUME NEW t \in Takers, Refuse(t) PROVE Abstract!Next
    BY <1>4 DEF Refuse, Return, Abstract!GiveUp
  <1>6. ASSUME NEW t \in Takers, Fail(t) PROVE Abstract!Next
    BY <1>6 DEF ExpiredIsTimed, Fail, Return, Abstract!GiveUp
  <1>7. ASSUME NEW t \in Takers, Wait(t) \/ Spurious(t) \/ Expire(t)
        PROVE  UNCHANGED <<count, call>>
    BY <1>7 DEF Wait, Spurious, Expire
  <1>9. CASE UNCHANGED vars
    BY <1>9 DEF vars
  <1> QED
    BY <1>1, <1>2, <1>3, <1>4, <1>6, <1>7, <1>9 DEF Next, Proceed

\* nvthread.c's semaphore implements the abstract one.
THEOREM Refinement == Spec => ImplementsSemaphore
  <1>1. Init => Abstract!Init
    BY CountAssumption DEF Init, Abstract!Init, Least
  <1> QED
    BY <1>1, Invariant, StepSimulation, PTL
    DEF Spec, ImplementsSemaphore, Abstract!Spec
=============================================================================
