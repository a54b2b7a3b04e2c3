--------------------------- MODULE NvEventProofs ---------------------------
(***************************************************************************)
(* Proofs about NvEvent for every set of threads and both kinds of event:  *)
(* the one wake-up of an automatic event is never lost, and the            *)
(* implementation refines the abstract event.                              *)
(***************************************************************************)
EXTENDS NvEvent, TLAPS

\* AutomaticWakesOne is inductive with the types: the thread that takes the
\* event resets it in the same critical section, and the one that goes to sleep
\* or gives up has seen it reset or was not awake.
Inv == TypeOK /\ AutomaticWakesOne

\* NvEventCreate leaves an event nobody sleeps on.
LEMMA InitInv == Init => Inv
  BY EventAssumption DEF Init, Inv, TypeOK, AutomaticWakesOne, Sleeping, Timeouts

\* The types survive every step.
LEMMA StepTypes == TypeOK /\ [Next]_vars => TypeOK'
  <1> SUFFICES ASSUME TypeOK, [Next]_vars PROVE TypeOK'
    OBVIOUS
  <1> USE EventAssumption DEF TypeOK, Timeouts
  <1>1. CASE NvEventSet
    BY <1>1 DEF NvEventSet, WakeOne, Sleeping
  <1>2. CASE NvEventReset
    BY <1>2 DEF NvEventReset
  <1>3. ASSUME NEW t \in Waiters, NEW m \in Timeouts, NvEventWait(t, m) PROVE TypeOK'
    BY <1>3 DEF NvEventWait
  <1>4. ASSUME NEW t \in Waiters, Take(t) \/ Refuse(t) \/ Fail(t) PROVE TypeOK'
    BY <1>4 DEF Take, Refuse, Fail, Return
  <1>5. ASSUME NEW t \in Waiters, Sleep(t) \/ Spurious(t) \/ Expire(t) PROVE TypeOK'
    BY <1>5 DEF Sleep, Spurious, Expire
  <1>6. CASE UNCHANGED vars
    BY <1>6 DEF vars
  <1> QED
    BY <1>1, <1>2, <1>3, <1>4, <1>5, <1>6 DEF Next, Proceed

\* A signal that finds somebody asleep leaves somebody awake.
LEMMA SignalWakes ==
  ASSUME TypeOK, WakeOne
  PROVE  Sleeping' # {} => \E t \in Waiters : pc'[t] = "lock"
  <1>1. CASE \E t \in Sleeping : pc' = [pc EXCEPT ![t] = "lock"]
    BY <1>1 DEF TypeOK, Sleeping
  <1>2. CASE Sleeping = {} /\ UNCHANGED pc
    BY <1>2 DEF Sleeping
  <1> QED BY <1>1, <1>2 DEF WakeOne

\* Every step keeps the invariant.
LEMMA StepInv == Inv /\ [Next]_vars => Inv'
  <1> SUFFICES ASSUME Inv, [Next]_vars PROVE AutomaticWakesOne'
    BY StepTypes DEF Inv
  <1> USE DEF Inv, AutomaticWakesOne
  <1>1. CASE NvEventSet
    BY <1>1, SignalWakes DEF NvEventSet
  <1>2. CASE NvEventReset
    BY <1>2 DEF NvEventReset
  <1>3. ASSUME NEW t \in Waiters, NEW m \in Timeouts, NvEventWait(t, m)
        PROVE  AutomaticWakesOne'
    BY <1>3 DEF NvEventWait, TypeOK, Sleeping
  <1>4. ASSUME NEW t \in Waiters, Take(t) PROVE AutomaticWakesOne'
    <2>1. signaled' = manual /\ manual' = manual
      BY <1>4 DEF Take, Return
    <2> QED BY <2>1, Zenon
  <1>8. ASSUME NEW t \in Waiters, Refuse(t) PROVE AutomaticWakesOne'
    <2>1. ~signaled'
      BY <1>8, Zenon DEF Refuse
    <2> QED BY <2>1, Zenon
  <1>5. ASSUME NEW t \in Waiters, Fail(t) \/ Spurious(t) \/ Expire(t)
        PROVE  AutomaticWakesOne'
    BY <1>5 DEF Fail, Spurious, Expire, Return, TypeOK, Sleeping
  <1>6. ASSUME NEW t \in Waiters, Sleep(t) PROVE AutomaticWakesOne'
    BY <1>6 DEF Sleep
  <1>7. CASE UNCHANGED vars
    BY <1>7 DEF vars, Sleeping
  <1> QED
    BY <1>1, <1>2, <1>3, <1>4, <1>5, <1>6, <1>7, <1>8 DEF Next, Proceed

\* The invariant holds throughout.
LEMMA Invariant == Spec => []Inv
  BY InitInv, StepInv, PTL DEF Spec

\* The one wake-up of NvEventSet is never lost on an automatic event: while it
\* is set and threads sleep, one that is awake is on its way to take it.
THEOREM OneAwake == Spec => []AutomaticWakesOne
  <1>1. Inv => AutomaticWakesOne
    BY DEF Inv
  <1> QED BY <1>1, Invariant, PTL

\* Every step of the implementation is a step of the abstract event or changes
\* nothing of it.
LEMMA StepSimulation ==
  Inv /\ [Next]_vars => [Abstract!Next]_<<manual, signaled, call>>
  <1> SUFFICES ASSUME Inv, [Next]_vars PROVE [Abstract!Next]_<<manual, signaled, call>>
    OBVIOUS
  <1> USE DEF Inv, TypeOK, Timeouts, Abstract!Timeouts, Abstract!Next
  <1>1. CASE NvEventSet
    BY <1>1 DEF NvEventSet, Abstract!Set
  <1>2. CASE NvEventReset
    BY <1>2 DEF NvEventReset, Abstract!Reset
  <1>3. ASSUME NEW t \in Waiters, NEW m \in Timeouts, NvEventWait(t, m)
        PROVE  Abstract!Next
    BY <1>3 DEF NvEventWait, Abstract!Begin
  <1>4. ASSUME NEW t \in Waiters, Take(t) PROVE Abstract!Next
    BY <1>4 DEF Take, Return, Abstract!Pass
  <1>5. ASSUME NEW t \in Waiters, Refuse(t) \/ Fail(t) PROVE Abstract!Next
    BY <1>5 DEF Refuse, Fail, Return, Abstract!GiveUp
  <1>6. ASSUME NEW t \in Waiters, Sleep(t) \/ Spurious(t) \/ Expire(t)
        PROVE  UNCHANGED <<manual, signaled, call>>
    BY <1>6 DEF Sleep, Spurious, Expire
  <1>7. CASE UNCHANGED vars
    BY <1>7 DEF vars
  <1> QED
    BY <1>1, <1>2, <1>3, <1>4, <1>5, <1>6, <1>7 DEF Next, Proceed

\* nvthread.c's event implements the abstract one, automatic or manual.
THEOREM Refinement == Spec => ImplementsEvent
  <1>1. Init => Abstract!Init
    BY DEF Init, Abstract!Init
  <1> QED
    BY <1>1, Invariant, StepSimulation, PTL
    DEF Spec, ImplementsEvent, Abstract!Spec
=============================================================================
