------------------------------ MODULE NvEvent ------------------------------
(***************************************************************************)
(* NvEvent of nvthread.c: a flag, a mutex and a condition variable that    *)
(* NvEventSet signals.  As in NvSemaphore a step is one critical section.  *)
(* A signal wakes one thread, and the scheduler says which.                *)
(***************************************************************************)
EXTENDS Naturals

CONSTANTS
    Waiters,      \* threads that call NvEventWait
    Kinds,        \* what NvEventCreate may be given for bManual
    bSet

ASSUME EventAssumption == Kinds \subseteq BOOLEAN /\ bSet \in BOOLEAN

Timeouts == {"zero", "finite", "infinite"}    \* 0, and NV_TIMEOUT_INFINITE

VARIABLES
    manual,
    signaled,
    call,     \* call[t]: the timeout of t's Wait in progress, or "none"
    pc        \* pc[t]: "idle", "lock", "wait" or "expired"

vars == <<manual, signaled, call, pc>>

\* NvEventCreate
Init ==
    /\ manual \in Kinds
    /\ signaled = bSet
    /\ call = [t \in Waiters |-> "none"]
    /\ pc = [t \in Waiters |-> "idle"]

----------------------------------------------------------------------------
Sleeping == {t \in Waiters : pc[t] = "wait"}

\* Mutant: pthread_cond_signal is forgotten.
WakeOne_None == UNCHANGED pc

\* pthread_cond_signal: one of the sleeping threads, if there are any.
WakeOne ==
    \/ \E t \in Sleeping : pc' = [pc EXCEPT ![t] = "lock"]
    \/ Sleeping = {} /\ UNCHANGED pc

\* Set and Reset are called by any thread that is not waiting itself.
NvEventSet == signaled' = TRUE /\ WakeOne /\ UNCHANGED <<manual, call>>

NvEventReset == signaled' = FALSE /\ UNCHANGED <<manual, call, pc>>

NvEventWait(t, uTimeoutMs) ==
    /\ pc[t] = "idle"
    /\ pc' = [pc EXCEPT ![t] = "lock"]
    /\ call' = [call EXCEPT ![t] = uTimeoutMs]
    /\ UNCHANGED <<manual, signaled>>

Return(t) ==
    /\ pc' = [pc EXCEPT ![t] = "idle"]
    /\ call' = [call EXCEPT ![t] = "none"]
    /\ UNCHANGED manual

\* Mutant: an automatic event stays set for a call that only looks.
Take_Peeks(t) ==
    /\ pc[t] = "lock" /\ signaled
    /\ signaled' = (manual \/ call[t] = "zero")
    /\ Return(t)

\* The event is set: RESULT_OK, and an automatic event is reset.
Take(t) ==
    /\ pc[t] = "lock" /\ signaled
    /\ signaled' = manual
    /\ Return(t)

\* Not set and no time: RESULT_FAIL.
Refuse(t) ==
    /\ pc[t] = "lock" /\ ~signaled /\ call[t] = "zero"
    /\ Return(t) /\ UNCHANGED signaled

\* Mutant: do .. while for while.
Sleep_Untested(t) ==
    /\ pc[t] = "lock" /\ call[t] # "zero"
    /\ pc' = [pc EXCEPT ![t] = "wait"]
    /\ UNCHANGED <<manual, signaled, call>>

\* pthread_cond_wait, or pthread_cond_timedwait until the time that was
\* computed once for the whole call.
Sleep(t) ==
    /\ pc[t] = "lock" /\ ~signaled /\ call[t] # "zero"
    /\ pc' = [pc EXCEPT ![t] = "wait"]
    /\ UNCHANGED <<manual, signaled, call>>

\* The wait may end for no reason; the loop tests the flag again.
Spurious(t) ==
    /\ pc[t] = "wait"
    /\ pc' = [pc EXCEPT ![t] = "lock"]
    /\ UNCHANGED <<manual, signaled, call>>

\* The time is up; the mutex is yet to be taken again.
Expire(t) ==
    /\ pc[t] = "wait" /\ call[t] = "finite"
    /\ pc' = [pc EXCEPT ![t] = "expired"]
    /\ UNCHANGED <<manual, signaled, call>>

\* ETIMEDOUT: RESULT_FAIL, even if the event was set in between.
Fail(t) ==
    /\ pc[t] = "expired"
    /\ Return(t) /\ UNCHANGED signaled

Proceed(t) == Take(t) \/ Refuse(t) \/ Sleep(t) \/ Fail(t)

Next ==
    \/ NvEventSet \/ NvEventReset
    \/ \E t \in Waiters : \/ \E m \in Timeouts : NvEventWait(t, m)
                          \/ Proceed(t) \/ Spurious(t) \/ Expire(t)

\* A thread that can take the mutex does so in the end.
Spec == Init /\ [][Next]_vars
FairSpec == Spec /\ \A t \in Waiters : WF_vars(Proceed(t))

----------------------------------------------------------------------------
(* Properties *)

\* A call is in progress exactly while its thread is inside NvEventWait, and
\* only calls with a finite timeout get to the end of their time.
TypeOK ==
    /\ manual \in Kinds /\ signaled \in BOOLEAN
    /\ call \in [Waiters -> Timeouts \cup {"none"}]
    /\ pc \in [Waiters -> {"idle", "lock", "wait", "expired"}]
    /\ \A t \in Waiters : pc[t] = "idle" <=> call[t] = "none"
    /\ \A t \in Waiters : pc[t] = "expired" => call[t] = "finite"

\* No lost wake-up, although NvEventSet wakes one thread only and its set may
\* be taken by a thread that never slept: while an automatic event is set and
\* threads sleep on it, one that is awake is on its way to take it. (A manual
\* event does not have this: the one thread it wakes leaves it set for
\* sleepers that nobody wakes.)
AutomaticWakesOne ==
    ~manual /\ signaled /\ Sleeping # {} => \E t \in Waiters : pc[t] = "lock"

\* So an automatic event that is set is passed by a thread that waits without
\* a limit, or taken or reset by others.
SetIsPassed ==
    \A t \in Waiters :
        ~manual /\ signaled /\ call[t] = "infinite" ~> call[t] = "none" \/ ~signaled

\* Flag, mutex and condition variable are an event of either kind: calls take
\* effect in one step, a set automatic event lets one call through, and a call
\* with NV_TIMEOUT_INFINITE ends by passing.
Abstract == INSTANCE Event
ImplementsEvent == Abstract!Spec
=============================================================================
