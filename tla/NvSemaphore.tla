---------------------------- MODULE NvSemaphore ----------------------------
(***************************************************************************)
(* NvSemaphore of nvthread.c: a counter, a mutex and a condition variable  *)
(* that Increment broadcasts.  A step is one critical section; the mutex   *)
(* needs no variable of its own, since a thread never keeps it between     *)
(* two steps.                                                              *)
(***************************************************************************)
EXTENDS Naturals

CONSTANTS
    Takers,       \* threads that call NvSemaphoreDecrement
    maxCount,
    uInitCount,
    Modulus       \* the counter is an NvU32: it counts modulo 2^32

\* An increment at the maximum must not wrap to 0: the code compares only after
\* adding, so a semaphore with the maximum 2^32 - 1 would lose every token.
ASSUME CountAssumption ==
    maxCount \in Nat /\ uInitCount \in Nat /\ Modulus \in Nat /\ maxCount + 1 < Modulus

Timeouts == {"zero", "finite", "infinite"}    \* 0, and NV_TIMEOUT_INFINITE

VARIABLES
    count,
    call,     \* call[t]: the timeout of t's Decrement in progress, or "none"
    pc        \* pc[t]: "idle", "lock", "wait" or "expired"

vars == <<count, call, pc>>

Least(a, b) == IF a <= b THEN a ELSE b

\* NvSemaphoreCreate bounds the initial count.
Init ==
    /\ count = Least(uInitCount, maxCount)
    /\ call = [t \in Takers |-> "none"]
    /\ pc = [t \in Takers |-> "idle"]

----------------------------------------------------------------------------
\* Mutant: no broadcast.
Woken_NoOne == pc

\* A broadcast ends every wait that has not timed out.
Woken == [t \in Takers |-> IF pc[t] = "wait" THEN "lock" ELSE pc[t]]

\* By any thread that is not waiting itself. At the maximum the count is put
\* back and nobody is woken.
NvSemaphoreIncrement ==
    LET added == (count + 1) % Modulus
    IN  /\ \/ added > maxCount /\ count' = maxCount /\ UNCHANGED pc
           \/ added <= maxCount /\ count' = added /\ pc' = Woken
        /\ UNCHANGED call

Decrement(t, uTimeoutMs) ==
    /\ pc[t] = "idle"
    /\ pc' = [pc EXCEPT ![t] = "lock"]
    /\ call' = [call EXCEPT ![t] = uTimeoutMs]
    /\ UNCHANGED count

Return(t) ==
    /\ pc' = [pc EXCEPT ![t] = "idle"]
    /\ call' = [call EXCEPT ![t] = "none"]

\* The mutex is taken and there is a token: RESULT_OK.
Take(t) ==
    /\ pc[t] = "lock" /\ count > 0
    /\ count' = count - 1
    /\ Return(t)

\* No token and no time: RESULT_FAIL.
Refuse(t) ==
    /\ pc[t] = "lock" /\ count = 0 /\ call[t] = "zero"
    /\ Return(t) /\ UNCHANGED count

\* Mutant: do .. while for while; the call sleeps before it looks at the count.
Wait_Untested(t) ==
    /\ pc[t] = "lock" /\ call[t] # "zero"
    /\ pc' = [pc EXCEPT ![t] = "wait"]
    /\ UNCHANGED <<count, call>>

\* pthread_cond_wait or pthread_cond_timedwait, until the absolute time that
\* was computed once for the whole call.
Wait(t) ==
    /\ pc[t] = "lock" /\ count = 0 /\ call[t] # "zero"
    /\ pc' = [pc EXCEPT ![t] = "wait"]
    /\ UNCHANGED <<count, call>>

\* The wait may end for no reason; the loop tests the count again.
Spurious(t) ==
    /\ pc[t] = "wait"
    /\ pc' = [pc EXCEPT ![t] = "lock"]
    /\ UNCHANGED <<count, call>>

\* Mutant: NV_TIMEOUT_INFINITE is a timeout like every other.
Expire_Any(t) ==
    /\ pc[t] = "wait"
    /\ pc' = [pc EXCEPT ![t] = "expired"]
    /\ UNCHANGED <<count, call>>

\* The time is up; the mutex is yet to be taken again.
Expire(t) ==
    /\ pc[t] = "wait" /\ call[t] = "finite"
    /\ pc' = [pc EXCEPT ![t] = "expired"]
    /\ UNCHANGED <<count, call>>

\* ETIMEDOUT: RESULT_FAIL, even if a token came in between.
Fail(t) ==
    /\ pc[t] = "expired"
    /\ Return(t) /\ UNCHANGED count

Proceed(t) == Take(t) \/ Refuse(t) \/ Wait(t) \/ Fail(t)

Next ==
    \/ NvSemaphoreIncrement
    \/ \E t \in Takers : \/ \E m \in Timeouts : Decrement(t, m)
                         \/ Proceed(t) \/ Spurious(t) \/ Expire(t)

\* A thread that can take the mutex does so in the end.
Spec == Init /\ [][Next]_vars
FairSpec == Spec /\ \A t \in Takers : WF_vars(Proceed(t))

----------------------------------------------------------------------------
(* Properties *)

\* The count stays within its maximum, and a call is in progress exactly
\* while its thread is somewhere in NvSemaphoreDecrement.
TypeOK ==
    /\ count \in 0..maxCount
    /\ call \in [Takers -> Timeouts \cup {"none"}]
    /\ pc \in [Takers -> {"idle", "lock", "wait", "expired"}]
    /\ \A t \in Takers : pc[t] = "idle" <=> call[t] = "none"

\* No lost wake-up: nobody sleeps on the condition variable while there is a
\* token, although Increment stays silent at the maximum.
NoSleeperWithTokens == count > 0 => \A t \in Takers : pc[t] # "wait"

\* So a token does not lie there while a thread waits for it without a limit:
\* that thread gets one, or the others take the last.
TokensAreTaken ==
    \A t \in Takers :
        call[t] = "infinite" /\ count > 0 ~> call[t] = "none" \/ count = 0

\* The counter, mutex and condition variable are a semaphore: calls take
\* effect in one step, tokens are neither lost nor made below the maximum, and
\* a call with NV_TIMEOUT_INFINITE ends with a token.
Abstract == INSTANCE Semaphore
ImplementsSemaphore == Abstract!Spec
=============================================================================
