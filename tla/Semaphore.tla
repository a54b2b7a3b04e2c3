----------------------------- MODULE Semaphore -----------------------------
(***************************************************************************)
(* What a counting semaphore with a maximal count promises its callers,    *)
(* whatever it is made of: a call in progress takes a token in one step or *)
(* gives up, and only a call with a timeout may give up.                   *)
(***************************************************************************)
EXTENDS Naturals

CONSTANTS Takers, maxCount, uInitCount

VARIABLES
    count,    \* tokens
    call      \* call[t]: the timeout of t's Decrement in progress, or "none"

Timeouts == {"zero", "finite", "infinite"}

Init ==
    /\ count \in {uInitCount, maxCount} /\ count <= uInitCount /\ count <= maxCount
    /\ call = [t \in Takers |-> "none"]

Increment ==
    /\ \/ count < maxCount /\ count' = count + 1
       \/ count = maxCount /\ UNCHANGED count
    /\ UNCHANGED call

Begin(t, uTimeoutMs) ==
    /\ call[t] = "none"
    /\ call' = [call EXCEPT ![t] = uTimeoutMs]
    /\ UNCHANGED count

Take(t) ==
    /\ call[t] # "none" /\ count > 0
    /\ count' = count - 1
    /\ call' = [call EXCEPT ![t] = "none"]

GiveUp(t) ==
    /\ call[t] \in {"zero", "finite"}
    /\ call' = [call EXCEPT ![t] = "none"]
    /\ UNCHANGED count

Next ==
    \/ Increment
    \/ \E t \in Takers : Take(t) \/ GiveUp(t) \/ \E m \in Timeouts : Begin(t, m)

Spec == Init /\ [][Next]_<<count, call>>
=============================================================================
