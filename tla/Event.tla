------------------------------- MODULE Event -------------------------------
(***************************************************************************)
(* What an event promises its callers: a call passes while the event is    *)
(* set, an automatic event lets one call through for each time it was set, *)
(* a manual one stays set, and only a call with a timeout may give up.     *)
(***************************************************************************)
EXTENDS Naturals

CONSTANTS Waiters, Kinds, bSet

VARIABLES
    manual,
    signaled,
    call      \* call[t]: the timeout of t's Wait in progress, or "none"

Timeouts == {"zero", "finite", "infinite"}

Init ==
    /\ manual \in Kinds
    /\ signaled = bSet
    /\ call = [t \in Waiters |-> "none"]

Set == signaled' = TRUE /\ UNCHANGED <<manual, call>>
Reset == signaled' = FALSE /\ UNCHANGED <<manual, call>>

Begin(t, uTimeoutMs) ==
    /\ call[t] = "none"
    /\ call' = [call EXCEPT ![t] = uTimeoutMs]
    /\ UNCHANGED <<manual, signaled>>

Pass(t) ==
    /\ call[t] # "none" /\ signaled
    /\ signaled' = manual
    /\ call' = [call EXCEPT ![t] = "none"]
    /\ UNCHANGED manual

\* A call that only looks gives up for a reason.
GiveUp(t) ==
    /\ call[t] = "finite" \/ (call[t] = "zero" /\ ~signaled)
    /\ call' = [call EXCEPT ![t] = "none"]
    /\ UNCHANGED <<manual, signaled>>

Next ==
    \/ Set \/ Reset
    \/ \E t \in Waiters : Pass(t) \/ GiveUp(t) \/ \E m \in Timeouts : Begin(t, m)

Spec == Init /\ [][Next]_<<manual, signaled, call>>
=============================================================================
