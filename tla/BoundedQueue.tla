---------------------------- MODULE BoundedQueue ----------------------------
(***************************************************************************)
(* What NvQueue promises: a first-in, first-out queue of a bounded length, *)
(* from which items are taken or looked at in one step.                    *)
(***************************************************************************)
EXTENDS Naturals, Sequences

CONSTANTS Threads, Items, NoItem, uQueueSize

VARIABLES
    queue,
    pItem     \* pItem[t]: the item t's latest call gave or took

Init == queue = << >> /\ pItem = [t \in Threads |-> NoItem]

Offer(t) ==
    /\ \E v \in Items : pItem' = [pItem EXCEPT ![t] = v]
    /\ UNCHANGED queue

Put(t) ==
    /\ pItem[t] \in Items /\ Len(queue) < uQueueSize
    /\ queue' = Append(queue, pItem[t])
    /\ UNCHANGED pItem

Get(t) ==
    /\ queue # << >>
    /\ pItem' = [pItem EXCEPT ![t] = Head(queue)]
    /\ queue' = Tail(queue)

Peek(t) ==
    /\ queue # << >>
    /\ pItem' = [pItem EXCEPT ![t] = Head(queue)]
    /\ UNCHANGED queue

Next == \E t \in Threads : Offer(t) \/ Put(t) \/ Get(t) \/ Peek(t)

Spec == Init /\ [][Next]_<<queue, pItem>>
=============================================================================
