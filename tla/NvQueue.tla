------------------------------ MODULE NvQueue ------------------------------
(***************************************************************************)
(* NvQueue of nvthread.c: a ring buffer under a mutex, between two         *)
(* semaphores that count its items and its free slots.  The semaphores are *)
(* the abstract ones that NvSemaphore implements; a step is one call on a  *)
(* semaphore or one critical section of the mutex.                         *)
(***************************************************************************)
EXTENDS Integers, FiniteSets

CONSTANTS Threads, Items, NoItem, uQueueSize

ASSUME ThreadAssumption == IsFiniteSet(Threads)
ASSUME SizeAssumption == uQueueSize \in Nat \ {0}
ASSUME NoItemAssumption == NoItem \notin Items

VARIABLES
    uNextGet, uNextPut,    \* the slots read and written last
    uItems,
    pQueueData,
    semGet, semPut,        \* the counts of pSemGet and pSemPut
    pc,                    \* where each thread is in NvQueuePut or NvQueueGet
    pItem                  \* the buffer of its latest call

ring == <<uNextGet, uNextPut, uItems, pQueueData>>
vars == <<ring, semGet, semPut, pc, pItem>>

\* NvQueueCreate.
Init ==
    /\ uNextGet = 0 /\ uNextPut = 0 /\ uItems = 0
    /\ pQueueData = [k \in 0..(uQueueSize - 1) |-> NoItem]
    /\ semGet = 0 /\ semPut = uQueueSize
    /\ pc = [t \in Threads |-> "idle"]
    /\ pItem = [t \in Threads |-> NoItem]

----------------------------------------------------------------------------
GoTo(t, from, to) == pc[t] = from /\ pc' = [pc EXCEPT ![t] = to]
Following(slot) == (slot + 1) % uQueueSize
AtMost(max, n) == IF n > max THEN max ELSE n

(* NvQueuePut *)

NvQueuePut(t, v) ==
    /\ GoTo(t, "idle", "put")
    /\ pItem' = [pItem EXCEPT ![t] = v]
    /\ UNCHANGED <<ring, semGet, semPut>>

PutDecrement(t) ==
    /\ semPut > 0 /\ GoTo(t, "put", "write")
    /\ semPut' = semPut - 1
    /\ UNCHANGED <<ring, semGet, pItem>>

\* Mutant: the slot is written before the index moves on.
PutWrite_Early(t) ==
    /\ GoTo(t, "write", "written")
    /\ pQueueData' = [pQueueData EXCEPT ![uNextPut] = pItem[t]]
    /\ uNextPut' = Following(uNextPut)
    /\ uItems' = uItems + 1
    /\ UNCHANGED <<uNextGet, semGet, semPut, pItem>>

PutWrite(t) ==
    /\ GoTo(t, "write", "written")
    /\ uNextPut' = Following(uNextPut)
    /\ pQueueData' = [pQueueData EXCEPT ![uNextPut'] = pItem[t]]
    /\ uItems' = uItems + 1
    /\ UNCHANGED <<uNextGet, semGet, semPut, pItem>>

PutIncrement(t) ==
    /\ GoTo(t, "written", "idle")
    /\ semGet' = AtMost(uQueueSize, semGet + 1)
    /\ UNCHANGED <<ring, semPut, pItem>>

(* NvQueueGet *)

NvQueueGet(t) ==
    /\ GoTo(t, "idle", "get")
    /\ UNCHANGED <<ring, semGet, semPut, pItem>>

\* Mutant: the get does not wait.
GetDecrement_Rushes(t) ==
    /\ GoTo(t, "get", "read")
    /\ semGet' = semGet - 1
    /\ UNCHANGED <<ring, semPut, pItem>>

GetDecrement(t) ==
    /\ semGet > 0 /\ GoTo(t, "get", "read")
    /\ semGet' = semGet - 1
    /\ UNCHANGED <<ring, semPut, pItem>>

GetRead(t) ==
    /\ GoTo(t, "read", "taken")
    /\ uNextGet' = Following(uNextGet)
    /\ uItems' = uItems - 1
    /\ pItem' = [pItem EXCEPT ![t] = pQueueData[uNextGet']]
    /\ UNCHANGED <<uNextPut, pQueueData, semGet, semPut>>

\* Mutant: the get increments its own semaphore.
GetIncrement_Own(t) ==
    /\ GoTo(t, "taken", "idle")
    /\ semGet' = AtMost(uQueueSize, semGet + 1)
    /\ UNCHANGED <<ring, semPut, pItem>>

GetIncrement(t) ==
    /\ GoTo(t, "taken", "idle")
    /\ semPut' = AtMost(uQueueSize, semPut + 1)
    /\ UNCHANGED <<ring, semGet, pItem>>

\* NvSemaphoreDecrement gives up: RESULT_FAIL, nothing has changed.
TimeOut(t) ==
    /\ GoTo(t, "put", "idle") \/ GoTo(t, "get", "idle")
    /\ UNCHANGED <<ring, semGet, semPut, pItem>>

\* NvQueuePeek copies the oldest item, if uItems says that there is one.
NvQueuePeek(t) ==
    /\ pc[t] = "idle" /\ uItems # 0
    /\ pItem' = [pItem EXCEPT ![t] = pQueueData[Following(uNextGet)]]
    /\ UNCHANGED <<ring, semGet, semPut, pc>>

Next == \E t \in Threads :
    \/ \E v \in Items : NvQueuePut(t, v)
    \/ PutDecrement(t) \/ PutWrite(t) \/ PutIncrement(t)
    \/ NvQueueGet(t)
    \/ GetDecrement(t) \/ GetRead(t) \/ GetIncrement(t)
    \/ TimeOut(t) \/ NvQueuePeek(t)

Spec == Init /\ [][Next]_vars

----------------------------------------------------------------------------
(* Properties *)

Slots == 0..(uQueueSize - 1)
Places == {"idle", "put", "write", "written", "get", "read", "taken"}

\* The indices stay in the ring and the item count between empty and full: the
\* unsigned uItems never drops below 0.
TypeOK ==
    /\ uNextGet \in Slots /\ uNextPut \in Slots
    /\ uItems \in 0..uQueueSize
    /\ pQueueData \in [Slots -> Items \cup {NoItem}]
    /\ semGet \in 0..uQueueSize /\ semPut \in 0..uQueueSize
    /\ pc \in [Threads -> Places]
    /\ pItem \in [Threads -> Items \cup {NoItem}]

At(place) == {t \in Threads : pc[t] = place}

\* Every item is counted by pSemGet or on its way through a Get or a Put, and
\* every free slot likewise by pSemPut: neither an increment that saturates nor
\* a call that timed out loses one.
SlotsAccounted ==
    /\ semGet + Cardinality(At("written")) + Cardinality(At("read")) = uItems
    /\ semPut + Cardinality(At("taken")) + Cardinality(At("write")) = uQueueSize - uItems

\* The ring between the two indices is a bounded FIFO queue: no item is lost,
\* overwritten, duplicated or reordered, and NvQueuePeek sees the oldest.
Contents == [k \in 1..uItems |-> pQueueData[(uNextGet + k) % uQueueSize]]
Abstract == INSTANCE BoundedQueue WITH queue <- Contents
ImplementsQueue == Abstract!Spec
=============================================================================
