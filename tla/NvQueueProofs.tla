--------------------------- MODULE NvQueueProofs ---------------------------
(***************************************************************************)
(* Proofs about NvQueue for every size and every finite set of threads: no *)
(* slot is ever lost or counted twice, so a Put never overwrites an item   *)
(* and a Get never reads an empty slot; and the ring is a bounded queue.   *)
(***************************************************************************)
EXTENDS NvQueue, Sequences, FiniteSetTheorems, TLAPS

\* SlotsAccounted keeps the item count in its range, and the type keeps the
\* counts natural numbers: together they are inductive.
Inv == TypeOK /\ SlotsAccounted

\* The sets that SlotsAccounted counts are finite.
LEMMA Counts ==
  ASSUME NEW place
  PROVE  IsFiniteSet(At(place)) /\ Cardinality(At(place)) \in Nat
  BY ThreadAssumption, FS_Subset, FS_CardinalityType DEF At

\* A thread that moves on is counted in its new place instead of the old one.
LEMMA Moves ==
  ASSUME NEW t \in Threads, NEW from \in Places, NEW to \in Places, from # to,
         TypeOK, GoTo(t, from, to)
  PROVE  /\ pc' \in [Threads -> Places]
         /\ Cardinality(At(from)) \in Nat /\ Cardinality(At(from)) > 0
         /\ Cardinality(At(from)') = Cardinality(At(from)) - 1
         /\ Cardinality(At(to)') = Cardinality(At(to)) + 1
         /\ \A place : place # from /\ place # to => At(place)' = At(place)
  <1> USE DEF GoTo, TypeOK
  <1>1. pc' \in [Threads -> Places]
    OBVIOUS
  <1>2. t \in At(from) /\ At(from)' = At(from) \ {t}
    BY DEF At
  <1>3. t \notin At(to) /\ At(to)' = At(to) \cup {t}
    BY DEF At
  <1>4. ASSUME NEW place, place # from, place # to PROVE At(place)' = At(place)
    BY <1>4 DEF At
  <1>5. Cardinality(At(from)') = Cardinality(At(from)) - 1
    <2>1. IsFiniteSet(At(from))
      BY Counts
    <2>2. Cardinality(At(from) \ {t}) = Cardinality(At(from)) - 1
      BY <1>2, <2>1, FS_RemoveElement
    <2> QED BY <1>2, <2>2
  <1>6. Cardinality(At(to)') = Cardinality(At(to)) + 1
    <2>1. IsFiniteSet(At(to))
      BY Counts
    <2>2. Cardinality(At(to) \cup {t}) = Cardinality(At(to)) + 1
      BY <1>3, <2>1, FS_AddElement
    <2> QED BY <1>3, <2>2
  <1>7. Cardinality(At(from)) \in Nat /\ Cardinality(At(from)) > 0
    <2>1. At(from) # {}
      BY <1>2
    <2> QED BY <2>1, Counts, FS_EmptySet
  <1> QED BY <1>1, <1>4, <1>5, <1>6, <1>7

\* The next slot of the ring is a slot.
LEMMA FollowingSlot == ASSUME NEW slot \in Slots PROVE Following(slot) \in Slots
  BY SizeAssumption DEF Slots, Following

\* An empty queue has all its slots free and no thread on its way.
LEMMA InitInv == Init => Inv
  <1> SUFFICES ASSUME Init PROVE Inv
    OBVIOUS
  <1>1. TypeOK
    BY SizeAssumption DEF Init, TypeOK, Slots, Places
  <1>2. ASSUME NEW place, place # "idle" PROVE Cardinality(At(place)) = 0
    <2>1. At(place) = {}
      BY <1>2 DEF At, Init
    <2> QED BY <2>1, FS_EmptySet
  <1>3. SlotsAccounted
    BY <1>2, SizeAssumption DEF SlotsAccounted, Init
  <1> QED BY <1>1, <1>3 DEF Inv

\* Every step keeps the accounts and the ranges.
LEMMA StepInv == Inv /\ [Next]_vars => Inv'
  <1> SUFFICES ASSUME Inv, [Next]_vars PROVE Inv'
    OBVIOUS
  <1> DEFINE written == Cardinality(At("written"))
             reading == Cardinality(At("read"))
             taken   == Cardinality(At("taken"))
             writing == Cardinality(At("write"))
  <1>0. /\ TypeOK /\ SlotsAccounted
        /\ {written, reading, taken, writing} \subseteq Nat
        /\ {"idle", "put", "write", "written", "get", "read", "taken"} = Places
    BY Counts DEF Inv, Places
  <1>1. ASSUME NEW t \in Threads, NEW v \in Items, NvQueuePut(t, v) PROVE Inv'
    <2>1. GoTo(t, "idle", "put")
      BY <1>1 DEF NvQueuePut
    <2>2. /\ pc' \in [Threads -> Places]
          /\ \A place : place # "idle" /\ place # "put" => At(place)' = At(place)
      BY <1>0, <2>1, Moves
    <2>3. SlotsAccounted'
      BY <1>0, <1>1, <2>2 DEF SlotsAccounted, NvQueuePut, ring
    <2>4. TypeOK'
      BY <1>0, <1>1, <2>2 DEF TypeOK, NvQueuePut, ring
    <2> QED BY <2>3, <2>4 DEF Inv
  <1>2. ASSUME NEW t \in Threads, PutDecrement(t) PROVE Inv'
    <2>1. GoTo(t, "put", "write")
      BY <1>2 DEF PutDecrement
    <2>2. /\ pc' \in [Threads -> Places]
          /\ Cardinality(At("write")') = writing + 1
          /\ \A place : place # "put" /\ place # "write" => At(place)' = At(place)
      BY <1>0, <2>1, Moves
    <2>3. SlotsAccounted'
      BY <1>0, <1>2, <2>2 DEF SlotsAccounted, TypeOK, PutDecrement, ring
    <2>4. semPut' \in 0..uQueueSize
      BY <1>0, <1>2, SizeAssumption DEF TypeOK, PutDecrement
    <2>5. TypeOK'
      BY <1>0, <1>2, <2>2, <2>4 DEF TypeOK, PutDecrement, ring
    <2> QED BY <2>3, <2>5 DEF Inv
  <1>3. ASSUME NEW t \in Threads, PutWrite(t) PROVE Inv'
    <2>1. GoTo(t, "write", "written")
      BY <1>3 DEF PutWrite
    <2>2. /\ pc' \in [Threads -> Places]
          /\ writing > 0
          /\ Cardinality(At("write")') = writing - 1
          /\ Cardinality(At("written")') = written + 1
          /\ \A place : place # "write" /\ place # "written" => At(place)' = At(place)
      BY <1>0, <2>1, Moves
    <2>3. uItems < uQueueSize
      BY <1>0, <2>2, SizeAssumption DEF SlotsAccounted, TypeOK
    <2>4. SlotsAccounted'
      BY <1>0, <1>3, <2>2, SizeAssumption DEF SlotsAccounted, TypeOK, PutWrite
    <2>5. /\ uItems' \in 0..uQueueSize
          /\ uNextPut' \in Slots
          /\ pQueueData' \in [Slots -> Items \cup {NoItem}]
      BY <1>0, <1>3, <2>3, FollowingSlot, SizeAssumption DEF TypeOK, PutWrite
    <2>6. TypeOK'
      BY <1>0, <1>3, <2>2, <2>5 DEF TypeOK, PutWrite
    <2> QED BY <2>4, <2>6 DEF Inv
  <1>4. ASSUME NEW t \in Threads, PutIncrement(t) PROVE Inv'
    <2>1. GoTo(t, "written", "idle")
      BY <1>4 DEF PutIncrement
    <2>2. /\ pc' \in [Threads -> Places]
          /\ written > 0
          /\ Cardinality(At("written")') = written - 1
          /\ \A place : place # "written" /\ place # "idle" => At(place)' = At(place)
      BY <1>0, <2>1, Moves
    <2>3. semGet' = semGet + 1 /\ semGet' \in 0..uQueueSize
      BY <1>0, <1>4, <2>2, SizeAssumption
      DEF SlotsAccounted, TypeOK, PutIncrement, AtMost
    <2>4. SlotsAccounted'
      BY <1>0, <1>4, <2>2, <2>3 DEF SlotsAccounted, TypeOK, PutIncrement, ring
    <2>5. TypeOK'
      BY <1>0, <1>4, <2>2, <2>3 DEF TypeOK, PutIncrement, ring
    <2> QED BY <2>4, <2>5 DEF Inv
  <1>5. ASSUME NEW t \in Threads, NvQueueGet(t) PROVE Inv'
    <2>1. GoTo(t, "idle", "get")
      BY <1>5 DEF NvQueueGet
    <2>2. /\ pc' \in [Threads -> Places]
          /\ \A place : place # "idle" /\ place # "get" => At(place)' = At(place)
      BY <1>0, <2>1, Moves
    <2>3. SlotsAccounted'
      BY <1>0, <1>5, <2>2 DEF SlotsAccounted, NvQueueGet, ring
    <2>4. TypeOK'
      BY <1>0, <1>5, <2>2 DEF TypeOK, NvQueueGet, ring
    <2> QED BY <2>3, <2>4 DEF Inv
  <1>6. ASSUME NEW t \in Threads, GetDecrement(t) PROVE Inv'
    <2>1. GoTo(t, "get", "read")
      BY <1>6 DEF GetDecrement
    <2>2. /\ pc' \in [Threads -> Places]
          /\ Cardinality(At("read")') = reading + 1
          /\ \A place : place # "get" /\ place # "read" => At(place)' = At(place)
      BY <1>0, <2>1, Moves
    <2>3. SlotsAccounted'
      BY <1>0, <1>6, <2>2 DEF SlotsAccounted, TypeOK, GetDecrement, ring
    <2>4. semGet' \in 0..uQueueSize
      BY <1>0, <1>6, SizeAssumption DEF TypeOK, GetDecrement
    <2>5. TypeOK'
      BY <1>0, <1>6, <2>2, <2>4 DEF TypeOK, GetDecrement, ring
    <2> QED BY <2>3, <2>5 DEF Inv
  <1>7. ASSUME NEW t \in Threads, GetRead(t) PROVE Inv'
    <2>1. GoTo(t, "read", "taken")
      BY <1>7 DEF GetRead
    <2>2. /\ pc' \in [Threads -> Places]
          /\ reading > 0
          /\ Cardinality(At("read")') = reading - 1
          /\ Cardinality(At("taken")') = taken + 1
          /\ \A place : place # "read" /\ place # "taken" => At(place)' = At(place)
      BY <1>0, <2>1, Moves
    <2>3. uItems > 0
      BY <1>0, <2>2, SizeAssumption DEF SlotsAccounted, TypeOK
    <2>4. SlotsAccounted'
      BY <1>0, <1>7, <2>2, SizeAssumption DEF SlotsAccounted, TypeOK, GetRead
    <2>5. uItems' \in 0..uQueueSize /\ uNextGet' \in Slots
      BY <1>0, <1>7, <2>3, FollowingSlot, SizeAssumption DEF TypeOK, GetRead
    <2>6. pItem' \in [Threads -> Items \cup {NoItem}]
      BY <1>0, <1>7, <2>5 DEF TypeOK, GetRead
    <2>7. TypeOK'
      BY <1>0, <1>7, <2>2, <2>5, <2>6 DEF TypeOK, GetRead
    <2> QED BY <2>4, <2>7 DEF Inv
  <1>8. ASSUME NEW t \in Threads, GetIncrement(t) PROVE Inv'
    <2>1. GoTo(t, "taken", "idle")
      BY <1>8 DEF GetIncrement
    <2>2. /\ pc' \in [Threads -> Places]
          /\ taken > 0
          /\ Cardinality(At("taken")') = taken - 1
          /\ \A place : place # "taken" /\ place # "idle" => At(place)' = At(place)
      BY <1>0, <2>1, Moves
    <2>3. semPut' = semPut + 1 /\ semPut' \in 0..uQueueSize
      BY <1>0, <1>8, <2>2, SizeAssumption
      DEF SlotsAccounted, TypeOK, GetIncrement, AtMost
    <2>4. SlotsAccounted'
      BY <1>0, <1>8, <2>2, <2>3 DEF SlotsAccounted, TypeOK, GetIncrement, ring
    <2>5. TypeOK'
      BY <1>0, <1>8, <2>2, <2>3 DEF TypeOK, GetIncrement, ring
    <2> QED BY <2>4, <2>5 DEF Inv
  <1>9. ASSUME NEW t \in Threads, TimeOut(t) PROVE Inv'
    <2>1. PICK from \in {"put", "get"} : GoTo(t, from, "idle")
      BY <1>9 DEF TimeOut
    <2>2. /\ pc' \in [Threads -> Places]
          /\ \A place : place # from /\ place # "idle" => At(place)' = At(place)
      BY <1>0, <2>1, Moves
    <2>3. SlotsAccounted'
      BY <1>0, <1>9, <2>2 DEF SlotsAccounted, TimeOut, ring
    <2>4. TypeOK'
      BY <1>0, <1>9, <2>2 DEF TypeOK, TimeOut, ring
    <2> QED BY <2>3, <2>4 DEF Inv
  <1>10. ASSUME NEW t \in Threads, NvQueuePeek(t) PROVE Inv'
    <2>1. Following(uNextGet) \in Slots
      BY <1>0, FollowingSlot DEF TypeOK
    <2>2. TypeOK'
      BY <1>0, <1>10, <2>1 DEF TypeOK, NvQueuePeek, ring
    <2>3. SlotsAccounted'
      BY <1>0, <1>10 DEF SlotsAccounted, NvQueuePeek, ring, At
    <2> QED BY <2>2, <2>3 DEF Inv
  <1>11. CASE UNCHANGED vars
    BY <1>0, <1>11 DEF Inv, TypeOK, SlotsAccounted, At, vars, ring
  <1> QED
    BY <1>1, <1>2, <1>3, <1>4, <1>5, <1>6, <1>7, <1>8, <1>9, <1>10, <1>11 DEF Next

\* No slot and no item is lost: the semaphores, the item count and the threads
\* inside Get and Put always add up to the size of the queue.
THEOREM NoSlotLost == Spec => []SlotsAccounted
  <1>1. Inv => SlotsAccounted
    BY DEF Inv
  <1> QED BY <1>1, InitInv, StepInv, PTL DEF Spec

\* The item count and the indices stay in range, so the unsigned count never
\* drops below 0 and no access leaves the buffer.
THEOREM TypeCorrect == Spec => []TypeOK
  <1>1. Inv => TypeOK
    BY DEF Inv
  <1> QED BY <1>1, InitInv, StepInv, PTL DEF Spec

----------------------------------------------------------------------------
(* The refinement: the ring between the two indices is the queue.           *)

\* The slot that the k-th item of the queue is in.
Slot(k) == (uNextGet + k) % uQueueSize

\* The slot written last holds the newest item, and a thread that is about to
\* put something has an item to put.
RingInv ==
    /\ uNextPut = Slot(uItems)
    /\ \A t \in Threads : pc[t] \in {"put", "write"} => pItem[t] \in Items

\* Adding to an index of the ring wraps round once at most.
LEMMA Wraps ==
  ASSUME NEW n \in Slots, NEW k \in 0..uQueueSize
  PROVE  (n + k) % uQueueSize = IF n + k < uQueueSize THEN n + k ELSE n + k - uQueueSize
  <1> USE SizeAssumption DEF Slots
  <1>1. CASE n + k < uQueueSize
    BY <1>1
  <1>2. CASE n + k >= uQueueSize
    BY <1>2
  <1> QED BY <1>1, <1>2

\* Items of the queue and the free slot behind them are in different slots.
LEMMA SlotsApart ==
  ASSUME Inv, NEW k \in 1..uQueueSize, NEW l \in 1..uQueueSize, Slot(k) = Slot(l)
  PROVE  k = l
  <1>1. uNextGet \in Slots
    BY DEF Inv, TypeOK
  <1>2. \A m \in 1..uQueueSize :
          Slot(m) = IF uNextGet + m < uQueueSize THEN uNextGet + m ELSE uNextGet + m - uQueueSize
    BY <1>1, Wraps, SizeAssumption DEF Slot
  <1> QED BY <1>1, <1>2, SizeAssumption DEF Slots

\* The slot after that of the k-th item is that of the next one.
LEMMA NextSlot ==
  ASSUME Inv, NEW k \in 0..(uQueueSize - 1)
  PROVE  /\ Following(Slot(k)) = Slot(k + 1)
         /\ (Following(uNextGet) + k) % uQueueSize = Slot(k + 1)
         /\ Slot(k) \in Slots /\ Slot(k + 1) \in Slots
  <1>0. uNextGet \in Slots /\ uQueueSize \in Nat \ {0}
    BY SizeAssumption DEF Inv, TypeOK
  <1>1. \A m \in 0..uQueueSize :
          Slot(m) = IF uNextGet + m < uQueueSize THEN uNextGet + m ELSE uNextGet + m - uQueueSize
    BY <1>0, Wraps DEF Slot
  <1>2. Slot(k) \in Slots /\ Slot(k + 1) \in Slots
    BY <1>0, <1>1 DEF Slots
  <1>3. \A n \in Slots : Following(n) = IF n + 1 < uQueueSize THEN n + 1 ELSE n + 1 - uQueueSize
    BY <1>0, Wraps DEF Following
  <1>4. Following(Slot(k)) = Slot(k + 1)
    BY <1>0, <1>1, <1>2, <1>3 DEF Slots
  <1>5. (Following(uNextGet) + k) % uQueueSize = Slot(k + 1)
    <2> DEFINE first == Following(uNextGet)
    <2>1. first \in Slots
      BY <1>0, FollowingSlot
    <2>2. (first + k) % uQueueSize
            = IF first + k < uQueueSize THEN first + k ELSE first + k - uQueueSize
      BY <1>0, <2>1, Wraps
    <2>3. first = IF uNextGet + 1 < uQueueSize THEN uNextGet + 1 ELSE uNextGet + 1 - uQueueSize
      BY <1>0, <1>3
    <2> HIDE DEF first
    <2>4. (first + k) % uQueueSize = Slot(k + 1)
      BY <1>0, <1>1, <2>1, <2>2, <2>3 DEF Slots
    <2> QED BY <2>4 DEF first
  <1> QED BY <1>2, <1>4, <1>5

\* A thread inside its critical section finds room to write or an item to read.
LEMMA Room ==
  ASSUME Inv, NEW t \in Threads
  PROVE  /\ pc[t] = "write" => uItems < uQueueSize
         /\ pc[t] = "read" => uItems > 0
  <1>1. \A place : t \in At(place) => Cardinality(At(place)) > 0
    BY Counts, FS_EmptySet
  <1>2. \A place : Cardinality(At(place)) \in Nat
    BY Counts
  <1>3. pc[t] = "write" => t \in At("write")
    BY DEF At
  <1>4. pc[t] = "read" => t \in At("read")
    BY DEF At
  <1> QED BY <1>1, <1>2, <1>3, <1>4, SizeAssumption DEF Inv, TypeOK, SlotsAccounted

\* The contents are a sequence; its items are those of the slots.
ContentsInSlots ==
    /\ Contents \in Seq(Items \cup {NoItem}) /\ Len(Contents) = uItems
    /\ \A k \in 1..uItems : Contents[k] = pQueueData[(uNextGet + k) % uQueueSize]

LEMMA ContentsType == Inv => ContentsInSlots
  <1> SUFFICES ASSUME Inv PROVE ContentsInSlots
    OBVIOUS
  <1>1. uItems \in Nat /\ uItems <= uQueueSize /\ uNextGet \in Slots
    BY SizeAssumption DEF Inv, TypeOK
  <1>2. \A k \in 1..uItems : (uNextGet + k) % uQueueSize \in Slots
    <2> TAKE k \in 1..uItems
    <2>1. k - 1 \in 0..(uQueueSize - 1) /\ (k - 1) + 1 = k
      BY <1>1, SizeAssumption
    <2> QED BY <2>1, NextSlot DEF Slot
  <1>3. \A k \in 1..uItems : pQueueData[(uNextGet + k) % uQueueSize] \in Items \cup {NoItem}
    BY <1>2 DEF Inv, TypeOK
  <1> QED BY <1>1, <1>3 DEF Contents, ContentsInSlots

\* PutWrite appends the item.
LEMMA PutAppends ==
  ASSUME Inv, Inv', RingInv, NEW t \in Threads, PutWrite(t)
  PROVE  /\ Contents' = Append(Contents, pItem[t])
         /\ uNextPut' = Slot(uItems)'
         /\ Len(Contents) < uQueueSize /\ pItem[t] \in Items
  <1>1. pc[t] = "write" /\ uItems < uQueueSize /\ uItems \in Nat /\ uItems' = uItems + 1
    BY Room DEF PutWrite, GoTo, Inv, TypeOK
  <1>2. uNextGet' = uNextGet /\ \A k : Slot(k)' = Slot(k)
    BY DEF PutWrite, Slot
  <1>3. uNextPut' = Slot(uItems + 1)
    BY <1>1, NextSlot, SizeAssumption DEF PutWrite, RingInv
  <1>4. pItem[t] \in Items
    BY <1>1 DEF RingInv
  <1>5. pQueueData' = [pQueueData EXCEPT ![Slot(uItems + 1)] = pItem[t]]
    BY <1>3 DEF PutWrite
  <1>6. pQueueData'[Slot(uItems + 1)] = pItem[t]
    BY <1>1, <1>5, NextSlot, SizeAssumption DEF Inv, TypeOK
  <1>7. \A k \in 1..uItems : pQueueData'[Slot(k)] = pQueueData[Slot(k)]
    <2> TAKE k \in 1..uItems
    <2>1. Slot(k) # Slot(uItems + 1)
      BY <1>1, SlotsApart, SizeAssumption
    <2> QED BY <1>5, <2>1 DEF Inv, TypeOK
  <1>8. ContentsInSlots' /\ ContentsInSlots
    <2>1. Inv' => ContentsInSlots'
      BY ContentsType, PTL
    <2> QED BY <2>1, ContentsType
  <1>9. /\ Contents' \in Seq(Items \cup {NoItem}) /\ Len(Contents') = uItems + 1
        /\ \A k \in 1..(uItems + 1) : Contents'[k] = pQueueData'[Slot(k)]
        /\ Contents \in Seq(Items \cup {NoItem}) /\ Len(Contents) = uItems
        /\ \A k \in 1..uItems : Contents[k] = pQueueData[Slot(k)]
    BY <1>1, <1>2, <1>8 DEF ContentsInSlots, Slot
  <1>10. Contents' = Append(Contents, pItem[t])
    BY <1>1, <1>4, <1>6, <1>7, <1>9
  <1> QED BY <1>1, <1>2, <1>3, <1>4, <1>9, <1>10

\* GetRead takes the first item.
LEMMA GetTakes ==
  ASSUME Inv, Inv', RingInv, NEW t \in Threads, GetRead(t)
  PROVE  /\ Contents # << >> /\ Contents' = Tail(Contents)
         /\ pItem' = [pItem EXCEPT ![t] = Head(Contents)]
         /\ uNextPut' = Slot(uItems)'
  <1>1. pc[t] = "read" /\ uItems > 0 /\ uItems \in 1..uQueueSize /\ uItems' = uItems - 1
    BY Room DEF GetRead, GoTo, Inv, TypeOK
  <1>2. uNextGet' = Following(uNextGet) /\ pQueueData' = pQueueData /\ uNextPut' = uNextPut
    BY DEF GetRead
  <1>3. \A k \in 0..(uQueueSize - 1) : Slot(k)' = Slot(k + 1)
    BY <1>2, NextSlot DEF Slot
  <1>4. ContentsInSlots' /\ ContentsInSlots
    <2>1. Inv' => ContentsInSlots'
      BY ContentsType, PTL
    <2> QED BY <2>1, ContentsType
  <1>5. /\ Contents' \in Seq(Items \cup {NoItem}) /\ Len(Contents') = uItems - 1
        /\ \A k \in 1..(uItems - 1) : Contents'[k] = pQueueData[Slot(k)']
        /\ Contents \in Seq(Items \cup {NoItem}) /\ Len(Contents) = uItems
        /\ \A k \in 1..uItems : Contents[k] = pQueueData[Slot(k)]
    BY <1>1, <1>2, <1>4 DEF ContentsInSlots, Slot
  <1>6. \A k \in 1..(uItems - 1) : Contents'[k] = Contents[k + 1]
    <2> TAKE k \in 1..(uItems - 1)
    <2>1. Slot(k)' = Slot(k + 1)
      BY <1>1, <1>3, SizeAssumption
    <2> QED BY <1>1, <1>5, <2>1
  <1>7. Contents # << >> /\ Contents' = Tail(Contents)
    BY <1>1, <1>5, <1>6
  <1>8. Head(Contents) = pQueueData[Slot(1)]
    BY <1>1, <1>5, <1>7
  <1>9. uNextGet' = Slot(1)
    BY <1>2 DEF Slot, Following
  <1>10. pItem' = [pItem EXCEPT ![t] = Head(Contents)]
    BY <1>2, <1>8, <1>9 DEF GetRead
  <1>11. uNextPut' = Slot(uItems)'
    <2>1. uItems - 1 \in 0..(uQueueSize - 1) /\ (uItems - 1) + 1 = uItems
      BY <1>1, SizeAssumption
    <2>2. (Following(uNextGet) + (uItems - 1)) % uQueueSize = Slot(uItems)
      BY <2>1, NextSlot
    <2> QED BY <1>1, <1>2, <2>2 DEF Slot, RingInv
  <1> QED BY <1>7, <1>10, <1>11

\* Every step is one of the abstract queue or changes nothing of it.
LEMMA StepSimulation ==
  ASSUME Inv, Inv', RingInv, [Next]_vars
  PROVE  RingInv' /\ [Abstract!Next]_<<Contents, pItem>>
  <1>0. pc \in [Threads -> Places] /\ pItem \in [Threads -> Items \cup {NoItem}]
    BY DEF Inv, TypeOK
  <1> USE DEF Abstract!Next
  <1>1. ASSUME NEW t \in Threads, NEW v \in Items, NvQueuePut(t, v)
        PROVE  RingInv' /\ Abstract!Next
    <2>1. RingInv'
      BY <1>0, <1>1 DEF RingInv, Slot, NvQueuePut, GoTo, ring
    <2>2. Abstract!Offer(t)
      BY <1>1 DEF Abstract!Offer, NvQueuePut, ring, Contents
    <2> QED BY <2>1, <2>2
  <1>2. ASSUME NEW t \in Threads, PutWrite(t) PROVE RingInv' /\ Abstract!Next
    <2>1. RingInv'
      BY <1>0, <1>2, PutAppends DEF RingInv, PutWrite, GoTo
    <2>2. Abstract!Put(t)
      BY <1>2, PutAppends DEF Abstract!Put, PutWrite
    <2> QED BY <2>1, <2>2
  <1>3. ASSUME NEW t \in Threads, GetRead(t) PROVE RingInv' /\ Abstract!Next
    <2>1. RingInv'
      BY <1>0, <1>3, GetTakes DEF RingInv, GetRead, GoTo
    <2>2. Abstract!Get(t)
      BY <1>3, GetTakes DEF Abstract!Get
    <2> QED BY <2>1, <2>2
  <1>4. ASSUME NEW t \in Threads, NvQueuePeek(t) PROVE RingInv' /\ Abstract!Next
    <2>1. RingInv'
      BY <1>0, <1>4 DEF RingInv, Slot, NvQueuePeek, ring
    <2>2. Contents' = Contents
      BY <1>4 DEF NvQueuePeek, ring, Contents
    <2>3. ContentsInSlots /\ uItems \in 1..uQueueSize
      BY <1>4, ContentsType, SizeAssumption DEF NvQueuePeek, Inv, TypeOK
    <2>4. Contents # << >> /\ Head(Contents) = pQueueData[Following(uNextGet)]
      BY <2>3 DEF ContentsInSlots, Following
    <2>5. Abstract!Peek(t)
      BY <1>4, <2>2, <2>4 DEF Abstract!Peek, NvQueuePeek
    <2> QED BY <2>1, <2>5
  <1>5. ASSUME NEW t \in Threads,
               PutDecrement(t) \/ PutIncrement(t) \/ NvQueueGet(t) \/ GetDecrement(t)
                 \/ GetIncrement(t) \/ TimeOut(t)
        PROVE  RingInv' /\ UNCHANGED <<Contents, pItem>>
    <2>1. UNCHANGED <<ring, pItem>>
      BY <1>5 DEF PutDecrement, PutIncrement, NvQueueGet, GetDecrement, GetIncrement, TimeOut
    <2>2. \A u \in Threads : pc'[u] \in {"put", "write"} => pc[u] \in {"put", "write"}
      BY <1>0, <1>5 DEF PutDecrement, PutIncrement, NvQueueGet, GetDecrement, GetIncrement,
           TimeOut, GoTo
    <2> QED BY <2>1, <2>2 DEF RingInv, Slot, Contents, ring
  <1>6. CASE UNCHANGED vars
    BY <1>6 DEF RingInv, Slot, Contents, vars, ring
  <1> QED BY <1>1, <1>2, <1>3, <1>4, <1>5, <1>6 DEF Next

\* The invariant of both parts holds throughout.
LEMMA RingInvariance == Spec => [](Inv /\ RingInv)
  <1>1. Init => RingInv
    BY SizeAssumption DEF Init, RingInv, Slot
  <1>2. Inv /\ RingInv /\ [Next]_vars => (Inv /\ RingInv)'
    BY StepInv, StepSimulation
  <1> QED BY <1>1, <1>2, InitInv, PTL DEF Spec

\* nvthread.c's queue implements the bounded first-in first-out queue, for any
\* size, items and finite set of threads that put, get and peek.
THEOREM Refinement == Spec => ImplementsQueue
  <1>1. Init => Abstract!Init
    BY DEF Init, Abstract!Init, Contents
  <1>2. Inv /\ Inv' /\ RingInv /\ [Next]_vars => [Abstract!Next]_<<Contents, pItem>>
    BY StepSimulation
  <1> QED BY <1>1, <1>2, RingInvariance, PTL DEF Spec, ImplementsQueue, Abstract!Spec
=============================================================================
