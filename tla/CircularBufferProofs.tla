------------------------ MODULE CircularBufferProofs ------------------------
(***************************************************************************)
(* The circular buffer of HW1 is a bounded double-ended queue, for every   *)
(* capacity and every set of items.                                        *)
(*                                                                         *)
(* TypeOK is inductive as it stands: its last conjunct ties tail to head   *)
(* and count.  The refinement rests on it and on two facts about slots:    *)
(* the slot of an item is found without a modulo (Wrapped), and different  *)
(* items are in different slots (DistinctSlots).                           *)
(***************************************************************************)
EXTENDS CircularBuffer, TLAPS, SequenceTheorems

USE CapacityAssumption

-----------------------------------------------------------------------------
(* Arithmetic of the indices *)

\* A number below two turns wraps around at most once.
LEMMA TwoTurns ==
    ASSUME NEW k \in Nat, k < Cap + Cap
    PROVE  k % Cap = IF k < Cap THEN k ELSE k - Cap
  <1>1. CASE k < Cap
    BY <1>1, Z3
  <1>2. CASE Cap <= k
    <2>1. k % Cap = k - Cap
      BY <1>2, Z3
    <2> QED
      BY <1>2, <2>1, Z3
  <1> QED
    BY <1>1, <1>2

\* Adding less than a turn to an index wraps around at most once.
LEMMA Wrapped ==
    ASSUME NEW a \in Slot, NEW b \in 0 .. Cap
    PROVE  (a + b) % Cap = IF a + b < Cap THEN a + b ELSE (a + b) - Cap
  <1>1. PICK k \in Nat : k = a + b
    BY DEF Slot
  <1>2. k < Cap + Cap
    BY <1>1 DEF Slot
  <1>3. k % Cap = IF k < Cap THEN k ELSE k - Cap
    BY <1>2, TwoTurns
  <1> QED
    BY <1>1, <1>3, Zenon

\* The slots of the items are slots of the array.
LEMMA IndexInSlot ==
    ASSUME TypeOK, NEW i \in 0 .. Cap
    PROVE  Index(i) \in Slot
  <1>1. head \in Slot
    BY DEF TypeOK
  <1>2. Index(i) = IF head + i < Cap THEN head + i ELSE (head + i) - Cap
    BY <1>1, Wrapped DEF Index
  <1> QED
    BY <1>1, <1>2 DEF Slot

\* Different positions of the queue are different slots of the array.
LEMMA DistinctSlots ==
    ASSUME TypeOK, NEW i \in 0 .. Cap, NEW j \in 0 .. Cap, i < j, j - i < Cap
    PROVE  Index(i) # Index(j)
  <1>1. head \in Slot
    BY DEF TypeOK
  <1>2. /\ Index(i) = IF head + i < Cap THEN head + i ELSE (head + i) - Cap
        /\ Index(j) = IF head + j < Cap THEN head + j ELSE (head + j) - Cap
    BY <1>1, Wrapped DEF Index
  <1> QED
    BY <1>1, <1>2 DEF Slot

\* The first item is at head.
LEMMA FirstSlot ==
    ASSUME head \in Slot
    PROVE  Index(0) = head
  <1>1. (head + 0) % Cap = IF head + 0 < Cap THEN head + 0 ELSE (head + 0) - Cap
    BY Wrapped
  <1> QED
    BY <1>1 DEF Index, Slot

\* tail is the slot after the last item, and LastSlot the slot of the last item.
LEMMA TailSlots ==
    ASSUME TypeOK
    PROVE  /\ tail = Index(count)
           /\ ~Empty => LastSlot = Index(count - 1)
  <1>1. head \in Slot /\ tail \in Slot /\ count \in 0 .. Cap /\ tail = Index(count)
    BY DEF TypeOK, Index
  <1>2. ASSUME ~Empty PROVE LastSlot = Index(count - 1)
    <2>1. tail = IF head + count < Cap THEN head + count ELSE (head + count) - Cap
      BY <1>1, Wrapped DEF Index
    <2>2. (tail + (Cap - 1)) % Cap
              = IF tail + (Cap - 1) < Cap THEN tail + (Cap - 1) ELSE (tail + (Cap - 1)) - Cap
      BY <1>1, Wrapped
    <2>3. Index(count - 1)
              = IF head + (count - 1) < Cap THEN head + (count - 1)
                ELSE (head + (count - 1)) - Cap
      <3>1. count - 1 \in 0 .. Cap
        BY <1>1, <1>2 DEF Empty
      <3> QED
        BY <1>1, <3>1, Wrapped DEF Index
    <2>4. LastSlot = (tail + (Cap - 1)) % Cap
      <3>1. tail + (Cap - 1) = tail + Cap - 1
        BY <1>1 DEF Slot
      <3> QED
        BY <3>1 DEF LastSlot
    <2> QED
      BY <1>1, <1>2, <2>1, <2>2, <2>3, <2>4 DEF Empty, Slot
  <1> QED
    BY <1>1, <1>2

-----------------------------------------------------------------------------
(* Types *)

\* The indices of an empty buffer agree.
LEMMA InitType == Init => TypeOK
  BY Wrapped DEF Init, TypeOK, Slot

\* Each operation moves at most one index, by one slot, and the counter with it.
LEMMA TypeStep == TypeOK /\ [Next]_vars => TypeOK'
  <1> SUFFICES ASSUME TypeOK, [Next]_vars PROVE TypeOK'
    OBVIOUS
  <1>1. /\ data \in [Slot -> Value] /\ head \in Slot /\ tail \in Slot
        /\ count \in 0 .. Cap /\ tail = (head + count) % Cap
    BY DEF TypeOK
  <1>2. tail = IF head + count < Cap THEN head + count ELSE (head + count) - Cap
    BY <1>1, Wrapped
  <1>3. ASSUME NEW v \in Value, PushBack(v) PROVE TypeOK'
    <2>1. CASE Full /\ UNCHANGED <<data, head, tail, count>>
      BY <1>1, <2>1 DEF TypeOK
    <2>2. CASE /\ ~Full /\ data' = [data EXCEPT ![tail] = v]
               /\ tail' = (tail + 1) % Cap /\ count' = count + 1 /\ head' = head
      <3>1. count + 1 \in 0 .. Cap
        BY <1>1, <2>2 DEF Full
      <3>2. tail' = IF tail + 1 < Cap THEN tail + 1 ELSE (tail + 1) - Cap
        BY <1>1, <2>2, Wrapped
      <3>3. (head + (count + 1)) % Cap
                = IF head + (count + 1) < Cap THEN head + (count + 1)
                  ELSE (head + (count + 1)) - Cap
        BY <1>1, <3>1, Wrapped
      <3>4. tail' \in Slot /\ tail' = (head + (count + 1)) % Cap
        BY <1>1, <1>2, <3>1, <3>2, <3>3 DEF Slot
      <3> QED
        BY <1>1, <2>2, <3>1, <3>4 DEF TypeOK
    <2> QED
      BY <1>3, <2>1, <2>2 DEF PushBack
  <1>4. ASSUME ~Empty, head' = (head + 1) % Cap, count' = count - 1,
               UNCHANGED <<data, tail>>
        PROVE  TypeOK'
    <2>1. count - 1 \in 0 .. Cap
      BY <1>1, <1>4 DEF Empty
    <2>2. head' = IF head + 1 < Cap THEN head + 1 ELSE (head + 1) - Cap
      BY <1>1, <1>4, Wrapped
    <2>3. head' \in Slot
      BY <1>1, <2>2 DEF Slot
    <2>4. (head' + (count - 1)) % Cap
              = IF head' + (count - 1) < Cap THEN head' + (count - 1)
                ELSE (head' + (count - 1)) - Cap
      BY <2>1, <2>3, Wrapped
    <2>5. tail = (head' + (count - 1)) % Cap
      BY <1>1, <1>2, <2>1, <2>2, <2>4 DEF Slot
    <2> QED
      BY <1>1, <1>4, <2>1, <2>3, <2>5 DEF TypeOK
  <1>5. CASE PopBack
    <2>1. count - 1 \in 0 .. Cap
      BY <1>1, <1>5 DEF PopBack, Empty
    <2>2. tail' = Index(count - 1)
      BY <1>5, TailSlots DEF PopBack
    <2>3. tail' \in Slot
      BY <2>1, <2>2, IndexInSlot
    <2> QED
      BY <1>1, <1>5, <2>1, <2>2, <2>3 DEF PopBack, TypeOK, Index
  <1>6. ASSUME NEW i \in Slot, NEW v \in Value, Write(i, v) PROVE TypeOK'
    BY <1>1, <1>6 DEF Write, TypeOK
  <1>7. CASE PopRejected \/ ReadFront \/ ReadBack \/ UNCHANGED vars
    BY <1>1, <1>7 DEF PopRejected, ReadFront, ReadBack, vars, TypeOK
  <1> QED
    BY <1>3, <1>4, <1>5, <1>6, <1>7 DEF Next, Pop, PopFront

\* The indices stay inside the array and the counter is the distance between them,
\* whatever is pushed, popped, read or written, in whatever order.
THEOREM IndicesOK == Spec => []TypeOK
  BY InitType, TypeStep, PTL DEF Spec

-----------------------------------------------------------------------------
(* The sequence in the array *)

\* The items are a sequence of count values.
LEMMA ItemsType ==
    ASSUME TypeOK
    PROVE  Items \in Seq(Value) /\ Len(Items) = count /\ DOMAIN Items = 1 .. count
  <1>1. \A i \in 1 .. count : data[Index(i - 1)] \in Value
    <2> TAKE i \in 1 .. count
    <2>1. i - 1 \in 0 .. Cap
      BY DEF TypeOK
    <2> QED
      BY <2>1, IndexInSlot DEF TypeOK
  <1> QED
    BY <1>1 DEF Items, TypeOK

\* What is pushed goes to a slot no item is in.
LEMMA PushedItems ==
    ASSUME TypeOK, NEW v \in Value, PushBack(v), ~Full
    PROVE  Items' = Append(Items, v)
  <1>1. /\ data' = [data EXCEPT ![tail] = v] /\ head' = head /\ count' = count + 1
        /\ count \in 0 .. Cap /\ count < Cap /\ head \in Slot /\ tail \in Slot
        /\ data \in [Slot -> Value]
    BY DEF PushBack, Full, TypeOK
  <1>2. Items' = [i \in 1 .. count + 1 |-> data'[Index(i - 1)]]
    BY <1>1 DEF Items, Index
  <1>3. ASSUME NEW i \in 1 .. count PROVE data'[Index(i - 1)] = Items[i]
    <2>1. i - 1 \in 0 .. Cap /\ i - 1 < count /\ count - (i - 1) < Cap
      BY <1>1
    <2>2. Index(i - 1) \in Slot /\ Index(i - 1) # tail
      BY <1>1, <2>1, IndexInSlot, DistinctSlots, TailSlots
    <2> QED
      BY <1>1, <2>2 DEF Items
  <1>5. Append(Items, v) = [i \in 1 .. count + 1 |-> IF i <= count THEN Items[i] ELSE v]
    <2>1. Items \in Seq(Value) /\ Len(Items) = count
      BY ItemsType
    <2>2. /\ Append(Items, v) \in Seq(Value) /\ Len(Append(Items, v)) = count + 1
          /\ \A i \in 1 .. count : Append(Items, v)[i] = Items[i]
          /\ Append(Items, v)[count + 1] = v
      BY <2>1, AppendProperties
    <2>3. Append(Items, v) \in [1 .. count + 1 -> Value]
      BY <2>2, LenProperties
    <2>4. \A i \in 1 .. count + 1 : Append(Items, v)[i] = IF i <= count THEN Items[i] ELSE v
      BY <1>1, <2>2
    <2> QED
      BY <2>3, <2>4, Zenon
  <1>6. ASSUME NEW i \in 1 .. count + 1
        PROVE  data'[Index(i - 1)] = IF i <= count THEN Items[i] ELSE v
    <2>1. CASE i <= count
      BY <1>1, <1>3, <2>1
    <2>2. CASE ~(i <= count)
      <3>1. i - 1 = count
        BY <1>1, <2>2
      <3>2. data'[Index(i - 1)] = v
        BY <1>1, <3>1, TailSlots
      <3> QED
        BY <2>2, <3>2
    <2> QED
      BY <2>1, <2>2
  <1> QED
    BY <1>2, <1>5, <1>6, Zenon

\* Advancing head drops the first item, and only that one.
LEMMA PoppedItems ==
    ASSUME TypeOK, ~Empty, head' = (head + 1) % Cap, count' = count - 1, data' = data
    PROVE  /\ Items # <<>>
           /\ Head(Items) = data[head]
           /\ Items' = Tail(Items)
  <1>1. count \in 1 .. Cap /\ head \in Slot
    BY DEF Empty, TypeOK
  <1>2. Head(Items) = data[Index(0)]
    BY <1>1, ItemsType DEF Items
  <1>3. Index(0) = head
    BY <1>1, FirstSlot
  <1>4. Items' = [i \in 1 .. count - 1 |-> data[Index(i - 1)']]
    BY DEF Items
  <1>5. ASSUME NEW i \in 1 .. count - 1 PROVE data[Index(i - 1)'] = Items[i + 1]
    <2>1. i - 1 \in 0 .. Cap /\ i \in 0 .. Cap /\ i + 1 \in 1 .. count /\ i + 1 - 1 = i
      BY <1>1
    <2>2. head' = IF head + 1 < Cap THEN head + 1 ELSE (head + 1) - Cap
      BY <1>1, Wrapped
    <2>3. head' \in Slot
      BY <1>1, <2>2 DEF Slot
    <2>4. Index(i - 1)' = IF head' + (i - 1) < Cap THEN head' + (i - 1)
                          ELSE (head' + (i - 1)) - Cap
      BY <2>1, <2>3, Wrapped DEF Index
    <2>5. Index(i) = IF head + i < Cap THEN head + i ELSE (head + i) - Cap
      BY <1>1, <2>1, Wrapped DEF Index
    <2>6. Index(i - 1)' = Index(i)
      BY <1>1, <2>1, <2>2, <2>4, <2>5 DEF Slot
    <2> QED
      BY <2>1, <2>6 DEF Items
  <1>6. Tail(Items) = [i \in 1 .. count - 1 |-> Items[i + 1]]
    <2>1. Items \in Seq(Value) /\ Len(Items) = count /\ Items # <<>>
      BY <1>1, ItemsType
    <2>2. /\ Tail(Items) \in Seq(Value) /\ Len(Tail(Items)) = count - 1
          /\ \A i \in 1 .. count - 1 : Tail(Items)[i] = Items[i + 1]
      BY <2>1, HeadTailProperties
    <2>3. Tail(Items) \in [1 .. count - 1 -> Value]
      BY <2>2, LenProperties
    <2> QED
      BY <2>2, <2>3, Zenon
  <1> QED
    BY <1>1, <1>2, <1>3, <1>4, <1>5, <1>6, ItemsType

\* Moving tail back drops the last item, and only that one.
LEMMA ShortenedItems ==
    ASSUME TypeOK, ~Empty, head' = head, count' = count - 1, data' = data
    PROVE  /\ Items # <<>>
           /\ Deque!Last(Items) = data[LastSlot]
           /\ Items' = Deque!Front(Items)
  <1>1. count \in 1 .. Cap /\ head \in Slot
    BY DEF Empty, TypeOK
  <1>2. Items' = [i \in 1 .. count - 1 |-> data[Index(i - 1)]]
    BY DEF Items, Index
  <1>3. Deque!Front(Items) = [i \in 1 .. count - 1 |-> Items[i]]
    BY <1>1, ItemsType DEF Deque!Front
  <1>4. \A i \in 1 .. count - 1 : Items[i] = data[Index(i - 1)]
    BY <1>1 DEF Items
  <1>5. Items[count] = data[LastSlot]
    BY <1>1, TailSlots DEF Items
  <1> QED
    BY <1>1, <1>2, <1>3, <1>4, <1>5, ItemsType DEF Deque!Last

-----------------------------------------------------------------------------
(* Refinement *)

\* An empty buffer is an empty queue.
LEMMA RefineInit == Init => Deque!Init
  <1> SUFFICES ASSUME Init PROVE Deque!Init
    OBVIOUS
  <1>1. Items = <<>> /\ answer = Accepted
    BY InitType, ItemsType DEF Init
  <1> QED
    BY <1>1 DEF Deque!Init, Deque!Accepted, Accepted

\* Each operation on the array is the operation of that name on the queue.
LEMMA RefineStep == TypeOK /\ [Next]_vars => [Deque!Next]_<<Items, answer>>
  <1> SUFFICES ASSUME TypeOK, [Next]_vars
               PROVE  Deque!Next \/ (UNCHANGED Items /\ UNCHANGED answer)
    OBVIOUS
  <1> USE DEF Deque!Rejected, Deque!Accepted, Deque!Found, Rejected, Accepted, Found
  <1>0. /\ Items \in Seq(Value) /\ Len(Items) = count /\ DOMAIN Items = 1 .. count
        /\ count \in 0 .. Cap
    BY ItemsType DEF TypeOK
  <1>e. Empty <=> Items = <<>>
    BY <1>0 DEF Empty
  <1>1. ASSUME UNCHANGED <<data, head, count>> PROVE UNCHANGED Items
    BY <1>1 DEF Items, Index
  <1>2. ASSUME NEW v \in Value, PushBack(v) PROVE Deque!PushBack(v)
    <2>1. CASE Full
      BY <1>0, <1>1, <1>2, <2>1 DEF PushBack, Full, Deque!PushBack
    <2>2. CASE ~Full
      BY <1>0, <1>2, <2>2, PushedItems DEF PushBack, Full, Deque!PushBack
    <2> QED
      BY <2>1, <2>2
  <1>3. CASE PopRejected
    BY <1>1, <1>3, <1>e DEF PopRejected, Deque!Next, Deque!Pop
  <1>4. CASE Pop
    <2>1. /\ Items # <<>> /\ Head(Items) = data[head] /\ Items' = Tail(Items)
          /\ answer' = Found(data[head])
      BY <1>4, PoppedItems DEF Pop
    <2> QED
      BY <2>1 DEF Deque!Next, Deque!Pop
  <1>5. CASE PopFront
    <2>1. Items # <<>> /\ Items' = Tail(Items) /\ answer' = Accepted
      BY <1>5, PoppedItems DEF PopFront
    <2> QED
      BY <2>1 DEF Deque!Next, Deque!PopFront
  <1>6. CASE PopBack
    <2>1. Items # <<>> /\ Items' = Deque!Front(Items) /\ answer' = Accepted
      BY <1>6, ShortenedItems DEF PopBack
    <2> QED
      BY <2>1 DEF Deque!Next, Deque!PopBack
  <1>7. CASE ReadFront
    <2>1. ~Empty => Head(Items) = data[head]
      <3>1. Index(0) = head
        BY FirstSlot DEF TypeOK
      <3> QED
        BY <1>0, <3>1 DEF Items, Empty
    <2> QED
      BY <1>1, <1>7, <1>e, <2>1 DEF ReadFront, Deque!Next, Deque!ReadFront
  <1>8. CASE ReadBack
    <2>1. ~Empty => Deque!Last(Items) = data[LastSlot]
      BY <1>0, TailSlots DEF Items, Empty, Deque!Last
    <2> QED
      BY <1>1, <1>8, <1>e, <2>1 DEF ReadBack, Deque!Next, Deque!ReadBack
  <1>9. ASSUME NEW i \in Slot, NEW v \in Value, Write(i, v)
        PROVE  i + 1 \in DOMAIN Items /\ Deque!Write(i + 1, v)
    <2>1. /\ i < count /\ i \in 0 .. Cap /\ i + 1 \in 1 .. count /\ i + 1 - 1 = i
          /\ data' = [data EXCEPT ![Index(i)] = v] /\ data \in [Slot -> Value]
          /\ answer' = Accepted /\ count' = count /\ head' = head
      BY <1>0, <1>9 DEF Write, Slot, TypeOK
    <2>2. Items' = [j \in 1 .. count |-> data'[Index(j - 1)]]
      BY <2>1 DEF Items, Index
    <2>3. ASSUME NEW j \in 1 .. count
          PROVE  data'[Index(j - 1)] = IF j = i + 1 THEN v ELSE Items[j]
      <3>1. CASE j = i + 1
        BY <2>1, <3>1, IndexInSlot
      <3>2. CASE j # i + 1
        <4>1. j - 1 \in 0 .. Cap /\ j - 1 # i /\ j - 1 - i < Cap /\ i - (j - 1) < Cap
          BY <1>0, <2>1, <3>2
        <4>2. Index(j - 1) # Index(i) /\ Index(j - 1) \in Slot
          BY <2>1, <4>1, DistinctSlots, IndexInSlot
        <4> QED
          BY <2>1, <3>2, <4>2 DEF Items
      <3> QED
        BY <3>1, <3>2
    <2>4. Items' = [Items EXCEPT ![i + 1] = v]
      BY <1>0, <2>1, <2>2, <2>3
    <2> QED
      BY <1>0, <2>1, <2>4 DEF Deque!Write
  <1>10. CASE UNCHANGED vars
    BY <1>1, <1>10 DEF vars
  <1> QED
    BY <1>2, <1>3, <1>4, <1>5, <1>6, <1>7, <1>8, <1>9, <1>10 DEF Next, Deque!Next

\* The buffer implements the bounded double-ended queue: no operation loses,
\* repeats or reorders an item at any wrap-around of either index, and nothing that
\* is left in the array beyond the items shows in an answer.
THEOREM Refinement == Spec => ImplementsDeque
  <1>1. TypeOK /\ [Next]_vars => [Deque!Next]_Deque!dequeVars
    BY RefineStep DEF Deque!dequeVars
  <1> QED
    BY <1>1, RefineInit, IndicesOK, PTL DEF Spec, ImplementsDeque, Deque!Spec

=============================================================================
