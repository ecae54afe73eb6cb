--------------------------- MODULE CircularBuffer ---------------------------
(***************************************************************************)
(* The array, the two indices and the counter behind the Free List and the *)
(* Active List of HW1.  The two classes share the algorithm and differ in  *)
(* the operations they offer: FreeList.pop returns the item it removes,    *)
(* ActiveList has front, back, pop_front, pop_back and at.  OoO470 uses    *)
(* the sequences these buffers implement.                                  *)
(***************************************************************************)
EXTENDS Integers, Sequences

CONSTANTS
    Value,    \* the items
    Cap       \* the capacity (32)

ASSUME CapacityAssumption == Cap \in Nat \ {0}

VARIABLES
    data,     \* the array, of which the constructor sets nothing
    head, tail, count,
    answer    \* what the last operation returned

vars == <<data, head, tail, count, answer>>

Slot == 0 .. Cap - 1

Rejected == [done |-> FALSE, item |-> {}]
Accepted == [done |-> TRUE, item |-> {}]
Found(v) == [done |-> TRUE, item |-> {v}]

Empty == count = 0
Full == count = Cap

\* Slip: the index of an entry is not wrapped around.
IndexUnwrapped(i) == IF head + i < Cap THEN head + i ELSE Cap - 1

\* The slot of the i-th item, from 0.
Index(i) == (head + i) % Cap

\* Slip: the slot at tail, which is the one to be filled next.
LastSlotAtTail == tail

\* The slot before tail.
LastSlot == (tail + Cap - 1) % Cap

\* The array is not initialised: its content is arbitrary.
Init ==
    /\ data \in [Slot -> Value]
    /\ head = 0 /\ tail = 0 /\ count = 0
    /\ answer = Accepted

PushBack(v) ==
    \/ /\ Full
       /\ answer' = Rejected
       /\ UNCHANGED <<data, head, tail, count>>
    \/ /\ ~Full
       /\ data' = [data EXCEPT ![tail] = v]
       /\ tail' = (tail + 1) % Cap
       /\ count' = count + 1
       /\ answer' = Accepted
       /\ UNCHANGED head

PopRejected ==
    /\ Empty
    /\ answer' = Rejected
    /\ UNCHANGED <<data, head, tail, count>>

\* FreeList.pop
Pop ==
    /\ ~Empty
    /\ head' = (head + 1) % Cap
    /\ count' = count - 1
    /\ answer' = Found(data[head])
    /\ UNCHANGED <<data, tail>>

PopFront ==
    /\ ~Empty
    /\ head' = (head + 1) % Cap
    /\ count' = count - 1
    /\ answer' = Accepted
    /\ UNCHANGED <<data, tail>>

PopBack ==
    /\ ~Empty
    /\ tail' = LastSlot
    /\ count' = count - 1
    /\ answer' = Accepted
    /\ UNCHANGED <<data, head>>

ReadFront ==
    /\ answer' = IF Empty THEN Rejected ELSE Found(data[head])
    /\ UNCHANGED <<data, head, tail, count>>

ReadBack ==
    /\ answer' = IF Empty THEN Rejected ELSE Found(data[LastSlot])
    /\ UNCHANGED <<data, head, tail, count>>

\* Commit writes the flags of an entry through the reference at returns; it only
\* asks for entries below size.
Write(i, v) ==
    /\ i < count
    /\ data' = [data EXCEPT ![Index(i)] = v]
    /\ answer' = Accepted
    /\ UNCHANGED <<head, tail, count>>

Next ==
    \/ \E v \in Value : PushBack(v)
    \/ PopRejected \/ Pop \/ PopFront \/ PopBack \/ ReadFront \/ ReadBack
    \/ \E i \in Slot, v \in Value : Write(i, v)

Spec == Init /\ [][Next]_vars

-----------------------------------------------------------------------------
\* The indices stay inside the array, and the counter is the distance between them:
\* equal indices mean an empty or a full buffer, which only the counter tells apart.
TypeOK ==
    /\ data \in [Slot -> Value]
    /\ head \in Slot /\ tail \in Slot /\ count \in 0 .. Cap
    /\ tail = (head + count) % Cap

Items == [i \in 1 .. count |-> data[Index(i - 1)]]

\* The buffer is a bounded double-ended queue: no operation loses, repeats or
\* reorders an item, at any wrap-around of either index, and what is left in the
\* array beyond the items never shows.
Deque == INSTANCE BoundedDeque WITH items <- Items

ImplementsDeque == Deque!Spec

=============================================================================
