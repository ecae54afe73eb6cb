---------------------------- MODULE BoundedDeque ----------------------------
(***************************************************************************)
(* What the Free List and the Active List promise: a sequence, oldest      *)
(* first, of at most Cap items.  Each operation answers something: whether *)
(* a push or a pop did anything, and the item it found or removed.         *)
(***************************************************************************)
EXTENDS Naturals, SequencesExt

CONSTANTS
    Value,    \* the items
    Cap       \* the capacity (32)

VARIABLES
    items,    \* the queue, oldest first
    answer    \* what the last operation returned

dequeVars == <<items, answer>>

Rejected == [done |-> FALSE, item |-> {}]
Accepted == [done |-> TRUE, item |-> {}]
Found(v) == [done |-> TRUE, item |-> {v}]

Init == items = <<>> /\ answer = Accepted

PushBack(v) ==
    IF Len(items) < Cap
    THEN items' = Append(items, v) /\ answer' = Accepted
    ELSE UNCHANGED items /\ answer' = Rejected

Pop ==
    IF items # <<>>
    THEN items' = Tail(items) /\ answer' = Found(Head(items))
    ELSE UNCHANGED items /\ answer' = Rejected

PopFront ==
    IF items # <<>>
    THEN items' = Tail(items) /\ answer' = Accepted
    ELSE UNCHANGED items /\ answer' = Rejected

PopBack ==
    IF items # <<>>
    THEN items' = Front(items) /\ answer' = Accepted
    ELSE UNCHANGED items /\ answer' = Rejected

ReadFront ==
    /\ answer' = IF items # <<>> THEN Found(Head(items)) ELSE Rejected
    /\ UNCHANGED items

ReadBack ==
    /\ answer' = IF items # <<>> THEN Found(Last(items)) ELSE Rejected
    /\ UNCHANGED items

Write(i, v) ==
    /\ i \in DOMAIN items
    /\ items' = [items EXCEPT ![i] = v]
    /\ answer' = Accepted

Next == \/ \E v \in Value : PushBack(v) \/ \E i \in DOMAIN items : Write(i, v)
        \/ Pop \/ PopFront \/ PopBack \/ ReadFront \/ ReadBack

Spec == Init /\ [][Next]_dequeVars

=============================================================================
