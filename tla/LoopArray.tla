----------------------------- MODULE LoopArray ------------------------------
(***************************************************************************)
(* The fixed-capacity ring buffer LoopArray of containers_define.h, as     *)
(* operators on ring records.  The array is not cleared when an element is *)
(* taken: a slot keeps its old element until it is overwritten, so every   *)
(* reader has to go through m_head and m_size.                             *)
(***************************************************************************)
EXTENDS Naturals

CONSTANTS Capacity,   \* m_capacity: 1024 unless the constructor is told otherwise
          Item,       \* the elements, Message* in the logic server
          NULL        \* what pop_front returns on an empty ring

ASSUME CapacityAssumption == Capacity \in Nat \ {0}
ASSUME NullAssumption == NULL \notin Item

Slot == 0 .. Capacity - 1

\* buf is the array pBuf; the other fields carry their source names.
Ring == [buf : [Slot -> Item \cup {NULL}], head : Slot, tail : Slot, size : 0 .. Capacity]

EmptyRing == [buf |-> [s \in Slot |-> NULL], head |-> 0, tail |-> 0, size |-> 0]

IsFull(r) == r.size >= Capacity

IsEmpty(r) == r.size = 0

\* Variant with a fault: the index is not wrapped round.
NextSlotUnwrapped(s) == s + 1

\* The index after s, with the wrap-around both ends of the ring use.
NextSlot(s) == (s + 1) % Capacity

\* push_back: the ring is left alone when it is full (the code returns false).
PushBack(r, item) ==
    IF IsFull(r) THEN r
    ELSE [r EXCEPT !.buf[r.tail] = item, !.tail = NextSlot(@), !.size = @ + 1]

\* pop_front returns Front(r) and leaves PopFront(r).
Front(r) == IF IsEmpty(r) THEN NULL ELSE r.buf[r.head]

PopFront(r) ==
    IF IsEmpty(r) THEN r ELSE [r EXCEPT !.head = NextSlot(@), !.size = @ - 1]

\* The element k places behind the head, the order in which pop_front returns them.
At(r, k) == r.buf[(r.head + k) % Capacity]

\* Head, tail and size agree.
WellFormed(r) == r.tail = (r.head + r.size) % Capacity
=============================================================================
