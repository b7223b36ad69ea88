-------------------------- MODULE LogicHandoffProofs ------------------------
(***************************************************************************)
(* The hand-off between the logic server's threads, for every ring         *)
(* capacity and every number of messages.                                  *)
(***************************************************************************)
EXTENDS LogicHandoff, TLAPS

-----------------------------------------------------------------------------
(* What push_back and pop_front do to a LoopArray of any capacity.         *)

LEMMA ModWithinTwoTurns ==
  ASSUME NEW a \in 0 .. 2 * Capacity - 1
  PROVE  a % Capacity = IF a < Capacity THEN a ELSE a - Capacity
BY CapacityAssumption

\* An index that runs past the end of the array comes back at its beginning.
LEMMA Wrap ==
  ASSUME NEW s \in Slot, NEW k \in 0 .. Capacity
  PROVE  (s + k) % Capacity = IF s + k < Capacity THEN s + k ELSE s + k - Capacity
<1>1. s + k \in 0 .. 2 * Capacity - 1
  BY CapacityAssumption DEF Slot
<1> QED
  BY <1>1, ModWithinTwoTurns, CapacityAssumption DEF Slot

LEMMA NextSlotType ==
  ASSUME NEW s \in Slot
  PROVE  NextSlot(s) \in Slot
<1>1. (s + 1) % Capacity = IF s + 1 < Capacity THEN s + 1 ELSE s + 1 - Capacity
  BY Wrap, CapacityAssumption
<1> QED
  BY <1>1, CapacityAssumption DEF NextSlot, Slot

LEMMA AtSlot ==
  ASSUME NEW r \in Ring, NEW k \in 0 .. Capacity
  PROVE  (r.head + k) % Capacity \in Slot
<1>1. r.head \in Slot
  BY DEF Ring
<1>2. (r.head + k) % Capacity
         = IF r.head + k < Capacity THEN r.head + k ELSE r.head + k - Capacity
  BY <1>1, Wrap
<1> QED
  BY <1>1, <1>2, CapacityAssumption DEF Slot

\* The next free slot is one further on after either operation's index moved.
LEMMA NextWrap ==
  ASSUME NEW h \in Slot, NEW k \in 0 .. Capacity - 1
  PROVE  /\ NextSlot((h + k) % Capacity) = (h + (k + 1)) % Capacity
         /\ (NextSlot(h) + k) % Capacity = (h + (k + 1)) % Capacity
<1>1. (h + k) % Capacity = IF h + k < Capacity THEN h + k ELSE h + k - Capacity
  BY Wrap, CapacityAssumption DEF Slot
<1>2. (h + (k + 1)) % Capacity
         = IF h + (k + 1) < Capacity THEN h + (k + 1) ELSE h + (k + 1) - Capacity
  <2>1. k + 1 \in 0 .. Capacity
    BY CapacityAssumption
  <2> QED
    BY <2>1, Wrap
<1>3. \A s \in Slot : NextSlot(s) = IF s + 1 < Capacity THEN s + 1 ELSE 0
  <2> TAKE s \in Slot
  <2>1. (s + 1) % Capacity = IF s + 1 < Capacity THEN s + 1 ELSE s + 1 - Capacity
    BY Wrap, CapacityAssumption
  <2> QED
    BY <2>1, CapacityAssumption DEF NextSlot, Slot
<1>4. (h + k) % Capacity \in Slot
  BY <1>1, CapacityAssumption DEF Slot
<1>5. NextSlot((h + k) % Capacity) = (h + (k + 1)) % Capacity
  BY <1>1, <1>2, <1>3, <1>4, CapacityAssumption DEF Slot
<1>6. (NextSlot(h) + k) % Capacity
         = IF NextSlot(h) + k < Capacity THEN NextSlot(h) + k ELSE NextSlot(h) + k - Capacity
  <2>1. NextSlot(h) \in Slot /\ k \in 0 .. Capacity
    BY NextSlotType, CapacityAssumption
  <2> QED
    BY <2>1, Wrap
<1>7. (NextSlot(h) + k) % Capacity = (h + (k + 1)) % Capacity
  BY <1>2, <1>3, <1>6, CapacityAssumption DEF Slot
<1> QED
  BY <1>5, <1>7

\* push_back on a ring with room puts the item behind all the others.
THEOREM PushBackAppends ==
  ASSUME NEW r \in Ring, WellFormed(r), ~IsFull(r), NEW item \in Item
  PROVE  /\ PushBack(r, item) \in Ring
         /\ WellFormed(PushBack(r, item))
         /\ PushBack(r, item).size = r.size + 1
         /\ \A k \in 0 .. r.size - 1 : At(PushBack(r, item), k) = At(r, k)
         /\ At(PushBack(r, item), r.size) = item
<1> DEFINE q == PushBack(r, item)
<1>1. /\ r.head \in Slot /\ r.tail \in Slot /\ r.size \in 0 .. Capacity
      /\ r.buf \in [Slot -> Item \cup {NULL}]
  BY DEF Ring
<1>2. r.size \in 0 .. Capacity - 1
  BY <1>1, CapacityAssumption DEF IsFull
<1>3. /\ q.buf = [r.buf EXCEPT ![r.tail] = item]
      /\ q.head = r.head
      /\ q.tail = NextSlot(r.tail)
      /\ q.size = r.size + 1
  BY DEF PushBack, Ring
<1>4. q \in Ring
  <2>1. q = [buf |-> [r.buf EXCEPT ![r.tail] = item], head |-> r.head,
             tail |-> NextSlot(r.tail), size |-> r.size + 1]
    BY DEF PushBack, Ring
  <2>2. r.size + 1 \in 0 .. Capacity
    BY <1>2, CapacityAssumption
  <2>3. NextSlot(r.tail) \in Slot
    BY <1>1, NextSlotType
  <2>4. [r.buf EXCEPT ![r.tail] = item] \in [Slot -> Item \cup {NULL}]
    BY <1>1
  <2> QED
    BY <1>1, <2>1, <2>2, <2>3, <2>4 DEF Ring
<1>5. WellFormed(q)
  BY <1>1, <1>2, <1>3, NextWrap DEF WellFormed
<1>6. ASSUME NEW k \in 0 .. r.size - 1
      PROVE  At(q, k) = At(r, k)
  <2>1. (r.head + k) % Capacity # r.tail
    <3>1. (r.head + k) % Capacity
             = IF r.head + k < Capacity THEN r.head + k ELSE r.head + k - Capacity
      BY <1>1, <1>2, Wrap, CapacityAssumption
    <3>2. r.tail = IF r.head + r.size < Capacity THEN r.head + r.size
                                                ELSE r.head + r.size - Capacity
      BY <1>1, Wrap DEF WellFormed
    <3>3. /\ Capacity \in Nat /\ r.head \in Nat /\ r.size \in Nat /\ k \in Nat
          /\ r.head < Capacity /\ r.size < Capacity /\ k < r.size
      BY <1>1, <1>2, CapacityAssumption DEF Slot
    <3> QED
      BY <3>1, <3>2, <3>3
  <2>2. (r.head + k) % Capacity \in Slot
    BY <1>2, AtSlot, CapacityAssumption
  <2> QED
    BY <1>1, <1>3, <2>1, <2>2 DEF At
<1>7. At(q, r.size) = item
  BY <1>1, <1>3 DEF At, WellFormed
<1> QED
  BY <1>3, <1>4, <1>5, <1>6, <1>7

\* pop_front on a ring that holds something returns and removes the oldest item.
THEOREM PopFrontTakesOldest ==
  ASSUME NEW r \in Ring, WellFormed(r), ~IsEmpty(r)
  PROVE  /\ PopFront(r) \in Ring
         /\ WellFormed(PopFront(r))
         /\ PopFront(r).size = r.size - 1
         /\ Front(r) = At(r, 0)
         /\ \A k \in 0 .. r.size - 2 : At(PopFront(r), k) = At(r, k + 1)
<1> DEFINE q == PopFront(r)
<1>1. /\ r.head \in Slot /\ r.tail \in Slot /\ r.size \in 1 .. Capacity
      /\ r.buf \in [Slot -> Item \cup {NULL}]
  BY CapacityAssumption DEF Ring, IsEmpty
<1>2. q = [buf |-> r.buf, head |-> NextSlot(r.head), tail |-> r.tail, size |-> r.size - 1]
  BY DEF PopFront, Ring
<1>3. /\ q.buf = r.buf /\ q.head = NextSlot(r.head)
      /\ q.tail = r.tail /\ q.size = r.size - 1
  BY <1>2
<1>4. q \in Ring
  <2>1. r.size - 1 \in 0 .. Capacity
    BY <1>1, CapacityAssumption
  <2> QED
    BY <1>1, <1>2, <2>1, NextSlotType DEF Ring
<1>5. \A k \in 0 .. r.size - 1 :
         (NextSlot(r.head) + k) % Capacity = (r.head + (k + 1)) % Capacity
  BY <1>1, NextWrap, CapacityAssumption
<1>6. WellFormed(q)
  <2>1. (NextSlot(r.head) + (r.size - 1)) % Capacity = (r.head + ((r.size - 1) + 1)) % Capacity
    BY <1>1, <1>5, CapacityAssumption
  <2>2. (r.size - 1) + 1 = r.size
    BY <1>1, CapacityAssumption
  <2> QED
    BY <1>3, <2>1, <2>2 DEF WellFormed
<1>7. Front(r) = At(r, 0)
  <2>1. (r.head + 0) % Capacity = r.head
    <3>1. 0 \in 0 .. Capacity
      BY CapacityAssumption
    <3>2. (r.head + 0) % Capacity
             = IF r.head + 0 < Capacity THEN r.head + 0 ELSE r.head + 0 - Capacity
      BY <1>1, <3>1, Wrap
    <3> QED
      BY <1>1, <3>2, CapacityAssumption DEF Slot
  <2> QED
    BY <2>1 DEF Front, At
<1>8. \A k \in 0 .. r.size - 2 : At(q, k) = At(r, k + 1)
  BY <1>1, <1>3, <1>5, CapacityAssumption DEF At
<1> QED
  BY <1>3, <1>4, <1>6, <1>7, <1>8

-----------------------------------------------------------------------------
(* The hand-off.                                                           *)

\* The parts of IInv that are about the threads' locations.
OtherInvs == InnerExclusive /\ PopReady /\ AsleepInWait /\ NoLostWakeup

LEMMA EmptyRingOK == EmptyRing \in Ring /\ WellFormed(EmptyRing) /\ EmptyRing.size = 0
<1>1. 0 \in Slot /\ 0 \in 0 .. Capacity
  BY CapacityAssumption DEF Slot
<1>2. (0 + 0) % Capacity = 0
  BY <1>1, Wrap, CapacityAssumption DEF Slot
<1> QED
  BY <1>1, <1>2 DEF EmptyRing, Ring, WellFormed

LEMMA RingSize == ASSUME NEW r \in Ring PROVE r.size \in Nat /\ r.size <= Capacity
BY CapacityAssumption DEF Ring

LEMMA HoldsPush ==
  ASSUME NEW r \in Ring, NEW seq, NEW base \in Nat, NEW item \in Item,
         Holds(r, seq, base), ~IsFull(r), item = seq[base + r.size + 1]
  PROVE  /\ PushBack(r, item) \in Ring
         /\ PushBack(r, item).size = r.size + 1
         /\ Holds(PushBack(r, item), seq, base)
<1> DEFINE q == PushBack(r, item)
<1>1. /\ q \in Ring /\ WellFormed(q) /\ q.size = r.size + 1
      /\ \A k \in 0 .. r.size - 1 : At(q, k) = At(r, k)
      /\ At(q, r.size) = item
  BY PushBackAppends DEF Holds
<1>2. ASSUME NEW k \in 0 .. q.size - 1
      PROVE  At(q, k) = seq[base + k + 1]
  <2> HIDE DEF q
  <2>1. k \in 0 .. r.size - 1 \/ k = r.size
    BY <1>1, RingSize
  <2> QED
    BY <1>1, <2>1 DEF Holds
<1> QED
  BY <1>1, <1>2 DEF Holds

LEMMA HoldsPop ==
  ASSUME NEW r \in Ring, NEW seq, NEW base \in Nat,
         Holds(r, seq, base), ~IsEmpty(r)
  PROVE  /\ PopFront(r) \in Ring
         /\ PopFront(r).size = r.size - 1
         /\ Holds(PopFront(r), seq, base + 1)
         /\ Front(r) = seq[base + 1]
<1> DEFINE q == PopFront(r)
<1>1. /\ q \in Ring /\ WellFormed(q) /\ q.size = r.size - 1
      /\ Front(r) = At(r, 0)
      /\ \A k \in 0 .. r.size - 2 : At(q, k) = At(r, k + 1)
  BY PopFrontTakesOldest DEF Holds
<1>2. r.size \in Nat /\ r.size > 0
  BY RingSize DEF IsEmpty
<1>3. ASSUME NEW k \in 0 .. q.size - 1
      PROVE  At(q, k) = seq[(base + 1) + k + 1]
  <2> HIDE DEF q
  <2>1. k \in 0 .. r.size - 2 /\ k + 1 \in 0 .. r.size - 1
    BY <1>1, <1>2
  <2>2. At(r, k + 1) = seq[base + (k + 1) + 1]
    BY <2>1 DEF Holds
  <2>3. base + (k + 1) + 1 = (base + 1) + k + 1
    BY <2>1
  <2> QED
    BY <1>1, <2>1, <2>2, <2>3
<1>4. At(r, 0) = seq[base + 1]
  <2>1. At(r, 0) = seq[base + 0 + 1]
    BY <1>2 DEF Holds
  <2> QED
    BY <2>1
<1> QED
  BY <1>1, <1>3, <1>4 DEF Holds

\* Accepting one more message disturbs no ring.
LEMMA HoldsExtend ==
  ASSUME NEW r \in Ring, NEW seq \in Seq(Item), NEW base \in Nat, NEW item \in Item,
         Holds(r, seq, base), base + r.size <= Len(seq)
  PROVE  Holds(r, Append(seq, item), base)
<1> SUFFICES ASSUME NEW k \in 0 .. r.size - 1
             PROVE  At(r, k) = Append(seq, item)[base + k + 1]
  BY DEF Holds
<1>1. base + k + 1 \in 1 .. Len(seq)
  BY RingSize
<1> QED
  BY <1>1 DEF Holds

-----------------------------------------------------------------------------

LEMMA InitIInv == Init => IInv
<1> SUFFICES ASSUME Init PROVE IInv
  OBVIOUS
<1>1. outer = EmptyRing /\ inner = EmptyRing /\ local = EmptyRing
  BY DEF Init
<1>2. TypeOK
  <2>1. received \in 0 .. MaxMsgs
    BY ItemAssumption DEF Init
  <2>2. accepted \in Seq(Item) /\ dispatched \in Seq(Item)
    BY DEF Init
  <2> QED
    BY <1>1, <2>1, <2>2, EmptyRingOK DEF Init, TypeOK, MsgPc, LogicPc
<1>3. NoLossNoReorder
  BY <1>1, EmptyRingOK
  DEF Init, NoLossNoReorder, Holds, InHand, LocalBase, InnerBase, OuterBase
<1>4. OtherInvs
  BY DEF Init, OtherInvs, InnerExclusive, PopReady, AsleepInWait, NoLostWakeup
<1> QED
  BY <1>2, <1>3, <1>4 DEF IInv, OtherInvs

\* The sizes and bases a step starts from are natural numbers.
LEMMA Bases ==
  ASSUME TypeOK
  PROVE  /\ outer \in Ring /\ inner \in Ring /\ local \in Ring
         /\ InHand \in Nat /\ LocalBase \in Nat /\ InnerBase \in Nat /\ OuterBase \in Nat
         /\ outer.size \in Nat /\ inner.size \in Nat /\ local.size \in Nat
         /\ Len(accepted) \in Nat /\ Len(dispatched) \in Nat
<1>1. outer \in Ring /\ inner \in Ring /\ local \in Ring
  BY DEF TypeOK
<1>2. outer.size \in Nat /\ inner.size \in Nat /\ local.size \in Nat
  BY <1>1, RingSize
<1>3. Len(accepted) \in Nat /\ Len(dispatched) \in Nat
  BY DEF TypeOK
<1>4. InHand \in Nat
  BY DEF InHand
<1>5. LocalBase \in Nat
  BY <1>3, <1>4 DEF LocalBase
<1>6. InnerBase \in Nat
  BY <1>2, <1>5 DEF InnerBase
<1>7. OuterBase \in Nat
  BY <1>2, <1>6 DEF OuterBase
<1> QED
  BY <1>1, <1>2, <1>3, <1>4, <1>5, <1>6, <1>7

\* How far the queues reach into the accepted messages.
LEMMA BaseOrder ==
  ASSUME TypeOK, NoLossNoReorder
  PROVE  /\ Len(dispatched) + InHand = LocalBase
         /\ LocalBase + local.size = InnerBase
         /\ InnerBase + inner.size = OuterBase
         /\ OuterBase + outer.size = Len(accepted)
         /\ LocalBase <= InnerBase /\ InnerBase <= OuterBase /\ OuterBase <= Len(accepted)
<1>1. /\ Len(dispatched) + InHand = LocalBase
      /\ LocalBase + local.size = InnerBase
      /\ InnerBase + inner.size = OuterBase
      /\ OuterBase + outer.size = Len(accepted)
  BY DEF NoLossNoReorder, LocalBase, InnerBase, OuterBase
<1>2. /\ LocalBase \in Nat /\ InnerBase \in Nat /\ OuterBase \in Nat
      /\ outer.size \in Nat /\ inner.size \in Nat /\ local.size \in Nat
  BY Bases
<1>3. LocalBase <= LocalBase + local.size /\ InnerBase <= InnerBase + inner.size
  BY <1>2
<1>4. OuterBase <= OuterBase + outer.size
  BY <1>2
<1> QED
  BY <1>1, <1>3, <1>4

\* SetMessage: the ring takes the message, or is full and leaves everything as it was.
LEMMA SetMessageIInv == IInv /\ SetMessage => IInv'
<1> SUFFICES ASSUME IInv, SetMessage PROVE IInv'
  OBVIOUS
<1> USE DEF IInv, OtherInvs
<1>1. /\ received' \in Item /\ received' \in 0 .. MaxMsgs
  BY ItemAssumption DEF SetMessage, TypeOK
<1>2. /\ UNCHANGED <<inner, local, hand, owner, waiting, mpc, lpc, dispatched>>
      /\ InHand' = InHand /\ LocalBase' = LocalBase
      /\ InnerBase' = InnerBase /\ OuterBase' = OuterBase
  BY DEF SetMessage, InHand, LocalBase, InnerBase, OuterBase
<1>3. OtherInvs'
  BY <1>2 DEF OtherInvs, InnerExclusive, PopReady, AsleepInWait, NoLostWakeup
<1>4. CASE IsFull(outer)
  <2>1. outer' = outer /\ accepted' = accepted
    BY <1>4 DEF SetMessage, PushBack
  <2>2. TypeOK'
    BY <1>1, <1>2, <2>1 DEF TypeOK
  <2>3. NoLossNoReorder'
    BY <1>2, <2>1 DEF NoLossNoReorder
  <2> QED
    BY <1>3, <2>2, <2>3
<1>5. CASE ~IsFull(outer)
  <2>1. outer' = PushBack(outer, received') /\ accepted' = Append(accepted, received')
    BY <1>5 DEF SetMessage
  <2>2. Len(accepted) = OuterBase + outer.size
    BY DEF NoLossNoReorder
  <2>3. /\ accepted' \in Seq(Item)
        /\ Len(accepted') = Len(accepted) + 1
        /\ accepted'[OuterBase + outer.size + 1] = received'
        /\ \A k \in 1 .. Len(accepted) : accepted'[k] = accepted[k]
    BY <1>1, <2>1, <2>2 DEF TypeOK
  <2>4. /\ Holds(local, accepted', LocalBase)
        /\ Holds(inner, accepted', InnerBase)
        /\ Holds(outer, accepted', OuterBase)
    <3>1. /\ LocalBase + local.size <= Len(accepted)
          /\ InnerBase + inner.size <= Len(accepted)
          /\ OuterBase + outer.size <= Len(accepted)
      <4>1. Len(accepted) \in Nat /\ InnerBase \in Nat /\ OuterBase \in Nat
        BY Bases
      <4>2. /\ LocalBase + local.size = InnerBase /\ InnerBase + inner.size = OuterBase
            /\ OuterBase + outer.size = Len(accepted)
            /\ InnerBase <= OuterBase /\ OuterBase <= Len(accepted)
        BY BaseOrder
      <4> QED
        BY <4>1, <4>2
    <3> QED
      BY <1>1, <2>1, <3>1, HoldsExtend, Bases DEF NoLossNoReorder, TypeOK
  <2>5. /\ outer' \in Ring
        /\ outer'.size = outer.size + 1
        /\ Holds(outer', accepted', OuterBase)
    <3>1. outer \in Ring /\ OuterBase \in Nat
      BY Bases
    <3>2. PICK seq : seq = accepted'
      OBVIOUS
    <3>3. Holds(outer, seq, OuterBase) /\ received' = seq[OuterBase + outer.size + 1]
      BY <2>3, <2>4, <3>2
    <3>4. /\ PushBack(outer, received') \in Ring
          /\ PushBack(outer, received').size = outer.size + 1
          /\ Holds(PushBack(outer, received'), seq, OuterBase)
      BY <1>1, <1>5, <3>1, <3>3, HoldsPush
    <3> QED
      BY <2>1, <3>2, <3>4
  <2>6. TypeOK'
    BY <1>1, <1>2, <2>3, <2>5 DEF TypeOK
  <2>7. Len(accepted') = OuterBase + outer'.size
    BY <2>2, <2>3, <2>5, Bases
  <2>8. /\ \A k \in 1 .. Len(dispatched) : dispatched[k] = accepted'[k]
        /\ lpc = "dispatch" => hand = accepted'[Len(dispatched) + 1]
    <3>1. /\ Len(dispatched) <= Len(accepted)
          /\ lpc = "dispatch" => Len(dispatched) + 1 <= Len(accepted)
      <4>1. /\ Len(dispatched) + InHand <= Len(accepted)
            /\ Len(dispatched) \in Nat /\ Len(accepted) \in Nat
        <5>1. PICK a, b, c, d \in Nat :
                a = LocalBase /\ b = InnerBase /\ c = OuterBase /\ d = Len(accepted)
          BY Bases
        <5>2. a <= b /\ b <= c /\ c <= d
          BY <5>1, BaseOrder
        <5>3. Len(dispatched) + InHand = a
          BY <5>1, BaseOrder
        <5> QED
          BY <5>1, <5>2, <5>3, Bases
      <4>2. InHand = (IF lpc = "dispatch" THEN 1 ELSE 0)
        BY DEF InHand
      <4> QED
        BY <4>1, <4>2
    <3>2. ASSUME NEW k \in 1 .. Len(dispatched) PROVE dispatched[k] = accepted'[k]
      <4>1. k \in 1 .. Len(accepted)
        BY <3>1, Bases
      <4> QED
        BY <2>3, <4>1 DEF NoLossNoReorder
    <3>3. ASSUME lpc = "dispatch" PROVE hand = accepted'[Len(dispatched) + 1]
      <4>1. Len(dispatched) + 1 \in 1 .. Len(accepted)
        BY <3>1, <3>3, Bases
      <4> QED
        BY <2>3, <3>3, <4>1 DEF NoLossNoReorder
    <3> QED
      BY <3>2, <3>3
  <2>9. NoLossNoReorder'
    BY <1>2, <2>4, <2>5, <2>7, <2>8 DEF NoLossNoReorder
  <2> QED
    BY <1>3, <2>6, <2>9
<1> QED
  BY <1>4, <1>5

\* Notify moves the oldest message of m_msg_queue behind those of m_msg_queue_inner.
LEMMA NotifyAppendIInv == IInv /\ NotifyAppend => IInv'
<1> SUFFICES ASSUME IInv, NotifyAppend PROVE IInv'
  OBVIOUS
<1> USE DEF IInv, OtherInvs
<1>1. /\ ~IsFull(inner) /\ ~IsEmpty(outer)
      /\ inner' = PushBack(inner, Front(outer)) /\ outer' = PopFront(outer)
      /\ UNCHANGED <<local, hand, owner, waiting, mpc, lpc, received, accepted, dispatched>>
      /\ mpc = "append"
  BY DEF NotifyAppend, history
<1>2. /\ InHand' = InHand /\ LocalBase' = LocalBase /\ InnerBase' = InnerBase
  BY <1>1 DEF InHand, LocalBase, InnerBase
<1>3. /\ outer' \in Ring
      /\ outer'.size = outer.size - 1
      /\ Holds(outer', accepted, OuterBase + 1)
      /\ Front(outer) = accepted[OuterBase + 1]
  BY <1>1, HoldsPop, Bases DEF NoLossNoReorder
<1>4. OuterBase + 1 \in 1 .. Len(accepted)
  BY <1>1, Bases DEF NoLossNoReorder, IsEmpty
<1>5. Front(outer) \in Item
  BY <1>3, <1>4 DEF TypeOK
<1>6. /\ inner' \in Ring
      /\ inner'.size = inner.size + 1
      /\ Holds(inner', accepted, InnerBase)
  <2>1. Front(outer) = accepted[InnerBase + inner.size + 1]
    BY <1>3 DEF OuterBase
  <2>2. inner \in Ring /\ InnerBase \in Nat /\ Holds(inner, accepted, InnerBase)
    BY Bases DEF NoLossNoReorder
  <2>3. /\ PushBack(inner, Front(outer)) \in Ring
        /\ PushBack(inner, Front(outer)).size = inner.size + 1
        /\ Holds(PushBack(inner, Front(outer)), accepted, InnerBase)
    BY <1>1, <1>5, <2>1, <2>2, HoldsPush
  <2> QED
    BY <1>1, <2>3
<1>7. OuterBase' = OuterBase + 1
  BY <1>2, <1>6, Bases DEF OuterBase
<1>8. TypeOK'
  BY <1>1, <1>3, <1>6 DEF TypeOK
<1>9. Len(accepted) = OuterBase' + outer'.size
  BY <1>3, <1>7, Bases DEF NoLossNoReorder
<1>10. NoLossNoReorder'
  BY <1>1, <1>2, <1>3, <1>6, <1>7, <1>9 DEF NoLossNoReorder
<1>11. OtherInvs'
  BY <1>1, <1>6, Bases DEF OtherInvs, InnerExclusive, PopReady, AsleepInWait, NoLostWakeup, IsEmpty
<1> QED
  BY <1>8, <1>10, <1>11

\* The logic thread moves the oldest message of m_msg_queue_inner to its own ring.
LEMMA LogicAppendIInv == IInv /\ LogicAppend => IInv'
<1> SUFFICES ASSUME IInv, LogicAppend PROVE IInv'
  OBVIOUS
<1> USE DEF IInv, OtherInvs
<1>1. /\ ~IsFull(local) /\ ~IsEmpty(inner)
      /\ local' = PushBack(local, Front(inner)) /\ inner' = PopFront(inner)
      /\ UNCHANGED <<outer, hand, owner, waiting, mpc, lpc, received, accepted, dispatched>>
      /\ lpc = "append"
  BY DEF LogicAppend, history
<1>2. InHand' = InHand /\ LocalBase' = LocalBase
  BY <1>1 DEF InHand, LocalBase
<1>3. /\ inner' \in Ring
      /\ inner'.size = inner.size - 1
      /\ Holds(inner', accepted, InnerBase + 1)
      /\ Front(inner) = accepted[InnerBase + 1]
  BY <1>1, HoldsPop, Bases DEF NoLossNoReorder
<1>4. InnerBase + 1 \in 1 .. Len(accepted)
  <2>1. PICK a, b, c, d \in Nat :
          a = InnerBase /\ b = OuterBase /\ c = Len(accepted) /\ d = inner.size
    BY Bases
  <2>2. d # 0
    BY <1>1, <2>1 DEF IsEmpty
  <2>3. a + d = b /\ b <= c
    BY <2>1, BaseOrder
  <2> QED
    BY <2>1, <2>2, <2>3
<1>5. Front(inner) \in Item
  BY <1>3, <1>4 DEF TypeOK
<1>6. /\ local' \in Ring
      /\ local'.size = local.size + 1
      /\ Holds(local', accepted, LocalBase)
  <2>1. Front(inner) = accepted[LocalBase + local.size + 1]
    BY <1>3 DEF InnerBase
  <2>2. local \in Ring /\ LocalBase \in Nat /\ Holds(local, accepted, LocalBase)
    BY Bases DEF NoLossNoReorder
  <2>3. /\ PushBack(local, Front(inner)) \in Ring
        /\ PushBack(local, Front(inner)).size = local.size + 1
        /\ Holds(PushBack(local, Front(inner)), accepted, LocalBase)
    BY <1>1, <1>5, <2>1, <2>2, HoldsPush
  <2> QED
    BY <1>1, <2>3
<1>7. InnerBase' = InnerBase + 1
  BY <1>2, <1>6, Bases DEF InnerBase
<1>8. OuterBase' = OuterBase
  BY <1>3, <1>7, Bases DEF OuterBase
<1>9. TypeOK'
  BY <1>1, <1>3, <1>6 DEF TypeOK
<1>10. NoLossNoReorder'
  BY <1>1, <1>2, <1>3, <1>6, <1>7, <1>8 DEF NoLossNoReorder
<1>11. OtherInvs'
  BY <1>1, <1>6, Bases DEF OtherInvs, InnerExclusive, PopReady, AsleepInWait, NoLostWakeup, IsEmpty
<1> QED
  BY <1>9, <1>10, <1>11

\* pop_front: the oldest undispatched message passes from the local ring into the hand.
LEMMA LogicPopIInv == IInv /\ LogicPop => IInv'
<1> SUFFICES ASSUME IInv, LogicPop PROVE IInv'
  OBVIOUS
<1> USE DEF IInv, OtherInvs
<1>1. /\ lpc = "pop" /\ lpc' = "dispatch" /\ ~IsEmpty(local)
      /\ hand' = Front(local) /\ local' = PopFront(local)
      /\ UNCHANGED <<outer, inner, owner, waiting, mpc, received, accepted, dispatched>>
  BY DEF LogicPop, history, PopReady
<1>2. InHand = 0 /\ InHand' = 1
  BY <1>1 DEF InHand
<1>3. LocalBase = Len(dispatched) /\ LocalBase' = LocalBase + 1
  BY <1>1, <1>2, Bases DEF LocalBase
<1>4. /\ local' \in Ring
      /\ local'.size = local.size - 1
      /\ Holds(local', accepted, LocalBase + 1)
      /\ Front(local) = accepted[LocalBase + 1]
  BY <1>1, HoldsPop, Bases DEF NoLossNoReorder
<1>5. LocalBase + 1 \in 1 .. Len(accepted)
  <2>1. /\ LocalBase \in Nat /\ InnerBase \in Nat /\ Len(accepted) \in Nat
        /\ OuterBase \in Nat /\ local.size \in Nat
    BY Bases
  <2>2. LocalBase + local.size = InnerBase /\ InnerBase <= OuterBase
    BY BaseOrder
  <2>3. OuterBase <= Len(accepted)
    BY BaseOrder
  <2>4. local.size # 0
    BY <1>1 DEF IsEmpty
  <2> HIDE DEF IInv
  <2> QED
    BY <2>1, <2>2, <2>3, <2>4
<1>6. Front(local) \in Item
  BY <1>4, <1>5 DEF TypeOK
<1>7. InnerBase' = InnerBase /\ OuterBase' = OuterBase
  <2>1. InnerBase' = LocalBase' + local'.size
    BY DEF InnerBase
  <2>2. InnerBase' = InnerBase
    <3>1. LocalBase \in Nat /\ local.size \in Nat /\ InnerBase = LocalBase + local.size
      BY Bases DEF InnerBase
    <3> HIDE DEF IInv
    <3> QED
      BY <1>3, <1>4, <2>1, <3>1
  <2> QED
    BY <1>1, <2>2 DEF OuterBase
<1>8. TypeOK'
  BY <1>1, <1>4, <1>6 DEF TypeOK, LogicPc
<1>9. NoLossNoReorder'
  BY <1>1, <1>3, <1>4, <1>7 DEF NoLossNoReorder
<1>10. OtherInvs'
  BY <1>1 DEF OtherInvs, InnerExclusive, PopReady, AsleepInWait, NoLostWakeup
<1> QED
  BY <1>8, <1>9, <1>10

\* Dispatching moves the message in hand to the end of what was dispatched.
LEMMA LogicDispatchIInv == IInv /\ LogicDispatch => IInv'
<1> SUFFICES ASSUME IInv, LogicDispatch PROVE IInv'
  OBVIOUS
<1> USE DEF IInv, OtherInvs
<1>1. /\ lpc = "dispatch" /\ lpc' = IF IsEmpty(local) THEN "lock" ELSE "pop"
      /\ hand' = NULL /\ dispatched' = Append(dispatched, hand)
      /\ UNCHANGED <<outer, inner, local, owner, waiting, mpc, received, accepted>>
  BY DEF LogicDispatch, rings
<1>2. InHand = 1 /\ InHand' = 0
  BY <1>1 DEF InHand
<1>3. Len(dispatched) + 1 \in 1 .. Len(accepted)
  <2>1. PICK n, a, b, c, d \in Nat :
          /\ n = Len(dispatched)
          /\ a = LocalBase /\ b = InnerBase /\ c = OuterBase /\ d = Len(accepted)
    BY Bases
  <2>2. n + 1 = a /\ a <= b /\ b <= c /\ c <= d
    BY <1>2, <2>1, BaseOrder
  <2> QED
    BY <2>1, <2>2
<1>4. hand = accepted[Len(dispatched) + 1] /\ hand \in Item
  BY <1>1, <1>3 DEF NoLossNoReorder, TypeOK
<1>5. /\ dispatched' \in Seq(Item)
      /\ Len(dispatched') = Len(dispatched) + 1
      /\ dispatched'[Len(dispatched) + 1] = hand
      /\ \A k \in 1 .. Len(dispatched) : dispatched'[k] = dispatched[k]
  BY <1>1, <1>4 DEF TypeOK
<1>6. LocalBase' = LocalBase /\ InnerBase' = InnerBase /\ OuterBase' = OuterBase
  BY <1>1, <1>2, <1>5, Bases DEF LocalBase, InnerBase, OuterBase
<1>7. TypeOK'
  BY <1>1, <1>5 DEF TypeOK, LogicPc
<1>8. \A k \in 1 .. Len(dispatched') : dispatched'[k] = accepted[k]
  <2> TAKE k \in 1 .. Len(dispatched')
  <2>1. k \in 1 .. Len(dispatched) \/ k = Len(dispatched) + 1
    BY <1>5, Bases
  <2> QED
    BY <1>4, <1>5, <2>1 DEF NoLossNoReorder
<1>9. NoLossNoReorder'
  BY <1>1, <1>6, <1>8 DEF NoLossNoReorder
<1>10. OtherInvs'
  BY <1>1 DEF OtherInvs, InnerExclusive, PopReady, AsleepInWait, NoLostWakeup
<1> QED
  BY <1>7, <1>9, <1>10

\* The steps that move no message.
LEMMA ControlIInv ==
  ASSUME IInv,
         \/ BatchDone \/ HaveMessage \/ NotifyLock \/ NotifyAppendDone \/ Notify
         \/ LogicLock \/ LogicWait \/ LogicGo \/ LogicWoken \/ LogicUnlock
         \/ SpuriousWakeup \/ UNCHANGED vars
  PROVE  IInv'
<1> USE DEF IInv, OtherInvs
<1>1. UNCHANGED <<outer, inner, local, hand, received, accepted, dispatched>>
  BY DEF BatchDone, HaveMessage, NotifyLock, NotifyAppendDone, Notify, LogicLock,
         LogicWait, LogicGo, LogicWoken, LogicUnlock, SpuriousWakeup, vars, rings, history
<1>2. lpc' = "dispatch" <=> lpc = "dispatch"
  BY DEF BatchDone, HaveMessage, NotifyLock, NotifyAppendDone, Notify, LogicLock,
         LogicWait, LogicGo, LogicWoken, LogicUnlock, SpuriousWakeup, vars
<1>3. /\ owner' \in {"none", "msg", "logic"} /\ waiting' \in BOOLEAN
      /\ mpc' \in MsgPc /\ lpc' \in LogicPc
  BY DEF BatchDone, HaveMessage, NotifyLock, NotifyAppendDone, Notify, LogicLock,
         LogicWait, LogicGo, LogicWoken, LogicUnlock, SpuriousWakeup, vars,
         TypeOK, MsgPc, LogicPc
<1>4. TypeOK'
  BY <1>1, <1>3 DEF TypeOK
<1>5. NoLossNoReorder'
  <2>1. InHand' = InHand
    BY <1>2 DEF InHand
  <2>2. LocalBase' = LocalBase /\ InnerBase' = InnerBase /\ OuterBase' = OuterBase
    BY <1>1, <2>1 DEF LocalBase, InnerBase, OuterBase
  <2> QED
    BY <1>1, <1>2, <2>2 DEF NoLossNoReorder
<1>6. InnerExclusive'
  BY DEF BatchDone, HaveMessage, NotifyLock, NotifyAppendDone, Notify, LogicLock,
         LogicWait, LogicGo, LogicWoken, LogicUnlock, SpuriousWakeup, vars, InnerExclusive
<1>7. PopReady'
  BY <1>1, CapacityAssumption, RingSize
  DEF BatchDone, HaveMessage, NotifyLock, NotifyAppendDone, Notify, LogicLock,
      LogicWait, LogicGo, LogicWoken, LogicUnlock, SpuriousWakeup, vars,
      PopReady, TypeOK, IsEmpty, IsFull
<1>8. AsleepInWait' /\ NoLostWakeup'
  BY <1>1
  DEF BatchDone, HaveMessage, NotifyLock, NotifyAppendDone, Notify, LogicLock,
      LogicWait, LogicGo, LogicWoken, LogicUnlock, SpuriousWakeup, vars,
      AsleepInWait, NoLostWakeup, TypeOK, IsEmpty
<1> QED
  BY <1>4, <1>5, <1>6, <1>7, <1>8

LEMMA NextIInv == IInv /\ [Next]_vars => IInv'
BY SetMessageIInv, NotifyAppendIInv, LogicAppendIInv, LogicPopIInv, LogicDispatchIInv,
   ControlIInv
DEF Next, MsgThread, LogicRun

\* The variables stay in their types whatever the threads do.
THEOREM TypeCorrect == Spec => []TypeOK
<1>1. IInv => TypeOK
  BY DEF IInv
<1> QED
  BY <1>1, InitIInv, NextIInv, PTL DEF Spec

\* No accepted message is ever lost, duplicated or overtaken on its way from
\* SetMessage to DispatchModuleMessage.
THEOREM HandoffKeepsOrder == Spec => []NoLossNoReorder
<1>1. IInv => NoLossNoReorder
  BY DEF IInv
<1> QED
  BY <1>1, InitIInv, NextIInv, PTL DEF Spec

\* Only one thread at a time is inside m_msg_queue_inner.
THEOREM InnerIsExclusive == Spec => []InnerExclusive
<1>1. IInv => InnerExclusive
  BY DEF IInv
<1> QED
  BY <1>1, InitIInv, NextIInv, PTL DEF Spec

\* The logic thread never stays blocked on messages it was not told of.
THEOREM WakeupNotLost == Spec => []NoLostWakeup
<1>1. IInv => NoLostWakeup
  BY DEF IInv
<1> QED
  BY <1>1, InitIInv, NextIInv, PTL DEF Spec

-----------------------------------------------------------------------------

\* Every step of the two threads is a step of the bounded FIFO, or invisible to it.
LEMMA StepRefines == IInv /\ [Next]_vars => [Fifo!FifoNext]_(Fifo!fifoVars)
<1> SUFFICES ASSUME IInv, [Next]_vars
             PROVE  Fifo!FifoNext \/ UNCHANGED <<received, accepted, dispatched>>
  BY DEF Fifo!fifoVars
<1>0. TypeOK /\ NoLossNoReorder
  BY DEF IInv
<1>1. CASE SetMessage /\ IsFull(outer)
  <2>1. Len(accepted) - Len(dispatched) >= Capacity
    <3>1. /\ LocalBase \in Nat /\ OuterBase \in Nat /\ outer.size \in Nat
          /\ Len(dispatched) \in Nat /\ InHand \in Nat
      BY <1>0, Bases
    <3>2. /\ OuterBase + outer.size = Len(accepted)
          /\ Len(dispatched) + InHand = LocalBase
      BY <1>0, BaseOrder
    <3>3. LocalBase <= OuterBase
      <4>1. LocalBase \in Nat /\ InnerBase \in Nat /\ OuterBase \in Nat
        BY <1>0, Bases
      <4>2. LocalBase <= InnerBase /\ InnerBase <= OuterBase
        BY <1>0, BaseOrder
      <4> QED
        BY <4>1, <4>2
    <3>4. outer.size >= Capacity
      BY <1>1 DEF IsFull
    <3> QED
      BY <3>1, <3>2, <3>3, <3>4, CapacityAssumption
  <2> QED
    BY <1>1, <2>1 DEF SetMessage, Fifo!FifoNext, Fifo!Refuse, Fifo!Backlog
<1>2. CASE SetMessage /\ ~IsFull(outer)
  BY <1>2 DEF SetMessage, Fifo!FifoNext, Fifo!Accept
<1>3. CASE LogicDispatch
  <2>1. hand = accepted[Len(dispatched) + 1]
    BY <1>0, <1>3 DEF NoLossNoReorder, LogicDispatch
  <2>2. Len(accepted) - Len(dispatched) > 0
    <3>1. /\ LocalBase \in Nat /\ OuterBase \in Nat /\ InnerBase \in Nat
          /\ Len(dispatched) \in Nat /\ Len(accepted) \in Nat
      BY <1>0, Bases
    <3>2. /\ LocalBase <= InnerBase /\ InnerBase <= OuterBase /\ OuterBase <= Len(accepted)
          /\ Len(dispatched) + 1 = LocalBase
      BY <1>0, <1>3, BaseOrder DEF LogicDispatch, InHand
    <3> QED
      BY <3>1, <3>2
  <2> QED
    BY <1>3, <2>1, <2>2 DEF LogicDispatch, Fifo!FifoNext, Fifo!Dispatch, Fifo!Backlog
<1>4. CASE ~SetMessage /\ ~LogicDispatch
  BY <1>4
  DEF Next, MsgThread, LogicRun, BatchDone, HaveMessage, NotifyLock, NotifyAppend,
      NotifyAppendDone, Notify, LogicLock, LogicWait, LogicGo, LogicWoken, LogicAppend,
      LogicUnlock, LogicPop, SpuriousWakeup, vars, history
<1> QED
  BY <1>1, <1>2, <1>3, <1>4

\* Whatever the capacity, the two rings, the lock and the condition variable together
\* behave as one bounded FIFO between SetMessage and DispatchModuleMessage.
THEOREM HandoffIsFifo == Spec => Fifo!FifoSpec
<1>1. Init => Fifo!FifoInit
  BY DEF Init, Fifo!FifoInit
<1>2. Spec => []IInv
  BY InitIInv, NextIInv, PTL DEF Spec
<1> QED
  BY <1>1, <1>2, StepRefines, PTL DEF Spec, Fifo!FifoSpec
=============================================================================
