--------------------------- MODULE WioQueue_proofs ---------------------------
(***************************************************************************)
(* Proofs about the WIO queue for every capacity and every item type: the  *)
(* cursor invariant and the implementation of a bounded FIFO.              *)
(***************************************************************************)
EXTENDS WioQueue, SequenceTheorems, TLAPS

\* The inductive invariant: the types, and the relation between the cursors.
IndInv == TypeOK /\ CursorsAgree

-----------------------------------------------------------------------------
\* Offsets from a slot stay inside the ring: wherever the read cursor is, the
\* i-th queued item is in one of the slots malloc returned.
LEMMA OffsetInSlots ==
  \A s \in Slots, i \in 0 .. Capacity - 1 : Offset(s, i) \in Slots
BY CapacityAssumption DEF Offset, Slots

\* The first fewer-than-capacity offsets name different slots, so two queued
\* items never share one.
LEMMA OffsetInjective ==
  \A s \in Slots, i, j \in 0 .. Capacity - 1 :
    Offset(s, i) = Offset(s, j) => i = j
BY CapacityAssumption DEF Offset, Slots

\* Moving the start one slot on and going one place less far is the same slot:
\* why a pop, which advances end, shifts the content by one.
LEMMA OffsetShift ==
  \A s \in Slots, i \in 1 .. Capacity - 1 :
    Offset(NextIndex(s), i - 1) = Offset(s, i)
BY CapacityAssumption DEF Offset, Slots, NextIndex

-----------------------------------------------------------------------------

\* wio_queue_init.
LEMMA InitEstablishes == Init => IndInv
BY CapacityAssumption, ItemAssumption
   DEF Init, IndInv, TypeOK, CursorsAgree, Offset, Slots

\* Every operation of queue.c keeps the cursors in range and in step.
LEMMA StepPreserves == IndInv /\ [Next]_vars => IndInv'
<1> SUFFICES ASSUME IndInv, [Next]_vars PROVE IndInv'
  OBVIOUS
<1> USE CapacityAssumption DEF IndInv, TypeOK, Slots
<1>1. CASE \E x \in Item : PushFull(x)
  BY <1>1 DEF PushFull, CursorsAgree, Offset
<1>2. ASSUME NEW x \in Item, PushStore(x) PROVE IndInv'
  <2>1. TypeOK'
    BY <1>2 DEF PushStore, NextIndex
  <2>2. CursorsAgree'
    BY <1>2 DEF PushStore, CursorsAgree, Offset, NextIndex
  <2>3. QED
    BY <2>1, <2>2
<1>3. CASE PopEmpty
  BY <1>3 DEF PopEmpty, CursorsAgree, Offset
<1>4. ASSUME NEW wanted \in BOOLEAN, PopTake(wanted) PROVE IndInv'
  <2>1. TypeOK'
    BY <1>4 DEF PopTake, NextIndex, Oldest
  <2>2. CursorsAgree'
    BY <1>4 DEF PopTake, CursorsAgree, Offset, NextIndex
  <2>3. QED
    BY <2>1, <2>2
<1>5. CASE UNCHANGED vars
  BY <1>5 DEF vars, CursorsAgree, Offset
<1>6. QED
  BY <1>1, <1>2, <1>3, <1>4, <1>5 DEF Next

\* The types and the agreement of the cursors hold in every state, whatever
\* pushes and pops the program makes (queue.c:45-91).
THEOREM InvariantHolds == Spec => []IndInv
BY InitEstablishes, StepPreserves, PTL DEF Spec

\* For every capacity, the cursors index slots that malloc returned, the size
\* never passes the capacity, and a pop returns an item that was stored.
THEOREM TypeAlwaysOK == Spec => []TypeOK
<1>1. IndInv => TypeOK
  BY DEF IndInv
<1> QED BY <1>1, InvariantHolds, PTL

\* For every capacity, the write cursor is always exactly size slots after
\* the read cursor (queue.c:58-62, 84-88).
THEOREM CursorsAlwaysAgree == Spec => []CursorsAgree
BY InvariantHolds, PTL DEF IndInv

-----------------------------------------------------------------------------
\* n slots read from slot s on form a sequence of n items.
LEMMA RingIsSeq ==
  ASSUME NEW d \in [Slots -> Item], NEW s \in Slots, NEW n \in 0 .. Capacity
  PROVE  /\ Ring(d, s, n) \in Seq(Item)
         /\ Len(Ring(d, s, n)) = n
         /\ \A i \in 1 .. n : Ring(d, s, n)[i] = d[Offset(s, i - 1)]
<1>1. n \in Nat /\ \A i \in 1 .. n : i - 1 \in 0 .. Capacity - 1
  BY CapacityAssumption
<1>2. \A i \in 1 .. n : Offset(s, i - 1) \in Slots
  BY <1>1, OffsetInSlots
<1>3. \A i \in 1 .. n : d[Offset(s, i - 1)] \in Item
  BY <1>2
<1>4. QED
  BY <1>1, <1>3 DEF Ring

\* Writing the slot behind n items appends to them: it is none of theirs.
LEMMA RingPush ==
  ASSUME NEW d \in [Slots -> Item], NEW s \in Slots, NEW n \in 0 .. Capacity - 1,
         NEW x \in Item
  PROVE  Ring([d EXCEPT ![Offset(s, n)] = x], s, n + 1) = Append(Ring(d, s, n), x)
<1> DEFINE e == [d EXCEPT ![Offset(s, n)] = x]
           new == Ring(e, s, n + 1)
           old == Ring(d, s, n)
<1>1. Offset(s, n) \in Slots /\ n + 1 \in 0 .. Capacity /\ n \in 0 .. Capacity
  BY OffsetInSlots, CapacityAssumption
<1>2. e \in [Slots -> Item]
  BY <1>1
<1>3. /\ new \in Seq(Item)
      /\ Len(new) = n + 1
      /\ \A i \in 1 .. n + 1 : new[i] = e[Offset(s, i - 1)]
  <2> HIDE DEF e
  <2> QED
    BY <1>1, <1>2, RingIsSeq
<1>4. /\ old \in Seq(Item)
      /\ Len(old) = n
      /\ \A i \in 1 .. n : old[i] = d[Offset(s, i - 1)]
  BY <1>1, RingIsSeq
<1>5. /\ Append(old, x) \in Seq(Item)
      /\ Len(Append(old, x)) = n + 1
      /\ \A i \in 1 .. n : Append(old, x)[i] = old[i]
      /\ Append(old, x)[n + 1] = x
  <2> HIDE DEF old
  <2> QED
    BY <1>4
<1>6. ASSUME NEW i \in 1 .. n + 1 PROVE new[i] = Append(old, x)[i]
  <2>1. CASE i = n + 1
    <3>1. e[Offset(s, n)] = x
      BY <1>1
    <3>2. i - 1 = n
      BY <2>1
    <3>3. QED
      BY <1>3, <1>5, <2>1, <3>1, <3>2
  <2>2. CASE i # n + 1
    <3>1. i \in 1 .. n /\ i - 1 \in 0 .. Capacity - 1 /\ i - 1 # n
      BY <2>2, CapacityAssumption
    <3>2. Offset(s, i - 1) \in Slots /\ Offset(s, i - 1) # Offset(s, n)
      BY <3>1, OffsetInSlots, OffsetInjective
    <3>3. e[Offset(s, i - 1)] = d[Offset(s, i - 1)]
      BY <3>2
    <3>4. QED
      BY <1>3, <1>4, <1>5, <3>1, <3>3
  <2>3. QED
    BY <2>1, <2>2
<1>7. QED
  <2> HIDE DEF new, old
  <2> new = Append(old, x)
    BY <1>3, <1>5, <1>6, SeqEqual
  <2> QED
    BY DEF new, old

\* Advancing the start by one slot drops the first of the n items.
LEMMA RingPop ==
  ASSUME NEW d \in [Slots -> Item], NEW s \in Slots, NEW n \in 1 .. Capacity
  PROVE  /\ Ring(d, s, n) # <<>>
         /\ Head(Ring(d, s, n)) = d[s]
         /\ Ring(d, NextIndex(s), n - 1) = Tail(Ring(d, s, n))
<1> DEFINE old == Ring(d, s, n)
           new == Ring(d, NextIndex(s), n - 1)
<1>1. /\ n \in 0 .. Capacity
      /\ n - 1 \in 0 .. Capacity
      /\ NextIndex(s) \in Slots
  BY CapacityAssumption DEF NextIndex, Slots
<1>2. /\ old \in Seq(Item)
      /\ Len(old) = n
      /\ \A i \in 1 .. n : old[i] = d[Offset(s, i - 1)]
  BY <1>1, RingIsSeq
<1>3. /\ new \in Seq(Item)
      /\ Len(new) = n - 1
      /\ \A i \in 1 .. n - 1 : new[i] = d[Offset(NextIndex(s), i - 1)]
  BY <1>1, RingIsSeq
<1> HIDE DEF old, new
<1>4. old # <<>>
  BY <1>2
<1>5. Head(old) = d[s]
  <2>1. Offset(s, 0) = s
    BY CapacityAssumption DEF Offset, Slots
  <2>2. old[1] = d[Offset(s, 0)]
    BY <1>2
  <2>3. QED
    BY <1>2, <1>4, <2>1, <2>2
<1>6. /\ Tail(old) \in Seq(Item)
      /\ Len(Tail(old)) = n - 1
      /\ \A i \in 1 .. n - 1 : Tail(old)[i] = old[i + 1]
  BY <1>2, <1>4, HeadTailProperties
<1>7. ASSUME NEW i \in 1 .. n - 1 PROVE new[i] = Tail(old)[i]
  <2>1. i \in 1 .. Capacity - 1 /\ i + 1 \in 1 .. n /\ (i + 1) - 1 = i
    BY CapacityAssumption
  <2>2. Offset(NextIndex(s), i - 1) = Offset(s, i)
    BY <2>1, OffsetShift
  <2>3. QED
    BY <1>2, <1>3, <1>6, <2>1, <2>2
<1>8. new = Tail(old)
  BY <1>3, <1>6, <1>7, SeqEqual
<1>9. QED
  BY <1>4, <1>5, <1>8 DEF old, new

-----------------------------------------------------------------------------
\* The peek macros read the two ends of the queue (queue.h:9-14), whatever
\* the capacity and wherever the cursors are.
THEOREM PeekAlwaysAgrees == Spec => []PeekAgrees
<1>1. IndInv => PeekAgrees
  <2> SUFFICES ASSUME IndInv, size > 0
               PROVE  Newest = Content[size] /\ Oldest = Content[1]
    BY DEF PeekAgrees
  <2>1. Content[size] = data[Offset(end, size - 1)] /\ Content[1] = data[Offset(end, 0)]
    BY RingIsSeq DEF IndInv, TypeOK, Content
  <2>2. Offset(end, size - 1) = IF begin = 0 THEN Capacity - 1 ELSE begin - 1
    BY CapacityAssumption DEF IndInv, TypeOK, Slots, CursorsAgree, Offset
  <2>3. Offset(end, 0) = end
    BY CapacityAssumption DEF IndInv, TypeOK, Slots, Offset
  <2>4. QED
    BY <2>1, <2>2, <2>3 DEF Newest, Oldest
<1>2. QED
  BY <1>1, InvariantHolds, PTL

\* The circular queue of queue.c implements a bounded FIFO queue: for every
\* capacity and item type, every push and pop is one of the FIFO's, with the
\* same status and the same item returned.
THEOREM QueueImplementsFifo == Spec => ImplementsFifo
<1>1. Init => Fifo!FifoInit
  BY DEF Init, Fifo!FifoInit, Content, Ring
<1>2. IndInv /\ [Next]_vars => [Fifo!FifoNext]_(Fifo!fifoVars)
  <2> SUFFICES ASSUME IndInv, [Next]_vars
               PROVE  [Fifo!FifoNext]_(Fifo!fifoVars)
    OBVIOUS
  <2>1. /\ data \in [Slots -> Item]
        /\ end \in Slots
        /\ size \in 0 .. Capacity
        /\ Capacity \in Nat
    BY CapacityAssumption DEF IndInv, TypeOK
  <2>2. Len(Content) = size /\ (size = 0 => Content = <<>>)
    BY <2>1, RingIsSeq DEF Content
  <2>3. UNCHANGED <<data, end, size>> => Content' = Content
    BY DEF Content, Ring, Offset
  <2>4. ASSUME NEW x \in Item, PushFull(x) PROVE Fifo!FifoPush(x)
    BY <2>1, <2>2, <2>3, <2>4 DEF PushFull, Fifo!FifoPush
  <2>5. ASSUME NEW x \in Item, PushStore(x) PROVE Fifo!FifoPush(x)
    <3>1. begin = Offset(end, size) /\ size \in 0 .. Capacity - 1
      BY <2>1, <2>5 DEF PushStore, IndInv, CursorsAgree
    <3>2. Content' = Ring([data EXCEPT ![begin] = x], end, size + 1)
      BY <2>5 DEF PushStore, Content, Ring, Offset
    <3>3. Content' = Append(Content, x)
      BY <2>1, <3>1, <3>2, RingPush DEF Content
    <3>4. QED
      BY <2>1, <2>2, <2>5, <3>3 DEF PushStore, Fifo!FifoPush
  <2>6. ASSUME PopEmpty PROVE Fifo!FifoPop(TRUE)
    BY <2>2, <2>3, <2>6 DEF PopEmpty, Fifo!FifoPop
  <2>7. ASSUME NEW wanted \in BOOLEAN, PopTake(wanted) PROVE Fifo!FifoPop(wanted)
    <3>1. size \in 1 .. Capacity
      BY <2>1, <2>7 DEF PopTake
    <3>2. Content' = Ring(data, NextIndex(end), size - 1)
      BY <2>7 DEF PopTake, Content, Ring, Offset
    <3>3. Content # <<>> /\ Content' = Tail(Content) /\ Oldest = Head(Content)
      BY <2>1, <3>1, <3>2, RingPop DEF Content, Oldest
    <3>4. QED
      BY <2>7, <3>3 DEF PopTake, Fifo!FifoPop
  <2>8. CASE UNCHANGED vars
    BY <2>3, <2>8 DEF vars, Fifo!fifoVars
  <2>9. QED
    BY <2>4, <2>5, <2>6, <2>7, <2>8 DEF Next, Fifo!FifoNext
<1>3. QED
  BY <1>1, <1>2, InvariantHolds, PTL DEF Spec, ImplementsFifo, Fifo!FifoSpec
=============================================================================
