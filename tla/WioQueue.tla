------------------------------ MODULE WioQueue ------------------------------
(***************************************************************************)
(* The WIO circular queue, client/wisp-base/wio/queue.{h,c}.               *)
(*                                                                         *)
(* The code's names are swapped with respect to common usage: `begin' is   *)
(* where the next item is WRITTEN and `end' is where the oldest item is    *)
(* READ.  malloc leaves the slots uninitialised, so every content of the   *)
(* slots is an initial state.                                              *)
(***************************************************************************)
EXTENDS Naturals, Sequences

CONSTANTS
  Item,       \* what the queue stores (item_size bytes in the code)
  NoItem,     \* nothing was copied out
  Capacity    \* number of slots, a uint16_t

ASSUME CapacityAssumption == Capacity \in Nat \ {0} /\ Capacity <= 65535
ASSUME ItemAssumption == Item # {} /\ NoItem \notin Item

VARIABLES
  data,       \* the slots
  begin,      \* index the next push writes
  end,        \* index the next pop reads
  size,       \* number of items
  ret         \* what the last operation returned to its caller

vars == <<data, begin, end, size, ret>>

Slots == 0 .. Capacity - 1

\* Mutants of the definitions below: the wrap of a cursor one slot late, the
\* newest item taken for the one after it, the oldest for the one after it, and
\* a pop that forgets to count.
LateWrap(i) == IF i + 1 > Capacity THEN 0 ELSE i + 1
NewestAtBegin == data[begin]
OldestSkipped == data[IF end + 1 >= Capacity THEN 0 ELSE end + 1]
PopUncounted(wanted) ==
  /\ size # 0
  /\ ret' = [status |-> "ok", item |-> IF wanted THEN data[end] ELSE NoItem]
  /\ end' = IF end + 1 >= Capacity THEN 0 ELSE end + 1
  /\ UNCHANGED <<data, begin, size>>

\* The wrapping increment both cursors use, queue.c:58-60 and 84-86.
NextIndex(i) == IF i + 1 >= Capacity THEN 0 ELSE i + 1

\* WIO_QUEUE_BEGIN: the item pushed last.
Newest == data[IF begin = 0 THEN Capacity - 1 ELSE begin - 1]

\* WIO_QUEUE_END: the oldest item.
Oldest == data[end]

-----------------------------------------------------------------------------
Init ==
  /\ data \in [Slots -> Item]
  /\ begin = 0
  /\ end = 0
  /\ size = 0
  /\ ret = [status |-> "ok", item |-> NoItem]

PushFull(x) ==
  /\ size >= Capacity
  /\ ret' = [status |-> "no_memory", item |-> NoItem]
  /\ UNCHANGED <<data, begin, end, size>>

PushStore(x) ==
  /\ size < Capacity
  /\ data' = [data EXCEPT ![begin] = x]
  /\ begin' = NextIndex(begin)
  /\ size' = size + 1
  /\ ret' = [status |-> "ok", item |-> NoItem]
  /\ UNCHANGED end

PopEmpty ==
  /\ size = 0
  /\ ret' = [status |-> "empty", item |-> NoItem]
  /\ UNCHANGED <<data, begin, end, size>>

\* wanted is FALSE when the caller passes NULL, as wtp_load_read_mem does.
PopTake(wanted) ==
  /\ size # 0
  /\ ret' = [status |-> "ok", item |-> IF wanted THEN Oldest ELSE NoItem]
  /\ end' = NextIndex(end)
  /\ size' = size - 1
  /\ UNCHANGED <<data, begin>>

Next ==
  \/ \E x \in Item : PushFull(x) \/ PushStore(x)
  \/ PopEmpty
  \/ \E wanted \in BOOLEAN : PopTake(wanted)

Spec == Init /\ [][Next]_vars

-----------------------------------------------------------------------------
TypeOK ==
  /\ data \in [Slots -> Item]
  /\ begin \in Slots
  /\ end \in Slots
  /\ size \in 0 .. Capacity
  /\ ret \in [status : {"ok", "no_memory", "empty"}, item : Item \cup {NoItem}]

\* Index of the slot i places after slot s, i being less than Capacity.
Offset(s, i) == IF s + i < Capacity THEN s + i ELSE s + i - Capacity

\* The n items that slots d hold from slot s on.
Ring(d, s, n) == [i \in 1 .. n |-> d[Offset(s, i - 1)]]

\* The queued items, the oldest first: the refinement mapping.
Content == Ring(data, end, size)

\* The three cursors agree: begin is size places after end.  It is what tells
\* a full queue from an empty one, as both have begin = end.
CursorsAgree == begin = IF size = Capacity THEN end ELSE Offset(end, size)

\* The two peek macros of queue.h read the two ends of the queue.  endpoint.c
\* and transmission.c write through the pointers these macros give them.
PeekAgrees ==
  size > 0 => /\ Newest = Content[size]
              /\ Oldest = Content[1]

\* A WIO queue is a bounded first-in first-out queue: nothing is lost,
\* duplicated or reordered, also after both cursors have wrapped.
Fifo == INSTANCE BoundedFifo WITH items <- Content
ImplementsFifo == Fifo!FifoSpec
=============================================================================
