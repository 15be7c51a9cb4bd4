----------------------------- MODULE BoundedFifo -----------------------------
(***************************************************************************)
(* What a WIO queue promises its users (client/wisp-base/wio/queue.h): a   *)
(* first-in first-out queue of at most Capacity items.  A push on a full   *)
(* queue and a pop on an empty one change nothing and say so.              *)
(***************************************************************************)
EXTENDS Naturals, Sequences

CONSTANTS
  Item,       \* what the queue stores
  NoItem,     \* "nothing was handed out": the caller passed NULL, or an error
  Capacity    \* number of slots

VARIABLES
  items,      \* the queued items, the oldest first
  ret         \* what the last operation returned to its caller

fifoVars == <<items, ret>>

FifoInit ==
  /\ items = <<>>
  /\ ret = [status |-> "ok", item |-> NoItem]

FifoPush(x) ==
  \/ /\ Len(items) < Capacity
     /\ items' = Append(items, x)
     /\ ret' = [status |-> "ok", item |-> NoItem]
  \/ /\ Len(items) = Capacity
     /\ items' = items
     /\ ret' = [status |-> "no_memory", item |-> NoItem]

FifoPop(wanted) ==
  \/ /\ items # <<>>
     /\ items' = Tail(items)
     /\ ret' = [status |-> "ok",
                item   |-> IF wanted THEN Head(items) ELSE NoItem]
  \/ /\ items = <<>>
     /\ items' = items
     /\ ret' = [status |-> "empty", item |-> NoItem]

FifoNext ==
  \/ \E x \in Item : FifoPush(x)
  \/ \E wanted \in BOOLEAN : FifoPop(wanted)

FifoSpec == FifoInit /\ [][FifoNext]_fifoVars
=============================================================================
