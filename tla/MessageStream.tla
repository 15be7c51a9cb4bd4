---------------------------- MODULE MessageStream ----------------------------
(***************************************************************************)
(* What one direction of a WTP connection promises the two applications:   *)
(* messages arrive whole, in the order they were sent and exactly once,    *)
(* and a sender is told that a message is through only when it is.         *)
(* Messages are numbered in the order in which they are sent.              *)
(***************************************************************************)
EXTENDS Naturals, Sequences

CONSTANT NMessages    \* the application sends at most this many

VARIABLES
  sent,        \* how many messages the sending application has handed over
  delivered,   \* the messages the receiving application got, in order
  resolved     \* the messages the sender was told are through, in order

streamVars == <<sent, delivered, resolved>>

\* The first n messages, in order.
FirstMessages(n) == [i \in 1 .. n |-> i]

StreamInit == sent = 0 /\ delivered = <<>> /\ resolved = <<>>

StreamSend ==
  /\ sent < NMessages
  /\ sent' = sent + 1
  /\ UNCHANGED <<delivered, resolved>>

\* Several messages may become complete with one packet.
StreamDeliver ==
  /\ \E n \in Len(delivered) + 1 .. sent : delivered' = FirstMessages(n)
  /\ UNCHANGED <<sent, resolved>>

\* Several messages may be acknowledged at once.
StreamResolve ==
  /\ \E n \in Len(resolved) + 1 .. Len(delivered) : resolved' = FirstMessages(n)
  /\ UNCHANGED <<sent, delivered>>

StreamNext == StreamSend \/ StreamDeliver \/ StreamResolve

StreamSpec == StreamInit /\ [][StreamNext]_streamVars

\* What the promise amounts to: both sequences are 1, 2, 3, ... and nothing is
\* resolved before it is delivered, or delivered before it is sent.
InOrderExactlyOnce ==
  /\ delivered = FirstMessages(Len(delivered))
  /\ resolved = FirstMessages(Len(resolved))
  /\ Len(resolved) <= Len(delivered)
  /\ Len(delivered) <= sent
=============================================================================
