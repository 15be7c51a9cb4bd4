------------------------------ MODULE ServerTx ------------------------------
(***************************************************************************)
(* SlidingWindowTxControl, server/wtp/wtp/transmission.py: the downlink's  *)
(* transmit control.  The object is a record and each method an operator   *)
(* that returns the object after the call, with the method's result.       *)
(*                                                                         *)
(* Two details of the Python code are kept because they decide what the    *)
(* connection does next:                                                   *)
(*  - a slice cut by the window makes _msg_fragmented a CyclicInt, and     *)
(*    int - CyclicInt raises TypeError in the next _make_fragment;         *)
(*  - get_write_data clears a fragment's need_send flag before it knows    *)
(*    that the fragment fits.                                              *)
(***************************************************************************)
EXTENDS WtpParams

\* TxFragment: bytes off .. off+len-1 of message msg, at sequence number seq.
\* timer is the state of the Deferred d and of its timeout.
TxFragmentType ==
  [seq : 0 .. SeqSpace - 1, msgSize : Nat, msg : Message, off : Nat, len : Nat,
   needSend : BOOLEAN, timer : {"none", "armed", "fired"}]

\* Control packets (size is what len(packet) counts, val the number that an ACK
\* or a SET_PARAM carries) and data packets.
CtrlPacketType == [type : {"open", "ack", "setParam"}, size : Nat, val : Int]
CtrlPacket(type, size, val) == [type |-> type, size |-> size, val |-> val]
DataPacket(f) ==
  [type |-> "data", seq |-> f.seq, msgSize |-> f.msgSize,
   msg |-> f.msg, off |-> f.off, len |-> f.len]

\* SlidingWindowTxControl.__init__
NewTx ==
  [seq        |-> 0,      \* _seq_num: everything before it is acknowledged
   packets    |-> <<>>,   \* _packets: control packets to send
   messages   |-> <<>>,   \* _messages
   msgBegin   |-> 0,      \* _msg_begin
   fragmented |-> 0,      \* _msg_fragmented
   cyclic     |-> FALSE,  \* _msg_fragmented is a CyclicInt, not an int
   msgEnds    |-> <<>>,   \* _msg_ends
   fragments  |-> <<>>]   \* _fragments

\* The type of the object.
TxType ==
  [seq : 0 .. SeqSpace - 1, packets : Seq(CtrlPacketType), messages : Seq(Message),
   msgBegin : 0 .. SeqSpace - 1, fragmented : Nat, cyclic : BOOLEAN,
   msgEnds : Seq(0 .. SeqSpace - 1), fragments : Seq(TxFragmentType)]

\* A sequence number as the comparisons under `with self._seq_num.as_zero()'
\* see it: its distance from the acknowledged one.
Rel(tx, s) == SeqSub(s, tx.seq)

FragEnd(f) == SeqAdd(f.seq, f.len)

\* The end of what has been cut into fragments.
FragmentedEnd(tx) == SeqAdd(tx.msgBegin, tx.fragmented)

AddMsg(tx, i) == [tx EXCEPT !.messages = Append(@, i)]
AddPacket(tx, p) == [tx EXCEPT !.packets = Append(@, p)]

-----------------------------------------------------------------------------
\* Bytes of the window that are left from seq on.
WindowLeft(tx, seq) == SeqSub(tx.seq + Window, seq)

\* First half of _make_fragment: leave a message that is cut completely.
LoadNextMessage(tx) ==
  IF tx.fragmented < MsgSize[Head(tx.messages)] THEN tx
  ELSE LET end == SeqAdd(tx.msgBegin, MsgSize[Head(tx.messages)])
       IN [tx EXCEPT !.msgBegin = end, !.fragmented = 0, !.cyclic = FALSE,
                     !.msgEnds = Append(@, end), !.messages = Tail(@)]

\* _make_fragment(avail): kind is "frag" with the new fragment, "none" when no
\* byte can be sent now, "raised" for the TypeError of len(msg)-msg_fragmented.
MakeFragment(tx, avail) ==
  IF tx.messages = <<>> THEN [kind |-> "none", tx |-> tx]
  ELSE LET t == LoadNextMessage(tx) IN
    IF t.messages = <<>> THEN [kind |-> "none", tx |-> t]
    ELSE IF t.cyclic THEN [kind |-> "raised", tx |-> t]
    ELSE
      LET msg       == Head(t.messages)
          seq       == FragmentedEnd(t)
          maxAvail  == avail - (IF t.fragmented = 0 THEN 6 ELSE 4) - 1
          maxMsg    == MsgSize[msg] - t.fragmented
          maxWindow == WindowLeft(t, seq)
          len       == Min({maxAvail, maxMsg, maxWindow})
      IN IF len <= 0 THEN [kind |-> "none", tx |-> t]
         ELSE [kind |-> "frag",
               tx   |-> [t EXCEPT !.fragmented = @ + len,
                                  !.cyclic = maxWindow < Min({maxAvail, maxMsg})],
               frag |-> [seq      |-> seq,
                         msgSize  |-> IF t.fragmented = 0 THEN MsgSize[msg] ELSE 0,
                         msg      |-> msg,
                         off      |-> t.fragmented,
                         len      |-> len,
                         needSend |-> FALSE,
                         timer    |-> "none"]]

-----------------------------------------------------------------------------
\* How many of the control packets fit: the loop stops at the first one that
\* takes the estimate, which counts no checksum, over write_size.
AddSize(sum, p) == sum + p.size
PacketsSize(ps) == Fold(AddSize, 0, ps)
FittingPackets(ps, writeSize) ==
  LET tooLong == {k \in 1 .. Len(ps) : PacketsSize(SubSeq(ps, 1, k)) > writeSize}
  IN IF tooLong = {} THEN Len(ps) ELSE Min(tooLong) - 1

\* The writing of fragment i of t, the last part of a pass of the data loop of
\* get_write_data over its local state w.
WriteFragment(w, t, i) ==
  [w EXCEPT !.tx   = [t EXCEPT !.fragments[i].timer = "armed"],
            !.est  = @ + 4 + t.fragments[i].len,
            !.data = Append(@, DataPacket(t.fragments[i]))]

\* A pass that finds no fragment flagged for sending and tries to make one.
WriteNew(w, writeSize) ==
  LET Made(new) ==
        CASE new.kind = "none"   -> [w EXCEPT !.tx = new.tx, !.status = "done"]
          [] new.kind = "raised" -> [w EXCEPT !.tx = new.tx, !.status = "raised"]
          [] new.kind = "frag"   ->
               WriteFragment(w, [new.tx EXCEPT !.fragments = Append(@, new.frag)],
                             Len(new.tx.fragments) + 1)
  IN Strictly(Made, MakeFragment(w.tx, writeSize - w.est))

\* A pass that finds fragment i flagged.  The flag goes even if the fragment
\* does not fit.
WriteFlagged(w, i, writeSize) ==
  LET t == [w.tx EXCEPT !.fragments[i].needSend = FALSE]
  IN IF w.est + 4 + t.fragments[i].len > writeSize
     THEN [w EXCEPT !.tx = t, !.status = "done"]
     ELSE WriteFragment(w, t, i)

WriteStep(w, writeSize) ==
  LET flagged == {i \in DOMAIN w.tx.fragments : w.tx.fragments[i].needSend}
  IN CASE w.status # "building" -> w
       [] w.status = "building" /\ flagged = {} -> WriteNew(w, writeSize)
       [] w.status = "building" /\ flagged # {} ->
            WriteFlagged(w, Min(flagged), writeSize)

\* get_write_data: status is "done" with the packets to write, or "raised".
\* Every pass clears a flag, makes a fragment of 5 bytes or more, or ends.
GetWriteData(tx, writeSize) ==
  LET n     == FittingPackets(tx.packets, writeSize)
      taken == IF n < Len(tx.packets) THEN n + 1 ELSE n
      start == [tx     |-> [tx EXCEPT !.packets = SubSeq(@, taken + 1, Len(@))],
                est    |-> PacketsSize(SubSeq(tx.packets, 1, n)),
                data   |-> SubSeq(tx.packets, 1, n),
                status |-> IF taken > n THEN "done" ELSE "building"]
      turns == Len(tx.fragments) + writeSize \div 5 + 1
  IN Fold(WriteStep, start, [i \in 1 .. turns |-> writeSize])

-----------------------------------------------------------------------------
\* Mutant of PassEnd: a message that ends with the fragment is not counted.
PassEndBefore(ends, end) == IF ends # <<>> /\ Head(ends) < end THEN Tail(ends) ELSE ends

\* The ends of messages that are left when a fragment up to `end' is removed: at
\* most one message end is taken per fragment.
PassEnd(ends, end) == IF ends # <<>> /\ Head(ends) <= end THEN Tail(ends) ELSE ends

\* The number of whole messages among the first n fragments.
EndsPassed(tx, n) ==
  LET ends == [i \in DOMAIN tx.msgEnds |-> Rel(tx, tx.msgEnds[i])]
      left == Fold(PassEnd, ends, [i \in 1 .. n |-> Rel(tx, FragEnd(tx.fragments[i]))])
  IN Len(ends) - Len(left)

\* The first fragment that ends at s or beyond, 0 if there is none.
FirstReaching(tx, s) ==
  LET reaching == {i \in DOMAIN tx.fragments :
                     Rel(tx, FragEnd(tx.fragments[i])) >= Rel(tx, s)}
  IN IF reaching = {} THEN 0 ELSE Min(reaching)

\* Mutant of AckDropped: numbers outside what was cut are not refused.
AckNotAtBorder(tx, s) ==
  LET i == FirstReaching(tx, s)
  IN i # 0 /\ FragEnd(tx.fragments[i]) # s

\* handle_ack drops an ACK of what was never cut, which includes every number
\* before _seq_num, and one that is not at the border of a fragment.
AckDropped(tx, s) ==
  LET i == FirstReaching(tx, s)
  IN \/ Rel(tx, s) > Rel(tx, FragmentedEnd(tx))
     \/ i # 0 /\ FragEnd(tx.fragments[i]) # s

\* handle_ack(s): the object after the call and the number of messages sent.
HandleAck(tx, s) ==
  LET i     == FirstReaching(tx, s)
      n     == IF i = 0 THEN Len(tx.fragments) ELSE i
      nSent == EndsPassed(tx, n)
  IN IF AckDropped(tx, s) THEN [tx |-> tx, nSent |-> 0]
     ELSE [tx    |-> [tx EXCEPT !.seq = s,
                                !.fragments = SubSeq(@, n + 1, Len(@)),
                                !.msgEnds = SubSeq(@, nSent + 1, Len(@))],
           nSent |-> nSent]

\* Mutant of PacketTimeout: the fragment is not flagged for sending.
TimeoutUnflagged(tx, i) == [tx EXCEPT !.fragments[i].timer = "fired"]

\* _handle_packet_timeout, without its request for an AccessSpec.
PacketTimeout(tx, i) ==
  [tx EXCEPT !.fragments[i].needSend = TRUE, !.fragments[i].timer = "fired"]
=============================================================================
