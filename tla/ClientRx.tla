------------------------------ MODULE ClientRx ------------------------------
(***************************************************************************)
(* wtp_rx_ctrl_t, client/wtp/wtp/transmission.c: the WISP's receive        *)
(* control.  The C structure is a record and wtp_rx_handle_packet an       *)
(* operator that returns the structure after the call, with the call's     *)
(* result.                                                                 *)
(*                                                                         *)
(* The two linked lists are sequences in list order.  Both are kept sorted *)
(* by comparing the RAW uint16_t sequence numbers, which the code does     *)
(* also when the window spans the wrap from SeqSpace - 1 to 0.             *)
(*                                                                         *)
(* The place of a fragment in the fragments buffer is kept, as wio_alloc   *)
(* may hand out memory that is in use.  What the program does after that   *)
(* is undefined and not modelled: see FragmentsDisjoint in Downlink.       *)
(***************************************************************************)
EXTENDS WtpParams

CONSTANTS
  MsgBufSize,    \* size of _msg_data_buf
  MsgInfoSize,   \* items of _msg_info_store
  FragBufSize,   \* size of _fragments_buf
  FragHeader     \* sizeof(wtp_rx_fragment_t)

ASSUME MsgBufAssumption == MsgBufSize \in Nat
ASSUME MsgInfoAssumption == MsgInfoSize \in Nat \ {0}
ASSUME FragBufAssumption == FragBufSize \in Nat \ {0} /\ FragHeader \in Nat

\* Not assumed, but what the code needs to put messages together.  All of them have
\* fewer bytes than there are sequence numbers; and the buffer takes the messages that
\* a window touches, with two bytes for the size of each.
NoWrap == BytesBefore(Len(MsgSize)) < SeqSpace
BufferSuffices ==
  \A i, k \in 0 .. Len(MsgSize) :
    i < k /\ BytesBefore(k - 1) < BytesBefore(i + 1) + Window
      => BytesBefore(k) - BytesBefore(i) + 2 * (k - i) <= MsgBufSize

\* wtp_rx_fragment_t: len bytes of message msg from off on, with the place of the
\* structure and its data in the fragments buffer.
RxFragmentType ==
  [seq : 0 .. SeqSpace - 1, msg : Message, off : Nat, len : Nat,
   at : 0 .. FragBufSize - 1]

\* wtp_rx_msg_info_t of an announced message.
MsgInfoType == [begin : 0 .. SeqSpace - 1, size : Nat]

\* wtp_rx_ctrl_t: see NewRx.
RxType ==
  [seq : 0 .. SeqSpace - 1, infos : Seq(MsgInfoType), fragments : Seq(RxFragmentType),
   posB : Nat, buf : Seq((0 .. Len(MsgSize)) \X Nat)]

\* wtp_rx_init
NewRx ==
  [seq       |-> 0,      \* _seq_num: everything before it is assembled
   infos     |-> <<>>,   \* _msg_info_store: begin and size of announced messages
   fragments |-> <<>>,   \* _fragments_begin: data beyond _seq_num
   posB      |-> 0,      \* _fragments_buf.pos_b
   buf       |-> <<>>]   \* _msg_data_buf from pos_a to pos_b

\* The two bytes of a message size in the message data buffer.
SizeHeader(n) == << <<0, n>>, <<0, n>> >>

\* The numbers the two lists are sorted by.
Begins(infos) == [i \in DOMAIN infos |-> infos[i].begin]
SeqNums(fragments) == [i \in DOMAIN fragments |-> fragments[i].seq]

\* Where n goes among nums: before the first number that is not below it.
Position(nums, n) ==
  1 + Cardinality({i \in DOMAIN nums : \A j \in 1 .. i : nums[j] < n})

\* The packet lies wholly in the sliding window (uint16_t arithmetic).
InWindow(rx, p) ==
  LET begin == SeqSub(p.seq, rx.seq)
      end   == SeqAdd(begin, p.len)
  IN begin < end /\ end <= Window

\* Do size bytes from n on reach over the number at i, before which they go?
Overlaps(nums, n, size, i) == i <= Len(nums) /\ SeqAdd(n, size) > nums[i]

\* Mutant of AllocAt: always the beginning of the buffer.
AllocAtBegin(posB, size) == 0

\* wio_alloc on _fragments_buf: where the memory begins.
AllocAt(posB, size) == IF posB + size >= FragBufSize THEN 0 ELSE posB

-----------------------------------------------------------------------------
\* Mutant of Consecutive: gaps are not noticed.
AnyFragment(seq, f) == TRUE

\* The buffered fragment f continues what has been assembled up to seq.
Consecutive(seq, f) == f.seq = seq

\* Mutant of MessageEnds: the byte after the message is waited for.
MessageEndsBefore(infos, seq) ==
  infos # <<>> /\ SeqAdd(Head(infos).begin, Head(infos).size) < seq

\* The first announced message ends at seq.
MessageEnds(infos, seq) ==
  infos # <<>> /\ SeqAdd(Head(infos).begin, Head(infos).size) = seq

\* One turn of the assembly loop on the next buffered fragment f.
AssembleStep(w, f) ==
  LET begins == w.infos # <<>> /\ Head(w.infos).begin = w.seq
      room   == IF begins THEN 2 ELSE 0
      headed == IF begins THEN w.buf \o SizeHeader(Head(w.infos).size) ELSE w.buf
      seq    == SeqAdd(w.seq, f.len)
      ends   == MessageEnds(w.infos, seq)
  IN IF w.status # "going" THEN w
     ELSE IF Len(w.buf) + room > MsgBufSize THEN [w EXCEPT !.status = "error"]
     ELSE IF ~Consecutive(w.seq, f) THEN [w EXCEPT !.buf = headed, !.status = "gap"]
     ELSE IF Len(headed) + f.len > MsgBufSize
       THEN [w EXCEPT !.buf = headed, !.status = "error"]
     ELSE [w EXCEPT !.buf   = headed \o Payload(f),
                    !.seq   = seq,
                    !.used  = @ + 1,
                    !.infos = IF ends THEN Tail(@) ELSE @,
                    !.nMsgs = IF ends THEN @ + 1 ELSE @]

\* Assemble what has become consecutive.  A full message buffer makes the call
\* return early: the list keeps its begin and the count of messages is lost.
Assemble(rx) ==
  LET start == [seq |-> rx.seq, infos |-> rx.infos, buf |-> rx.buf,
                used |-> 0, nMsgs |-> 0, status |-> "going"]
      Outcome(w) ==
        LET failed == w.status = "error"
        IN [rx    |-> [rx EXCEPT !.seq = w.seq, !.infos = w.infos, !.buf = w.buf,
                                 !.fragments = IF failed THEN @
                                               ELSE SubSeq(@, w.used + 1, Len(@))],
            nMsgs |-> IF failed THEN 0 ELSE w.nMsgs]
  IN Strictly(Outcome, Fold(AssembleStep, start, rx.fragments))

\* wtp_rx_handle_packet: the structure after the call and the number of
\* messages that became complete.
RxHandlePacket(rx, p) ==
  LET info    == [begin |-> p.seq, size |-> p.msgSize]
      infoAt  == Position(Begins(rx.infos), p.seq)
      badInfo == p.msgSize > 0
                   /\ \/ Overlaps(Begins(rx.infos), p.seq, p.msgSize, infoAt)
                      \/ Len(rx.infos) >= MsgInfoSize
      noted   == IF p.msgSize = 0 THEN rx
                 ELSE [rx EXCEPT !.infos = InsertAt(@, infoAt, info)]
      at      == AllocAt(rx.posB, FragHeader + p.len)
      frag    == [seq |-> p.seq, msg |-> p.msg, off |-> p.off, len |-> p.len,
                  at |-> at]
      fragAt  == Position(SeqNums(rx.fragments), p.seq)
  IN IF ~InWindow(rx, p) \/ badInfo THEN [rx |-> rx, nMsgs |-> 0]
     ELSE IF Overlaps(SeqNums(rx.fragments), p.seq, p.len, fragAt)
       THEN [rx |-> noted, nMsgs |-> 0]
     ELSE Strictly(Assemble,
                   [noted EXCEPT !.fragments = InsertAt(@, fragAt, frag),
                                 !.posB = at + FragHeader + p.len])

-----------------------------------------------------------------------------
\* The message whose bytes are exactly these, 0 if there is none.
Identify(bytes) ==
  IF \E i \in Message : BytesOf(i) = bytes
  THEN CHOOSE i \in Message : BytesOf(i) = bytes
  ELSE 0

\* Hand out the message at the front of the message buffer, whose size is before
\* it: the buffer after it and the messages so far.
TakeOne(w, i) ==
  LET size == w.buf[1][2]
  IN [buf  |-> SubSeq(w.buf, size + 3, Len(w.buf)),
      msgs |-> Append(w.msgs, Identify(SubSeq(w.buf, 3, size + 2)))]

\* The loop of wtp_handle_msg_packet over the n messages that became complete.
TakeMessages(buf, n) == Fold(TakeOne, [buf |-> buf, msgs |-> <<>>], [i \in 1 .. n |-> i])
=============================================================================
