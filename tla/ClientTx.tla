------------------------------ MODULE ClientTx ------------------------------
(***************************************************************************)
(* wtp_tx_ctrl_t, client/wtp/wtp/transmission.c: the WISP's transmit       *)
(* control.  The C structure is a record and each function an operator     *)
(* that returns the structure after the call, with the call's result.      *)
(*                                                                         *)
(* Messages lie in the arena _msg_buf, each after two bytes with its size. *)
(* A fragment points into the arena.  The queues of Read information and   *)
(* message ends are sequences, as WioQueue implements a bounded FIFO; the  *)
(* queue of fragments keeps its slots, because wtp_tx_handle_ack walks     *)
(* over them by an index of its own.                                       *)
(***************************************************************************)
EXTENDS WtpParams, WioBuf

CONSTANTS
  UpSize,       \* UpSize[i] is the size in bytes of the WISP's i-th message
  TxBufSize,    \* size of _msg_buf
  FragCap,      \* capacity of _fragments_queue
  MsgCap,       \* capacity of the queues with an item per message (n_send)
  ReadInit,     \* initial _read_size
  ReadMemSize   \* bytes of the Read memory

ASSUME UpSizeAssumption == UpSize \in Seq(Nat \ {0})
ASSUME ClientTxAssumption ==
  /\ TxBufSize \in Nat /\ FragCap \in Nat \ {0} /\ MsgCap \in Nat \ {0}
  /\ ReadInit \in Nat /\ ReadInit > 6 /\ ReadMemSize \in Nat

UpMessage == 1 .. Len(UpSize)

\* Cells of the arena: byte k of message i is <<i, k>>, and both bytes of a
\* message size n are <<0, n>>.
UpBytes(i) == [k \in 1 .. UpSize[i] |-> <<i, k - 1>>]
SizeCells(n) == << <<0, n>>, <<0, n>> >>
Junk == <<0, 0>>

NoFragment == [seq |-> 0, msgSize |-> 0, at |-> 0, len |-> 0]

\* wtp_tx_read_info_t, wtp_tx_fragment_t and wtp_tx_ctrl_t.  Nothing sets the
\* _need_send of a fragment, and no fragment has a timeout.
ReadInfoType == [n : Nat \ {0}, size : Nat]
UpFragmentType == [seq : 0 .. SeqSpace - 1, msgSize : Nat, at : Nat, len : Nat]
UpTxType ==
  [seq : 0 .. SeqSpace - 1, readSize : Nat,
   buf : BufType(TxBufSize, Nat \X Nat),
   beginSeq : 0 .. SeqSpace - 1, beginPos : 0 .. TxBufSize, fragmented : Nat,
   slots : [0 .. FragCap - 1 -> UpFragmentType],
   end : 0 .. FragCap - 1, count : 0 .. FragCap,
   readInfos : Seq(ReadInfoType), msgEnds : Seq(0 .. SeqSpace - 1)]

\* wtp_tx_init
NewUpTx ==
  [seq        |-> 0,                          \* _seq_num
   readSize   |-> ReadInit,                   \* _read_size
   buf        |-> BufInit(TxBufSize, Junk),   \* _msg_buf
   beginSeq   |-> 0,                          \* _msg_begin_seq
   beginPos   |-> 0,                          \* _msg_begin_pos
   fragmented |-> 0,                          \* _msg_fragmented
   slots      |-> [k \in 0 .. FragCap - 1 |-> NoFragment],  \* _fragments_queue
   end        |-> 0,
   count      |-> 0,
   readInfos  |-> <<>>,                       \* _read_info_queue
   msgEnds    |-> <<>>]                       \* _msg_ends_queue

-----------------------------------------------------------------------------
\* Mutant of ReadsNeeded: the Read that the remainder takes is forgotten.
ReadsRounded(size, readSize) == size \div (readSize - 6)

\* Read OpSpecs asked for, for a message of that size.
ReadsNeeded(size, readSize) == size \div (readSize - 6) + 1

\* The Read information of a message: one Read is made to measure.
ReadInfo(size, readSize) ==
  LET n == ReadsNeeded(size, readSize)
  IN [n |-> n, size |-> IF n = 1 THEN size + 6 ELSE readSize]

\* wtp_tx_add_msg of message i.  A full Read information queue is noticed when
\* the message is in the arena.
TxAddMsg(c, i) ==
  LET head == BufWrite(c.buf, SizeCells(UpSize[i]))
      full == Len(c.readInfos) >= MsgCap
      data == AllocStore(head.buf, UpBytes(i))
  IN IF ~head.ok THEN [ok |-> FALSE, tx |-> c]
     ELSE [ok |-> ~full,
           tx |-> [c EXCEPT !.buf = data,
                            !.readInfos = IF full THEN @
                              ELSE Append(@, ReadInfo(UpSize[i], c.readSize))]]

\* Does the data of message i go to the beginning of the arena, away from the
\* size before it?
Straddles(c, i) == c.buf.posB + 2 + UpSize[i] >= TxBufSize

-----------------------------------------------------------------------------
\* First half of wtp_tx_make_fragment: leave a message that is cut completely.
NextMessage(c) ==
  LET size == c.buf.mem[c.beginPos][2]
  IN IF c.fragmented < size THEN c
     ELSE [c EXCEPT !.beginSeq = SeqAdd(@, size), !.fragmented = 0,
                    !.beginPos = FreeFrom(c.buf, @ + 2, size)]

\* Mutant of NoteEnd: a message end is noted for every fragment.
NoteEveryEnd(t) ==
  [t EXCEPT !.msgEnds = Append(@, SeqAdd(t.beginSeq, t.buf.mem[t.beginPos][2]))]

\* The message end is noted before it is known that a byte can be sent.
NoteEnd(t) ==
  IF t.fragmented > 0 THEN t
  ELSE [t EXCEPT !.msgEnds = Append(@, SeqAdd(t.beginSeq, t.buf.mem[t.beginPos][2]))]

\* wtp_tx_make_fragment(avail): kind is "frag" with the new fragment, "none"
\* without a message, "window" without room in the window, or "error".
TxMakeFragment(c, avail) ==
  LET Nothing(t, kind) == [kind |-> kind, tx |-> t, frag |-> NoFragment]
      AtEnd(t)   == t.beginPos = t.buf.posB
      NoSize(t)  == t.beginPos + 2 > TxBufSize
      Cut(t, e) ==
        LET size == t.buf.mem[t.beginPos][2]
            seq  == SeqAdd(t.beginSeq, t.fragmented)
            len  == Min({avail - (IF t.fragmented = 0 THEN 6 ELSE 4),
                         size - t.fragmented, SeqSub(t.seq + Window, seq)})
            frag == [seq |-> seq, msgSize |-> IF t.fragmented = 0 THEN size ELSE 0,
                     at |-> t.beginPos + 2 + t.fragmented, len |-> len]
            moved == [e EXCEPT !.fragmented = @ + len]
        IN CASE len = 0 -> Nothing(e, "window")
             [] len > 0 /\ t.count = FragCap -> Nothing(moved, "error")
             [] OTHER ->
                  [kind |-> "frag", frag |-> frag,
                   tx |-> [moved EXCEPT !.count = @ + 1,
                             !.slots[(t.end + t.count) % FragCap] = frag]]
      Next(t) ==
        CASE AtEnd(t) -> Nothing(t, "none")
          [] ~AtEnd(t) /\ NoSize(t) -> Nothing(t, "error")
          [] OTHER -> IF t.fragmented = 0 /\ Len(t.msgEnds) = MsgCap
                      THEN Nothing(t, "error") ELSE Cut(t, NoteEnd(t))
  IN CASE AtEnd(c) -> Nothing(c, "none")
       [] ~AtEnd(c) /\ NoSize(c) -> Nothing(c, "error")
       [] OTHER -> Next(NextMessage(c))

-----------------------------------------------------------------------------
UpEnd(f) == SeqAdd(f.seq, f.len)

\* The slot that wtp_tx_handle_ack looks at in turn k, from 0 on: its index goes
\* back to the first slot at the queue's size, not at its capacity, and never
\* does so when it starts at or beyond the size.
WalkIndex(c, k) == IF c.end < c.count THEN (c.end + k) % c.count ELSE c.end + k

\* The walk does not look at the fragments in their order.
StrayWalk(c) ==
  \E k \in 0 .. c.count - 1 : WalkIndex(c, k) # (c.end + k) % FragCap

\* How many fragments the walk counts for number s; 0 also when s is not at
\* the border of a fragment.
FragmentsAcked(c, s) ==
  LET EndAt(k) == UpEnd(c.slots[WalkIndex(c, k)])
      reaching == {k \in 0 .. c.count - 1 : EndAt(k) >= s}
  IN IF reaching = {} THEN c.count
     ELSE IF EndAt(Min(reaching)) = s THEN Min(reaching) + 1 ELSE 0

\* Removing the first fragment; with it goes at most one message.
RemoveFragment(w, i) ==
  LET f    == w.tx.slots[w.tx.end]
      left == [w.tx EXCEPT !.end = (@ + 1) % FragCap, !.count = @ - 1]
      size == left.buf.mem[left.buf.posA][2]
  IN CASE ~w.ok -> w
       [] w.ok /\ (left.msgEnds = <<>> \/ Head(left.msgEnds) > UpEnd(f)) ->
            [w EXCEPT !.tx = left]
       [] OTHER ->
            [w EXCEPT !.nSent = @ + 1, !.ok = CanRead(left.buf, 2),
               !.tx = [left EXCEPT !.msgEnds = Tail(@),
                         !.buf.posA = IF CanRead(left.buf, 2)
                                      THEN FreeFrom(left.buf, @ + 2, size) ELSE @]]

\* A number beyond what was cut is refused: raw uint16_t, and so is their sum.
AckRefused(c, s) == s > SeqAdd(c.beginSeq, c.fragmented)

\* wtp_tx_handle_ack(s): the structure after the call, the number of messages
\* sent, and whether the call succeeded.
TxHandleAck(c, s) ==
  LET n       == FragmentsAcked(c, s)
      start   == [tx |-> c, nSent |-> 0, ok |-> TRUE]
      Done(w) == IF w.ok THEN [w EXCEPT !.tx.seq = s] ELSE [w EXCEPT !.nSent = 0]
  IN IF AckRefused(c, s) THEN [start EXCEPT !.ok = FALSE]
     ELSE IF c.count > 0 /\ n = 0 THEN start
     ELSE Strictly(Done, Fold(RemoveFragment, start, [i \in 1 .. n |-> i]))

-----------------------------------------------------------------------------
(* The Read memory and wtp_load_read_mem (endpoint.c).                      *)

\* Read memory whose first byte is WTP_PKT_END.
EndMem == [kind |-> "end", seq |-> 0, msgSize |-> 0, len |-> 0,
           cells |-> [k \in 0 .. ReadMemSize - 1 |-> Junk]]

HeaderSize(msgSize) == IF msgSize > 0 THEN 6 ELSE 4

\* What a fragment points at; beyond the arena there is other memory.
FragmentBytes(c, f) ==
  [k \in 1 .. f.len |-> IF f.at + k - 1 < TxBufSize THEN c.buf.mem[f.at + k - 1] ELSE Junk]

\* The fragment written to memory of which readSize bytes may be used: data
\* that does not fit leaves the bytes that were there.
WriteFragmentTo(mem, c, f, readSize) ==
  LET head == HeaderSize(f.msgSize)
  IN [kind |-> "data", seq |-> f.seq, msgSize |-> f.msgSize, len |-> f.len,
      cells |-> IF head + f.len <= readSize
                THEN Store(mem.cells, head, FragmentBytes(c, f)) ELSE mem.cells]

\* wtp_load_read_mem: a Read is counted before a fragment is found for it.
\* `trouble' names what kept a fragment from being loaded.
LoadReadMem(c, mem) ==
  LET info == Head(c.readInfos)
      less == [info EXCEPT !.n = @ - 1]
      used == [c EXCEPT !.readInfos = IF info.n = 1 THEN Tail(@) ELSE [@ EXCEPT ![1] = less]]
      Load(m) ==
        LET fits == HeaderSize(m.frag.msgSize) + m.frag.len <= info.size
        IN [tx |-> m.tx, loaded |-> TRUE,
            mem |-> IF m.kind = "frag" THEN WriteFragmentTo(mem, m.tx, m.frag, info.size)
                    ELSE mem,
            trouble |-> CASE m.kind = "none" \/ (m.kind = "frag" /\ fits) -> {}
                          [] m.kind = "frag" /\ ~fits -> {"overrun"}
                          [] OTHER -> {m.kind}]
  IN IF c.readInfos = <<>>
     THEN [tx |-> c, loaded |-> FALSE, mem |-> [mem EXCEPT !.kind = "end"], trouble |-> {}]
     ELSE Strictly(Load, TxMakeFragment(used, used.readSize))
=============================================================================
