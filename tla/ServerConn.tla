----------------------------- MODULE ServerConn -----------------------------
(***************************************************************************)
(* WTPConnection, server/wtp/wtp/connection.py: an opened connection of    *)
(* the server, its AccessSpecs, and what drives its transmit control.      *)
(*                                                                         *)
(* The program is a Twisted reactor, so a handler runs to its end before   *)
(* the next one starts; an action is a whole handler.  The handlers call   *)
(* _request_access_spec, which does nothing while an AccessSpec is under   *)
(* way, but for _handle_ack and _handle_data_packet, which do not call it. *)
(*                                                                         *)
(* The LLRP reader (the sllurp library and the hardware) is external: it   *)
(* carries out the one OpSpec of an AccessSpec at most once and reports    *)
(* once, and may report a failure of what the WISP did carry out.          *)
(***************************************************************************)
EXTENDS ServerTx

CONSTANTS
  WriteInit, WriteMin, WriteMax,  \* WTP_OPSPEC_INIT, _MIN and _MAX, also for Reads
  CtrlSize,                       \* len of an ACK or a SET_PARAM packet
  MaxReads,                       \* bound: Read OpSpecs the WISP asks for
  ReaderMayFail                   \* nextAccess may fail

ASSUME WriteSizeAssumption ==
  /\ WriteInit \in Nat /\ WriteMin \in Nat \ {0} /\ WriteMax \in Nat
  /\ WriteMin <= WriteInit /\ WriteInit <= WriteMax
ASSUME BoundAssumption ==
  CtrlSize \in Nat \ {0} /\ MaxReads \in Nat /\ ReaderMayFail \in BOOLEAN

VARIABLES
  sent,           \* number of calls of send()
  tx,             \* _tx_ctrl
  writeSize,      \* write_size of _tx_ctrl and of _opspec_ctrl
  readSize,       \* read_size of _opspec_ctrl
  ongoing,        \* _ongoing_access_spec
  opspec,         \* the OpSpec the reader has
  reads,          \* _read_opspec_sizes
  asked,          \* Read OpSpecs asked for so far, at most MaxReads
  sendDeferreds,  \* _send_deferreds, by message
  resolved        \* messages whose Deferred was resolved, in order

connVars == <<sent, tx, writeSize, readSize, ongoing, opspec, reads, asked,
              sendDeferreds, resolved>>

\* No OpSpec, or one that the reader has not carried out yet.
NoOpSpec == [kind |-> "none", size |-> 0, data |-> <<>>, done |-> FALSE]
ReadOpSpec(size) == [NoOpSpec EXCEPT !.kind = "read", !.size = size]
WriteOpSpec(data) == [NoOpSpec EXCEPT !.kind = "write", !.data = data]

\* Bytes a packet takes in a BlockWrite, with its header and checksum.
WireSize(p) ==
  CASE p.type # "data" -> p.size + 1
    [] p.type = "data" /\ p.msgSize > 0 -> p.len + 7
    [] OTHER -> p.len + 5
WriteDataSize(data) == FoldLeft(LAMBDA n, p : n + WireSize(p), 0, data)

\* NumWordsWritten * 2: write_opspec puts the length before the data and pads.
WrittenSize(data) == 2 * ((WriteDataSize(data) + 2) \div 2)

-----------------------------------------------------------------------------
\* _request_access_spec on transmit control t with Read OpSpecs of sizes r
\* waiting, flag `busy' and BlockWrite size `size': the parts of the connection
\* after the call.  An AccessSpec has one OpSpec, a Read if one is waiting.  The flag
\* stays set when get_write_data raises.
RequestAccessSpec(t, r, busy, size) ==
  IF busy THEN [tx |-> t, reads |-> r, ongoing |-> TRUE, opspec |-> opspec,
                raised |-> FALSE]
  ELSE IF r # <<>> THEN [tx |-> t, reads |-> Tail(r), ongoing |-> TRUE,
                         opspec |-> ReadOpSpec(Head(r)), raised |-> FALSE]
  ELSE LET Outcome(w) ==
             LET raised  == w.status = "raised"
                 written == ~raised /\ w.data # <<>>
             IN [tx |-> w.tx, reads |-> r, ongoing |-> raised \/ written,
                 opspec |-> IF written THEN WriteOpSpec(w.data) ELSE NoOpSpec,
                 raised |-> raised]
       IN Strictly(Outcome, GetWriteData(t, size))

\* Mutant of Become: the flag is cleared when the request returns.
BecomeIdle(outcome) ==
  \E q \in {outcome} : /\ tx' = q.tx
                       /\ reads' = q.reads
                       /\ ongoing' = FALSE
                       /\ opspec' = q.opspec

\* The connection goes on with the outcome of the request.
Become(outcome) ==
  \E q \in {outcome} : /\ tx' = q.tx
                       /\ reads' = q.reads
                       /\ ongoing' = q.ongoing
                       /\ opspec' = q.opspec

ConnInit ==
  /\ sent = 0 /\ tx = NewTx
  /\ writeSize = WriteInit /\ readSize = WriteInit
  /\ ongoing = FALSE /\ opspec = NoOpSpec
  /\ reads = <<>> /\ asked = 0
  /\ sendDeferreds = <<>> /\ resolved = <<>>

\* send(): the Deferred is made after the request, so not when that raises.
Send ==
  LET q == RequestAccessSpec(AddMsg(tx, sent + 1), reads, ongoing, writeSize) IN
  /\ sent < Len(MsgSize)
  /\ sent' = sent + 1
  /\ Become(q)
  /\ sendDeferreds' = IF q.raised THEN sendDeferreds
                      ELSE Append(sendDeferreds, sent + 1)
  /\ UNCHANGED <<writeSize, readSize, asked, resolved>>

\* The timeout of a fragment that was sent.
FragmentTimeout(i) ==
  /\ tx.fragments[i].timer = "armed"
  /\ Become(RequestAccessSpec(PacketTimeout(tx, i), reads, ongoing, writeSize))
  /\ UNCHANGED <<sent, writeSize, readSize, asked, sendDeferreds, resolved>>

\* _handle_req_uplink for Reads of these sizes, of one packet or of several.
ReqUplink(sizes) ==
  /\ asked + Len(sizes) <= MaxReads
  /\ asked' = asked + Len(sizes)
  /\ Become(RequestAccessSpec(tx, reads \o sizes, ongoing, writeSize))
  /\ UNCHANGED <<sent, writeSize, readSize, sendDeferreds, resolved>>

\* _handle_ack for one ACK packet after others that acknowledged w.nSent messages.
AckOne(w, s) ==
  LET h == HandleAck(w.tx, s) IN [tx |-> h.tx, nSent |-> w.nSent + h.nSent]

\* _handle_ack for the ACK packets with these numbers, one after the other.
HandleAcks(acks) ==
  /\ \E w \in {Fold(AckOne, [tx |-> tx, nSent |-> 0], acks)} :
       /\ tx' = w.tx
       /\ resolved' = resolved \o SubSeq(sendDeferreds, 1, w.nSent)
       /\ sendDeferreds' = SubSeq(sendDeferreds, w.nSent + 1, Len(sendDeferreds))
  /\ UNCHANGED <<sent, writeSize, readSize, ongoing, opspec, reads, asked>>

-----------------------------------------------------------------------------
\* Mutant of NewWriteSize: no upper limit.
UnlimitedWriteSize(succeeded, actual) ==
  IF succeeded /\ actual >= writeSize THEN writeSize + 2
  ELSE IF ~succeeded /\ writeSize > WriteMin THEN writeSize - 2
  ELSE writeSize

\* report_write_result
NewWriteSize(succeeded, actual) ==
  IF succeeded /\ actual >= writeSize /\ writeSize < WriteMax THEN writeSize + 2
  ELSE IF ~succeeded /\ writeSize > WriteMin THEN writeSize - 2
  ELSE writeSize

\* send_access_spec_cb for a BlockWrite.
WriteReport(succeeded) ==
  LET size == NewWriteSize(succeeded, WrittenSize(opspec.data)) IN
  /\ opspec.kind = "write"
  /\ succeeded => opspec.done
  /\ writeSize' = size
  /\ Become(RequestAccessSpec(tx, reads, FALSE, size))
  /\ UNCHANGED <<sent, readSize, asked, sendDeferreds, resolved>>

\* report_read_result
NewReadSize(succeeded, actual) ==
  IF succeeded /\ actual >= readSize /\ readSize < WriteMax THEN readSize + 2
  ELSE IF ~succeeded /\ readSize > WriteMin THEN readSize - 2
  ELSE readSize

\* ReadDataWordCount * 2: read_opspec asks for whole words.
WordBytes(size) == 2 * ((size + 1) \div 2)

\* send_access_spec_cb for a Read, which queues a SET_PARAM with the new size,
\* and after it the handling of the packets that were read, which queues the
\* packets of `answer': an ACK for a data packet.
ReadReport(succeeded, answer) ==
  LET size  == NewReadSize(succeeded, WordBytes(opspec.size))
      param == AddPacket(tx, CtrlPacket("setParam", CtrlSize, size))
      q     == RequestAccessSpec(param, reads, FALSE, writeSize)
  IN
  /\ opspec.kind = "read"
  /\ succeeded => opspec.done
  /\ answer # <<>> => succeeded
  /\ readSize' = size
  /\ Become([q EXCEPT !.tx.packets = @ \o answer])
  /\ UNCHANGED <<sent, writeSize, asked, sendDeferreds, resolved>>

\* nextAccess fails: nobody handles the errback, so the flag stays set.
AccessSpecFails ==
  /\ ReaderMayFail
  /\ opspec.kind # "none" /\ ~opspec.done
  /\ opspec' = NoOpSpec
  /\ UNCHANGED <<sent, tx, writeSize, readSize, ongoing, reads, asked,
                 sendDeferreds, resolved>>

-----------------------------------------------------------------------------
ConnTypeOK ==
  /\ sent \in 0 .. Len(MsgSize)
  /\ tx \in TxType
  /\ writeSize \in WriteMin - 1 .. WriteMax + 1
  /\ readSize \in WriteMin - 1 .. WriteMax + 1
  /\ ongoing \in BOOLEAN
  /\ opspec.kind \in {"none", "read", "write"}
  /\ opspec.done \in BOOLEAN
  /\ reads \in Seq(Nat) /\ Len(reads) <= asked /\ asked \in 0 .. MaxReads
  /\ sendDeferreds \in Seq(Message) /\ resolved \in Seq(Message)
=============================================================================
