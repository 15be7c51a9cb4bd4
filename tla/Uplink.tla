------------------------------- MODULE Uplink -------------------------------
(***************************************************************************)
(* Messages from the WISP's application to the server's: the WISP's        *)
(* transmit control (ClientTx) and its packets in the EPC (EpcPump), the   *)
(* server's connection (ServerConn), which asks the reader for Reads, and  *)
(* its receive control (ServerRx).  No messages go the other way.          *)
(*                                                                         *)
(* The WISP's RFID loop deals with a Read or a BlockWrite before the next  *)
(* RFID operation, so each is one action with what the loop does after it. *)
(*                                                                         *)
(* `trouble' is a history of what went wrong with the link or in the code  *)
(* so far: the properties say what holds in spite of it, or without it.    *)
(***************************************************************************)
EXTENDS ServerConn, ClientTx, ServerRx, EpcPump

ASSUME UplinkAssumption == MsgSize = <<>> /\ ReadInit = WriteInit

\* A Read of any size has room for a header and a byte, a message fits the arena,
\* and an ACK fits the EPC with its end: wtp_tx_make_fragment, wio_alloc and the loop
\* of runtime.c rely on it.
ASSUME RoomAssumption ==
  WriteMin > 7 /\ (\A i \in UpMessage : UpSize[i] <= TxBufSize) /\ EpcSize >= 4

VARIABLES
  csent,      \* number of calls of wtp_send()
  ctx,        \* _tx_ctrl of the WISP's endpoint, but for _pkt_buf
  sendCbs,    \* _send_cb_queue: the messages whose callbacks are waiting
  called,     \* messages whose callback was called, in order
  mem,        \* _read_mem
  loaded,     \* _read_mem_loaded
  pkt,        \* _pkt_buf
  epc,        \* _epc_buf
  epcSeen,    \* the reader has reported this EPC
  prevEpcs,   \* _prev_epcs of the server
  srx,        \* _rx_ctrl of the server's connection
  recvMsgs,   \* its _recv_msgs
  waiting,    \* length of its _recv_deferreds
  delivered,  \* messages that recv() gave to the application, in order
  trouble     \* what went wrong so far

\* wtp_t, without what the downlink needs, and what the application did.
wispVars == <<csent, ctx, sendCbs, called, mem, loaded, pkt, epc>>
seenVars == <<epcSeen, prevEpcs>>
recvVars == <<srx, recvMsgs, waiting, delivered>>
vars == <<connVars, wispVars, seenVars, recvVars, trouble>>

\* Trouble that is the link's: an EPC replaced before it was reported, a Read
\* or a BlockWrite that the WISP answered and the reader reports as failed.
LinkTrouble == {"epcLost", "readLost", "writeLost"}

-----------------------------------------------------------------------------
\* wtp_send: the callback is queued before anything else can fail.
WispSend ==
  LET i    == csent + 1
      add  == TxAddMsg(ctx, i)
      info == Last(add.tx.readInfos)
      req  == QueuePacket(pkt, ReqFields(info.n, info.size))
      load == LoadReadMem(add.tx, mem)
      sound == add.ok /\ req.ok
  IN
  /\ csent < Len(UpSize)
  /\ Len(sendCbs) < MsgCap
  /\ csent' = i
  /\ sendCbs' = Append(sendCbs, i)
  /\ pkt' = IF add.ok THEN req.buf ELSE pkt
  /\ IF sound /\ ~loaded
     THEN ctx' = load.tx /\ mem' = load.mem /\ loaded' = load.loaded
     ELSE ctx' = add.tx /\ UNCHANGED <<mem, loaded>>
  /\ trouble' = trouble \cup (IF sound THEN {} ELSE {"sendFailed"})
                        \cup (IF add.ok /\ Straddles(ctx, i) THEN {"wrap"} ELSE {})
                        \cup (IF sound /\ ~loaded THEN load.trouble ELSE {})
  /\ UNCHANGED <<connVars, called, epc, seenVars, recvVars>>

\* wtp_send with a full queue of callbacks.
WispSendRefused ==
  /\ csent < Len(UpSize)
  /\ Len(sendCbs) = MsgCap
  /\ csent' = csent + 1
  /\ trouble' = trouble \cup {"sendFailed"}
  /\ UNCHANGED <<connVars, ctx, sendCbs, called, mem, loaded, pkt, epc, seenVars, recvVars>>

\* The RFID loop moves queued packets to the EPC.
UpdateEpc ==
  /\ pkt.posA # pkt.posB
  /\ \E p \in {Pump(pkt, epc)} : pkt' = p.pkt /\ epc' = p.epc
  /\ epcSeen' = FALSE
  /\ \E queued \in {QueuedPackets(pkt)} :
       trouble' = trouble \cup (IF epcSeen THEN {} ELSE {"epcLost"})
                    \cup (IF FittingEpc(queued) = queued THEN {} ELSE {"epcFull"})
  /\ UNCHANGED <<connVars, csent, ctx, sendCbs, called, mem, loaded, prevEpcs, recvVars>>

\* The EPCs that _handle_tag_report ignores.
SeenBefore(bytes) == bytes \in Range(prevEpcs)

\* The sizes of the Reads that an EPC asks for.
ReadsAskedFor(bytes) == ReadsOf(PacketsOfEpc(bytes, TRUE))

\* A tag report with the EPC, handled if it is none of the last three.
SeeEpc ==
  /\ epcSeen' = TRUE
  /\ \E bytes \in {EpcBytes(epc)} : \E asks \in {ReadsAskedFor(bytes)} :
       \/ /\ SeenBefore(bytes)
          /\ trouble' = trouble \cup (IF epcSeen \/ asks = <<>> THEN {} ELSE {"epcIgnored"})
          /\ UNCHANGED <<connVars, prevEpcs>>
       \/ /\ ~SeenBefore(bytes)
          /\ prevEpcs' = PrevEpcs(prevEpcs, bytes)
          /\ IF asks = <<>> THEN UNCHANGED connVars ELSE ReqUplink(asks)
          /\ UNCHANGED trouble
  /\ UNCHANGED <<wispVars, recvVars>>

-----------------------------------------------------------------------------
\* The WISP answers a Read with its Read memory, and the loop loads the next
\* fragment.
CarryOutRead ==
  /\ opspec.kind = "read" /\ ~opspec.done
  /\ opspec' = [opspec EXCEPT !.done = TRUE, !.data = <<mem>>]
  /\ \E load \in {LoadReadMem(ctx, mem)} :
       /\ ctx' = load.tx /\ mem' = load.mem /\ loaded' = load.loaded
       /\ trouble' = trouble \cup load.trouble
  /\ UNCHANGED <<sent, tx, writeSize, readSize, ongoing, reads, asked, sendDeferreds,
                 resolved, csent, sendCbs, called, pkt, epc, seenVars, recvVars>>

\* wtp_handle_set_param: the one parameter that is sent is the READ size.
HandleSetParam(w, p) == [w EXCEPT !.ctx.readSize = p.val]

\* wtp_handle_ack and wtp_handle_set_param, one after the other.  A handler
\* that returns an error ends wtp_handle_blockwrite.
HandleCtrl(w, p) ==
  LET Acked(h) ==
        [ctx     |-> h.tx,
         sendCbs |-> SubSeq(w.sendCbs, h.nSent + 1, Len(w.sendCbs)),
         called  |-> w.called \o SubSeq(w.sendCbs, 1, h.nSent),
         ok      |-> h.ok,
         stray   |-> w.stray \/ StrayWalk(w.ctx)]
  IN CASE ~w.ok -> w
       [] w.ok /\ p.type = "setParam" -> HandleSetParam(w, p)
       [] OTHER -> Strictly(Acked, TxHandleAck(w.ctx, p.val))

\* The WISP carries out the BlockWrite and the loop handles its packets.
CarryOutWrite ==
  /\ opspec.kind = "write" /\ ~opspec.done
  /\ opspec' = [opspec EXCEPT !.done = TRUE]
  /\ \E w \in {Fold(HandleCtrl, [ctx |-> ctx, sendCbs |-> sendCbs, called |-> called,
                                 ok |-> TRUE, stray |-> FALSE], opspec.data)} :
       /\ ctx' = w.ctx /\ sendCbs' = w.sendCbs /\ called' = w.called
       /\ trouble' = trouble \cup (IF w.ok THEN {} ELSE {"ackRefused"})
                             \cup (IF w.stray THEN {"walk"} ELSE {})
  /\ UNCHANGED <<sent, tx, writeSize, readSize, ongoing, reads, asked, sendDeferreds,
                 resolved, csent, mem, loaded, pkt, epc, seenVars, recvVars>>

\* The payload that arrives with the first n bytes of the Read memory.
ReadPayload(m, n) ==
  LET head == HeaderSize(m.msgSize)
  IN [k \in 1 .. Min({m.len, n - head}) |-> m.cells[head + k - 1]]

\* The message a sequence of bytes is, 0 if it is none.
UpMessageOf(data) ==
  IF \E i \in UpMessage : UpBytes(i) = data
  THEN CHOOSE i \in UpMessage : UpBytes(i) = data ELSE 0

\* A new message goes to the oldest Deferred.  Its callback calls recv() again
\* if `again' says so, which finds nothing queued.
HandOut(w, msg) ==
  IF w.waiting = 0 THEN [w EXCEPT !.msgs = Append(@, msg)]
  ELSE [w EXCEPT !.given = Append(@, msg), !.waiting = @ - (IF w.again THEN 0 ELSE 1)]

\* The messages that became complete, handed out.
HandOutAll(msgs, again) ==
  Fold(HandOut, [msgs |-> recvMsgs, waiting |-> waiting, given |-> delivered, again |-> again],
       [k \in DOMAIN msgs |-> UpMessageOf(msgs[k])])

\* Mutant of AckOf: the end of the packet itself is acknowledged.
AckOfPacket(rx, m) == SeqAdd(m.seq, m.len)

\* The number of the ACK that answers packet m, seq_num of the receive control.
AckOf(rx, m) == rx.seq

\* A tag report with data that was read: the AccessSpec's callback, then
\* _handle_data_packet, whose ACK starts no AccessSpec.
ReadArrives(again) ==
  /\ opspec.kind = "read" /\ opspec.done
  /\ \E m \in {Head(opspec.data)} :
       \/ /\ m.kind = "end" /\ ~again
          /\ ReadReport(TRUE, <<>>)
          /\ UNCHANGED recvVars
       \/ /\ m.kind = "data"
          /\ \E r \in {RxCtrlHandlePacket(srx, m.seq, ReadPayload(m, WordBytes(opspec.size)),
                                          m.msgSize)} :
               /\ ReadReport(TRUE, <<CtrlPacket("ack", CtrlSize, AckOf(r.rx, m))>>)
               /\ srx' = r.rx
               /\ \E w \in {HandOutAll(r.msgs, again)} :
                    recvMsgs' = w.msgs /\ waiting' = w.waiting /\ delivered' = w.given
  /\ UNCHANGED <<wispVars, seenVars, trouble>>

\* A tag report of a Read that failed, at the WISP or on the way back.
ReadFails ==
  /\ ReaderMayFail
  /\ ReadReport(FALSE, <<>>)
  /\ trouble' = trouble \cup {"readLost"}
  /\ UNCHANGED <<wispVars, seenVars, recvVars>>

\* A tag report of a BlockWrite.
WriteEnds(ok) ==
  /\ ok \/ ReaderMayFail
  /\ WriteReport(ok)
  /\ trouble' = trouble \cup (IF ok \/ opspec.done THEN {} ELSE {"writeLost"})
  /\ UNCHANGED <<wispVars, seenVars, recvVars>>

\* recv()
Recv ==
  /\ waiting + Len(delivered) < Len(UpSize)
  /\ IF recvMsgs # <<>>
     THEN /\ delivered' = Append(delivered, Head(recvMsgs))
          /\ recvMsgs' = Tail(recvMsgs)
          /\ UNCHANGED waiting
     ELSE /\ waiting' = waiting + 1
          /\ UNCHANGED <<delivered, recvMsgs>>
  /\ UNCHANGED <<connVars, wispVars, seenVars, srx, trouble>>

-----------------------------------------------------------------------------
\* The bytes of an EPC with these packets in otherwise clear memory.
EpcOf(bytes) == [i \in 1 .. EpcSize |-> IF i <= Len(bytes) THEN bytes[i] ELSE 0]

\* The connection was opened by an OPEN and an ACK in the EPC, after the EPC
\* that the WISP starts with.
Init ==
  /\ ConnInit
  /\ csent = 0 /\ ctx = NewUpTx /\ sendCbs = <<>> /\ called = <<>>
  /\ mem = EndMem /\ loaded = FALSE
  /\ pkt = NewPktBuf
  /\ epc = [BufInit(EpcSize, 0) EXCEPT !.mem[0] = PktAck, !.posB = 4]
  /\ epcSeen = TRUE
  /\ prevEpcs = <<EpcOf(<<>>), EpcOf(<<PktOpen>>), EpcOf(<<PktAck>>)>>
  /\ srx = NewRxCtrl /\ recvMsgs = <<>> /\ waiting = 0 /\ delivered = <<>>
  /\ trouble = {}

Next ==
  \/ WispSend
  \/ WispSendRefused
  \/ UpdateEpc
  \/ SeeEpc
  \/ CarryOutRead
  \/ CarryOutWrite
  \/ \E again \in BOOLEAN : ReadArrives(again)
  \/ ReadFails
  \/ \E ok \in BOOLEAN : WriteEnds(ok)
  \/ Recv

Spec == Init /\ [][Next]_vars

-----------------------------------------------------------------------------
TypeOK ==
  /\ ConnTypeOK
  /\ csent \in 0 .. Len(UpSize)
  /\ ctx \in UpTxType
  /\ Len(ctx.readInfos) <= MsgCap /\ Len(ctx.msgEnds) <= MsgCap
  /\ sendCbs \in Seq(UpMessage) /\ Len(sendCbs) <= MsgCap
  /\ pkt \in BufType(PktBufSize, Nat) /\ epc \in BufType(EpcSize, Nat)
  /\ srx.seq \in 0 .. SeqSpace - 1
  /\ waiting \in 0 .. Len(UpSize)
  /\ delivered \in Seq(UpMessage \cup {0}) /\ recvMsgs \in Seq(UpMessage \cup {0})

\* The uplink as a message stream: a message is delivered when the server's
\* connection has it, taken by recv() or not.
received == delivered \o recvMsgs
Stream == INSTANCE MessageStream WITH
  NMessages <- Len(UpSize), sent <- csent, delivered <- received, resolved <- called


\* The arena is in order: no message's data has gone to its beginning, away from
\* its size, and no message is in it whose wtp_send failed.
Intact == trouble \cap {"wrap", "sendFailed"} = {}

\* What the WISP takes as acknowledged the server has assembled, and the server
\* has assembled nothing that the WISP has not cut (wtp_tx_handle_ack,
\* SlidingWindowRxControl.handle_packet).  It may not once the arena is out of
\* order: data that wio_alloc puts at the beginning can overwrite the size of the
\* message that is being cut (buf.c:163), and _msg_begin_seq then goes on by a
\* number that is no size.
AckedWithinReceived ==
  Intact => SeqSub(srx.seq, ctx.seq) <= SeqSub(ctx.beginSeq + ctx.fragmented, ctx.seq)

\* Both numbers only move forward: the WISP's to what the server has assembled at
\* most, though wtp_tx_handle_ack takes any number over when no fragment is queued
\* (an older one would widen the window by what it goes back), and the server's to
\* the end of what is cut at most.
UplinkNumbersAdvance ==
  [][Intact' =>
       /\ SeqSub(ctx'.seq, ctx.seq) <= SeqSub(srx.seq, ctx.seq)
       /\ SeqSub(srx'.seq, srx.seq) <= SeqSub(ctx.beginSeq + ctx.fragmented, srx.seq)]_vars

ReadsIn(packets) == FoldLeft(LAMBDA n, p : n + p.data[1], 0, packets)
IsReq(p) == p.type = PktReqUplink

\* As long as nothing goes wrong, the Reads the WISP is prepared for are those
\* it has asked for and not yet answered: waiting at the server, in an EPC that
\* is to be seen, or in the packet buffer.
ReadsBalanced ==
  trouble = {} =>
    LET prepared == (IF loaded THEN 1 ELSE 0)
                      + FoldLeft(LAMBDA n, info : n + info.n, 0, ctx.readInfos)
        atServer == Len(reads) + (IF opspec.kind = "read" /\ ~opspec.done THEN 1 ELSE 0)
        inEpc    == IF epcSeen THEN 0 ELSE Len(ReadsAskedFor(EpcBytes(epc)))
    IN prepared = atServer + inEpc + ReadsIn(SelectSeq(QueuedPackets(pkt), IsReq))

\* An update of the EPC shows the server the longest prefix of the queued packets
\* that fits, whole and first, and empties the packet buffer if all fit.  It
\* may not once a packet did not fit: the loop of runtime.c then stands in the
\* middle of a packet.
PumpKeepsPackets ==
  [][UpdateEpc /\ "epcFull" \notin trouble =>
       LET queued == QueuedPackets(pkt)
           shown  == PacketsOfEpc(EpcBytes(epc'), TRUE)
       IN /\ IsPrefix(FittingEpc(queued), shown)
          /\ FittingEpc(queued) = queued => shown = queued /\ pkt'.posB = 0]_vars

\* The WISP carries out what the reader has, or the reader reports it.
AccessSpecGoesOn ==
  \/ CarryOutRead
  \/ CarryOutWrite
  \/ \E again \in BOOLEAN : ReadArrives(again)
  \/ \E ok \in BOOLEAN : WriteEnds(ok)

(***************************************************************************)
(* Fairness: the RFID loop goes round, the reader goes on reporting the    *)
(* EPC, and every AccessSpec is carried out and reported.                  *)
(***************************************************************************)
FairSpec ==
  /\ Spec
  /\ WF_vars(UpdateEpc)
  /\ WF_vars(SeeEpc)
  /\ WF_vars(AccessSpecGoesOn)

\* While nothing goes wrong every message gets through and its callback is
\* called: the Reads asked for are enough, and an ACK always gets sent, though
\* _handle_data_packet starts no AccessSpec for it.
EverySendCalledBack ==
  \A i \in UpMessage : (csent >= i) ~> (i \in Range(called) \/ trouble # {})
=============================================================================
