------------------------------ MODULE Downlink ------------------------------
(***************************************************************************)
(* Messages from the server's application to the WISP's: the server's      *)
(* connection (ServerConn), the WISP's receive control (ClientRx), the     *)
(* BlockWrites that carry data one way and the EPC that carries the        *)
(* acknowledgements back.                                                  *)
(*                                                                         *)
(* On the WISP, the RFID loop of client/wisp-ert/runtime/runtime.c runs    *)
(* the handler of a BlockWrite before the next RFID operation starts, so   *)
(* carrying out a BlockWrite and handling it is one action.  The loop      *)
(* also moves queued packets to the EPC every 16 operations.               *)
(***************************************************************************)
EXTENDS ServerConn, ClientRx

CONSTANTS
  AckQueueCap,   \* ACK packets the WISP's packet buffer holds
  EpcCap         \* ACK packets an EPC holds

ASSUME CapAssumption == AckQueueCap \in Nat \ {0} /\ EpcCap \in Nat \ {0}

VARIABLES
  rx,          \* _rx_ctrl of the WISP's endpoint
  acks,        \* sequence numbers of the ACK packets in its packet buffer
  epc,         \* sequence numbers of the ACK packets in the EPC
  delivered    \* messages handed to the WISP's application, in order

vars == <<sent, tx, writeSize, readSize, ongoing, opspec, reads, asked, sendDeferreds,
          resolved, rx, acks, epc, delivered>>
wispVars == <<rx, acks, epc, delivered>>

\* The packets that wtp_pkt_handlers gives to wtp_handle_msg_packet.
IsData(p) == p.type = "data"

\* Mutant of AckNumber: the end of the packet itself is acknowledged.
AckPacketEnd(r, p) == SeqAdd(p.seq, p.len)

\* The ACK a data packet is answered with, taken or not: _seq_num of the
\* receive control, whatever the packet's own number.
AckNumber(r, p) == r.seq

\* wtp_handle_msg_packet.
HandleMsgPacket(w, p) ==
  LET Handled(h) ==
        LET t == TakeMessages(h.rx.buf, h.nMsgs)
        IN [rx        |-> [h.rx EXCEPT !.buf = t.buf],
            acks      |-> Append(w.acks, AckNumber(h.rx, p)),
            delivered |-> w.delivered \o t.msgs]
  IN Strictly(Handled, RxHandlePacket(w.rx, p))

\* wtp_handle_begin_msg and wtp_handle_cont_msg, one packet after the other.
\* Control packets belong to the uplink.
HandlePacket(w, p) == IF IsData(p) THEN HandleMsgPacket(w, p) ELSE w

\* The WISP carries out the BlockWrite and wtp_handle_blockwrite handles its
\* packets in order.  Bound: there is room for their ACKs.
BlockWrite ==
  /\ opspec.kind = "write" /\ ~opspec.done
  /\ opspec' = [opspec EXCEPT !.done = TRUE]
  /\ \E w \in {Fold(HandlePacket, [rx |-> rx, acks |-> acks, delivered |-> delivered],
                    opspec.data)} :
       /\ Len(w.acks) <= AckQueueCap
       /\ rx' = w.rx /\ acks' = w.acks /\ delivered' = w.delivered
  /\ UNCHANGED <<sent, tx, writeSize, readSize, ongoing, reads, asked,
                 sendDeferreds, resolved, epc>>

\* The WISP answers a Read; what it answers is the uplink's concern.
Read ==
  /\ opspec.kind = "read" /\ ~opspec.done
  /\ opspec' = [opspec EXCEPT !.done = TRUE]
  /\ UNCHANGED <<sent, tx, writeSize, readSize, ongoing, reads, asked,
                 sendDeferreds, resolved, wispVars>>

\* The RFID loop fills the EPC with queued packets.  Those that do not fit are
\* consumed as well: a packet is skipped byte by byte once it cannot be copied.
UpdateEpc ==
  /\ acks # <<>>
  /\ epc' = SubSeq(acks, 1, Min({EpcCap, Len(acks)}))
  /\ acks' = <<>>
  /\ UNCHANGED <<connVars, rx, delivered>>

\* The reader reports the EPC, again and again while it stays the same.
SeeEpc ==
  /\ epc # <<>>
  /\ HandleAcks(epc)
  /\ UNCHANGED wispVars

-----------------------------------------------------------------------------
Init == ConnInit /\ rx = NewRx /\ acks = <<>> /\ epc = <<>> /\ delivered = <<>>

Conn(action) == action /\ UNCHANGED wispVars

\* What the packets that a Read brought are answered with.
Answers == {<<>>, <<CtrlPacket("ack", CtrlSize, 0)>>}

Next ==
  \/ Conn(Send)
  \/ Conn(\E i \in DOMAIN tx.fragments : FragmentTimeout(i))
  \/ Conn(\E n \in 1 .. MaxReads : ReqUplink([i \in 1 .. n |-> WriteInit]))
  \/ Conn(\E ok \in BOOLEAN : WriteReport(ok))
  \/ Conn(\E ok \in BOOLEAN, answer \in Answers : ReadReport(ok, answer))
  \/ Conn(AccessSpecFails)
  \/ BlockWrite
  \/ Read
  \/ UpdateEpc
  \/ SeeEpc

Spec == Init /\ [][Next]_vars

\* The parts of actions that concern the fragment with sequence number s.
TimeoutOf(s) ==
  \E i \in DOMAIN tx.fragments : tx.fragments[i].seq = s /\ FragmentTimeout(i)
Pending(s) ==
  opspec.kind = "write" /\ ~opspec.done
    /\ \E p \in Range(opspec.data) : IsData(p) /\ p.seq = s

(***************************************************************************)
(* Fairness.  The application sends all its messages; a timer fires unless *)
(* its fragment is acknowledged first; the reader reports each AccessSpec  *)
(* and goes on reporting the EPC; the RFID loop goes round; and of the     *)
(* BlockWrites that bring the same fragment again and again, one reaches   *)
(* the WISP.                                                               *)
(***************************************************************************)
FairSpec ==
  /\ Spec
  /\ WF_vars(Conn(Send))
  /\ WF_vars(Conn(\E ok \in BOOLEAN : WriteReport(ok)))
  /\ WF_vars(UpdateEpc)
  /\ WF_vars(SeeEpc)
  /\ \A s \in 0 .. SeqSpace - 1 : WF_vars(Conn(TimeoutOf(s)))
  /\ \A s \in 0 .. SeqSpace - 1 :
       []<>Pending(s) => []<><<BlockWrite /\ Pending(s)>>_vars

-----------------------------------------------------------------------------
(* Numbers of bytes of the stream that all messages make up, without wrap.  *)

\* Cut into fragments: the messages that left the queue and a part of its head.
CutBytes == BytesBefore(sent - Len(tx.messages)) + tx.fragmented

\* Acknowledged: all that was cut less what is still outstanding.
AckedBytes == CutBytes - Rel(tx, FragmentedEnd(tx))

\* Assembled by the WISP.
ReceivedBytes == AckedBytes + Rel(tx, rx.seq)

\* How many whole messages the first n bytes hold.
MessagesIn(n) == Cardinality({i \in 1 .. sent : BytesBefore(i) <= n})

-----------------------------------------------------------------------------
TypeOK ==
  /\ ConnTypeOK
  /\ rx \in RxType
  /\ Len(rx.infos) <= MsgInfoSize
  /\ Len(rx.buf) <= MsgBufSize
  /\ acks \in Seq(0 .. SeqSpace - 1) /\ Len(acks) <= AckQueueCap
  /\ epc \in Seq(0 .. SeqSpace - 1) /\ Len(epc) <= EpcCap

\* The unacknowledged fragments lie end to end from the acknowledged sequence
\* number to where the messages are cut, and never span more than the window
\* (_make_fragment, handle_ack).
FragmentsTile ==
  LET fs == tx.fragments IN
  /\ \A i \in DOMAIN fs :
       fs[i].seq = IF i = 1 THEN tx.seq ELSE FragEnd(fs[i - 1])
  /\ FragmentedEnd(tx) = IF fs = <<>> THEN tx.seq ELSE FragEnd(Last(fs))
  /\ Rel(tx, FragmentedEnd(tx)) <= Window

\* The WISP has assembled at least what the server takes as acknowledged, and
\* nothing that was not cut: no late or repeated ACK moves _seq_num too far.
ReceiverWithinSent == Rel(tx, rx.seq) <= Rel(tx, FragmentedEnd(tx))

\* Each message acknowledged to its last byte has its Deferred resolved, also
\* when one ACK covers several fragments and messages (handle_ack's _msg_ends).
AckedMeansResolved == Len(resolved) = MessagesIn(AckedBytes)

\* Each message assembled to its last byte has been handed to the WISP's
\* application (the counts n_msgs of wtp_rx_handle_packet agree with the data).
AssembledMeansDelivered == Len(delivered) = MessagesIn(ReceivedBytes)

\* wio_alloc never gives a new fragment memory that a buffered one occupies.
FragmentsDisjoint ==
  LET Bytes(f) == f.at .. f.at + FragHeader + f.len - 1 IN
  \A i, j \in DOMAIN rx.fragments :
    i # j => Bytes(rx.fragments[i]) \cap Bytes(rx.fragments[j]) = {}

\* While the reader has an OpSpec no other AccessSpec can be requested.
AccessSpecGuarded == opspec.kind # "none" => ongoing

\* A report, or the failure of the request, that ends an AccessSpec.
AccessSpecEnds ==
  \/ \E ok \in BOOLEAN : WriteReport(ok)
  \/ \E ok \in BOOLEAN, answer \in Answers : ReadReport(ok, answer)
  \/ AccessSpecFails

\* The server never hands the reader an AccessSpec while it has one: an OpSpec
\* stays, but for being carried out, until its AccessSpec ends.  Otherwise
\* _send_access_spec raises WTP_ERR_ONGOING_ACCESS_SPEC.
NoOverlappingAccessSpecs ==
  [][opspec.kind # "none" =>
       \/ opspec' = opspec
       \/ opspec' = [opspec EXCEPT !.done = TRUE]
       \/ AccessSpecEnds]_vars

\* Both ends move forward only, and the server never past the WISP.
SeqNumbersAdvance ==
  [][/\ SeqSub(rx'.seq, rx.seq) <= Window
     /\ Rel(tx, tx'.seq) <= Rel(tx, rx.seq)]_vars

\* The downlink delivers each message whole, once and in order, and resolves
\* the Deferred of send() only when the WISP's application has the message.
Stream == INSTANCE MessageStream WITH NMessages <- Len(MsgSize)
ImplementsStream == Stream!StreamSpec

\* _ongoing_access_spec means what its name says: the reader has an OpSpec, so
\* a report is to come that clears the flag.
OngoingMeansInFlight == ongoing => opspec.kind # "none"

\* A fragment that was cut and is not acknowledged will be sent (again): it is
\* flagged for sending or its timer runs.
NoOrphanFragment ==
  \A i \in DOMAIN tx.fragments :
    tx.fragments[i].needSend \/ tx.fragments[i].timer = "armed"

\* Every message that send() takes is delivered and its Deferred resolved.
EverySendResolves ==
  \A i \in Message : (sent >= i) ~> (Len(resolved) >= i)
=============================================================================
