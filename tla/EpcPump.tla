------------------------------- MODULE EpcPump -------------------------------
(***************************************************************************)
(* How a packet gets from the WISP to the server in the EPC, byte by byte: *)
(* wtp_tx_begin_packet and wtp_tx_end_packet put it in the packet buffer   *)
(* after a byte with its size, the RFID loop of runtime.c copies packets   *)
(* to the EPC, and the server reads them from the EPC of a tag report.     *)
(*                                                                         *)
(* The EPC here is the ten bytes after the WISP's ID.                      *)
(***************************************************************************)
EXTENDS WioBuf

CONSTANTS
  PktBufSize,   \* bytes of the WISP's packet buffer _pkt_buf
  EpcSize       \* bytes of its EPC buffer _epc_buf

ASSUME EpcPumpAssumption == PktBufSize \in Nat \ {0} /\ EpcSize \in Nat \ {0}

\* Packet types, and how many bytes of data each has in an EPC.
PktEnd == 0
PktOpen == 1
PktAck == 3
PktReqUplink == 6
DataSize(type) == CASE type = PktOpen -> 0 [] type \in {PktAck, PktReqUplink} -> 2

NewPktBuf == BufInit(PktBufSize, 0)

\* A write, unless one before it failed.
WriteField(w, f) == IF w.ok THEN BufWrite(w.buf, f) ELSE w

\* wtp_tx_begin_packet, a write for each of the fields and wtp_tx_end_packet:
\* each write may find the end of the buffer, and then the byte with the
\* packet's size stays as it was.
QueuePacket(b, fields) ==
  LET at    == AllocPos(b, 1)
      begun == [ok |-> TRUE, buf |-> [b EXCEPT !.posB = at + 1]]
      Ended(w) == IF w.ok THEN [w EXCEPT !.buf.mem[at] = w.buf.posB - at - 1] ELSE w
  IN Strictly(Ended, Fold(WriteField, begun, fields))

\* The fields of a packet whose data is a 16-bit number, low byte first.
AckFields(seq) == << <<PktAck>>, <<seq % 256, seq \div 256>> >>
OpenFields == << <<PktOpen>> >>
ReqFields(n, size) == << <<PktReqUplink>>, <<n>>, <<size>> >>

-----------------------------------------------------------------------------
\* One turn of the loop that fills the EPC.  The size is compared with the
\* whole EPC and not with what is left of it: wio_copy refuses a packet that
\* does not fit, and then its bytes are taken for the sizes of packets.
PumpTurn(w, i) ==
  LET size == w.from.mem[w.from.posA]
      c    == BufCopy([w.from EXCEPT !.posA = @ + 1], w.to, size)
  IN CASE ~w.going \/ w.from.posA >= w.from.posB -> w
       [] w.going /\ w.from.posA < w.from.posB /\ size > EpcSize ->
            [w EXCEPT !.going = FALSE]
       [] OTHER -> [w EXCEPT !.from = c.from, !.to = c.to]

\* Mutant of EpcReset: the new packets go behind those of the last time.
EpcKept(epc) == [epc EXCEPT !.posA = 0]

\* Reset EPC buffer
EpcReset(epc) == [epc EXCEPT !.posA = 0, !.posB = 0]

\* The whole update of the EPC, when the packet buffer is not empty.
Pump(b, epc) ==
  LET Ended(w) ==
        [pkt |-> IF w.from.posA = w.from.posB
                 THEN [w.from EXCEPT !.posA = 0, !.posB = 0] ELSE w.from,
         epc |-> BufWrite(w.to, <<PktEnd>>).buf]
  IN Strictly(Ended, Fold(PumpTurn, [from |-> b, to |-> EpcReset(epc), going |-> TRUE],
                          [i \in 1 .. b.size |-> i]))

-----------------------------------------------------------------------------
(* The server's side.                                                       *)

\* One turn of the loop of _handle_packets: the next packet, or the end.  A
\* byte that is no type is passed over, and so is any but PktOpen while there
\* is no connection.  A packet cut short makes its handler raise, which ends
\* the loop too, and so does one of a type that belongs in no EPC.
ReadPacket(w, i) ==
  LET at   == w.at
      Read(type) ==
        CASE type = PktEnd -> [w EXCEPT !.going = FALSE]
          [] type > 7 \/ (type \notin {PktEnd, PktOpen} /\ ~w.opened) ->
               [w EXCEPT !.at = at + 1]
          [] type \in {2, 4, 5, 7} /\ w.opened -> [w EXCEPT !.going = FALSE]
          [] OTHER ->
               IF at + DataSize(type) > Len(w.bytes) THEN [w EXCEPT !.going = FALSE]
               ELSE [w EXCEPT !.at = at + 1 + DataSize(type), !.opened = TRUE,
                              !.packets = Append(@, [type |-> type,
                                 data |-> SubSeq(w.bytes, at + 1, at + DataSize(type))])]
  IN IF ~w.going \/ at > Len(w.bytes) THEN w ELSE Read(w.bytes[at])

EpcBytes(epc) == [i \in 1 .. EpcSize |-> epc.mem[i - 1]]

\* The packets of an EPC that are handled, in order; opened tells whether there
\* is a connection before them.
PacketsOfEpc(bytes, opened) ==
  Fold(ReadPacket, [bytes |-> bytes, at |-> 1, packets |-> <<>>, going |-> TRUE,
                    opened |-> opened],
       [i \in 1 .. Len(bytes) |-> i]).packets

\* _handle_req_uplink: the sizes of the Reads that packets ask for.
AddReads(sizes, p) ==
  IF p.type = PktReqUplink THEN sizes \o [i \in 1 .. p.data[1] |-> p.data[2]] ELSE sizes
ReadsOf(packets) == Fold(AddReads, <<>>, packets)

\* Mutant of PrevEpcs: the oldest is not dropped.
PrevEpcsKept(prev, bytes) == Append(prev, bytes)

\* The EPCs that will be ignored: the last three that were handled.
PrevEpcs(prev, bytes) == Append(Tail(prev), bytes)

-----------------------------------------------------------------------------
(* A reference for the loop: the packets in the buffer, by their sizes, and *)
(* the longest prefix of them that fits the EPC.                            *)

QueuedPackets(b) ==
  LET Next(w, i) ==
        IF w.at >= b.posB THEN w
        ELSE LET n == b.mem[w.at]
             IN [at      |-> w.at + 1 + n,
                 packets |-> Append(w.packets,
                               [type |-> b.mem[w.at + 1],
                                data |-> [k \in 1 .. n - 1 |-> b.mem[w.at + 1 + k]]])]
  IN Fold(Next, [at |-> b.posA, packets |-> <<>>], [i \in 1 .. b.size |-> i]).packets

PacketBytes(packets) == FoldLeft(LAMBDA n, p : n + 1 + Len(p.data), 0, packets)

FittingEpc(packets) ==
  SubSeq(packets, 1, CHOOSE n \in 0 .. Len(packets) :
    /\ PacketBytes(SubSeq(packets, 1, n)) <= EpcSize
    /\ n < Len(packets) => PacketBytes(SubSeq(packets, 1, n + 1)) > EpcSize)
=============================================================================
