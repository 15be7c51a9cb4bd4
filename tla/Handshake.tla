------------------------------ MODULE Handshake ------------------------------
(***************************************************************************)
(* Opening a connection.  The WISP puts an OPEN packet in its EPC; the     *)
(* server makes a connection and answers with an ACK and an OPEN packet in *)
(* one BlockWrite; the WISP answers these with an ACK in its EPC.          *)
(*                                                                         *)
(* Nothing of this is repeated: control packets have no timeout, and the   *)
(* server handles no EPC that is among the last three it handled.  A WISP  *)
(* has no battery and starts again from main() whenever its power fails.   *)
(*                                                                         *)
(* Of the messages the WISP sends once its downlink is open only the Reads *)
(* they ask for are here; Uplink has the rest.                             *)
(***************************************************************************)
EXTENDS ServerConn, EpcPump

CONSTANTS
  MaxRestarts,    \* bound: how often the power fails
  MaxSends        \* bound: messages the WISP sends

ASSUME HandshakeAssumption ==
  MsgSize = <<>> /\ MaxRestarts \in Nat /\ MaxSends \in Nat

\* The server's ACK and OPEN go into one BlockWrite, and the WISP's OPEN and its ACK
\* into its packet buffer: in the code 4 bytes of 24, and 6 of 50.
ASSUME RoomAssumption == CtrlSize + 1 <= WriteInit /\ 6 <= PktBufSize

VARIABLES
  cUp, cDown,   \* _uplink_state and _downlink_state of the WISP's endpoint
  opens,        \* how often its WTP_EVENT_OPEN callback was called since it started
  sends,        \* how many messages it sent
  loaded,       \* Reads that its messages need and that were not carried out
  pkt, epc,     \* its packet buffer and its EPC
  conn,         \* the server has a connection for this WISP
  sUp, sDown,   \* uplink_state and downlink_state of the connection
  connects,     \* how often the server's "connect" event was triggered
  prevEpcs,     \* _prev_epcs
  epcSeen,      \* the reader has reported this EPC
  restarts,     \* how often the WISP started again
  unnoticed,    \* it last did so with nothing under way for it at the server
  trouble       \* what the link lost so far

wispVars == <<cUp, cDown, opens, sends, loaded, pkt, epc>>
serverVars == <<conn, sUp, sDown, connects, prevEpcs>>
histVars == <<epcSeen, restarts, unnoticed, trouble>>
vars == <<connVars, wispVars, serverVars, histVars>>

LinkState == {"closed", "opening", "opened"}

\* The WISP as main() leaves it before the RFID loop: wtp_init, wtp_on_event
\* and wtp_connect, which queues an OPEN packet.
StartedPkt == QueuePacket(NewPktBuf, OpenFields).buf
StartedEpc == BufInit(EpcSize, 0)

Init ==
  /\ ConnInit
  /\ cUp = "opening" /\ cDown = "closed" /\ opens = 0
  /\ sends = 0 /\ loaded = 0
  /\ pkt = StartedPkt /\ epc = StartedEpc
  /\ conn = FALSE /\ sUp = "closed" /\ sDown = "closed" /\ connects = 0
  /\ prevEpcs = << <<>>, <<>>, <<>> >>
  /\ epcSeen = FALSE /\ restarts = 0 /\ unnoticed = FALSE /\ trouble = {}

-----------------------------------------------------------------------------
\* The power fails and the WISP starts again.
Restart ==
  /\ restarts < MaxRestarts
  /\ restarts' = restarts + 1
  /\ cUp' = "opening" /\ cDown' = "closed" /\ opens' = 0
  /\ loaded' = 0
  /\ pkt' = StartedPkt /\ epc' = StartedEpc
  /\ epcSeen' = FALSE
  /\ unnoticed' = (conn /\ ~ongoing /\ tx.packets = <<>>)
  /\ UNCHANGED <<connVars, serverVars, sends, trouble>>

\* The RFID loop moves queued packets to the EPC.
UpdateEpc ==
  /\ pkt.posA # pkt.posB
  /\ \E p \in {Pump(pkt, epc)} : pkt' = p.pkt /\ epc' = p.epc
  /\ epcSeen' = FALSE
  /\ trouble' = trouble \cup (IF epcSeen \/ epc = StartedEpc THEN {} ELSE {"epcLost"})
  /\ UNCHANGED <<connVars, cUp, cDown, opens, sends, loaded, serverVars, restarts, unnoticed>>

\* The application sends a message that needs n Reads.
WispSend(n) ==
  /\ cDown = "opened" /\ sends < MaxSends
  /\ sends' = sends + 1
  /\ \E req \in {QueuePacket(pkt, ReqFields(n, WriteInit))} :
       pkt' = req.buf /\ loaded' = IF req.ok THEN loaded + n ELSE loaded
  /\ UNCHANGED <<connVars, cUp, cDown, opens, epc, serverVars, histVars>>

\* Mutant of HandleCtrl: the state of the downlink is not set.
HandleCtrlClosed(w, p) ==
  LET ack == QueuePacket(w.pkt, AckFields(0))
  IN CASE ~w.ok -> w
       [] w.ok /\ p.type = "ack" -> [w EXCEPT !.up = IF @ = "opening" THEN "opened" ELSE @]
       [] w.ok /\ p.type = "open" -> [w EXCEPT !.pkt = ack.buf, !.opens = @ + 1]
       [] OTHER -> w

\* wtp_trigger_event for WTP_EVENT_OPEN, whose callback is ert_on_connect: it asks
\* the server for its constants with a message.
TriggerOpen(w) ==
  LET req == QueuePacket(w.pkt, ReqFields(1, WriteInit))
  IN [w EXCEPT !.opens = @ + 1, !.pkt = req.buf, !.ok = req.ok,
               !.loaded = IF req.ok THEN @ + 1 ELSE @]

\* wtp_handle_ack and wtp_handle_open, one packet after the other.  An ACK opens
\* the uplink whatever its number is.
HandleCtrl(w, p) ==
  LET ack == QueuePacket(w.pkt, AckFields(0))
  IN CASE ~w.ok -> w
       [] w.ok /\ p.type = "ack" -> [w EXCEPT !.up = IF @ = "opening" THEN "opened" ELSE @]
       [] w.ok /\ p.type = "open" /\ ack.ok ->
            TriggerOpen([w EXCEPT !.down = "opened", !.pkt = ack.buf])
       [] w.ok /\ p.type = "open" /\ ~ack.ok ->
            [w EXCEPT !.down = "opened", !.pkt = ack.buf, !.ok = FALSE]
       [] OTHER -> w

\* The WISP carries out the BlockWrite and the loop handles its packets.
BlockWrite ==
  /\ opspec.kind = "write" /\ ~opspec.done
  /\ opspec' = [opspec EXCEPT !.done = TRUE]
  /\ \E w \in {Fold(HandleCtrl, [up |-> cUp, down |-> cDown, pkt |-> pkt, opens |-> opens,
                                 loaded |-> loaded, ok |-> TRUE], opspec.data)} :
       /\ cUp' = w.up /\ cDown' = w.down /\ pkt' = w.pkt
       /\ opens' = w.opens /\ loaded' = w.loaded
  /\ UNCHANGED <<sent, tx, writeSize, readSize, ongoing, reads, asked, sendDeferreds,
                 resolved, sends, epc, serverVars, histVars>>

\* The WISP answers a Read, with data if it has any.
Read ==
  /\ opspec.kind = "read" /\ ~opspec.done
  /\ opspec' = [opspec EXCEPT !.done = TRUE, !.data = <<loaded > 0>>]
  /\ loaded' = IF loaded > 0 THEN loaded - 1 ELSE 0
  /\ UNCHANGED <<sent, tx, writeSize, readSize, ongoing, reads, asked, sendDeferreds,
                 resolved, cUp, cDown, opens, sends, pkt, epc, serverVars, histVars>>

-----------------------------------------------------------------------------
\* Mutant of NewClient: a WISP that opens again gets a new connection.
AnyClient(packets) == \E i \in DOMAIN packets : packets[i].type = PktOpen

\* An OPEN packet of a WISP without a connection.
NewClient(packets) == ~conn /\ \E i \in DOMAIN packets : packets[i].type = PktOpen

\* Mutant of HandleOpen: no AccessSpec is requested.
HandleOpenOnly ==
  LET ack == AddPacket(NewTx, CtrlPacket("ack", CtrlSize, 0))
  IN tx' = AddPacket(ack, CtrlPacket("open", 1, 0)) /\ UNCHANGED <<reads, ongoing, opspec>>

\* _handle_open
HandleOpen ==
  LET ack == AddPacket(NewTx, CtrlPacket("ack", CtrlSize, 0))
      both == AddPacket(ack, CtrlPacket("open", 1, 0))
  IN Become(RequestAccessSpec(both, reads, ongoing, writeSize))

\* _handle_ack opens the downlink in state OPENING, for number 0.
DownlinkOpened(state, packets) ==
  /\ state = "opening"
  /\ \E i \in DOMAIN packets : packets[i].type = PktAck /\ packets[i].data = <<0, 0>>

\* _handle_tag_report passes over an EPC that is among the last three.
Ignored(bytes) == bytes \in Range(prevEpcs)

\* A tag report with the EPC.  The OPEN that makes a connection is the only
\* packet of its EPC.  Other ACKs than the one that opens the downlink find
\* nothing to acknowledge.
SeeEpc ==
  /\ epcSeen' = TRUE
  /\ \E bytes \in {EpcBytes(epc)} : \E packets \in {PacketsOfEpc(bytes, conn)} :
       \/ /\ Ignored(bytes)
          /\ UNCHANGED <<connVars, serverVars>>
       \/ /\ ~Ignored(bytes)
          /\ prevEpcs' = PrevEpcs(prevEpcs, bytes)
          /\ \/ /\ NewClient(packets)
                /\ conn' = TRUE /\ connects' = connects + 1
                /\ sUp' = "opened" /\ sDown' = "opening"
                /\ HandleOpen
                /\ UNCHANGED <<sent, writeSize, readSize, asked, sendDeferreds, resolved>>
             \/ /\ ~NewClient(packets)
                /\ sDown' = IF DownlinkOpened(sDown, packets) THEN "opened" ELSE sDown
                /\ IF ReadsOf(packets) = <<>> THEN UNCHANGED connVars
                   ELSE ReqUplink(ReadsOf(packets))
                /\ UNCHANGED <<conn, sUp, connects>>
  /\ UNCHANGED <<wispVars, restarts, unnoticed, trouble>>

\* A tag report of the BlockWrite.
WriteEnds(ok) ==
  /\ ok \/ ReaderMayFail
  /\ WriteReport(ok)
  /\ trouble' = trouble \cup
       (IF opspec.done THEN {}
        ELSE IF \E i \in DOMAIN opspec.data : opspec.data[i].type = "open" THEN {"openLost"}
        ELSE {"writeLost"})
  /\ UNCHANGED <<wispVars, serverVars, epcSeen, restarts, unnoticed>>

\* A tag report of a Read: data is answered with an ACK.
ReadEnds(ok) ==
  /\ ok \/ ReaderMayFail
  /\ ReadReport(ok, IF ok /\ Head(opspec.data) THEN <<CtrlPacket("ack", CtrlSize, 1)>>
                    ELSE <<>>)
  /\ UNCHANGED <<wispVars, serverVars, histVars>>

Next ==
  \/ Restart
  \/ UpdateEpc
  \/ \E n \in 1 .. 2 : WispSend(n)
  \/ SeeEpc
  \/ BlockWrite
  \/ Read
  \/ \E ok \in BOOLEAN : WriteEnds(ok)
  \/ \E ok \in BOOLEAN : ReadEnds(ok)

Spec == Init /\ [][Next]_vars

-----------------------------------------------------------------------------
TypeOK ==
  /\ ConnTypeOK
  /\ {cUp, cDown, sUp, sDown} \subseteq LinkState
  /\ {conn, epcSeen, unnoticed} \subseteq BOOLEAN
  /\ opens \in 0 .. 2 /\ connects \in 0 .. 1
  /\ sends \in 0 .. MaxSends /\ loaded \in Nat /\ restarts \in 0 .. MaxRestarts
  /\ pkt \in BufType(PktBufSize, Nat) /\ epc \in BufType(EpcSize, Nat)
  /\ Len(prevEpcs) = 3

\* A side takes its link as opened only if the other side does.  With no restart
\* the WISP opens both at once, calls ert_on_connect once, and the server opens
\* the downlink after the WISP did.  A restarted WISP may be half open: an ACK
\* meant for its former self opens its uplink (wtp_handle_ack).
OpenedTogether ==
  /\ cUp = "opened" => sUp = "opened"
  /\ restarts = 0 => /\ cUp = "opened" <=> cDown = "opened"
                     /\ cDown = "opened" <=> opens = 1
                     /\ sDown = "opened" => cDown = "opened"

\* The handshake is never repeated.  When the BlockWrite with the server's OPEN
\* is lost, or when the WISP restarts while the server has a connection and
\* nothing under way for it, the WISP's OPEN is passed over, as one of the last
\* three EPCs or because there is a connection (server.py), and the WISP waits
\* for ever.
NeverReopened ==
  (unnoticed \/ "openLost" \in trouble) => cUp = "opening" /\ cDown = "closed"

\* The WISP carries out what the reader has, or the reader reports it.
AccessSpecGoesOn ==
  \/ BlockWrite
  \/ Read
  \/ \E ok \in BOOLEAN : WriteEnds(ok)
  \/ \E ok \in BOOLEAN : ReadEnds(ok)

(***************************************************************************)
(* Fairness: the RFID loop goes round, the reader goes on reporting the    *)
(* EPC, and every AccessSpec is carried out and reported.                  *)
(***************************************************************************)
FairSpec ==
  /\ Spec
  /\ WF_vars(UpdateEpc)
  /\ WF_vars(SeeEpc)
  /\ WF_vars(AccessSpecGoesOn)

\* Unless the power fails, or the link loses an EPC or a BlockWrite, all four
\* states get to OPENED and the "connect" event was triggered.
EventuallyOpened ==
  <>(\/ {cUp, cDown, sUp, sDown} = {"opened"} /\ connects = 1
     \/ restarts > 0
     \/ trouble # {})
=============================================================================
