--------------------------- MODULE Downlink_proofs ---------------------------
(***************************************************************************)
(* The downlink for all sizes, windows, bounds and messages.               *)
(*                                                                         *)
(* First the server's half, however often the sequence numbers wrap: it    *)
(* never has two AccessSpecs for a WISP at the reader, its fragments tile  *)
(* what is outstanding, and exactly the Deferreds of acknowledged messages *)
(* are resolved (SenderInv).  Of the WISP only one thing is needed, that   *)
(* it acknowledges sequence numbers: the server checks each ACK against    *)
(* its own fragments.                                                      *)
(*                                                                         *)
(* Then both ends, under the hypotheses NoWrap and BufferSuffices of       *)
(* ClientRx: whatever is under way, in a BlockWrite or in the              *)
(* WISP's lists, is one of the pieces that the server has ever cut         *)
(* (DownlinkInv), so the downlink is a queue of messages                   *)
(* (DownlinkImplementsStream).                                             *)
(***************************************************************************)
EXTENDS Downlink, Transmission_proofs

-----------------------------------------------------------------------------
\* The outcome of a request is a record of five fields, and has an OpSpec only
\* if it has the flag.
LEMMA RequestGuards ==
  ASSUME NEW t, NEW r, NEW busy, NEW size
  PROVE  LET q == RequestAccessSpec(t, r, busy, size)
         IN /\ q = [tx |-> q.tx, reads |-> q.reads, ongoing |-> q.ongoing,
                    opspec |-> q.opspec, raised |-> q.raised]
            /\ q.opspec.kind # "none" => q.ongoing
<1> DEFINE Outcome(w) ==
             LET raised  == w.status = "raised"
                 written == ~raised /\ w.data # <<>>
             IN [tx |-> w.tx, reads |-> r, ongoing |-> raised \/ written,
                 opspec |-> IF written THEN WriteOpSpec(w.data) ELSE NoOpSpec,
                 raised |-> raised]
           q == RequestAccessSpec(t, r, busy, size)
<1>1. CASE busy
  BY <1>1 DEF RequestAccessSpec
<1>2. CASE ~busy /\ r # <<>>
  BY <1>2 DEF RequestAccessSpec
<1>3. CASE ~busy /\ r = <<>>
  <2> DEFINE g == GetWriteData(t, size)
  <2>1. q = CHOOSE x \in {Outcome(w) : w \in {g}} : TRUE
    BY <1>3 DEF RequestAccessSpec, Strictly
  <2> HIDE DEF Outcome, q, g
  <2>2. q = Outcome(g)
    BY <2>1
  <2>3. Outcome(g).opspec.kind # "none" => Outcome(g).ongoing
    BY DEF Outcome, NoOpSpec
  <2>4. Outcome(g) = [tx |-> Outcome(g).tx, reads |-> Outcome(g).reads,
                      ongoing |-> Outcome(g).ongoing,
                      opspec |-> Outcome(g).opspec, raised |-> Outcome(g).raised]
    BY DEF Outcome
  <2> QED BY <2>2, <2>3, <2>4 DEF q
<1> QED BY <1>1, <1>2, <1>3

\* A request that finds the flag set leaves the reader's OpSpec alone.
LEMMA BusyRequestKeeps ==
  ASSUME NEW t, NEW r, NEW size, NEW busy, busy
  PROVE  RequestAccessSpec(t, r, busy, size).opspec = opspec
BY DEF RequestAccessSpec

\* So does a handler that runs the request with the flag as it is.
LEMMA HandlerKeeps ==
  ASSUME AccessSpecGuarded, NEW t, NEW r, NEW size,
         Become(RequestAccessSpec(t, r, ongoing, size))
  PROVE  AccessSpecGuarded' /\ (opspec.kind # "none" => opspec' = opspec)
<1> DEFINE q == RequestAccessSpec(t, r, ongoing, size)
<1>1. opspec' = q.opspec /\ ongoing' = q.ongoing
  BY DEF Become
<1>2. opspec.kind # "none" => q.opspec = opspec
  BY BusyRequestKeeps DEF AccessSpecGuarded
<1> QED BY <1>1, <1>2, RequestGuards DEF AccessSpecGuarded

\* The report of an OpSpec runs the request with the flag clear.
LEMMA ReportKeepsGuard ==
  AccessSpecEnds => AccessSpecGuarded'
<1> SUFFICES ASSUME AccessSpecEnds PROVE AccessSpecGuarded'
  OBVIOUS
<1>1. CASE \E ok \in BOOLEAN : WriteReport(ok)
  <2> PICK ok \in BOOLEAN : WriteReport(ok)
    BY <1>1
  <2> DEFINE size == NewWriteSize(ok, WrittenSize(opspec.data))
             q    == RequestAccessSpec(tx, reads, FALSE, size)
  <2>1. opspec' = q.opspec /\ ongoing' = q.ongoing
    BY DEF WriteReport, Become
  <2> QED BY <2>1, RequestGuards DEF AccessSpecGuarded
<1>2. CASE \E ok \in BOOLEAN, answer \in Answers : ReadReport(ok, answer)
  <2> PICK ok \in BOOLEAN, answer \in Answers : ReadReport(ok, answer)
    BY <1>2
  <2> DEFINE size  == NewReadSize(ok, WordBytes(opspec.size))
             param == AddPacket(tx, CtrlPacket("setParam", CtrlSize, size))
             q     == RequestAccessSpec(param, reads, FALSE, writeSize)
             p     == [q EXCEPT !.tx.packets = @ \o answer]
  <2>1. opspec' = p.opspec /\ ongoing' = p.ongoing
    BY DEF ReadReport, Become
  <2>2. q = [tx |-> q.tx, reads |-> q.reads, ongoing |-> q.ongoing,
             opspec |-> q.opspec, raised |-> q.raised]
    BY RequestGuards
  <2>3. q.opspec.kind # "none" => q.ongoing
    BY RequestGuards
  <2> HIDE DEF q
  <2>4. p.opspec = q.opspec /\ p.ongoing = q.ongoing
    BY <2>2
  <2> QED BY <2>1, <2>3, <2>4 DEF AccessSpecGuarded
<1>3. CASE AccessSpecFails
  BY <1>3 DEF AccessSpecFails, AccessSpecGuarded, NoOpSpec
<1> QED BY <1>1, <1>2, <1>3 DEF AccessSpecEnds

-----------------------------------------------------------------------------
\* What a step may do to the OpSpec that the reader has.
KeptOrEnded ==
  opspec.kind # "none" =>
    \/ opspec' = opspec
    \/ opspec' = [opspec EXCEPT !.done = TRUE]
    \/ AccessSpecEnds

\* Every step keeps the flag set as long as the reader has an OpSpec, and
\* replaces the OpSpec only when its AccessSpec ends (connection.py).
LEMMA NextKeepsGuard ==
  AccessSpecGuarded /\ [Next]_vars => AccessSpecGuarded' /\ KeptOrEnded
<1> SUFFICES ASSUME AccessSpecGuarded, [Next]_vars
             PROVE  AccessSpecGuarded' /\ KeptOrEnded
  OBVIOUS
<1>1. CASE Conn(Send)
  <2>1. Become(RequestAccessSpec(AddMsg(tx, sent + 1), reads, ongoing, writeSize))
    BY <1>1 DEF Conn, Send
  <2> QED BY <2>1, HandlerKeeps DEF KeptOrEnded
<1>2. CASE Conn(\E i \in DOMAIN tx.fragments : FragmentTimeout(i))
  <2> PICK i \in DOMAIN tx.fragments : FragmentTimeout(i)
    BY <1>2 DEF Conn
  <2>1. Become(RequestAccessSpec(PacketTimeout(tx, i), reads, ongoing, writeSize))
    BY DEF FragmentTimeout
  <2> QED BY <2>1, HandlerKeeps DEF KeptOrEnded
<1>3. CASE Conn(\E n \in 1 .. MaxReads : ReqUplink([i \in 1 .. n |-> WriteInit]))
  <2> PICK n \in 1 .. MaxReads : ReqUplink([i \in 1 .. n |-> WriteInit])
    BY <1>3 DEF Conn
  <2>1. Become(RequestAccessSpec(tx, reads \o [i \in 1 .. n |-> WriteInit],
                                  ongoing, writeSize))
    BY DEF ReqUplink
  <2> QED BY <2>1, HandlerKeeps DEF KeptOrEnded
<1>4. CASE AccessSpecEnds
  BY <1>4, ReportKeepsGuard DEF KeptOrEnded
<1>5. CASE BlockWrite \/ Read
  <2>1. opspec' = [opspec EXCEPT !.done = TRUE] /\ ongoing' = ongoing
    BY <1>5 DEF BlockWrite, Read
  <2>2. opspec.kind # "none"
    BY <1>5 DEF BlockWrite, Read
  <2> QED BY <2>1, <2>2 DEF AccessSpecGuarded, KeptOrEnded
<1>6. CASE UpdateEpc \/ SeeEpc \/ UNCHANGED vars
  <2>1. opspec' = opspec /\ ongoing' = ongoing
    BY <1>6 DEF UpdateEpc, SeeEpc, HandleAcks, connVars, vars
  <2> QED BY <2>1 DEF AccessSpecGuarded, KeptOrEnded
<1> QED
  BY <1>1, <1>2, <1>3, <1>4, <1>5, <1>6 DEF Next, Conn, AccessSpecEnds

\* The flag is set whenever the reader has an OpSpec, so that no handler can
\* request another AccessSpec.
THEOREM FlagGuardsReader == Spec => []AccessSpecGuarded
<1>1. Init => AccessSpecGuarded
  BY DEF Init, ConnInit, AccessSpecGuarded, NoOpSpec
<1> QED BY <1>1, NextKeepsGuard, PTL DEF Spec

\* The reader is never handed an AccessSpec while it has one.
THEOREM OneAccessSpecAtATime == Spec => NoOverlappingAccessSpecs
<1>1. AccessSpecGuarded /\ [Next]_vars =>
        [opspec.kind # "none" =>
           \/ opspec' = opspec
           \/ opspec' = [opspec EXCEPT !.done = TRUE]
           \/ AccessSpecEnds]_vars
  BY NextKeepsGuard DEF KeptOrEnded
<1> QED BY <1>1, FlagGuardsReader, PTL DEF Spec, NoOverlappingAccessSpecs

-----------------------------------------------------------------------------
(* The numbers that the WISP sends and keeps.                               *)

\* The local state of wtp_handle_blockwrite.
HandlingNumbers(w) ==
  /\ w \in [rx : {w.rx}, acks : Seq(0 .. SeqSpace - 1), delivered : {w.delivered}]
  /\ RxNumbers(w.rx)

\* wtp_handle_begin_msg and wtp_handle_cont_msg keep them.
LEMMA HandlePacketNumbers ==
  ASSUME NEW w, HandlingNumbers(w), NEW p \in SoundPacket
  PROVE  HandlingNumbers(HandlePacket(w, p))
<1>1. CASE ~IsData(p)
  BY <1>1 DEF HandlePacket
<1>2. CASE IsData(p)
  <2> DEFINE h == RxHandlePacket(w.rx, p)
             Handled(x) ==
               LET t == TakeMessages(x.rx.buf, x.nMsgs)
               IN [rx        |-> [x.rx EXCEPT !.buf = t.buf],
                   acks      |-> Append(w.acks, AckNumber(x.rx, p)),
                   delivered |-> w.delivered \o t.msgs]
  <2>1. p \in DataPacketType
    BY <1>2 DEF IsData, SoundPacket, CtrlPacketType
  <2>2. RxNumbers(h.rx)
    BY <2>1, RxHandlePacketNumbers DEF HandlingNumbers
  <2>3. HandlePacket(w, p) = Handled(h)
    <3>1. HandlePacket(w, p) = CHOOSE x \in {Handled(y) : y \in {h}} : TRUE
      BY <1>2 DEF HandlePacket, HandleMsgPacket, Strictly
    <3> HIDE DEF Handled, h
    <3> QED BY <3>1
  <2> HIDE DEF h
  <2>4. RxNumbers([h.rx EXCEPT !.buf = TakeMessages(h.rx.buf, h.nMsgs).buf])
    BY <2>2 DEF RxNumbers
  <2>5. Append(w.acks, AckNumber(h.rx, p)) \in Seq(0 .. SeqSpace - 1)
    <3>1. AckNumber(h.rx, p) \in 0 .. SeqSpace - 1
      BY <2>2 DEF RxNumbers, AckNumber
    <3>2. w.acks \in Seq(0 .. SeqSpace - 1)
      BY DEF HandlingNumbers
    <3> QED BY <3>1, <3>2
  <2>6. HandlingNumbers(Handled(h))
    BY <2>4, <2>5 DEF HandlingNumbers
  <2> QED BY <2>3, <2>6
<1> QED BY <1>1, <1>2

Handling == INSTANCE FoldFacts WITH Op <- HandlePacket

\* All packets of a BlockWrite keep them.
LEMMA BlockWriteNumbers ==
  ASSUME NEW w, HandlingNumbers(w), NEW ps \in Seq(SoundPacket)
  PROVE  HandlingNumbers(Fold(HandlePacket, w, ps))
<1>1. Len(ps) \in Nat
  OBVIOUS
<1>2. PICK g : /\ g[0] = w
               /\ \A k \in 1 .. Len(ps) : g[k] = HandlePacket(g[k - 1], ps[k])
               /\ Handling!Folded(w, ps) = g[Len(ps)]
  BY <1>1, Handling!FoldSteps
<1>3. Fold(HandlePacket, w, ps) = g[Len(ps)]
  BY <1>2 DEF Fold, Handling!Folded
<1> DEFINE T == {k \in 0 .. Len(ps) : HandlingNumbers(g[k])}
<1>4. 0 \in T
  BY <1>1, <1>2
<1>5. ASSUME NEW k \in 1 .. Len(ps), k - 1 \in T PROVE k \in T
  <2>1. ps[k] \in SoundPacket /\ g[k] = HandlePacket(g[k - 1], ps[k])
        /\ HandlingNumbers(g[k - 1])
    BY <1>2, <1>5
  <2> QED BY <2>1, HandlePacketNumbers
<1> HIDE DEF T
<1>6. \A k \in 0 .. Len(ps) : k \in T
  BY <1>1, <1>4, <1>5, Assembling!HoldsToTheEnd
<1> QED BY <1>1, <1>3, <1>6 DEF T

-----------------------------------------------------------------------------
(* The server's connection.                                                 *)

OpSpecType ==
  [kind : {"none", "read", "write"}, size : Nat, data : Seq(SoundPacket), done : BOOLEAN]

\* A request leaves the places in the stream as they are, and raises only with a
\* message in the queue.
LEMMA RequestSound ==
  ASSUME NEW t, NEW n, NEW a, NEW j, TxSound(t, n, a, j), HeadUncut(t, n),
         NEW r \in Seq(Nat), NEW busy \in BOOLEAN, NEW size \in Nat, opspec \in OpSpecType
  PROVE  LET q == RequestAccessSpec(t, r, busy, size)
         IN /\ TxSound(q.tx, n, a, j) /\ HeadUncut(q.tx, n)
            /\ q.reads \in Seq(Nat) /\ Len(q.reads) <= Len(r)
            /\ q.ongoing \in BOOLEAN /\ q.opspec \in OpSpecType /\ q.raised \in BOOLEAN
            /\ busy => q.tx = t /\ q.opspec = opspec /\ q.ongoing /\ ~q.raised
            /\ q.raised => /\ q.tx.messages # <<>>
                           /\ q.ongoing /\ q.opspec.kind = "none"
<1> DEFINE q == RequestAccessSpec(t, r, busy, size)
<1>1. NoOpSpec \in OpSpecType /\ NoOpSpec.kind = "none"
      /\ (\A s \in Nat : ReadOpSpec(s) \in OpSpecType)
      /\ (\A d \in Seq(SoundPacket) : WriteOpSpec(d) \in OpSpecType)
  <2>1. <<>> \in Seq(SoundPacket)
    OBVIOUS
  <2> HIDE DEF SoundPacket
  <2> QED BY <2>1 DEF NoOpSpec, ReadOpSpec, WriteOpSpec, OpSpecType
<1>2. Len(r) \in Nat
  OBVIOUS
<1>3. CASE busy
  <2>1. q = [tx |-> t, reads |-> r, ongoing |-> TRUE, opspec |-> opspec, raised |-> FALSE]
    BY <1>3 DEF RequestAccessSpec
  <2> HIDE DEF q
  <2>2. q.tx = t /\ q.reads = r /\ q.opspec = opspec
    BY <2>1
  <2>3. q.ongoing /\ q.ongoing \in BOOLEAN /\ ~q.raised /\ q.raised \in BOOLEAN
    BY <2>1
  <2>4. TxSound(q.tx, n, a, j) /\ HeadUncut(q.tx, n) /\ q.reads \in Seq(Nat)
        /\ Len(q.reads) <= Len(r) /\ q.opspec \in OpSpecType
    BY <1>2, <2>2
  <2> QED BY <2>2, <2>3, <2>4 DEF q
<1>4. CASE ~busy /\ r # <<>>
  <2>1. Tail(r) \in Seq(Nat) /\ Len(Tail(r)) <= Len(r) /\ Head(r) \in Nat
    BY <1>4
  <2>2. q = [tx |-> t, reads |-> Tail(r), ongoing |-> TRUE,
             opspec |-> ReadOpSpec(Head(r)), raised |-> FALSE]
    BY <1>4 DEF RequestAccessSpec
  <2> HIDE DEF q
  <2> QED BY <1>1, <1>4, <2>1, <2>2 DEF q
<1>5. CASE ~busy /\ r = <<>>
  <2> DEFINE g == GetWriteData(t, size)
             Outcome(w) ==
               LET raised  == w.status = "raised"
                   written == ~raised /\ w.data # <<>>
               IN [tx |-> w.tx, reads |-> r, ongoing |-> raised \/ written,
                   opspec |-> IF written THEN WriteOpSpec(w.data) ELSE NoOpSpec,
                   raised |-> raised]
  <2>1. q = Outcome(g)
    <3>1. q = CHOOSE x \in {Outcome(w) : w \in {g}} : TRUE
      BY <1>5 DEF RequestAccessSpec, Strictly
    <3> HIDE DEF Outcome, q, g
    <3> QED BY <3>1
  <2>2. /\ TxSound(g.tx, n, a, j) /\ HeadUncut(g.tx, n)
        /\ g.status = "raised" => g.tx.messages # <<>>
        /\ g.data \in Seq(SoundPacket)
    BY GetWriteDataSound
  <2> HIDE DEF g, q
  <2>3. /\ q.tx = g.tx /\ q.reads = r /\ q.raised = (g.status = "raised")
        /\ q.ongoing \in BOOLEAN /\ q.opspec \in OpSpecType /\ q.raised \in BOOLEAN
        /\ q.raised => q.ongoing /\ q.opspec = NoOpSpec
    BY <1>1, <2>1, <2>2
  <2>4. q.raised => q.tx.messages # <<>> /\ q.ongoing /\ q.opspec.kind = "none"
    BY <1>1, <2>2, <2>3
  <2>5. TxSound(q.tx, n, a, j) /\ HeadUncut(q.tx, n) /\ q.reads \in Seq(Nat)
        /\ Len(q.reads) <= Len(r)
    BY <1>2, <2>2, <2>3
  <2> QED BY <1>5, <2>3, <2>4, <2>5 DEF q
<1> QED BY <1>3, <1>4, <1>5

Acking == INSTANCE FoldFacts WITH Op <- AckOne

\* Any number of ACKs, one after the other.
LEMMA AcksSound ==
  ASSUME NEW t, NEW n, NEW a, NEW j, TxSound(t, n, a, j), HeadUncut(t, n),
         NEW numbers \in Seq(0 .. SeqSpace - 1)
  PROVE  LET w == Fold(AckOne, [tx |-> t, nSent |-> 0], numbers)
         IN /\ w.nSent \in Nat
            /\ \E b : TxSound(w.tx, n, b, j + w.nSent)
            /\ HeadUncut(w.tx, n) /\ w.tx.messages = t.messages
<1> DEFINE start == [tx |-> t, nSent |-> 0]
           Sound(w) == /\ w.nSent \in Nat
                       /\ \E b : TxSound(w.tx, n, b, j + w.nSent)
                       /\ HeadUncut(w.tx, n) /\ w.tx.messages = t.messages
<1>1. Len(numbers) \in Nat
  OBVIOUS
<1>2. PICK g : /\ g[0] = start
               /\ \A k \in 1 .. Len(numbers) : g[k] = AckOne(g[k - 1], numbers[k])
               /\ Acking!Folded(start, numbers) = g[Len(numbers)]
  BY <1>1, Acking!FoldSteps
<1>3. Fold(AckOne, start, numbers) = g[Len(numbers)]
  BY <1>2 DEF Fold, Acking!Folded
<1>4. Sound(start)
  <2>1. j + 0 = j /\ start.nSent = 0 /\ start.tx = t
    BY SoundNumbers
  <2> QED BY <2>1
<1> HIDE DEF start
<1> DEFINE T == {k \in 0 .. Len(numbers) : Sound(g[k])}
<1>5. 0 \in T
  BY <1>1, <1>2, <1>4
<1>6. ASSUME NEW k \in 1 .. Len(numbers), k - 1 \in T PROVE k \in T
  <2> DEFINE w == g[k - 1]
             s == numbers[k]
             h == HandleAck(w.tx, s)
  <2>1. Sound(w) /\ s \in 0 .. SeqSpace - 1
    <3>1. s \in 0 .. SeqSpace - 1
      BY ElementOfSeq
    <3>2. Sound(w)
      BY <1>6 DEF T
    <3> QED BY <3>1, <3>2
  <2>2. g[k].tx = h.tx /\ g[k].nSent = w.nSent + h.nSent
    <3>1. g[k] = AckOne(w, s)
      BY <1>2
    <3> QED BY <3>1 DEF AckOne
  <2> HIDE DEF w, s
  <2>3. PICK b : TxSound(w.tx, n, b, j + w.nSent)
    BY <2>1
  <2>4. /\ h.nSent \in Nat
        /\ \E c : TxSound(h.tx, n, c, (j + w.nSent) + h.nSent)
        /\ HeadUncut(h.tx, n) /\ h.tx.messages = w.tx.messages
    <3> DEFINE i == j + w.nSent
    <3>1. TxSound(w.tx, n, b, i) /\ HeadUncut(w.tx, n) /\ s \in 0 .. SeqSpace - 1
      BY <2>1, <2>3
    <3> HIDE DEF i
    <3>2. /\ h.nSent \in Nat
          /\ \E c : TxSound(h.tx, n, c, i + h.nSent) /\ (c = b \/ (b <= c /\ s = At(c)))
          /\ HeadUncut(h.tx, n) /\ h.tx.messages = w.tx.messages
      BY <3>1, HandleAckSound
    <3> HIDE DEF h
    <3> QED BY <3>2 DEF i
  <2> HIDE DEF h
  <2>5. (j + w.nSent) + h.nSent = j + (w.nSent + h.nSent) /\ w.nSent + h.nSent \in Nat
    <3>1. j \in Nat
      BY SoundNumbers
    <3>2. w.nSent \in Nat
      BY <2>1
    <3> DEFINE x == w.nSent
               y == h.nSent
    <3>3. x \in Nat /\ y \in Nat
      BY <2>4, <3>2
    <3> HIDE DEF x, y
    <3>4. (j + x) + y = j + (x + y) /\ x + y \in Nat
      BY <3>1, <3>3
    <3> QED BY <3>4 DEF x, y
  <2>6. Sound(g[k])
    BY <2>1, <2>2, <2>4, <2>5
  <2> QED BY <2>6
<1> HIDE DEF T
<1>7. \A k \in 0 .. Len(numbers) : k \in T
  BY <1>1, <1>5, <1>6, Assembling!HoldsToTheEnd
<1>8. Sound(g[Len(numbers)])
  BY <1>1, <1>7 DEF T
<1> QED BY <1>3, <1>8 DEF start

\* The Deferreds of send() and the messages they are for.  When a request has raised,
\* or the reader has failed, that of a message may be missing.
Stuck == ongoing /\ opspec.kind = "none"
SendsMatch ==
  LET j == Len(resolved)
      h == Loaded(tx, sent)
  IN /\ \A i \in 1 .. j : resolved[i] = i
     /\ h - j <= Len(sendDeferreds)
     /\ \A i \in 1 .. h - j : sendDeferreds[i] = j + i
     /\ ~Stuck => /\ Len(sendDeferreds) = sent - j
                  /\ \A i \in 1 .. sent - j : sendDeferreds[i] = j + i

\* The connection between the handlers.
ConnInv ==
  /\ ConnTypeOK /\ AccessSpecGuarded /\ opspec \in OpSpecType
  /\ \E a : TxSound(tx, sent, a, Len(resolved))
  /\ HeadUncut(tx, sent)
  /\ SendsMatch

\* The WISP's numbers.
WispNumbers ==
  /\ RxNumbers(rx)
  /\ acks \in Seq(0 .. SeqSpace - 1) /\ epc \in Seq(0 .. SeqSpace - 1)

\* A handler, not send() itself, that runs a request on t and may then queue packets.
LEMMA RequestKeeps ==
  ASSUME ConnInv, NEW t, NEW a, TxSound(t, sent, a, Len(resolved)), HeadUncut(t, sent),
         t.messages = tx.messages,
         NEW r \in Seq(Nat), NEW busy \in BOOLEAN, NEW size \in Nat, Stuck => busy,
         NEW q, q = RequestAccessSpec(t, r, busy, size), SamePlaces(q.tx, tx'),
         reads' = q.reads, ongoing' = q.ongoing, opspec' = q.opspec,
         UNCHANGED <<sent, resolved, sendDeferreds>>
  PROVE  /\ reads' \in Seq(Nat) /\ Len(reads') <= Len(r) /\ ongoing' \in BOOLEAN
         /\ AccessSpecGuarded' /\ (opspec \in OpSpecType)'
         /\ (\E b : TxSound(tx, sent, b, Len(resolved)))'
         /\ HeadUncut(tx, sent)' /\ SendsMatch' /\ (tx \in TxType)'
<1> DEFINE j == Len(resolved)
<1>1. /\ TxSound(q.tx, sent, a, j) /\ HeadUncut(q.tx, sent)
      /\ q.reads \in Seq(Nat) /\ Len(q.reads) <= Len(r)
      /\ q.ongoing \in BOOLEAN /\ q.opspec \in OpSpecType
      /\ busy => q.tx = t /\ q.opspec = opspec /\ q.ongoing
  BY RequestSound DEF ConnInv
<1>2. q.opspec.kind # "none" => q.ongoing
  BY RequestGuards
<1>3. SamePlaces(q.tx, tx') /\ reads' = q.reads /\ ongoing' = q.ongoing /\ opspec' = q.opspec
  OBVIOUS
<1>4. TxSound(tx', sent, a, j) /\ HeadUncut(tx', sent) /\ tx'.messages = q.tx.messages
  BY <1>1, <1>3, SamePlacesSound DEF SamePlaces
<1>5. j \in Nat /\ Loaded(tx', sent) \in Nat /\ Loaded(tx', sent) <= sent /\ sent \in Nat
  BY <1>4, SoundNumbers
<1>6. SendsMatch'
  <2>1. CASE Stuck
    <3>1. q.tx = t /\ opspec' = opspec /\ ongoing'
      BY <1>1, <1>3, <2>1
    <3>2. Loaded(tx', sent) = Loaded(tx, sent)
      BY <1>4, <3>1 DEF Loaded
    <3>3. Stuck'
      BY <2>1, <3>1 DEF Stuck
    <3>4. SendsMatch
      BY DEF ConnInv
    <3> QED BY <3>2, <3>3, <3>4 DEF SendsMatch
  <2>2. CASE ~Stuck
    <3> DEFINE h == Loaded(tx', sent)
    <3>1. /\ \A i \in 1 .. j : resolved[i] = i
          /\ Len(sendDeferreds) = sent - j
          /\ \A i \in 1 .. sent - j : sendDeferreds[i] = j + i
      BY <2>2 DEF ConnInv, SendsMatch
    <3> HIDE DEF h
    <3>2. h - j <= sent - j /\ \A i \in 1 .. h - j : i \in 1 .. sent - j
      BY <1>5 DEF h
    <3>3. /\ h - j <= Len(sendDeferreds)
          /\ \A i \in 1 .. h - j : sendDeferreds[i] = j + i
      BY <3>1, <3>2
    <3> QED BY <3>1, <3>3 DEF SendsMatch, h
  <2> QED BY <2>1, <2>2
<1>7. tx' \in TxType
  BY <1>4 DEF TxSound
<1> QED BY <1>1, <1>2, <1>3, <1>4, <1>6, <1>7 DEF AccessSpecGuarded

\* send().
LEMMA SendKeeps == ConnInv /\ Send => ConnInv'
<1> SUFFICES ASSUME ConnInv, Send PROVE ConnInv'
  OBVIOUS
<1> DEFINE t == AddMsg(tx, sent + 1)
           n == sent + 1
           j == Len(resolved)
           q == RequestAccessSpec(t, reads, ongoing, writeSize)
<1>1. PICK a : TxSound(tx, sent, a, j)
  BY DEF ConnInv
<1>2. /\ sent \in Nat /\ n \in Nat /\ n \in Message /\ n \in 0 .. Len(MsgSize)
      /\ sent < Len(MsgSize) /\ j \in Nat
  BY <1>1, SoundNumbers DEF Send, Message
<1>3. TxSound(t, n, a, j) /\ HeadUncut(t, n)
  BY <1>1, <1>2, AddMsgSound DEF ConnInv
<1>4. /\ writeSize \in Nat /\ reads \in Seq(Nat) /\ Len(reads) <= asked
      /\ ongoing \in BOOLEAN /\ opspec \in OpSpecType /\ sendDeferreds \in Seq(Message)
  BY WriteSizeAssumption DEF ConnInv, ConnTypeOK
<1>5. /\ TxSound(q.tx, n, a, j) /\ HeadUncut(q.tx, n)
      /\ q.reads \in Seq(Nat) /\ Len(q.reads) <= Len(reads)
      /\ q.ongoing \in BOOLEAN /\ q.opspec \in OpSpecType /\ q.raised \in BOOLEAN
      /\ ongoing => q.tx = t /\ q.opspec = opspec /\ q.ongoing /\ ~q.raised
      /\ q.raised => q.tx.messages # <<>> /\ q.ongoing /\ q.opspec.kind = "none"
  <2> HIDE DEF t, n
  <2> QED BY <1>3, <1>4, RequestSound
<1>6. q.opspec.kind # "none" => q.ongoing
  BY RequestGuards
<1>7. /\ sent' = n /\ tx' = q.tx /\ reads' = q.reads /\ ongoing' = q.ongoing
      /\ opspec' = q.opspec
      /\ sendDeferreds' = IF q.raised THEN sendDeferreds ELSE Append(sendDeferreds, n)
      /\ UNCHANGED <<writeSize, readSize, asked, resolved>>
  BY DEF Send, Become
<1> HIDE DEF q
<1>8. /\ Loaded(q.tx, n) \in Nat /\ Loaded(q.tx, n) <= n
      /\ Loaded(q.tx, n) = n - Len(q.tx.messages) /\ q.tx.messages \in Seq(Message)
      /\ Loaded(tx, sent) \in Nat /\ Loaded(tx, sent) <= sent
  BY <1>1, <1>5, SoundNumbers
<1>9. sendDeferreds' \in Seq(Message)
  BY <1>2, <1>4, <1>7
<1>10. ConnTypeOK'
  <2>1. q.tx \in TxType
    BY <1>5 DEF TxSound
  <2>2. opspec'.kind \in {"none", "read", "write"} /\ opspec'.done \in BOOLEAN
    BY <1>5, <1>7 DEF OpSpecType
  <2>3. Len(reads') <= asked
    <3>1. Len(reads) \in Nat /\ Len(q.reads) \in Nat /\ asked \in Nat
      BY <1>4, <1>5 DEF ConnInv, ConnTypeOK
    <3> QED BY <1>4, <1>5, <1>7, <3>1
  <2> QED BY <1>2, <1>5, <1>7, <1>9, <2>1, <2>2, <2>3 DEF ConnInv, ConnTypeOK
<1>11. SendsMatch'
  <2> DEFINE h == Loaded(q.tx, n)
             k == Loaded(tx, sent)
             d == sendDeferreds
  <2>1. /\ \A i \in 1 .. j : resolved[i] = i
        /\ k - j <= Len(d)
        /\ \A i \in 1 .. k - j : d[i] = j + i
        /\ ~Stuck => /\ Len(d) = sent - j
                     /\ \A i \in 1 .. sent - j : d[i] = j + i
    BY DEF ConnInv, SendsMatch
  <2>2. Len(d) \in Nat /\ d \in Seq(Message)
    BY <1>4
  <2>3. h \in Nat /\ h <= n /\ k \in Nat /\ k <= sent
    BY <1>8
  <2> HIDE DEF h, k, d
  <2>4. CASE q.raised
    <3>1. ~Stuck
      BY <1>5, <2>4 DEF Stuck
    <3>2. Stuck'
      BY <1>5, <1>7, <2>4 DEF Stuck
    <3>3. h <= sent
      <4>1. Len(q.tx.messages) # 0
        BY <1>5, <1>8, <2>4, EmptySeq
      <4>2. Len(q.tx.messages) \in Nat /\ h = n - Len(q.tx.messages)
        BY <1>8 DEF h
      <4> QED BY <1>2, <4>1, <4>2
    <3>4. sendDeferreds' = d
      BY <1>7, <2>4 DEF d
    <3>5. h - j <= sent - j /\ \A i \in 1 .. h - j : i \in 1 .. sent - j
      BY <1>2, <2>3, <3>3
    <3>6. h - j <= Len(d) /\ \A i \in 1 .. h - j : d[i] = j + i
      BY <2>1, <3>1, <3>5
    <3> QED BY <1>7, <2>1, <3>2, <3>4, <3>6 DEF SendsMatch, h
  <2>5. CASE ~q.raised
    <3> DEFINE e == Append(d, n)
    <3>1. sendDeferreds' = e
      BY <1>7, <2>5 DEF d
    <3>2. Len(e) = Len(d) + 1 /\ e[Len(d) + 1] = n /\ \A i \in 1 .. Len(d) : e[i] = d[i]
      BY <1>2, <2>2
    <3> HIDE DEF e
    <3>3. CASE Stuck
      <4>1. q.tx = t /\ Stuck'
        BY <1>5, <1>7, <3>3 DEF Stuck
      <4>2. h = k
        <5>1. t.messages = Append(tx.messages, n) /\ tx.messages \in Seq(Message)
          <6>1. tx \in TxType
            BY <1>1 DEF TxSound
          <6> QED BY <6>1 DEF AddMsg, TxType
        <5>2. Len(t.messages) = Len(tx.messages) + 1 /\ Len(tx.messages) \in Nat
          BY <1>2, <5>1
        <5> HIDE DEF t
        <5>3. h = n - Len(t.messages) /\ k = sent - Len(tx.messages)
          BY <4>1 DEF h, k, Loaded
        <5> QED BY <1>2, <5>2, <5>3
      <4>3. h - j <= Len(e) /\ \A i \in 1 .. h - j : e[i] = j + i
        <5>1. k - j <= Len(d) + 1 /\ \A i \in 1 .. k - j : i \in 1 .. Len(d)
          BY <1>2, <2>1, <2>2, <2>3
        <5> QED BY <2>1, <3>2, <4>2, <5>1
      <4> QED BY <1>7, <2>1, <3>1, <4>1, <4>3 DEF SendsMatch, h
    <3>4. CASE ~Stuck
      <4>1. Len(d) = sent - j /\ \A i \in 1 .. sent - j : d[i] = j + i
        BY <2>1, <3>4
      <4>2. Len(e) = n - j
        BY <1>2, <3>2, <4>1
      <4>3. \A i \in 1 .. n - j : e[i] = j + i
        <5> SUFFICES ASSUME NEW i \in 1 .. n - j PROVE e[i] = j + i
          OBVIOUS
        <5>1. CASE i \in 1 .. sent - j
          BY <3>2, <4>1, <5>1
        <5>2. CASE i = n - j
          <6>1. i = Len(d) + 1 /\ j + i = n
            BY <1>2, <4>1, <5>2
          <6> QED BY <3>2, <6>1
        <5> QED BY <1>2, <5>1, <5>2
      <4>4. h - j <= n - j /\ \A i \in 1 .. h - j : i \in 1 .. n - j
        BY <1>2, <2>3
      <4>5. h - j <= Len(e) /\ \A i \in 1 .. h - j : e[i] = j + i
        BY <4>2, <4>3, <4>4
      <4> QED BY <1>7, <2>1, <3>1, <4>2, <4>3, <4>5 DEF SendsMatch, h
    <3> QED BY <3>3, <3>4
  <2> QED BY <1>5, <2>4, <2>5
<1>12. AccessSpecGuarded' /\ opspec' \in OpSpecType
  BY <1>5, <1>6, <1>7 DEF AccessSpecGuarded
<1>13. (\E b : TxSound(tx, sent, b, Len(resolved)))' /\ HeadUncut(tx, sent)'
  BY <1>5, <1>7
<1> QED BY <1>10, <1>11, <1>12, <1>13 DEF ConnInv

\* What every handler but send() and that of an ACK does to the rest of the
\* connection.
LEMMA RestKeeps ==
  ASSUME ConnInv,
         reads' \in Seq(Nat), Len(reads') <= asked', asked' \in 0 .. MaxReads,
         ongoing' \in BOOLEAN, AccessSpecGuarded', (opspec \in OpSpecType)',
         (\E b : TxSound(tx, sent, b, Len(resolved)))',
         HeadUncut(tx, sent)', SendsMatch', (tx \in TxType)',
         writeSize' \in WriteMin - 1 .. WriteMax + 1,
         readSize' \in WriteMin - 1 .. WriteMax + 1,
         UNCHANGED <<sent, resolved, sendDeferreds>>
  PROVE  ConnInv'
<1>1. opspec'.kind \in {"none", "read", "write"} /\ opspec'.done \in BOOLEAN
  BY DEF OpSpecType
<1>2. ConnTypeOK'
  BY <1>1 DEF ConnInv, ConnTypeOK
<1> QED BY <1>2 DEF ConnInv

\* What the size control computes with.
LEMMA SizesAreNumbers ==
  ConnInv => writeSize \in Nat /\ readSize \in Nat /\ WriteMin \in Nat /\ WriteMax \in Nat
BY WriteSizeAssumption DEF ConnInv, ConnTypeOK

\* A size that a report leaves is a size still.
LEMMA NewSizes ==
  ASSUME ConnInv, NEW ok, NEW actual
  PROVE  /\ NewWriteSize(ok, actual) \in WriteMin - 1 .. WriteMax + 1
         /\ NewReadSize(ok, actual) \in WriteMin - 1 .. WriteMax + 1
         /\ NewWriteSize(ok, actual) \in Nat /\ NewReadSize(ok, actual) \in Nat
<1>1. /\ writeSize \in WriteMin - 1 .. WriteMax + 1
      /\ readSize \in WriteMin - 1 .. WriteMax + 1
      /\ WriteMin \in Nat \ {0} /\ WriteMax \in Nat
  BY WriteSizeAssumption DEF ConnInv, ConnTypeOK
<1>2. \/ NewWriteSize(ok, actual) = writeSize + 2 /\ writeSize < WriteMax
      \/ NewWriteSize(ok, actual) = writeSize - 2 /\ writeSize > WriteMin
      \/ NewWriteSize(ok, actual) = writeSize
  BY DEF NewWriteSize
<1>3. \/ NewReadSize(ok, actual) = readSize + 2 /\ readSize < WriteMax
      \/ NewReadSize(ok, actual) = readSize - 2 /\ readSize > WriteMin
      \/ NewReadSize(ok, actual) = readSize
  BY DEF NewReadSize
<1> QED BY <1>1, <1>2, <1>3

\* The timeout of a fragment.
LEMMA TimeoutKeeps ==
  ASSUME ConnInv, NEW i \in DOMAIN tx.fragments, FragmentTimeout(i)
  PROVE  ConnInv'
<1> DEFINE t == PacketTimeout(tx, i)
           j == Len(resolved)
           q == RequestAccessSpec(t, reads, ongoing, writeSize)
<1>1. PICK a : TxSound(tx, sent, a, j)
  BY DEF ConnInv
<1>2. SamePlaces(tx, t)
  BY <1>1, PacketTimeoutSound
<1> HIDE DEF t
<1>3. TxSound(t, sent, a, j) /\ HeadUncut(t, sent) /\ t.messages = tx.messages
  BY <1>1, <1>2, SamePlacesSound DEF ConnInv, SamePlaces
<1>4. /\ writeSize \in Nat /\ reads \in Seq(Nat) /\ Len(reads) <= asked
      /\ ongoing \in BOOLEAN /\ opspec \in OpSpecType /\ asked \in 0 .. MaxReads
  BY SizesAreNumbers DEF ConnInv, ConnTypeOK
<1>5. TxSound(q.tx, sent, a, j)
  BY <1>3, <1>4, RequestSound
<1>6. /\ tx' = q.tx /\ reads' = q.reads /\ ongoing' = q.ongoing /\ opspec' = q.opspec
      /\ UNCHANGED <<sent, writeSize, readSize, asked, sendDeferreds, resolved>>
  BY DEF FragmentTimeout, Become, t
<1>7. SamePlaces(q.tx, tx')
  BY <1>5, <1>6 DEF SamePlaces, TxSound
<1>8. Stuck => ongoing
  BY DEF Stuck
<1> HIDE DEF q
<1>9. /\ reads' \in Seq(Nat) /\ Len(reads') <= Len(reads) /\ ongoing' \in BOOLEAN
      /\ AccessSpecGuarded' /\ (opspec \in OpSpecType)'
      /\ (\E b : TxSound(tx, sent, b, Len(resolved)))'
      /\ HeadUncut(tx, sent)' /\ SendsMatch' /\ (tx \in TxType)'
  BY <1>3, <1>4, <1>6, <1>7, <1>8, RequestKeeps DEF q
<1>10. Len(reads') <= asked'
  <2>1. Len(reads) \in Nat /\ Len(reads') \in Nat /\ asked \in Nat
    BY <1>4, <1>9
  <2> QED BY <1>4, <1>6, <1>9, <2>1
<1> QED BY <1>4, <1>6, <1>9, <1>10, RestKeeps DEF ConnInv, ConnTypeOK

\* The request for Reads.
LEMMA ReqUplinkKeeps ==
  ASSUME ConnInv, NEW n \in 1 .. MaxReads, ReqUplink([i \in 1 .. n |-> WriteInit])
  PROVE  ConnInv'
<1> DEFINE sizes == [i \in 1 .. n |-> WriteInit]
           r == reads \o sizes
           j == Len(resolved)
           q == RequestAccessSpec(tx, r, ongoing, writeSize)
<1>1. PICK a : TxSound(tx, sent, a, j)
  BY DEF ConnInv
<1>2. /\ writeSize \in Nat /\ reads \in Seq(Nat) /\ Len(reads) <= asked
      /\ ongoing \in BOOLEAN /\ opspec \in OpSpecType /\ asked \in 0 .. MaxReads
      /\ MaxReads \in Nat
  BY SizesAreNumbers, BoundAssumption DEF ConnInv, ConnTypeOK
<1>3. sizes \in Seq(Nat) /\ Len(sizes) = n /\ n \in Nat
  BY <1>2, WriteSizeAssumption
<1>4. /\ tx' = q.tx /\ reads' = q.reads /\ ongoing' = q.ongoing /\ opspec' = q.opspec
      /\ UNCHANGED <<sent, writeSize, readSize, sendDeferreds, resolved>>
      /\ asked' = asked + Len(sizes) /\ asked + Len(sizes) <= MaxReads
  BY DEF ReqUplink, Become
<1> HIDE DEF sizes
<1>5. r \in Seq(Nat) /\ Len(r) = Len(reads) + Len(sizes)
  BY <1>2, <1>3, ConcatProperties
<1> HIDE DEF r
<1>6. HeadUncut(tx, sent)
  BY DEF ConnInv
<1>7. TxSound(q.tx, sent, a, j)
  BY <1>1, <1>2, <1>5, <1>6, RequestSound
<1>8. SamePlaces(q.tx, tx')
  BY <1>4, <1>7 DEF SamePlaces, TxSound
<1>9. Stuck => ongoing
  BY DEF Stuck
<1> HIDE DEF q
<1>10. /\ reads' \in Seq(Nat) /\ Len(reads') <= Len(r) /\ ongoing' \in BOOLEAN
       /\ AccessSpecGuarded' /\ (opspec \in OpSpecType)'
       /\ (\E b : TxSound(tx, sent, b, Len(resolved)))'
       /\ HeadUncut(tx, sent)' /\ SendsMatch' /\ (tx \in TxType)'
  BY <1>1, <1>2, <1>4, <1>5, <1>6, <1>8, <1>9, RequestKeeps DEF q
<1>11. Len(reads') <= asked' /\ asked' \in 0 .. MaxReads
  <2>1. Len(reads) \in Nat /\ Len(reads') \in Nat /\ asked \in Nat /\ Len(sizes) \in Nat
    BY <1>2, <1>3, <1>10
  <2> QED BY <1>2, <1>4, <1>5, <1>10, <2>1
<1> QED BY <1>2, <1>4, <1>10, <1>11, RestKeeps DEF ConnInv, ConnTypeOK

\* The report of a BlockWrite.
LEMMA WriteReportKeeps ==
  ASSUME ConnInv, NEW ok \in BOOLEAN, WriteReport(ok)
  PROVE  ConnInv'
<1> DEFINE size == NewWriteSize(ok, WrittenSize(opspec.data))
           j == Len(resolved)
           q == RequestAccessSpec(tx, reads, FALSE, size)
<1>1. PICK a : TxSound(tx, sent, a, j)
  BY DEF ConnInv
<1>2. /\ reads \in Seq(Nat) /\ Len(reads) <= asked
      /\ opspec \in OpSpecType /\ asked \in 0 .. MaxReads
  BY DEF ConnInv, ConnTypeOK
<1>3. size \in WriteMin - 1 .. WriteMax + 1 /\ size \in Nat
  BY NewSizes
<1>4. /\ tx' = q.tx /\ reads' = q.reads /\ ongoing' = q.ongoing /\ opspec' = q.opspec
      /\ writeSize' = size /\ opspec.kind = "write"
      /\ UNCHANGED <<sent, readSize, asked, sendDeferreds, resolved>>
  BY DEF WriteReport, Become
<1> HIDE DEF size
<1>5. HeadUncut(tx, sent)
  BY DEF ConnInv
<1>6. TxSound(q.tx, sent, a, j)
  BY <1>1, <1>2, <1>3, <1>5, RequestSound
<1>7. SamePlaces(q.tx, tx')
  BY <1>4, <1>6 DEF SamePlaces, TxSound
<1>8. Stuck => FALSE
  BY <1>4 DEF Stuck
<1> HIDE DEF q
<1>9. /\ reads' \in Seq(Nat) /\ Len(reads') <= Len(reads) /\ ongoing' \in BOOLEAN
      /\ AccessSpecGuarded' /\ (opspec \in OpSpecType)'
      /\ (\E b : TxSound(tx, sent, b, Len(resolved)))'
      /\ HeadUncut(tx, sent)' /\ SendsMatch' /\ (tx \in TxType)'
  <2>1. FALSE \in BOOLEAN
    OBVIOUS
  <2> QED BY <1>1, <1>2, <1>3, <1>4, <1>5, <1>7, <1>8, <2>1, RequestKeeps DEF q
<1>10. Len(reads') <= asked'
  <2>1. Len(reads) \in Nat /\ Len(reads') \in Nat /\ asked \in Nat
    BY <1>2, <1>9
  <2> QED BY <1>2, <1>4, <1>9, <2>1
<1> QED BY <1>2, <1>3, <1>4, <1>9, <1>10, RestKeeps DEF ConnInv, ConnTypeOK

\* The report of a Read runs a request after it has queued a SET_PARAM, and may queue
\* packets after it.
LEMMA ReadReportRuns ==
  ASSUME ConnInv, NEW ok \in BOOLEAN, NEW answer \in Answers, ReadReport(ok, answer)
  PROVE  \E t, q : /\ SamePlaces(tx, t) /\ q = RequestAccessSpec(t, reads, FALSE, writeSize)
                   /\ SamePlaces(q.tx, tx') /\ reads' = q.reads /\ ongoing' = q.ongoing
                   /\ opspec' = q.opspec
<1> DEFINE size  == NewReadSize(ok, WordBytes(opspec.size))
           param == CtrlPacket("setParam", CtrlSize, size)
           t     == AddPacket(tx, param)
           j     == Len(resolved)
           q     == RequestAccessSpec(t, reads, FALSE, writeSize)
           ps    == q.tx.packets \o answer
           u     == [q.tx EXCEPT !.packets = ps]
<1>1. PICK a : TxSound(tx, sent, a, j)
  BY DEF ConnInv
<1>2. /\ writeSize \in Nat /\ reads \in Seq(Nat) /\ Len(reads) <= asked
      /\ opspec \in OpSpecType /\ asked \in 0 .. MaxReads /\ CtrlSize \in Nat
  BY SizesAreNumbers, BoundAssumption DEF ConnInv, ConnTypeOK
<1>3. size \in WriteMin - 1 .. WriteMax + 1 /\ size \in Nat
  BY NewSizes
<1> HIDE DEF size
<1>4. param \in CtrlPacketType
  BY <1>2, <1>3 DEF CtrlPacket, CtrlPacketType
<1>5. answer \in Seq(CtrlPacketType)
  <2>1. CtrlPacket("ack", CtrlSize, 0) \in CtrlPacketType
    BY <1>2 DEF CtrlPacket, CtrlPacketType
  <2> DEFINE p == CtrlPacket("ack", CtrlSize, 0)
  <2>2. answer = <<>> \/ answer = <<p>>
    BY DEF Answers
  <2> HIDE DEF p
  <2>3. <<>> \in Seq(CtrlPacketType) /\ <<p>> \in Seq(CtrlPacketType)
    BY <2>1 DEF p
  <2> QED BY <2>2, <2>3
<1> HIDE DEF param
<1>6. SamePlaces(tx, t)
  <2>1. tx \in TxType /\ tx.packets \in Seq(CtrlPacketType)
    BY <1>1 DEF TxSound, TxType
  <2>2. Append(tx.packets, param) \in Seq(CtrlPacketType)
    BY <1>4, <2>1
  <2>3. t = [tx EXCEPT !.packets = Append(tx.packets, param)]
    BY <2>1 DEF AddPacket, TxType
  <2> QED BY <1>1, <2>2, <2>3, PacketsSound
<1> HIDE DEF t
<1>7. TxSound(t, sent, a, j) /\ HeadUncut(t, sent)
  BY <1>1, <1>6, SamePlacesSound DEF ConnInv
<1>8. TxSound(q.tx, sent, a, j)
  BY <1>2, <1>7, RequestSound
<1>9. q = [tx |-> q.tx, reads |-> q.reads, ongoing |-> q.ongoing,
           opspec |-> q.opspec, raised |-> q.raised]
  BY RequestGuards
<1>10. Become([q EXCEPT !.tx.packets = @ \o answer])
  BY DEF ReadReport, t, param, size
<1> HIDE DEF q
<1>11. q.tx \in TxType
  BY <1>8 DEF TxSound
<1>12. /\ tx' = u /\ reads' = q.reads /\ ongoing' = q.ongoing /\ opspec' = q.opspec
  <2> DEFINE v == [q EXCEPT !.tx.packets = @ \o answer]
  <2>1. v.tx = u /\ v.reads = q.reads /\ v.ongoing = q.ongoing /\ v.opspec = q.opspec
    BY <1>9, <1>11 DEF TxType
  <2>2. tx' = v.tx /\ reads' = v.reads /\ ongoing' = v.ongoing /\ opspec' = v.opspec
    BY <1>10 DEF Become
  <2> QED BY <2>1, <2>2
<1>13. SamePlaces(q.tx, u)
  <2>1. q.tx.packets \in Seq(CtrlPacketType)
    BY <1>11 DEF TxType
  <2>2. ps \in Seq(CtrlPacketType)
    BY <1>5, <2>1, ConcatProperties
  <2> HIDE DEF ps
  <2> QED BY <1>8, <2>2, PacketsSound
<1> QED BY <1>6, <1>12, <1>13 DEF q

\* The report of a Read.
LEMMA ReadReportKeeps ==
  ASSUME ConnInv, NEW ok \in BOOLEAN, NEW answer \in Answers, ReadReport(ok, answer)
  PROVE  ConnInv'
<1> DEFINE size == NewReadSize(ok, WordBytes(opspec.size))
           j    == Len(resolved)
<1>1. PICK a : TxSound(tx, sent, a, j)
  BY DEF ConnInv
<1>2. /\ writeSize \in Nat /\ reads \in Seq(Nat) /\ Len(reads) <= asked
      /\ opspec \in OpSpecType /\ asked \in 0 .. MaxReads
  BY SizesAreNumbers DEF ConnInv, ConnTypeOK
<1>3. size \in WriteMin - 1 .. WriteMax + 1 /\ size \in Nat
  BY NewSizes
<1> HIDE DEF size
<1>4. /\ readSize' = size /\ opspec.kind = "read"
      /\ UNCHANGED <<sent, writeSize, asked, sendDeferreds, resolved>>
  BY DEF ReadReport, size
<1>5. PICK t, q : /\ SamePlaces(tx, t) /\ q = RequestAccessSpec(t, reads, FALSE, writeSize)
                  /\ SamePlaces(q.tx, tx') /\ reads' = q.reads /\ ongoing' = q.ongoing
                  /\ opspec' = q.opspec
  BY ReadReportRuns
<1>6. TxSound(t, sent, a, j) /\ HeadUncut(t, sent) /\ t.messages = tx.messages
  BY <1>1, <1>5, SamePlacesSound DEF ConnInv, SamePlaces
<1>7. Stuck => FALSE
  BY <1>4 DEF Stuck
<1>8. /\ reads' \in Seq(Nat) /\ Len(reads') <= Len(reads) /\ ongoing' \in BOOLEAN
      /\ AccessSpecGuarded' /\ (opspec \in OpSpecType)'
      /\ (\E b : TxSound(tx, sent, b, Len(resolved)))'
      /\ HeadUncut(tx, sent)' /\ SendsMatch' /\ (tx \in TxType)'
  <2>1. FALSE \in BOOLEAN
    OBVIOUS
  <2> QED BY <1>2, <1>4, <1>5, <1>6, <1>7, <2>1, RequestKeeps
<1>9. Len(reads') <= asked'
  <2>1. Len(reads) \in Nat /\ Len(reads') \in Nat /\ asked \in Nat
    BY <1>2, <1>8
  <2> QED BY <1>2, <1>4, <1>8, <2>1
<1> QED BY <1>2, <1>3, <1>4, <1>8, <1>9, RestKeeps DEF ConnInv, ConnTypeOK

\* nextAccess fails.
LEMMA FailureKeeps == ConnInv /\ AccessSpecFails => ConnInv'
<1> SUFFICES ASSUME ConnInv, AccessSpecFails PROVE ConnInv'
  OBVIOUS
<1>1. opspec.kind # "none" /\ opspec' = NoOpSpec
      /\ UNCHANGED <<sent, tx, writeSize, readSize, ongoing, reads, asked,
                     sendDeferreds, resolved>>
  BY DEF AccessSpecFails
<1>2. NoOpSpec.kind = "none" /\ NoOpSpec \in OpSpecType
  <2>1. <<>> \in Seq(SoundPacket)
    OBVIOUS
  <2> HIDE DEF SoundPacket
  <2> QED BY <2>1 DEF NoOpSpec, OpSpecType
<1>3. ongoing
  BY <1>1 DEF ConnInv, AccessSpecGuarded
<1>4. SendsMatch'
  <2>1. Stuck'
    BY <1>1, <1>2, <1>3 DEF Stuck
  <2>2. SendsMatch
    BY DEF ConnInv
  <2> QED BY <1>1, <2>1, <2>2 DEF SendsMatch
<1>5. AccessSpecGuarded'
  BY <1>1, <1>3 DEF AccessSpecGuarded
<1>6. /\ reads \in Seq(Nat) /\ Len(reads) <= asked /\ asked \in 0 .. MaxReads
      /\ ongoing \in BOOLEAN /\ tx \in TxType /\ HeadUncut(tx, sent)
      /\ (\E b : TxSound(tx, sent, b, Len(resolved)))
      /\ writeSize \in WriteMin - 1 .. WriteMax + 1
      /\ readSize \in WriteMin - 1 .. WriteMax + 1
  BY DEF ConnInv, ConnTypeOK
<1> QED BY <1>1, <1>2, <1>4, <1>5, <1>6, RestKeeps

\* What concerns the OpSpec only in whether it is carried out.
LEMMA DoneKeeps ==
  ASSUME ConnInv, opspec' = [opspec EXCEPT !.done = TRUE],
         UNCHANGED <<sent, tx, writeSize, readSize, ongoing, reads, asked,
                     sendDeferreds, resolved>>
  PROVE  ConnInv'
<1>1. opspec' \in OpSpecType /\ opspec'.kind = opspec.kind
  BY DEF ConnInv, OpSpecType
<1>2. SendsMatch' /\ AccessSpecGuarded'
  BY <1>1 DEF ConnInv, SendsMatch, Stuck, AccessSpecGuarded
<1>3. /\ reads \in Seq(Nat) /\ Len(reads) <= asked /\ asked \in 0 .. MaxReads
      /\ ongoing \in BOOLEAN /\ tx \in TxType /\ HeadUncut(tx, sent)
      /\ (\E b : TxSound(tx, sent, b, Len(resolved)))
      /\ writeSize \in WriteMin - 1 .. WriteMax + 1
      /\ readSize \in WriteMin - 1 .. WriteMax + 1
  BY DEF ConnInv, ConnTypeOK
<1> QED BY <1>1, <1>2, <1>3, RestKeeps

\* The ACKs of an EPC.
LEMMA AcksKeep ==
  ASSUME ConnInv, NEW numbers \in Seq(0 .. SeqSpace - 1), HandleAcks(numbers)
  PROVE  ConnInv'
<1> DEFINE j == Len(resolved)
           w == Fold(AckOne, [tx |-> tx, nSent |-> 0], numbers)
           s == w.nSent
           d == sendDeferreds
           h == Loaded(tx, sent)
<1>1. PICK a : TxSound(tx, sent, a, j)
  BY DEF ConnInv
<1>2. /\ s \in Nat /\ (\E b : TxSound(w.tx, sent, b, j + s))
      /\ HeadUncut(w.tx, sent) /\ w.tx.messages = tx.messages
  BY <1>1, AcksSound DEF ConnInv
<1>3. /\ tx' = w.tx
      /\ resolved' = resolved \o SubSeq(d, 1, s)
      /\ sendDeferreds' = SubSeq(d, s + 1, Len(d))
      /\ UNCHANGED <<sent, writeSize, readSize, ongoing, opspec, reads, asked>>
  BY DEF HandleAcks
<1> HIDE DEF w
<1>4. /\ h \in Nat /\ h <= sent /\ sent \in Nat /\ j \in Nat
      /\ d \in Seq(Message) /\ Len(d) \in Nat
      /\ resolved \in Seq(Message)
  <2>1. h \in Nat /\ h <= sent /\ sent \in Nat /\ j \in Nat
    BY <1>1, SoundNumbers
  <2>2. d \in Seq(Message) /\ resolved \in Seq(Message)
    BY DEF ConnInv, ConnTypeOK
  <2>3. Len(d) \in Nat
    BY <2>2
  <2> QED BY <2>1, <2>2, <2>3
<1>5. Loaded(w.tx, sent) = h
  BY <1>2 DEF Loaded
<1>6. j + s <= h
  <2>1. PICK b : TxSound(w.tx, sent, b, j + s)
    BY <1>2
  <2>2. j + s \in 0 .. Loaded(w.tx, sent)
    BY <2>1 DEF TxSound, EndsSound
  <2> HIDE DEF s, j, h
  <2> QED BY <1>5, <2>2
<1> HIDE DEF s
<1>7. /\ \A i \in 1 .. j : resolved[i] = i
      /\ h - j <= Len(d)
      /\ \A i \in 1 .. h - j : d[i] = j + i
      /\ ~Stuck => Len(d) = sent - j /\ \A i \in 1 .. sent - j : d[i] = j + i
  BY DEF ConnInv, SendsMatch
<1> HIDE DEF d, h
<1> DEFINE first == SubSeq(d, 1, s)
           rest  == SubSeq(d, s + 1, Len(d))
<1>8. s \in 0 .. Len(d) /\ s <= h - j
  BY <1>2, <1>4, <1>6, <1>7
<1>9. first \in Seq(Message) /\ Len(first) = s /\ \A i \in 1 .. s : first[i] = d[i]
  BY <1>4, <1>8
<1>10. /\ rest \in Seq(Message) /\ Len(rest) = Len(d) - s
       /\ \A i \in 1 .. Len(d) - s : rest[i] = d[s + i]
  BY <1>4, <1>8
<1> HIDE DEF first, rest
<1>11. /\ resolved \o first \in Seq(Message) /\ Len(resolved \o first) = j + s
       /\ \A i \in 1 .. j + s : (resolved \o first)[i] =
                                   IF i <= j THEN resolved[i] ELSE first[i - j]
  BY <1>4, <1>9, ConcatProperties
<1>12. resolved' = resolved \o first /\ sendDeferreds' = rest
  BY <1>3 DEF first, rest
<1>13. Len(resolved') = j + s
  BY <1>11, <1>12
<1> HIDE DEF j
<1>14. \A i \in 1 .. j + s : resolved'[i] = i
  <2> SUFFICES ASSUME NEW i \in 1 .. j + s PROVE (resolved \o first)[i] = i
    BY <1>12
  <2>1. CASE i <= j
    BY <1>4, <1>7, <1>11, <2>1
  <2>2. CASE ~(i <= j)
    <3>1. i - j \in 1 .. s /\ i - j \in 1 .. h - j /\ j + (i - j) = i
      BY <1>2, <1>4, <1>8, <2>2
    <3> QED BY <1>7, <1>9, <1>11, <2>2, <3>1
  <2> QED BY <2>1, <2>2
<1>15. /\ h - (j + s) <= Len(rest)
       /\ \A i \in 1 .. h - (j + s) : rest[i] = (j + s) + i
  <2>1. h - (j + s) <= Len(d) - s /\ Len(rest) = Len(d) - s
    BY <1>4, <1>2, <1>7, <1>10
  <2>2. ASSUME NEW i \in 1 .. h - (j + s) PROVE rest[i] = (j + s) + i
    <3>1. i \in 1 .. Len(d) - s /\ s + i \in 1 .. h - j /\ j + (s + i) = (j + s) + i
      BY <1>2, <1>4, <2>1
    <3> QED BY <1>7, <1>10, <3>1
  <2> QED BY <2>1, <2>2
<1>16. ~Stuck => /\ Len(rest) = sent - (j + s)
                 /\ \A i \in 1 .. sent - (j + s) : rest[i] = (j + s) + i
  <2> SUFFICES ASSUME ~Stuck
               PROVE  /\ Len(rest) = sent - (j + s)
                      /\ \A i \in 1 .. sent - (j + s) : rest[i] = (j + s) + i
    OBVIOUS
  <2>1. Len(d) = sent - j /\ \A i \in 1 .. sent - j : d[i] = j + i
    BY <1>7
  <2>2. Len(rest) = sent - (j + s)
    BY <1>2, <1>4, <1>10, <2>1
  <2>3. ASSUME NEW i \in 1 .. sent - (j + s) PROVE rest[i] = (j + s) + i
    <3>1. i \in 1 .. Len(d) - s /\ s + i \in 1 .. sent - j /\ j + (s + i) = (j + s) + i
      BY <1>2, <1>4, <2>1
    <3> QED BY <1>10, <2>1, <3>1
  <2> QED BY <2>2, <2>3
<1>17. SendsMatch'
  <2>1. Loaded(tx', sent') = h
    BY <1>3, <1>5
  <2>2. Stuck' <=> Stuck
    BY <1>3 DEF Stuck
  <2>3. \A i \in 1 .. Len(resolved') : resolved'[i] = i
    BY <1>13, <1>14
  <2>4. /\ Loaded(tx', sent') - Len(resolved') <= Len(sendDeferreds')
        /\ \A i \in 1 .. Loaded(tx', sent') - Len(resolved') :
             sendDeferreds'[i] = Len(resolved') + i
    BY <1>12, <1>13, <1>15, <2>1
  <2>5. ~Stuck' => /\ Len(sendDeferreds') = sent' - Len(resolved')
                   /\ \A i \in 1 .. sent' - Len(resolved') :
                        sendDeferreds'[i] = Len(resolved') + i
    <3>1. sent' = sent
      BY <1>3
    <3> QED BY <1>12, <1>13, <1>16, <2>2, <3>1
  <2> QED BY <2>3, <2>4, <2>5 DEF SendsMatch
<1>18. (\E b : TxSound(tx, sent, b, Len(resolved)))' /\ HeadUncut(tx, sent)'
       /\ tx' \in TxType
  BY <1>2, <1>3, <1>13 DEF s, TxSound
<1>19. ConnTypeOK'
  BY <1>3, <1>10, <1>11, <1>12, <1>18 DEF ConnInv, ConnTypeOK
<1>20. AccessSpecGuarded' /\ opspec' \in OpSpecType
  BY <1>3 DEF ConnInv, AccessSpecGuarded
<1> QED BY <1>17, <1>18, <1>19, <1>20 DEF ConnInv

\* The connection and the WISP's numbers, whatever is lost, late or repeated and
\* however often the sequence numbers wrap.
SenderInv == ConnInv /\ WispNumbers

\* It holds in the beginning ...
LEMMA InitSender == Init => SenderInv
<1> SUFFICES ASSUME Init PROVE SenderInv
  OBVIOUS
<1>1. /\ sent = 0 /\ tx = NewTx /\ writeSize = WriteInit /\ readSize = WriteInit
      /\ ongoing = FALSE /\ opspec = NoOpSpec /\ reads = <<>> /\ asked = 0
      /\ sendDeferreds = <<>> /\ resolved = <<>>
      /\ rx = NewRx /\ acks = <<>> /\ epc = <<>>
  BY DEF Init, ConnInit
<1>2. TxSound(tx, sent, 0, Len(resolved)) /\ HeadUncut(tx, sent)
  <2>1. Len(<<>>) = 0
    OBVIOUS
  <2> QED BY <1>1, <2>1, NewTxSound
<1>3. opspec \in OpSpecType /\ opspec.kind = "none" /\ opspec.done = FALSE
  <2>1. <<>> \in Seq(SoundPacket)
    OBVIOUS
  <2> HIDE DEF SoundPacket
  <2> QED BY <1>1, <2>1 DEF NoOpSpec, OpSpecType
<1>4. ConnTypeOK
  <2>1. tx \in TxType
    BY <1>2 DEF TxSound
  <2>2. <<>> \in Seq(Nat) /\ <<>> \in Seq(Message) /\ Len(<<>>) = 0
    OBVIOUS
  <2>3. WriteInit \in WriteMin - 1 .. WriteMax + 1
    BY WriteSizeAssumption
  <2>4. 0 \in 0 .. Len(MsgSize) /\ 0 \in 0 .. MaxReads
    BY BoundAssumption, MessageSizes
  <2>8. ongoing \in BOOLEAN
    BY <1>1
  <2>5. reads \in Seq(Nat) /\ Len(reads) <= asked
        /\ sendDeferreds \in Seq(Message) /\ resolved \in Seq(Message)
    BY <1>1, <2>2
  <2>6. opspec.kind \in {"none", "read", "write"} /\ opspec.done \in BOOLEAN
    BY <1>3
  <2>7. sent = 0 /\ asked = 0 /\ writeSize = WriteInit /\ readSize = WriteInit
    BY <1>1
  <2> QED BY <2>1, <2>3, <2>4, <2>5, <2>6, <2>7, <2>8 DEF ConnTypeOK
<1>5. SendsMatch
  <2>1. Loaded(tx, sent) = 0
    <3>1. Loaded(tx, sent) \in Nat /\ Loaded(tx, sent) <= sent
      BY <1>2, SoundNumbers
    <3> QED BY <1>1, <3>1
  <2>2. Len(resolved) = 0 /\ Len(sendDeferreds) = 0 /\ sent = 0
    BY <1>1
  <2> QED BY <2>1, <2>2 DEF SendsMatch
<1>6. AccessSpecGuarded
  BY <1>3 DEF AccessSpecGuarded
<1>7. WispNumbers
  BY <1>1, NewRxNumbers DEF WispNumbers
<1> QED BY <1>2, <1>3, <1>4, <1>5, <1>6, <1>7 DEF SenderInv, ConnInv

\* ... and every step keeps it.
LEMMA NextSender == SenderInv /\ [Next]_vars => SenderInv'
<1> SUFFICES ASSUME SenderInv, [Next]_vars PROVE SenderInv'
  OBVIOUS
<1>1. ConnInv /\ WispNumbers
  BY DEF SenderInv
<1>2. UNCHANGED wispVars => WispNumbers'
  BY <1>1 DEF wispVars, WispNumbers
<1>3. CASE Conn(Send)
  BY <1>1, <1>2, <1>3, SendKeeps DEF Conn, SenderInv
<1>4. CASE Conn(\E i \in DOMAIN tx.fragments : FragmentTimeout(i))
  BY <1>1, <1>2, <1>4, TimeoutKeeps DEF Conn, SenderInv
<1>5. CASE Conn(\E n \in 1 .. MaxReads : ReqUplink([i \in 1 .. n |-> WriteInit]))
  BY <1>1, <1>2, <1>5, ReqUplinkKeeps DEF Conn, SenderInv
<1>6. CASE Conn(\E ok \in BOOLEAN : WriteReport(ok))
  BY <1>1, <1>2, <1>6, WriteReportKeeps DEF Conn, SenderInv
<1>7. CASE Conn(\E ok \in BOOLEAN, answer \in Answers : ReadReport(ok, answer))
  BY <1>1, <1>2, <1>7, ReadReportKeeps DEF Conn, SenderInv
<1>8. CASE Conn(AccessSpecFails)
  BY <1>1, <1>2, <1>8, FailureKeeps DEF Conn, SenderInv
<1>9. CASE BlockWrite
  <2> DEFINE start == [rx |-> rx, acks |-> acks, delivered |-> delivered]
             w == Fold(HandlePacket, start, opspec.data)
  <2>1. HandlingNumbers(start)
    BY <1>1 DEF HandlingNumbers, WispNumbers
  <2>2. opspec.data \in Seq(SoundPacket)
    BY <1>1 DEF ConnInv, OpSpecType
  <2> HIDE DEF start
  <2>3. HandlingNumbers(w)
    BY <2>1, <2>2, BlockWriteNumbers
  <2>4. rx' = w.rx /\ acks' = w.acks /\ epc' = epc
    BY <1>9 DEF BlockWrite, start
  <2>5. WispNumbers'
    BY <1>1, <2>3, <2>4 DEF WispNumbers, HandlingNumbers
  <2>6. opspec' = [opspec EXCEPT !.done = TRUE]
        /\ UNCHANGED <<sent, tx, writeSize, readSize, ongoing, reads, asked,
                       sendDeferreds, resolved>>
    BY <1>9 DEF BlockWrite
  <2> QED BY <1>1, <2>5, <2>6, DoneKeeps DEF SenderInv
<1>10. CASE Read
  <2>1. opspec' = [opspec EXCEPT !.done = TRUE] /\ UNCHANGED wispVars
        /\ UNCHANGED <<sent, tx, writeSize, readSize, ongoing, reads, asked,
                       sendDeferreds, resolved>>
    BY <1>10 DEF Read
  <2> QED BY <1>1, <1>2, <2>1, DoneKeeps DEF SenderInv
<1>11. CASE UNCHANGED connVars /\ WispNumbers'
  BY <1>1, <1>11 DEF connVars, SenderInv, ConnInv, ConnTypeOK, AccessSpecGuarded,
                     SendsMatch, Stuck
<1>12. CASE UpdateEpc
  <2>1. /\ acks \in Seq(0 .. SeqSpace - 1) /\ acks # <<>> /\ EpcCap \in Nat
    BY <1>1, <1>12, CapAssumption DEF WispNumbers, UpdateEpc
  <2>2. /\ epc' = SubSeq(acks, 1, Min({EpcCap, Len(acks)})) /\ acks' = <<>> /\ rx' = rx
        /\ UNCHANGED connVars
    BY <1>12 DEF UpdateEpc
  <2>3. Min({EpcCap, Len(acks)}) \in 0 .. Len(acks)
    <3>1. Len(acks) \in Nat
      BY <2>1
    <3> DEFINE T == {EpcCap, Len(acks)}
    <3>2. T \subseteq Nat /\ T # {} /\ Len(acks) \in T
      BY <2>1, <3>1
    <3> HIDE DEF T
    <3>3. Min(T) \in T /\ Min(T) <= Len(acks)
      BY <3>2, LeastOf
    <3> QED BY <3>1, <3>2, <3>3 DEF T
  <2>4. SubSeq(acks, 1, Min({EpcCap, Len(acks)})) \in Seq(0 .. SeqSpace - 1)
    <3> DEFINE D == 0 .. SeqSpace - 1
               m == Min({EpcCap, Len(acks)})
    <3>1. acks \in Seq(D) /\ m \in 0 .. Len(acks)
      BY <2>1, <2>3
    <3> HIDE DEF D, m
    <3>2. SubSeq(acks, 1, m) \in Seq(D)
      BY <3>1
    <3> QED BY <3>2 DEF D, m
  <2>5. acks' \in Seq(0 .. SeqSpace - 1)
    BY <2>2
  <2>6. WispNumbers'
    BY <1>1, <2>2, <2>4, <2>5 DEF WispNumbers
  <2> QED BY <1>11, <2>2, <2>6
<1>13. CASE SeeEpc
  <2>1. HandleAcks(epc) /\ UNCHANGED wispVars
    BY <1>13 DEF SeeEpc
  <2>2. epc \in Seq(0 .. SeqSpace - 1)
    BY <1>1 DEF WispNumbers
  <2> QED BY <1>1, <1>2, <2>1, <2>2, AcksKeep DEF SenderInv
<1>14. CASE UNCHANGED vars
  <2>1. UNCHANGED connVars /\ UNCHANGED wispVars
    BY <1>14 DEF vars, connVars, wispVars
  <2> QED BY <1>2, <1>11, <2>1
<1> QED BY <1>3, <1>4, <1>5, <1>6, <1>7, <1>8, <1>9, <1>10, <1>12, <1>13, <1>14 DEF Next

\* The connection and the WISP's numbers are sound in every state: the inductive
\* invariant from which the three theorems below follow.
THEOREM SenderInvariant == Spec => []SenderInv
BY InitSender, NextSender, PTL DEF Spec

\* The server's connection is of its type: the sizes of OpSpecs stay in their limits,
\* and no ACK, timeout or report leaves the transmit control malformed.
THEOREM ConnectionTyped == Spec => []ConnTypeOK
<1>1. SenderInv => ConnTypeOK
  BY DEF SenderInv, ConnInv
<1> QED BY <1>1, SenderInvariant, PTL

\* The fragments of the server's transmit control lie end to end, from what is
\* acknowledged to where the messages are cut, inside the window (_make_fragment and
\* handle_ack in server/wtp/wtp/transmission.py).
THEOREM FragmentsAlwaysTile == Spec => []FragmentsTile
<1>1. SenderInv => FragmentsTile
  <2> SUFFICES ASSUME SenderInv PROVE FragmentsTile
    OBVIOUS
  <2> DEFINE fs == tx.fragments
             c  == CutAt(tx, sent)
             j  == Len(resolved)
  <2>1. PICK a : TxSound(tx, sent, a, j)
    BY DEF SenderInv, ConnInv
  <2>2. /\ fs \in Seq(TxFragmentType) /\ TileFrom(fs, a, c) /\ a \in Nat /\ c \in Nat
        /\ tx.seq = At(a) /\ c <= a + Window
    BY <2>1, SoundNumbers DEF TxSound
  <2>3. /\ Len(fs) \in Nat /\ c = Reached(fs, a, Len(fs)) /\ Reached(fs, a, 0) = a
        /\ \A k \in 1 .. Len(fs) : /\ PositionOf(fs[k]) = Reached(fs, a, k - 1)
                                   /\ FragEnd(fs[k]) = At(Reached(fs, a, k))
    BY <2>2, TileNumbers
  <2>4. FragmentedEnd(tx) = At(c) /\ Rel(tx, FragmentedEnd(tx)) = c - a
    BY <2>1, SoundAcked
  <2> HIDE DEF fs, c
  <2>5. \A i \in DOMAIN fs : fs[i].seq = IF i = 1 THEN tx.seq ELSE FragEnd(fs[i - 1])
    <3> SUFFICES ASSUME NEW i \in DOMAIN fs
                 PROVE  fs[i].seq = IF i = 1 THEN tx.seq ELSE FragEnd(fs[i - 1])
      OBVIOUS
    <3>1. i \in 1 .. Len(fs)
      BY <2>2
    <3>2. fs[i].seq = At(PositionOf(fs[i]))
      BY <2>2, <3>1 DEF TileFrom, FragmentSound
    <3>3. fs[i].seq = At(Reached(fs, a, i - 1))
      BY <2>3, <3>1, <3>2
    <3>4. CASE i = 1
      BY <2>2, <2>3, <3>3, <3>4
    <3>5. CASE i # 1
      <4>1. i - 1 \in 1 .. Len(fs)
        BY <2>3, <3>1, <3>5
      <4> QED BY <2>3, <3>3, <3>5, <4>1
    <3> QED BY <3>4, <3>5
  <2>6. FragmentedEnd(tx) = IF fs = <<>> THEN tx.seq ELSE FragEnd(Last(fs))
    <3>1. CASE fs = <<>>
      <4>1. Len(fs) = 0
        BY <3>1
      <4> QED BY <2>2, <2>3, <2>4, <3>1, <4>1
    <3>2. CASE fs # <<>>
      <4>1. Len(fs) # 0
        BY <2>2, <3>2, EmptySeq
      <4>2. Len(fs) \in 1 .. Len(fs) /\ Last(fs) = fs[Len(fs)]
        BY <2>3, <4>1 DEF Last
      <4> QED BY <2>3, <2>4, <3>2, <4>2
    <3> QED BY <3>1, <3>2
  <2>7. Rel(tx, FragmentedEnd(tx)) <= Window
    BY <2>2, <2>4, SeqSpaceSize
  <2> QED BY <2>5, <2>6, <2>7 DEF FragmentsTile, fs
<1> QED BY <1>1, SenderInvariant, PTL

\* The bytes that are acknowledged are those up to the acknowledged position.
LEMMA AckedPosition ==
  ASSUME NEW a, NEW j, TxSound(tx, sent, a, j)
  PROVE  AckedBytes = a
<1>1. a \in Nat /\ CutAt(tx, sent) \in Nat
  BY SoundNumbers
<1>2. Rel(tx, FragmentedEnd(tx)) = CutAt(tx, sent) - a
  BY SoundAcked
<1>3. CutBytes = CutAt(tx, sent)
  BY DEF CutBytes, CutAt, Loaded
<1>4. AckedBytes = CutAt(tx, sent) - (CutAt(tx, sent) - a)
  BY <1>2, <1>3 DEF AckedBytes
<1> QED BY <1>1, <1>4

\* When position x is in the message after the first j, these are the whole messages
\* before it.
LEMMA WholeMessages ==
  ASSUME NEW x \in Nat, sent \in Nat, sent <= Len(MsgSize), NEW j \in 0 .. sent,
         BytesBefore(j) <= x, j < sent => x < BytesBefore(j + 1)
  PROVE  MessagesIn(x) = j
<1>1. /\ sent \in Nat /\ j \in Nat /\ j <= sent /\ Len(MsgSize) \in Nat
      /\ BytesBefore(j) <= x /\ (j < sent => x < BytesBefore(j + 1))
  BY MessageSizes
<1> DEFINE U == {i \in 1 .. sent : BytesBefore(i) <= x}
<1>2. U = 1 .. j
  <2>1. ASSUME NEW i \in 1 .. sent PROVE BytesBefore(i) <= x <=> i <= j
    <3>1. i \in 0 .. Len(MsgSize) /\ j \in 0 .. Len(MsgSize) /\ BytesBefore(i) \in Nat
          /\ BytesBefore(j) \in Nat
      BY <1>1, BytesBeforeType
    <3>2. CASE i <= j
      <4>1. i = j \/ i < j
        BY <1>1, <3>2
      <4>2. BytesBefore(i) <= BytesBefore(j)
        BY <3>1, <4>1, BytesBeforeGrows
      <4> QED BY <1>1, <3>1, <3>2, <4>2
    <3>3. CASE ~(i <= j)
      <4>1. j < sent /\ j + 1 \in 0 .. Len(MsgSize) /\ (i = j + 1 \/ j + 1 < i)
        BY <1>1, <3>3
      <4>2. BytesBefore(j + 1) <= BytesBefore(i) /\ BytesBefore(j + 1) \in Nat
        BY <3>1, <4>1, BytesBeforeGrows, BytesBeforeType
      <4> QED BY <1>1, <3>1, <3>3, <4>1, <4>2
    <3> QED BY <3>2, <3>3
  <2> QED BY <1>1, <2>1
<1>3. Cardinality(1 .. j) = j
  BY <1>1, FS_Interval
<1> QED BY <1>2, <1>3 DEF MessagesIn

\* Of the messages, exactly those acknowledged to their last byte have their Deferreds
\* resolved, however the ACKs group fragments and messages, and also when a request has
\* raised or the reader has failed (_msg_ends and handle_ack, _handle_ack in
\* server/wtp/wtp/connection.py).
THEOREM AckedAlwaysResolved == Spec => []AckedMeansResolved
<1>1. SenderInv => AckedMeansResolved
  <2> SUFFICES ASSUME SenderInv PROVE AckedMeansResolved
    OBVIOUS
  <2> DEFINE j == Len(resolved)
  <2>1. PICK a : TxSound(tx, sent, a, j)
    BY DEF SenderInv, ConnInv
  <2>2. /\ a \in Nat /\ j \in Nat /\ sent \in Nat /\ sent <= Len(MsgSize)
        /\ Loaded(tx, sent) <= sent /\ Loaded(tx, sent) \in Nat
    BY <2>1, SoundNumbers
  <2>3. j \in 0 .. Loaded(tx, sent) /\ BytesBefore(j) <= a
        /\ (j < sent => a < BytesBefore(j + 1))
    BY <2>1 DEF TxSound, EndsSound
  <2>4. AckedBytes = a
    BY <2>1, AckedPosition
  <2> HIDE DEF j
  <2>5. j \in 0 .. sent
    BY <2>2, <2>3
  <2> QED BY <2>2, <2>3, <2>4, <2>5, WholeMessages DEF AckedMeansResolved, j
<1> QED BY <1>1, SenderInvariant, PTL

\* Part of wtp_handle_blockwrite has been done: n messages have been handed out in order,
\* and what is acknowledged is received. It began with position b, and c is the end of
\* what was cut.
HandlingSound(w, P, b, c) ==
  /\ w \in [rx : {w.rx}, acks : Seq(0 .. SeqSpace - 1), delivered : Seq(Nat)]
  /\ Receiving(w.rx, P, Len(w.delivered), 0, c) /\ Ahead(w.rx) /\ b <= w.rx.seq
  /\ \A x \in 1 .. Len(w.delivered) : w.delivered[x] = x
  /\ \A x \in 1 .. Len(w.acks) : w.acks[x] <= w.rx.seq

\* The structure with another message buffer.
LEMMA RxWithBuffer ==
  ASSUME NEW r, r \in RxShape(r), NEW d
  PROVE  LET z == [r EXCEPT !.buf = d]
         IN /\ z.seq = r.seq /\ z.infos = r.infos /\ z.fragments = r.fragments /\ z.buf = d
            /\ z \in RxShape(z)
<1> DEFINE z == [r EXCEPT !.buf = d]
<1>1. z.seq = r.seq /\ z.infos = r.infos /\ z.fragments = r.fragments /\ z.buf = d
  BY DEF RxShape
<1>2. z \in [seq : 0 .. SeqSpace - 1, infos : Seq(MsgInfoType),
            fragments : Seq(RxFragmentType), posB : Nat, buf : {d}]
  BY DEF RxShape
<1> HIDE DEF z
<1>3. z \in RxShape(z)
  BY <1>1, <1>2 DEF RxShape
<1> QED BY <1>1, <1>3 DEF z

\* wtp_handle_msg_packet, for a packet that the server cut.
LEMMA HandleMsgPacketSound ==
  ASSUME NoWrap, BufferSuffices, NEW P, NEW c \in 0 .. SeqSpace - 1, PiecesSound(P, c),
         NEW b \in Nat, c <= b + Window, NEW w, HandlingSound(w, P, b, c),
         NEW p \in DataPacketType, Placed(p, P), FragmentSound(p), c <= p.seq + Window
  PROVE  HandlingSound(HandleMsgPacket(w, p), P, b, c)
<1> DEFINE i == Len(w.delivered)
           h == RxHandlePacket(w.rx, p)
           Handled(x) ==
             LET t == TakeMessages(x.rx.buf, x.nMsgs)
             IN [rx        |-> [x.rx EXCEPT !.buf = t.buf],
                 acks      |-> Append(w.acks, AckNumber(x.rx, p)),
                 delivered |-> w.delivered \o t.msgs]
           n == h.nMsgs
           msgs == TakeMessages(h.rx.buf, n).msgs
           left == TakeMessages(h.rx.buf, n).buf
           r == h.rx.seq
           new == w.delivered \o msgs
           acked == Append(w.acks, r)
<1>1. /\ Receiving(w.rx, P, i, 0, c) /\ Ahead(w.rx) /\ b <= w.rx.seq
      /\ w.delivered \in Seq(Nat) /\ w.acks \in Seq(0 .. SeqSpace - 1)
      /\ i \in Nat /\ Len(w.acks) \in Nat
      /\ \A x \in 1 .. i : w.delivered[x] = x
      /\ \A x \in 1 .. Len(w.acks) : w.acks[x] <= w.rx.seq
  <2>1. w.delivered \in Seq(Nat) /\ w.acks \in Seq(0 .. SeqSpace - 1)
    BY DEF HandlingSound
  <2> QED BY <2>1 DEF HandlingSound
<1>2. w.rx.seq \in Nat
  <2>1. w.rx.seq \in 0 .. SeqSpace - 1
    BY <1>1 DEF Receiving, RxShape
  <2> QED BY <2>1, SeqSpaceSize
<1>3. c <= w.rx.seq + Window
  <2>1. c \in Nat /\ Window \in Nat
    BY SeqSpaceSize
  <2> QED BY <1>1, <1>2, <2>1
<1>4. n \in Nat /\ w.rx.seq <= r /\ Receiving(h.rx, P, i, n, c) /\ Ahead(h.rx)
  BY <1>1, <1>3, RxHandlePacketSound
<1>5. HandleMsgPacket(w, p) = Handled(h)
  <2>1. HandleMsgPacket(w, p) = CHOOSE x \in {Handled(y) : y \in {h}} : TRUE
    BY DEF HandleMsgPacket, Strictly
  <2> HIDE DEF Handled, h
  <2> QED BY <2>1
<1> HIDE DEF h
<1>6. h.rx \in RxShape(h.rx) /\ r \in 0 .. SeqSpace - 1
  BY <1>4 DEF Receiving, RxShape
<1>7. r \in Nat
  BY <1>6, SeqSpaceSize
<1>8. PICK k : Held(h.rx.buf, i, k, r) /\ i + n = Whole(k, r)
  BY <1>4 DEF Receiving
<1>9. /\ Held(left, i + n, k, r)
      /\ msgs \in Seq(Nat) /\ Len(msgs) = n /\ \A x \in 1 .. n : msgs[x] = i + x
  BY SMTT(20), <1>4, <1>7, <1>8, TakeMessagesSound
<1> DEFINE z == [h.rx EXCEPT !.buf = left]
           u == [rx |-> z, acks |-> acked, delivered |-> new]
<1>10. Handled(h) = u
  BY DEF AckNumber
<1> HIDE DEF Handled, msgs, left, n
<1>11. /\ z.seq = r /\ z.infos = h.rx.infos /\ z.fragments = h.rx.fragments /\ z.buf = left
       /\ z \in RxShape(z)
  BY <1>6, RxWithBuffer
<1>12. /\ new \in Seq(Nat) /\ Len(new) = i + n
       /\ \A x \in 1 .. i + n : new[x] = IF x <= i THEN w.delivered[x] ELSE msgs[x - i]
  BY <1>1, <1>9, ConcatProperties
<1>13. \A x \in 1 .. i + n : new[x] = x
  <2> SUFFICES ASSUME NEW x \in 1 .. i + n PROVE new[x] = x
    OBVIOUS
  <2> HIDE DEF new, i
  <2>1. CASE x <= i
    BY SMTT(20), <1>1, <1>4, <1>12, <2>1
  <2>2. CASE ~(x <= i)
    <3> DEFINE y == x - i
    <3>1. y \in 1 .. n /\ i + y = x
      BY <1>1, <1>4, <2>2
    <3>2. new[x] = msgs[y]
      BY <1>12, <2>2
    <3> HIDE DEF y
    <3> QED BY <1>9, <3>1, <3>2
  <2> QED BY <2>1, <2>2
<1>14. /\ acked \in Seq(0 .. SeqSpace - 1)
       /\ \A x \in 1 .. Len(acked) : acked[x] <= r
  <2>1. /\ acked \in Seq(0 .. SeqSpace - 1) /\ Len(acked) = Len(w.acks) + 1
        /\ acked[Len(w.acks) + 1] = r /\ \A x \in 1 .. Len(w.acks) : acked[x] = w.acks[x]
    BY <1>1, <1>6
  <2> HIDE DEF acked, r
  <2>2. ASSUME NEW x \in 1 .. Len(acked) PROVE acked[x] <= r
    <3>1. CASE x \in 1 .. Len(w.acks)
      <4>1. acked[x] <= w.rx.seq /\ acked[x] \in Nat
        <5> DEFINE old == w.acks
        <5>1. old \in Seq(0 .. SeqSpace - 1)
          BY <1>1
        <5>2. acked[x] = old[x] /\ old[x] <= w.rx.seq /\ x \in 1 .. Len(old)
          BY <1>1, <2>1, <3>1
        <5> HIDE DEF old
        <5>3. old[x] \in 0 .. SeqSpace - 1
          BY <5>1, <5>2, ElementOfSeq
        <5> QED BY <5>2, <5>3, SeqSpaceSize
      <4> QED BY <1>2, <1>4, <1>7, <4>1
    <3>2. CASE x = Len(w.acks) + 1
      BY <1>7, <2>1, <3>2
    <3> QED BY <1>1, <2>1, <3>1, <3>2
  <2> QED BY <2>1, <2>2
<1> HIDE DEF z, new, acked
<1>15. Receiving(z, P, Len(new), 0, c)
  <2>1. (i + n) + 0 = Whole(k, r) /\ Len(new) = i + n
    BY <1>1, <1>4, <1>8, <1>12
  <2> HIDE DEF r, i
  <2>2. Held(z.buf, Len(new), k, z.seq) /\ Len(new) + 0 = Whole(k, z.seq)
    BY <1>9, <1>11, <2>1
  <2> QED BY <1>4, <1>11, <2>2 DEF Receiving, r
<1>16. Ahead(z)
  BY <1>4, <1>11 DEF Ahead
<1>17. b <= r
  <2> HIDE DEF r
  <2> QED BY <1>1, <1>2, <1>4, <1>7
<1>18. u \in [rx : {z}, acks : Seq(0 .. SeqSpace - 1), delivered : Seq(Nat)]
       /\ u.rx = z /\ u.acks = acked /\ u.delivered = new
  BY <1>12, <1>14
<1> HIDE DEF u
<1>19. HandlingSound(u, P, b, c)
  BY <1>11, <1>12, <1>13, <1>14, <1>15, <1>16, <1>17, <1>18 DEF HandlingSound
<1> QED BY <1>5, <1>10, <1>19

\* What a BlockWrite may hold: control packets, and pieces that were cut not too far
\* from their end.
Deliverable(p, P, c) ==
  IsData(p) => Placed(p, P) /\ c <= p.seq + Window

\* All packets of a BlockWrite.
LEMMA BlockWriteSound ==
  ASSUME NoWrap, BufferSuffices, NEW P, NEW c \in 0 .. SeqSpace - 1, PiecesSound(P, c),
         NEW b \in Nat, c <= b + Window, NEW w, HandlingSound(w, P, b, c),
         NEW ps \in Seq(SoundPacket), \A k \in 1 .. Len(ps) : Deliverable(ps[k], P, c)
  PROVE  HandlingSound(Fold(HandlePacket, w, ps), P, b, c)
<1>1. Len(ps) \in Nat
  OBVIOUS
<1>2. PICK g : /\ g[0] = w
               /\ \A k \in 1 .. Len(ps) : g[k] = HandlePacket(g[k - 1], ps[k])
               /\ Handling!Folded(w, ps) = g[Len(ps)]
  BY ZenonT(20), <1>1, Handling!FoldSteps
<1>3. Fold(HandlePacket, w, ps) = g[Len(ps)]
  BY <1>2 DEF Fold, Handling!Folded
<1> DEFINE T == {k \in 0 .. Len(ps) : HandlingSound(g[k], P, b, c)}
<1>4. 0 \in T
  BY <1>1, <1>2
<1>5. ASSUME NEW k \in 1 .. Len(ps), k - 1 \in T PROVE k \in T
  <2> DEFINE v == g[k - 1]
             p == ps[k]
  <2>1. p \in SoundPacket /\ g[k] = HandlePacket(v, p) /\ HandlingSound(v, P, b, c)
        /\ Deliverable(p, P, c)
    BY <1>2, <1>5
  <2> HIDE DEF v, p
  <2>2. CASE IsData(p)
    <3>1. p \in DataPacketType /\ FragmentSound(p)
      BY <2>1, <2>2 DEF IsData, SoundPacket, CtrlPacketType
    <3>2. HandlingSound(HandleMsgPacket(v, p), P, b, c)
      BY <2>1, <2>2, <3>1, HandleMsgPacketSound DEF Deliverable
    <3> QED BY <2>1, <2>2, <3>2 DEF HandlePacket
  <2>3. CASE ~IsData(p)
    BY <2>1, <2>3 DEF HandlePacket
  <2> QED BY <2>2, <2>3
<1> HIDE DEF T
<1>6. \A k \in 0 .. Len(ps) : k \in T
  BY <1>1, <1>4, <1>5, Assembling!HoldsToTheEnd
<1> QED BY <1>1, <1>3, <1>6 DEF T

-----------------------------------------------------------------------------
(* What the server has cut.                                                 *)

\* The pieces in P are those that were cut, and the fragments in fs are among them.
CutSound(P, fs, c) ==
  PiecesSound(P, c) /\ \A k \in 1 .. Len(fs) : Piece(fs[k]) \in P

\* Nothing wraps.
LEMMA CutWithin ==
  ASSUME NoWrap, NEW t, NEW n, NEW a, NEW j, TxSound(t, n, a, j)
  PROVE  /\ CutAt(t, n) \in 0 .. SeqSpace - 1 /\ a \in Nat
         /\ a <= CutAt(t, n) /\ CutAt(t, n) <= a + Window
         /\ t.seq = a
         /\ n \in 0 .. Len(MsgSize) /\ CutAt(t, n) <= BytesBefore(n)
<1> DEFINE k == Loaded(t, n)
           c == CutAt(t, n)
           N == Len(MsgSize)
<1>1. /\ n \in Nat /\ a \in Nat /\ k \in Nat /\ k <= n /\ n <= N
      /\ k = n - Len(t.messages) /\ Len(t.messages) \in Nat /\ N \in Nat
      /\ BytesBefore(k) \in Nat /\ c \in Nat /\ t.fragmented \in Nat
      /\ t.messages \in Seq(Message)
  BY SoundNumbers
<1>2. a <= c /\ c <= a + Window /\ t.seq = At(a)
  BY DEF TxSound
<1>3. c = BytesBefore(k) + t.fragmented
  BY DEF CutAt
<1>4. t.fragmented <= IF t.messages = <<>> THEN 0 ELSE MsgSize[k + 1]
  BY DEF TxSound, QueueSound
<1>5. c < SeqSpace /\ c <= BytesBefore(n)
  <2>1. CASE t.messages = <<>>
    <3>1. k \in 0 .. N /\ t.fragmented <= 0
      BY <1>1, <1>4, <2>1
    <3>2. BytesBefore(k) < SeqSpace
      BY <3>1, StreamNumbers
    <3>3. k = n
      <4>1. Len(t.messages) = 0
        BY <2>1
      <4> QED BY <1>1, <4>1
    <3> QED BY <1>1, <1>3, <3>1, <3>2, <3>3
  <2>2. CASE t.messages # <<>>
    <3>1. Len(t.messages) # 0
      BY <1>1, <2>2, EmptySeq
    <3>2. k + 1 \in Message /\ k + 1 \in 0 .. N
      BY <1>1, <3>1 DEF Message
    <3> DEFINE m == k + 1
    <3>3. m \in Message /\ m \in 0 .. N /\ m - 1 = k
      <4>1. k \in Nat /\ m \in Message /\ m \in 0 .. N
        BY <1>1, <3>2
      <4> HIDE DEF k
      <4>2. m - 1 = k
        BY <4>1
      <4> QED BY <4>1, <4>2
    <3>4. t.fragmented <= MsgSize[m]
      BY <1>4, <2>2
    <3> HIDE DEF m
    <3>5. BytesBefore(m) = BytesBefore(k) + MsgSize[m] /\ BytesBefore(m) < SeqSpace
          /\ MsgSize[m] \in Nat
      BY <3>3, StreamNumbers
    <3>7. BytesBefore(m) <= BytesBefore(n) /\ BytesBefore(n) \in Nat
      <4>1. m <= n /\ n \in 0 .. N
        <5>1. k + 1 <= n /\ n \in 0 .. N
          BY <1>1, <3>1
        <5> QED BY <5>1 DEF m
      <4> QED BY <3>3, <4>1, StreamNumbers
    <3> DEFINE x == BytesBefore(k)
               y == t.fragmented
               z == MsgSize[m]
    <3>6. x \in Nat /\ y \in Nat /\ z \in Nat /\ c = x + y /\ y <= z /\ x + z < SeqSpace
          /\ x + z = BytesBefore(m)
      BY <1>1, <1>3, <3>4, <3>5
    <3> HIDE DEF x, y, z
    <3> QED BY <3>6, <3>7, SeqSpaceSize
  <2> QED BY <2>1, <2>2
<1> HIDE DEF c
<1>6. c \in 0 .. SeqSpace - 1 /\ a \in 0 .. SeqSpace - 1
  BY <1>1, <1>2, <1>5, SeqSpaceSize
<1>7. At(a) = a
  BY <1>6, AtSmall
<1>8. n \in 0 .. Len(MsgSize)
  BY <1>1
<1> QED BY <1>1, <1>2, <1>5, <1>6, <1>7, <1>8 DEF c

\* Fragments end one after the other.
LEMMA EndsGrow ==
  ASSUME NEW fs \in Seq(TxFragmentType), NEW a \in Nat, NEW c, TileFrom(fs, a, c),
         NEW i \in 0 .. Len(fs), NEW k \in 0 .. Len(fs), i <= k
  PROVE  Reached(fs, a, i) <= Reached(fs, a, k)
<1> DEFINE T == {d \in 0 .. k - i : Reached(fs, a, i) <= Reached(fs, a, i + d)}
<1>1. /\ Len(fs) \in Nat /\ i \in Nat /\ k \in Nat
      /\ \A x \in 0 .. Len(fs) : Reached(fs, a, x) \in Nat
      /\ \A x \in 1 .. Len(fs) : Reached(fs, a, x - 1) < Reached(fs, a, x)
  BY TileNumbers
<1>2. 0 \in T
  BY <1>1
<1>3. ASSUME NEW d \in 1 .. k - i, d - 1 \in T PROVE d \in T
  <2>1. i + d \in 1 .. Len(fs) /\ i + d - 1 \in 0 .. Len(fs) /\ i + (d - 1) = i + d - 1
        /\ i + d \in 0 .. Len(fs)
    BY <1>1
  <2>2. Reached(fs, a, i) <= Reached(fs, a, i + d - 1)
    BY <1>3, <2>1
  <2>3. Reached(fs, a, i + d - 1) < Reached(fs, a, i + d)
    BY <1>1, <2>1
  <2>4. Reached(fs, a, i) \in Nat /\ Reached(fs, a, i + d - 1) \in Nat
        /\ Reached(fs, a, i + d) \in Nat
    BY <1>1, <2>1
  <2>5. Reached(fs, a, i) <= Reached(fs, a, i + d)
    BY <2>2, <2>3, <2>4
  <2> QED BY <2>5
<1>4. k - i \in T
  <2>1. k - i \in Nat /\ k - i \in 0 .. k - i
    BY <1>1
  <2> HIDE DEF T
  <2> QED BY <2>1, <1>2, <1>3, Assembling!HoldsToTheEnd
<1>5. i + (k - i) = k
  BY <1>1
<1> QED BY <1>4, <1>5

\* When more is cut, the new pieces follow the old ones.
LEMMA CutGrows ==
  ASSUME NoWrap, NEW t, NEW n, NEW a, NEW j, TxSound(t, n, a, j),
         NEW u, TxSound(u, n, a, j), Extends(t.fragments, u.fragments),
         NEW P, CutSound(P, t.fragments, CutAt(t, n))
  PROVE  \E Q : /\ P \subseteq Q /\ CutSound(Q, u.fragments, CutAt(u, n))
                /\ CutAt(t, n) <= CutAt(u, n)
                /\ \A q \in Q : q \in P \/ CutAt(t, n) <= PositionOf(q)
<1> DEFINE fs == t.fragments
           gs == u.fragments
           c == CutAt(t, n)
           d == CutAt(u, n)
           K == Len(fs)
           M == Len(gs)
           Q == P \cup {Piece(gs[k]) : k \in 1 .. M}
<1>1. /\ fs \in Seq(TxFragmentType) /\ gs \in Seq(TxFragmentType) /\ a \in Nat
      /\ TileFrom(fs, a, c) /\ TileFrom(gs, a, d) /\ c \in Nat /\ d \in Nat
  BY SoundNumbers DEF TxSound
<1>2. K <= M /\ \A i \in 1 .. K : Piece(gs[i]) = Piece(fs[i])
  BY DEF Extends
<1>3. PiecesSound(P, c) /\ \A k \in 1 .. K : Piece(fs[k]) \in P
  BY DEF CutSound
<1> HIDE DEF fs, gs, c, d
<1>4. /\ K \in Nat /\ c = Reached(fs, a, K)
  BY <1>1, TileNumbers
<1>5. /\ M \in Nat /\ d = Reached(gs, a, M)
      /\ \A k \in 0 .. M : Reached(gs, a, k) \in Nat
      /\ \A k \in 1 .. M : PositionOf(gs[k]) = Reached(gs, a, k - 1)
                           /\ gs[k].msg \in Message
  BY <1>1, TileNumbers
<1>6. Reached(gs, a, K) = c
  <2>1. CASE K = 0
    BY <1>4, <2>1 DEF Reached
  <2>2. CASE K # 0
    <3>1. K \in 1 .. K
      BY <1>4, <2>2
    <3>2. Piece(gs[K]) = Piece(fs[K])
      BY <1>2, <3>1
    <3>3. gs[K].msg = fs[K].msg /\ gs[K].off = fs[K].off /\ gs[K].len = fs[K].len
      BY <3>2 DEF Piece
    <3> QED BY <1>4, <2>2, <3>3 DEF Reached, PositionOf
  <2> QED BY <2>1, <2>2
<1>7. c <= d
  <2>1. K \in 0 .. M /\ M \in 0 .. M
    BY <1>2, <1>4, <1>5
  <2> QED BY <1>1, <1>2, <1>5, <1>6, <2>1, EndsGrow
<1>8. ASSUME NEW k \in 1 .. M
      PROVE  LET q == Piece(gs[k])
             IN /\ q.msg \in Message /\ q.off \in Nat /\ q.len \in Nat \ {0}
                /\ q.off + q.len <= MsgSize[q.msg]
                /\ PositionOf(q) = Reached(gs, a, k - 1) /\ EndOf(q) = Reached(gs, a, k)
                /\ EndOf(q) <= d
  <2> DEFINE f == gs[k]
             q == Piece(f)
  <2>1. f \in TxFragmentType
    BY <1>1, ElementOfSeq
  <2>2. FragmentSound(f)
    BY <1>1 DEF TileFrom
  <2>3. q.msg = f.msg /\ q.off = f.off /\ q.len = f.len
    BY DEF Piece
  <2>4. PositionOf(q) = PositionOf(f) /\ EndOf(q) = PositionOf(f) + f.len
    BY <2>3 DEF PositionOf, EndOf
  <2>5. PositionOf(f) = Reached(gs, a, k - 1) /\ Reached(gs, a, k) = PositionOf(f) + f.len
    BY <1>5 DEF Reached
  <2>6. Reached(gs, a, k) <= d
    <3>1. k \in 0 .. M /\ M \in 0 .. M /\ k <= M
      BY <1>5
    <3> QED BY <1>1, <1>5, <3>1, EndsGrow
  <2>7. f.msg \in Message /\ f.off \in Nat /\ f.len \in Nat \ {0} /\ f.off + f.len <= MsgSize[f.msg]
    <3>1. f.len \in Nat /\ f.off \in Nat
      BY <2>1 DEF TxFragmentType
    <3> HIDE DEF f
    <3> QED BY <2>2, <3>1 DEF FragmentSound
  <2>8. /\ q.msg \in Message /\ q.off \in Nat /\ q.len \in Nat \ {0}
        /\ q.off + q.len <= MsgSize[q.msg]
    BY <2>3, <2>7
  <2>9. PositionOf(q) = Reached(gs, a, k - 1) /\ EndOf(q) = Reached(gs, a, k) /\ EndOf(q) <= d
    BY <2>4, <2>5, <2>6
  <2> QED BY <2>8, <2>9
<1>9. ASSUME NEW k \in 1 .. M, ~(k <= K) PROVE c <= PositionOf(Piece(gs[k]))
  <2>1. K \in 0 .. M /\ k - 1 \in 0 .. M /\ K <= k - 1
    BY <1>4, <1>5, <1>9
  <2>2. Reached(gs, a, K) <= Reached(gs, a, k - 1)
    BY <1>1, <2>1, EndsGrow
  <2> QED BY <1>6, <1>8, <2>2
<1>10. ASSUME NEW q \in Q
       PROVE  q \in P \/ \E k \in 1 .. M : ~(k <= K) /\ q = Piece(gs[k])
  <2>1. CASE q \in P
    BY <2>1
  <2>2. ASSUME NEW k \in 1 .. M, q = Piece(gs[k]) PROVE q \in P \/ (~(k <= K) /\ q = Piece(gs[k]))
    <3>1. CASE k <= K
      <4>1. k \in 1 .. K
        BY <1>4, <3>1
      <4> QED BY <1>2, <1>3, <2>2, <4>1
    <3> QED BY <2>2, <3>1
  <2> QED BY <2>1, <2>2
<1>11. \A q \in Q : q \in P \/ c <= PositionOf(q)
  BY <1>9, <1>10
<1>12. \A q \in Q : PieceSound(q, d)
  <2> SUFFICES ASSUME NEW q \in Q PROVE PieceSound(q, d)
    OBVIOUS
  <2>1. CASE q \in P
    <3>1. PieceSound(q, c)
      BY <1>3, <2>1 DEF PiecesSound
    <3>2. EndOf(q) <= c /\ EndOf(q) \in Nat
      <4>1. q.msg \in Message /\ q.off \in Nat /\ q.len \in Nat /\ EndOf(q) <= c
        BY <3>1 DEF PieceSound
      <4>2. BytesBefore(q.msg - 1) \in Nat
        BY <4>1, StreamNumbers
      <4> QED BY <4>1, <4>2 DEF EndOf, PositionOf
    <3>3. EndOf(q) <= d
      BY <1>1, <1>7, <3>2
    <3> QED BY <3>1, <3>3 DEF PieceSound
  <2>2. CASE q \notin P
    <3>1. PICK k \in 1 .. M : q = Piece(gs[k])
      BY <1>10, <2>2
    <3> QED BY <1>8, <3>1 DEF PieceSound
  <2> QED BY <2>1, <2>2
<1>13. \A q \in Q : PositionOf(q) \in Nat /\ EndOf(q) \in Nat /\ PositionOf(q) < EndOf(q)
  <2> SUFFICES ASSUME NEW q \in Q
               PROVE  PositionOf(q) \in Nat /\ EndOf(q) \in Nat /\ PositionOf(q) < EndOf(q)
    OBVIOUS
  <2>1. q.msg \in Message /\ q.off \in Nat /\ q.len \in Nat \ {0}
    BY <1>12 DEF PieceSound
  <2>2. BytesBefore(q.msg - 1) \in Nat
    BY <2>1, StreamNumbers
  <2> QED BY <2>1, <2>2 DEF EndOf, PositionOf
<1>14. ASSUME NEW q \in P, NEW k \in 1 .. M, ~(k <= K)
       PROVE  Apart(q, Piece(gs[k])) /\ Apart(Piece(gs[k]), q)
  <2> DEFINE s == Piece(gs[k])
  <2>1. EndOf(q) <= c
    BY <1>3 DEF PiecesSound, PieceSound
  <2>2. c <= PositionOf(s)
    BY <1>9, <1>14
  <2>3. PositionOf(q) \in Nat /\ EndOf(q) \in Nat /\ PositionOf(q) < EndOf(q)
        /\ PositionOf(s) \in Nat
    BY <1>13
  <2> HIDE DEF s
  <2>4. PositionOf(q) < PositionOf(s) /\ EndOf(q) <= PositionOf(s)
    BY <1>1, <2>1, <2>2, <2>3
  <2>5. Apart(q, s) /\ Apart(s, q)
    BY <2>3, <2>4 DEF Apart
  <2> QED BY <2>5 DEF s
<1>15. ASSUME NEW k \in 1 .. M, NEW l \in 1 .. M
       PROVE  Apart(Piece(gs[k]), Piece(gs[l]))
  <2>1. CASE k = l
    <3>1. PositionOf(Piece(gs[k])) \in Nat
      BY <1>13
    <3> QED BY <2>1, <3>1 DEF Apart
  <2>2. CASE k < l
    <3>1. k \in 0 .. M /\ l - 1 \in 0 .. M /\ k <= l - 1
      BY <1>5, <2>2
    <3>2. Reached(gs, a, k) <= Reached(gs, a, l - 1)
      BY <1>1, <3>1, EndsGrow
    <3>3. EndOf(Piece(gs[k])) <= PositionOf(Piece(gs[l]))
      BY <1>8, <3>2
    <3>4. Piece(gs[k]) \in Q /\ Piece(gs[l]) \in Q
      OBVIOUS
    <3> DEFINE q == Piece(gs[k])
               s == Piece(gs[l])
    <3>5. PositionOf(q) \in Nat /\ EndOf(q) \in Nat /\ PositionOf(q) < EndOf(q)
          /\ PositionOf(s) \in Nat /\ EndOf(q) <= PositionOf(s)
      BY <1>13, <3>3, <3>4
    <3> HIDE DEF q, s
    <3>6. Apart(q, s)
      BY <3>5 DEF Apart
    <3> QED BY <3>6 DEF q, s
  <2>3. CASE l < k
    <3>1. l \in 0 .. M /\ k - 1 \in 0 .. M /\ l <= k - 1
      BY <1>5, <2>3
    <3>2. Reached(gs, a, l) <= Reached(gs, a, k - 1)
      BY <1>1, <3>1, EndsGrow
    <3>3. EndOf(Piece(gs[l])) <= PositionOf(Piece(gs[k]))
      BY <1>8, <3>2
    <3>4. Piece(gs[k]) \in Q /\ Piece(gs[l]) \in Q
      OBVIOUS
    <3> DEFINE q == Piece(gs[l])
               s == Piece(gs[k])
    <3>5. PositionOf(q) \in Nat /\ EndOf(q) \in Nat /\ PositionOf(q) < EndOf(q)
          /\ PositionOf(s) \in Nat /\ EndOf(q) <= PositionOf(s)
      BY <1>13, <3>3, <3>4
    <3> HIDE DEF q, s
    <3>6. Apart(s, q)
      BY <3>5 DEF Apart
    <3> QED BY <3>6 DEF q, s
  <2>4. k \in Nat /\ l \in Nat
    BY <1>5
  <2> QED BY <2>1, <2>2, <2>3, <2>4
<1>16. \A q, s \in Q : Apart(q, s)
  <2> SUFFICES ASSUME NEW q \in Q, NEW s \in Q PROVE Apart(q, s)
    OBVIOUS
  <2>1. CASE q \in P /\ s \in P
    BY <1>3, <2>1 DEF PiecesSound
  <2>2. CASE q \in P /\ s \notin P
    BY <1>10, <1>14, <2>2
  <2>3. CASE q \notin P /\ s \in P
    BY <1>10, <1>14, <2>3
  <2>4. CASE q \notin P /\ s \notin P
    BY <1>10, <1>15, <2>4
  <2> QED BY <2>1, <2>2, <2>3, <2>4
<1>17. CutSound(Q, gs, d)
  <2>1. \A k \in 1 .. M : Piece(gs[k]) \in Q
    OBVIOUS
  <2> HIDE DEF Q
  <2> QED BY <1>12, <1>16, <2>1 DEF CutSound, PiecesSound
<1>18. P \subseteq Q
  OBVIOUS
<1> HIDE DEF Q
<1> QED BY <1>7, <1>11, <1>17, <1>18 DEF c, d, gs

\* What the WISP has stays right when more is cut.
LEMMA HandlingGrows ==
  ASSUME NoWrap, NEW P, NEW c \in Nat, NEW b, NEW w, HandlingSound(w, P, b, c),
         NEW Q, NEW d \in Nat, P \subseteq Q, PiecesSound(Q, d), c <= d,
         \A q \in Q : q \in P \/ c <= PositionOf(q)
  PROVE  HandlingSound(w, Q, b, d)
<1> DEFINE r == w.rx
           i == Len(w.delivered)
<1>1. Receiving(r, P, i, 0, c)
  BY DEF HandlingSound
<1>2. r.seq \in Nat /\ r.seq <= c /\ r.seq <= d
  <2>1. r \in RxShape(r) /\ r.seq <= c
    BY <1>1 DEF Receiving
  <2>2. r.seq \in 0 .. SeqSpace - 1
    BY <2>1 DEF RxShape
  <2> QED BY <2>1, <2>2, SeqSpaceSize
<1>3. Between(Q, r.seq)
  <2> SUFFICES ASSUME NEW q \in Q, PositionOf(q) < r.seq PROVE EndOf(q) <= r.seq
    BY DEF Between
  <2>1. PositionOf(q) \in Nat
    <3>1. q.msg \in Message /\ q.off \in Nat
      BY DEF PiecesSound, PieceSound
    <3>2. BytesBefore(q.msg - 1) \in Nat
      BY <3>1, StreamNumbers
    <3> QED BY <3>1, <3>2 DEF PositionOf
  <2>2. ~(c <= PositionOf(q))
    BY <1>2, <2>1
  <2>3. q \in P
    BY <2>2
  <2> QED BY <1>1, <2>3 DEF Receiving, Between
<1>4. WaitingSound(Q, r.seq, r.fragments, 0)
  <2>1. WaitingSound(P, r.seq, r.fragments, 0)
    BY <1>1 DEF Receiving
  <2>2. \A f : Placed(f, P) => Placed(f, Q)
    BY DEF Placed
  <2> QED BY <2>1, <2>2 DEF WaitingSound
<1>5. Receiving(r, Q, i, 0, d)
  BY <1>1, <1>2, <1>3, <1>4 DEF Receiving
<1> QED BY <1>5 DEF HandlingSound

\* A request leaves what was cut, and if it makes a BlockWrite then of pieces that are cut.
LEMMA RequestFollows ==
  ASSUME NEW t, NEW n, NEW a, NEW j, TxSound(t, n, a, j), HeadUncut(t, n),
         NEW r \in Seq(Nat), NEW busy \in BOOLEAN, NEW size \in Nat
  PROVE  LET q == RequestAccessSpec(t, r, busy, size)
         IN /\ Extends(t.fragments, q.tx.fragments)
            /\ ~busy /\ q.opspec.kind = "write" =>
                 /\ q.opspec.data \in Seq(SoundPacket)
                 /\ Carries(q.opspec.data, q.tx.fragments)
<1> DEFINE q == RequestAccessSpec(t, r, busy, size)
<1>1. Extends(t.fragments, t.fragments)
  <2>1. Len(t.fragments) \in Nat
    BY SoundNumbers
  <2> QED BY <2>1 DEF Extends
<1>2. CASE busy
  <2>1. q = [tx |-> t, reads |-> r, ongoing |-> TRUE, opspec |-> opspec, raised |-> FALSE]
    BY <1>2 DEF RequestAccessSpec
  <2> HIDE DEF q
  <2>2. q.tx = t
    BY <2>1
  <2> QED BY <1>1, <1>2, <2>2 DEF q
<1>3. CASE ~busy /\ r # <<>>
  <2>1. q = [tx |-> t, reads |-> Tail(r), ongoing |-> TRUE,
             opspec |-> ReadOpSpec(Head(r)), raised |-> FALSE]
    BY <1>3 DEF RequestAccessSpec
  <2>2. ReadOpSpec(Head(r)).kind = "read"
    BY DEF ReadOpSpec, NoOpSpec
  <2> HIDE DEF q
  <2>3. q.tx = t /\ q.opspec.kind = "read"
    BY <2>1, <2>2
  <2> QED BY <1>1, <1>3, <2>3 DEF q
<1>4. CASE ~busy /\ r = <<>>
  <2> DEFINE g == GetWriteData(t, size)
             Outcome(w) ==
               LET raised  == w.status = "raised"
                   written == ~raised /\ w.data # <<>>
               IN [tx |-> w.tx, reads |-> r, ongoing |-> raised \/ written,
                   opspec |-> IF written THEN WriteOpSpec(w.data) ELSE NoOpSpec,
                   raised |-> raised]
  <2>1. q = Outcome(g)
    <3>1. q = CHOOSE x \in {Outcome(w) : w \in {g}} : TRUE
      BY <1>4 DEF RequestAccessSpec, Strictly
    <3> HIDE DEF Outcome, q, g
    <3> QED BY <3>1
  <2>2. /\ Extends(t.fragments, g.tx.fragments) /\ g.data \in Seq(SoundPacket)
        /\ Carries(g.data, g.tx.fragments)
    BY GetWriteDataSound
  <2>3. NoOpSpec.kind = "none" /\ \A d : WriteOpSpec(d).data = d
    BY DEF NoOpSpec, WriteOpSpec
  <2> HIDE DEF g, q
  <2>4. q.tx = g.tx /\ (q.opspec = WriteOpSpec(g.data) \/ q.opspec = NoOpSpec)
    BY <2>1
  <2>5. q.opspec.kind = "write" => q.opspec.data = g.data
    BY <2>3, <2>4
  <2> QED BY <2>2, <2>4, <2>5 DEF q
<1> QED BY <1>2, <1>3, <1>4

\* The packets of the BlockWrite that is on its way are deliverable.
FlightSound(o, P, c) ==
  o.kind = "write" /\ ~o.done => \A k \in 1 .. Len(o.data) : Deliverable(o.data[k], P, c)

\* Packets of pieces that are not acknowledged can be delivered.
LEMMA CarriedDeliverable ==
  ASSUME NoWrap, NEW u, NEW n, NEW a, NEW j, TxSound(u, n, a, j),
         NEW P, CutSound(P, u.fragments, CutAt(u, n)),
         NEW data \in Seq(SoundPacket), Carries(data, u.fragments)
  PROVE  \A k \in 1 .. Len(data) : Deliverable(data[k], P, CutAt(u, n))
<1> SUFFICES ASSUME NEW k \in 1 .. Len(data), IsData(data[k])
             PROVE  Placed(data[k], P) /\ CutAt(u, n) <= data[k].seq + Window
  BY DEF Deliverable
<1> DEFINE p == data[k]
           c == CutAt(u, n)
           fs == u.fragments
<1>1. p \in DataPacketType /\ FragmentSound(p)
  <2>1. p \in SoundPacket
    BY ElementOfSeq
  <2>2. p.type = "data"
    BY DEF IsData
  <2> HIDE DEF p
  <2> QED BY <2>1, <2>2 DEF SoundPacket, CtrlPacketType
<1>2. PICK i \in 1 .. Len(fs) : Piece(p) = Piece(fs[i])
  BY DEF Carries, IsData
<1>3. c \in 0 .. SeqSpace - 1 /\ a \in Nat /\ c <= a + Window
  BY CutWithin
<1>4. /\ fs \in Seq(TxFragmentType) /\ TileFrom(fs, a, c)
  BY SoundNumbers DEF TxSound
<1>5. Piece(p) \in P
  BY <1>2 DEF CutSound
<1> HIDE DEF p, c, fs
<1>6. /\ PositionOf(fs[i]) = Reached(fs, a, i - 1) /\ i - 1 \in 0 .. Len(fs)
      /\ \A x \in 0 .. Len(fs) : Reached(fs, a, x) \in Nat /\ a <= Reached(fs, a, x)
                                 /\ Reached(fs, a, x) <= c
  <2>1. Len(fs) \in Nat
    BY <1>4
  <2>2. i - 1 \in 0 .. Len(fs)
    BY <2>1
  <2> QED BY <1>3, <1>4, <2>2, TileNumbers
<1>7. PositionOf(p) = PositionOf(fs[i])
  BY <1>2 DEF Piece, PositionOf
<1>8. PositionOf(p) \in 0 .. SeqSpace - 1 /\ a <= PositionOf(p)
  BY <1>3, <1>6, <1>7, SeqSpaceSize
<1>9. p.seq = PositionOf(p)
  <2>1. p.seq = At(PositionOf(p))
    BY <1>1 DEF FragmentSound
  <2> QED BY <1>8, <2>1, AtSmall
<1>10. Placed(p, P)
  BY <1>5, <1>9 DEF Placed
<1>11. c <= p.seq + Window
  <2> DEFINE x == PositionOf(p)
  <2>1. x \in Nat /\ a <= x /\ c \in Nat /\ p.seq = x
    BY <1>3, <1>8, <1>9, SeqSpaceSize
  <2> HIDE DEF x
  <2>2. c <= x + Window
    BY <1>3, <2>1, SeqSpaceSize
  <2> QED BY <2>1, <2>2
<1> QED BY <1>10, <1>11 DEF p, c

\* The WISP's half fits the server's: P are all pieces that were ever cut.
StreamSound(P) ==
  /\ CutSound(P, tx.fragments, CutAt(tx, sent))
  /\ FlightSound(opspec, P, CutAt(tx, sent))
  /\ HandlingSound([rx |-> rx, acks |-> acks, delivered |-> delivered],
                   P, tx.seq, CutAt(tx, sent))

\* The queue of ACKs and the EPC.
AcksSmall ==
  /\ Len(acks) <= AckQueueCap /\ Len(epc) <= EpcCap
  /\ \A x \in 1 .. Len(epc) : epc[x] <= rx.seq

\* Both halves, between the handlers.
DownlinkInv == SenderInv /\ (\E P : StreamSound(P)) /\ AcksSmall

\* A transmit control with the same places is cut at the same place, into the same
\* pieces.
LEMMA SamePlacesCut ==
  ASSUME NEW t, NEW u, SamePlaces(t, u), NEW n
  PROVE  /\ CutAt(u, n) = CutAt(t, n) /\ u.seq = t.seq
         /\ \A P, c : CutSound(P, t.fragments, c) => CutSound(P, u.fragments, c)
<1>1. CutAt(u, n) = CutAt(t, n) /\ u.seq = t.seq
  BY DEF SamePlaces, CutAt, Loaded
<1>2. \A P, c : CutSound(P, t.fragments, c) => CutSound(P, u.fragments, c)
  <2>1. Len(u.fragments) = Len(t.fragments)
        /\ \A i \in 1 .. Len(t.fragments) : Piece(u.fragments[i]) = Piece(t.fragments[i])
    BY DEF SamePlaces, Piece
  <2> QED BY <2>1 DEF CutSound
<1> QED BY <1>1, <1>2

\* A handler that runs a request on t, which has been given n messages.
LEMMA RequestTransfers ==
  ASSUME NoWrap, NEW P, StreamSound(P), NEW a, NEW j, TxSound(tx, sent, a, j),
         NEW t, NEW n, TxSound(t, n, a, j), HeadUncut(t, n),
         CutAt(t, n) = CutAt(tx, sent), CutSound(P, t.fragments, CutAt(t, n)),
         NEW r \in Seq(Nat), NEW busy \in BOOLEAN, NEW size \in Nat, opspec \in OpSpecType,
         NEW q, q = RequestAccessSpec(t, r, busy, size), SamePlaces(q.tx, tx'),
         opspec' = q.opspec, sent' = n, UNCHANGED wispVars
  PROVE  (\E Q : StreamSound(Q))' /\ tx'.seq = tx.seq
<1> DEFINE u == q.tx
           c == CutAt(t, n)
           d == CutAt(u, n)
           w == [rx |-> rx, acks |-> acks, delivered |-> delivered]
<1>1. /\ TxSound(u, n, a, j) /\ HeadUncut(u, n)
      /\ busy => u = t /\ q.opspec = opspec
  BY RequestSound
<1>2. /\ Extends(t.fragments, u.fragments)
      /\ ~busy /\ q.opspec.kind = "write" =>
           q.opspec.data \in Seq(SoundPacket) /\ Carries(q.opspec.data, u.fragments)
  BY RequestFollows
<1>3. PICK Q : /\ P \subseteq Q /\ CutSound(Q, u.fragments, d) /\ c <= d
               /\ \A s \in Q : s \in P \/ c <= PositionOf(s)
  BY <1>1, <1>2, CutGrows
<1>4. /\ c \in Nat /\ d \in Nat /\ u.seq = a /\ tx.seq = a
  <2>1. c \in 0 .. SeqSpace - 1 /\ d \in 0 .. SeqSpace - 1 /\ u.seq = a /\ tx.seq = a
    BY <1>1, CutWithin
  <2> QED BY <2>1, SeqSpaceSize
<1>5. /\ CutAt(tx', sent') = d /\ tx'.seq = u.seq
      /\ CutSound(Q, tx'.fragments, d)
  <2>1. CutAt(tx', n) = d /\ tx'.seq = u.seq
    BY SamePlacesCut
  <2>2. CutSound(Q, tx'.fragments, d)
    BY <1>3, SamePlacesCut
  <2> QED BY <2>1, <2>2
<1>6. FlightSound(opspec', Q, d)
  <2>1. CASE busy
    <3>1. opspec' = opspec /\ d = CutAt(tx, sent)
      BY <1>1, <2>1
    <3>2. \A p : Deliverable(p, P, d) => Deliverable(p, Q, d)
      BY <1>3 DEF Deliverable, Placed
    <3>3. FlightSound(opspec, P, d)
      BY <3>1 DEF StreamSound
    <3> HIDE DEF d
    <3> QED BY <3>1, <3>2, <3>3 DEF FlightSound
  <2>2. CASE ~busy
    <3>1. SUFFICES ASSUME q.opspec.kind = "write"
                   PROVE  \A k \in 1 .. Len(q.opspec.data) : Deliverable(q.opspec.data[k], Q, d)
      BY DEF FlightSound
    <3>2. q.opspec.data \in Seq(SoundPacket) /\ Carries(q.opspec.data, u.fragments)
      BY <1>2, <2>2, <3>1
    <3> QED BY <1>1, <1>3, <3>2, CarriedDeliverable
  <2> QED BY <2>1, <2>2
<1>7. HandlingSound(w, Q, a, d)
  <2>1. HandlingSound(w, P, a, c)
    BY <1>4 DEF StreamSound
  <2>2. PiecesSound(Q, d)
    BY <1>3 DEF CutSound
  <2> HIDE DEF w, c, d
  <2> QED BY <1>3, <1>4, <2>1, <2>2, HandlingGrows
<1>8. w = [rx |-> rx', acks |-> acks', delivered |-> delivered']
  BY DEF wispVars
<1> HIDE DEF d, w, u
<1>9. /\ CutSound(Q, tx'.fragments, CutAt(tx', sent'))
      /\ FlightSound(opspec', Q, CutAt(tx', sent'))
      /\ HandlingSound([rx |-> rx', acks |-> acks', delivered |-> delivered'],
                       Q, tx'.seq, CutAt(tx', sent'))
  BY <1>4, <1>5, <1>6, <1>7, <1>8
<1> QED BY <1>4, <1>5, <1>9 DEF StreamSound

-----------------------------------------------------------------------------
\* Any number of ACKs of what the WISP has: the server stays behind it.
LEMMA AcksFollow ==
  ASSUME NoWrap, NEW t, NEW n, NEW a, NEW j, TxSound(t, n, a, j), HeadUncut(t, n),
         NEW numbers \in Seq(0 .. SeqSpace - 1), NEW x \in 0 .. SeqSpace - 1,
         t.seq <= x, \A k \in 1 .. Len(numbers) : numbers[k] <= x
  PROVE  LET w == Fold(AckOne, [tx |-> t, nSent |-> 0], numbers)
         IN /\ t.seq <= w.tx.seq /\ w.tx.seq <= x /\ CutAt(w.tx, n) = CutAt(t, n)
            /\ \A P, c : CutSound(P, t.fragments, c) => CutSound(P, w.tx.fragments, c)
<1> DEFINE start == [tx |-> t, nSent |-> 0]
           Sound(w) == /\ \E i : \E b : TxSound(w.tx, n, b, i)
                       /\ HeadUncut(w.tx, n)
                       /\ t.seq <= w.tx.seq /\ w.tx.seq <= x
                       /\ CutAt(w.tx, n) = CutAt(t, n)
                       /\ \A P, c : CutSound(P, t.fragments, c)
                                      => CutSound(P, w.tx.fragments, c)
<1>1. Len(numbers) \in Nat
  OBVIOUS
<1>2. PICK g : /\ g[0] = start
               /\ \A k \in 1 .. Len(numbers) : g[k] = AckOne(g[k - 1], numbers[k])
               /\ Acking!Folded(start, numbers) = g[Len(numbers)]
  BY <1>1, Acking!FoldSteps
<1>3. Fold(AckOne, start, numbers) = g[Len(numbers)]
  BY <1>2 DEF Fold, Acking!Folded
<1>4. Sound(start)
  <2>1. start.tx = t
    OBVIOUS
  <2>2. t.seq \in Nat
    BY CutWithin
  <2>3. t.seq <= t.seq
    BY <2>2
  <2> QED BY <2>1, <2>3
<1> HIDE DEF start
<1> DEFINE T == {k \in 0 .. Len(numbers) : Sound(g[k])}
<1>5. 0 \in T
  BY <1>1, <1>2, <1>4
<1>6. ASSUME NEW k \in 1 .. Len(numbers), k - 1 \in T PROVE k \in T
  <2> DEFINE w == g[k - 1]
             s == numbers[k]
             h == HandleAck(w.tx, s)
  <2>1. Sound(w) /\ s \in 0 .. SeqSpace - 1 /\ s <= x
    <3>1. s \in 0 .. SeqSpace - 1
      BY ElementOfSeq
    <3>2. Sound(w)
      BY <1>6 DEF T
    <3> QED BY <3>1, <3>2
  <2>2. g[k].tx = h.tx
    <3>1. g[k] = AckOne(w, s)
      BY <1>2
    <3> QED BY <3>1 DEF AckOne
  <2> HIDE DEF w, s
  <2>3. PICK i, b : TxSound(w.tx, n, b, i)
    BY <2>1
  <2>4. /\ \E e : TxSound(h.tx, n, e, i + h.nSent) /\ (e = b \/ (b <= e /\ s = At(e)))
        /\ HeadUncut(h.tx, n)
        /\ CutAt(h.tx, n) = CutAt(w.tx, n)
        /\ \A m \in 1 .. Len(h.tx.fragments) :
             \E l \in 1 .. Len(w.tx.fragments) : h.tx.fragments[m] = w.tx.fragments[l]
    <3>1. TxSound(w.tx, n, b, i) /\ HeadUncut(w.tx, n) /\ s \in 0 .. SeqSpace - 1
      BY <2>1, <2>3
    <3> DEFINE v == w.tx
    <3>2. TxSound(v, n, b, i) /\ HeadUncut(v, n)
      BY <3>1
    <3> HIDE DEF v
    <3> DEFINE y == HandleAck(v, s)
    <3>3. /\ \E e : TxSound(y.tx, n, e, i + y.nSent) /\ (e = b \/ (b <= e /\ s = At(e)))
          /\ HeadUncut(y.tx, n)
      BY <3>1, <3>2, HandleAckSound
    <3>4. CutAt(y.tx, n) = CutAt(v, n)
      BY <3>1, <3>2, HandleAckSound
    <3>5. \A m \in 1 .. Len(y.tx.fragments) :
             \E l \in 1 .. Len(v.fragments) : y.tx.fragments[m] = v.fragments[l]
      BY <3>1, <3>2, HandleAckSound
    <3> HIDE DEF y
    <3>6. h = y
      BY DEF h, y, v
    <3> QED BY <3>3, <3>4, <3>5, <3>6 DEF v
  <2> HIDE DEF h
  <2>5. t.seq <= h.tx.seq /\ h.tx.seq <= x
    <3>1. PICK e : TxSound(h.tx, n, e, i + h.nSent) /\ (e = b \/ (b <= e /\ s = At(e)))
      BY <2>4
    <3>2. h.tx.seq = At(e) /\ w.tx.seq = At(b)
      BY <2>3, <3>1 DEF TxSound
    <3>3. h.tx.seq = w.tx.seq \/ h.tx.seq = s
      BY <3>1, <3>2
    <3>4. h.tx.seq = e /\ w.tx.seq = b /\ e \in Nat /\ b \in Nat /\ t.seq \in Nat
      BY <2>3, <3>1, CutWithin
    <3>5. b <= e
      BY <3>1, <3>4
    <3>6. t.seq <= b
      BY <2>1, <3>4
    <3>7. t.seq <= e
      BY <3>4, <3>5, <3>6
    <3> QED BY <2>1, <3>3, <3>4, <3>7
  <2>6. ASSUME NEW P, NEW c, CutSound(P, t.fragments, c)
        PROVE  CutSound(P, h.tx.fragments, c)
    <3>1. CutSound(P, w.tx.fragments, c)
      BY <2>1, <2>6
    <3> QED BY <2>4, <3>1 DEF CutSound
  <2>7. Sound(g[k])
    <3>1. CutAt(h.tx, n) = CutAt(t, n)
      BY <2>1, <2>4
    <3>2. \E z : \E b_1 : TxSound(h.tx, n, b_1, z)
      BY <2>4
    <3> QED BY <2>2, <2>4, <2>5, <2>6, <3>1, <3>2
  <2> QED BY <2>7
<1> HIDE DEF T
<1>7. \A k \in 0 .. Len(numbers) : k \in T
  BY <1>1, <1>5, <1>6, Assembling!HoldsToTheEnd
<1>8. Sound(g[Len(numbers)])
  BY <1>1, <1>7 DEF T
<1> QED BY <1>3, <1>8 DEF start

-----------------------------------------------------------------------------
(* The system.                                                              *)

\* At the start nothing is cut and nothing is received.
LEMMA InitDownlink == ASSUME NoWrap, Init PROVE DownlinkInv
<1>1. SenderInv
  BY InitSender
<1>2. /\ sent = 0 /\ tx = NewTx /\ opspec = NoOpSpec
      /\ rx = NewRx /\ acks = <<>> /\ epc = <<>> /\ delivered = <<>>
  BY DEF Init, ConnInit
<1>3. AcksSmall
  BY <1>2, CapAssumption DEF AcksSmall
<1> DEFINE P == {}
<1>4. CutAt(tx, sent) = 0 /\ tx.fragments = <<>> /\ tx.seq = 0
  <2>1. tx.messages = <<>> /\ tx.fragmented = 0 /\ tx.fragments = <<>> /\ tx.seq = 0
    BY <1>2 DEF NewTx
  <2>2. Loaded(tx, sent) = 0
    <3>1. Len(tx.messages) = 0
      BY <2>1
    <3> QED BY <1>2, <3>1 DEF Loaded
  <2>3. BytesBefore(0) = 0
    BY BytesBeforeStep
  <2> QED BY <2>1, <2>2, <2>3 DEF CutAt
<1>5. CutSound(P, tx.fragments, 0)
  BY <1>4 DEF CutSound, PiecesSound
<1>6. FlightSound(opspec, P, 0)
  BY <1>2 DEF FlightSound, NoOpSpec
<1>7. Receiving(NewRx, P, 0, 0, 0)
  <2> DEFINE r == NewRx
  <2>1. r.seq = 0 /\ r.infos = <<>> /\ r.fragments = <<>> /\ r.posB = 0 /\ r.buf = <<>>
    BY DEF NewRx
  <2>2. r \in RxShape(r)
    BY SeqSpaceSize DEF RxShape, NewRx
  <2>3. Between(P, r.seq) /\ WaitingSound(P, r.seq, r.fragments, 0)
    BY <2>1 DEF Between, WaitingSound
  <2>4. InfosSound(r.seq, r.infos, r.fragments, 0)
    <3>1. \A m \in Message : ~(BytesBefore(m - 1) < 0)
      <4>1. \A m \in Message : BytesBefore(m - 1) \in Nat
        BY StreamNumbers
      <4> QED BY <4>1
    <3> QED BY <2>1, <3>1 DEF InfosSound, Announced, InOrder, FirstsAnnounced, CurrentAnnounced
  <2>5. Held(r.buf, 0, 0, r.seq) /\ 0 + 0 = Whole(0, r.seq)
    <3>1. BytesBefore(0) = 0 /\ 0 \in 0 .. Len(MsgSize)
      BY BytesBeforeStep, MessageSizes
    <3>2. <<>> \in Seq((0 .. Len(MsgSize)) \X Nat) /\ Len(<<>>) = 0
      OBVIOUS
    <3> QED BY <2>1, <3>1, <3>2 DEF Held, Whole
  <2>6. Len(r.infos) <= MsgInfoSize
    <3>1. Len(r.infos) = 0
      BY <2>1
    <3> QED BY <3>1, MsgInfoAssumption
  <2>7. r.seq <= 0
    BY <2>1
  <2> HIDE DEF r
  <2> QED BY <2>2, <2>3, <2>4, <2>5, <2>6, <2>7 DEF Receiving, r
<1>8. HandlingSound([rx |-> rx, acks |-> acks, delivered |-> delivered], P, 0, 0)
  <2> DEFINE w == [rx |-> rx, acks |-> acks, delivered |-> delivered]
  <2>1. w.rx = NewRx /\ w.acks = <<>> /\ w.delivered = <<>>
    BY <1>2
  <2>2. w \in [rx : {w.rx}, acks : Seq(0 .. SeqSpace - 1), delivered : Seq(Nat)]
    BY <1>2
  <2>3. Ahead(NewRx) /\ NewRx.seq = 0
    BY DEF Ahead, NewRx
  <2>4. Len(w.delivered) = 0 /\ Len(w.acks) = 0
    BY <2>1
  <2> HIDE DEF w, P
  <2>5. Receiving(w.rx, P, Len(w.delivered), 0, 0) /\ Ahead(w.rx) /\ 0 <= w.rx.seq
    BY <1>7, <2>1, <2>3, <2>4
  <2>6. HandlingSound(w, P, 0, 0)
    BY <2>2, <2>4, <2>5 DEF HandlingSound
  <2> QED BY <2>6 DEF w
<1> HIDE DEF P
<1>9. StreamSound(P)
  BY <1>4, <1>5, <1>6, <1>8 DEF StreamSound
<1> QED BY <1>1, <1>3, <1>9 DEF DownlinkInv

\* What the handlers of the connection start from.
LEMMA Starts ==
  ASSUME SenderInv
  PROVE  /\ \E a : TxSound(tx, sent, a, Len(resolved))
         /\ HeadUncut(tx, sent) /\ opspec \in OpSpecType
         /\ writeSize \in Nat /\ reads \in Seq(Nat) /\ ongoing \in BOOLEAN
BY SizesAreNumbers DEF SenderInv, ConnInv, ConnTypeOK

\* SamePlaces is reflexive.
LEMMA PlacesItself ==
  ASSUME NEW t, NEW n, NEW a, NEW j, TxSound(t, n, a, j) PROVE SamePlaces(t, t)
BY DEF SamePlaces, TxSound

\* The actions of the server leave the WISP as it is, and keep both ends together.
LEMMA SendTransfers ==
  ASSUME NoWrap, SenderInv, NEW P, StreamSound(P), Send, UNCHANGED wispVars
  PROVE  (\E Q : StreamSound(Q))' /\ tx'.seq = tx.seq
<1> DEFINE t == AddMsg(tx, sent + 1)
           n == sent + 1
           j == Len(resolved)
           q == RequestAccessSpec(t, reads, ongoing, writeSize)
<1>1. PICK a : TxSound(tx, sent, a, j)
  BY Starts
<1>2. /\ HeadUncut(tx, sent) /\ opspec \in OpSpecType
      /\ writeSize \in Nat /\ reads \in Seq(Nat) /\ ongoing \in BOOLEAN
  BY Starts
<1>3. sent \in Nat /\ n \in Message /\ sent < Len(MsgSize)
  BY <1>1, SoundNumbers DEF Send, Message
<1>4. TxSound(t, n, a, j) /\ HeadUncut(t, n)
  BY <1>1, <1>2, <1>3, AddMsgSound
<1>5. t.fragments = tx.fragments /\ CutAt(t, n) = CutAt(tx, sent)
  <2>1. tx \in TxType
    BY <1>1 DEF TxSound
  <2>2. /\ t.fragments = tx.fragments /\ t.fragmented = tx.fragmented
        /\ t.messages = Append(tx.messages, n) /\ tx.messages \in Seq(Message)
    BY <2>1 DEF AddMsg, TxType
  <2>3. Len(t.messages) = Len(tx.messages) + 1 /\ Len(tx.messages) \in Nat
    BY <1>3, <2>2
  <2> HIDE DEF t
  <2>4. Loaded(t, n) = Loaded(tx, sent)
    BY <1>3, <2>3 DEF Loaded
  <2> HIDE DEF n
  <2> QED BY <2>2, <2>4 DEF CutAt
<1>6. tx' = q.tx /\ opspec' = q.opspec /\ sent' = n
  BY DEF Send, Become
<1> HIDE DEF t, n
<1>7. TxSound(q.tx, n, a, j)
  BY <1>2, <1>4, RequestSound
<1>8. SamePlaces(q.tx, tx')
  BY <1>6, <1>7, PlacesItself
<1>9. CutSound(P, t.fragments, CutAt(t, n))
  BY <1>5 DEF StreamSound
<1> HIDE DEF q
<1> QED BY <1>1, <1>2, <1>4, <1>5, <1>6, <1>8, <1>9, RequestTransfers DEF q

\* A transmit control with the same places instead of tx.
LEMMA SameTransfers ==
  ASSUME NoWrap, SenderInv, NEW P, StreamSound(P), NEW t, SamePlaces(tx, t),
         NEW r \in Seq(Nat), NEW busy \in BOOLEAN, NEW size \in Nat,
         NEW q, q = RequestAccessSpec(t, r, busy, size),
         SamePlaces(q.tx, q.tx) => SamePlaces(q.tx, tx'),
         opspec' = q.opspec, sent' = sent, UNCHANGED wispVars
  PROVE  (\E Q : StreamSound(Q))' /\ tx'.seq = tx.seq
<1> DEFINE j == Len(resolved)
<1>1. PICK a : TxSound(tx, sent, a, j)
  BY Starts
<1>2. HeadUncut(tx, sent) /\ opspec \in OpSpecType
  BY Starts
<1>3. TxSound(t, sent, a, j) /\ HeadUncut(t, sent)
  BY <1>1, <1>2, SamePlacesSound
<1>4. CutAt(t, sent) = CutAt(tx, sent) /\ CutSound(P, t.fragments, CutAt(tx, sent))
  BY SamePlacesCut DEF StreamSound
<1>5. TxSound(q.tx, sent, a, j)
  BY <1>2, <1>3, RequestSound
<1>6. SamePlaces(q.tx, tx')
  BY <1>5, PlacesItself
<1> QED BY <1>1, <1>2, <1>3, <1>4, <1>6, RequestTransfers

\* A timeout, at which fragments are sent again.
LEMMA TimeoutTransfers ==
  ASSUME NoWrap, SenderInv, NEW P, StreamSound(P), NEW i \in DOMAIN tx.fragments,
         FragmentTimeout(i), UNCHANGED wispVars
  PROVE  (\E Q : StreamSound(Q))' /\ tx'.seq = tx.seq
<1> DEFINE t == PacketTimeout(tx, i)
           q == RequestAccessSpec(t, reads, ongoing, writeSize)
<1>1. PICK a : TxSound(tx, sent, a, Len(resolved))
  BY Starts
<1>2. SamePlaces(tx, t)
  BY <1>1, PacketTimeoutSound
<1>3. writeSize \in Nat /\ reads \in Seq(Nat) /\ ongoing \in BOOLEAN
  BY Starts
<1>4. tx' = q.tx /\ opspec' = q.opspec /\ sent' = sent
  BY DEF FragmentTimeout, Become
<1> HIDE DEF t
<1>5. SamePlaces(q.tx, q.tx) => SamePlaces(q.tx, tx')
  BY <1>4
<1> HIDE DEF q
<1> QED BY <1>2, <1>3, <1>4, <1>5, SameTransfers DEF q

\* A request for reads.
LEMMA ReqUplinkTransfers ==
  ASSUME NoWrap, SenderInv, NEW P, StreamSound(P), NEW n \in 1 .. MaxReads,
         ReqUplink([i \in 1 .. n |-> WriteInit]), UNCHANGED wispVars
  PROVE  (\E Q : StreamSound(Q))' /\ tx'.seq = tx.seq
<1> DEFINE sizes == [i \in 1 .. n |-> WriteInit]
           r == reads \o sizes
           q == RequestAccessSpec(tx, r, ongoing, writeSize)
<1>1. PICK a : TxSound(tx, sent, a, Len(resolved))
  BY Starts
<1>2. SamePlaces(tx, tx)
  BY <1>1, PlacesItself
<1>3. writeSize \in Nat /\ reads \in Seq(Nat) /\ ongoing \in BOOLEAN
  BY Starts
<1>4. tx' = q.tx /\ opspec' = q.opspec /\ sent' = sent
  BY DEF ReqUplink, Become
<1>5. sizes \in Seq(Nat)
  BY WriteSizeAssumption, BoundAssumption
<1> HIDE DEF sizes
<1>6. r \in Seq(Nat)
  BY <1>3, <1>5, ConcatProperties
<1> HIDE DEF r
<1>7. SamePlaces(q.tx, q.tx) => SamePlaces(q.tx, tx')
  BY <1>4
<1> HIDE DEF q
<1> QED BY <1>2, <1>3, <1>4, <1>6, <1>7, SameTransfers DEF q

\* The report of a BlockWrite OpSpec.
LEMMA WriteReportTransfers ==
  ASSUME NoWrap, SenderInv, NEW P, StreamSound(P), NEW ok \in BOOLEAN, WriteReport(ok),
         UNCHANGED wispVars
  PROVE  (\E Q : StreamSound(Q))' /\ tx'.seq = tx.seq
<1> DEFINE size == NewWriteSize(ok, WrittenSize(opspec.data))
           q == RequestAccessSpec(tx, reads, FALSE, size)
<1>1. PICK a : TxSound(tx, sent, a, Len(resolved))
  BY Starts
<1>2. SamePlaces(tx, tx)
  BY <1>1, PlacesItself
<1>3. reads \in Seq(Nat) /\ FALSE \in BOOLEAN
  BY Starts
<1>4. size \in Nat
  BY NewSizes DEF SenderInv
<1>5. tx' = q.tx /\ opspec' = q.opspec /\ sent' = sent
  BY DEF WriteReport, Become
<1> HIDE DEF size
<1>6. SamePlaces(q.tx, q.tx) => SamePlaces(q.tx, tx')
  BY <1>5
<1> HIDE DEF q
<1> QED BY <1>2, <1>3, <1>4, <1>5, <1>6, SameTransfers DEF q

\* The report of a read OpSpec.
LEMMA ReadReportTransfers ==
  ASSUME NoWrap, SenderInv, NEW P, StreamSound(P), NEW ok \in BOOLEAN,
         NEW answer \in Answers, ReadReport(ok, answer), UNCHANGED wispVars
  PROVE  (\E Q : StreamSound(Q))' /\ tx'.seq = tx.seq
<1>1. writeSize \in Nat /\ reads \in Seq(Nat) /\ FALSE \in BOOLEAN
  BY Starts
<1>2. PICK t, q : /\ SamePlaces(tx, t) /\ q = RequestAccessSpec(t, reads, FALSE, writeSize)
                  /\ SamePlaces(q.tx, tx') /\ opspec' = q.opspec
  BY ReadReportRuns DEF SenderInv
<1>3. sent' = sent
  BY DEF ReadReport
<1> QED BY <1>1, <1>2, <1>3, SameTransfers

\* The positions of the two ends.
LEMMA TwoEnds ==
  ASSUME NoWrap, SenderInv, NEW P, StreamSound(P)
  PROVE  LET c == CutAt(tx, sent)
         IN /\ c \in 0 .. SeqSpace - 1 /\ rx.seq \in 0 .. SeqSpace - 1
            /\ tx.seq \in 0 .. SeqSpace - 1
            /\ tx.seq <= rx.seq /\ rx.seq <= c
            /\ c <= tx.seq + Window /\ c <= rx.seq + Window
            /\ TxSound(tx, sent, tx.seq, Len(resolved))
<1> DEFINE c == CutAt(tx, sent)
           w == [rx |-> rx, acks |-> acks, delivered |-> delivered]
<1>1. PICK a : TxSound(tx, sent, a, Len(resolved))
  BY Starts
<1>2. /\ c \in 0 .. SeqSpace - 1 /\ a \in Nat /\ a <= c /\ c <= a + Window /\ tx.seq = a
  BY <1>1, CutWithin
<1>3. tx.seq <= rx.seq /\ rx.seq <= c /\ rx.seq \in 0 .. SeqSpace - 1
  <2>1. HandlingSound(w, P, tx.seq, c)
    BY DEF StreamSound
  <2>2. w.rx = rx
    OBVIOUS
  <2> HIDE DEF w, c
  <2>3. Receiving(rx, P, Len(w.delivered), 0, c) /\ tx.seq <= rx.seq
    BY <2>1, <2>2 DEF HandlingSound
  <2>4. rx.seq <= c /\ rx \in RxShape(rx)
    BY <2>3 DEF Receiving
  <2> QED BY <2>3, <2>4 DEF RxShape
<1>4. tx.seq \in 0 .. SeqSpace - 1
  BY <1>2, SeqSpaceSize
<1> HIDE DEF c
<1>5. c <= rx.seq + Window
  BY <1>2, <1>3, SeqSpaceSize
<1> QED BY <1>1, <1>2, <1>3, <1>4, <1>5 DEF c

\* The WISP handles a BlockWrite: its receive control only moves forward.
LEMMA BlockWriteTransfers ==
  ASSUME NoWrap, BufferSuffices, SenderInv, NEW P, StreamSound(P), AcksSmall, BlockWrite
  PROVE  /\ StreamSound(P)' /\ AcksSmall' /\ rx.seq <= rx'.seq
         /\ rx'.seq <= CutAt(tx, sent)
<1> DEFINE c == CutAt(tx, sent)
           start == [rx |-> rx, acks |-> acks, delivered |-> delivered]
           w == Fold(HandlePacket, start, opspec.data)
<1>1. /\ c \in 0 .. SeqSpace - 1 /\ rx.seq \in 0 .. SeqSpace - 1
      /\ tx.seq \in 0 .. SeqSpace - 1
      /\ tx.seq <= rx.seq /\ c <= rx.seq + Window
  BY TwoEnds
<1>2. /\ opspec.kind = "write" /\ ~opspec.done /\ opspec' = [opspec EXCEPT !.done = TRUE]
      /\ Len(w.acks) <= AckQueueCap /\ rx' = w.rx /\ acks' = w.acks
      /\ delivered' = w.delivered
      /\ UNCHANGED <<sent, tx, epc>>
  BY DEF BlockWrite
<1>3. PiecesSound(P, c) /\ CutSound(P, tx.fragments, c)
  BY DEF StreamSound, CutSound
<1>4. opspec \in OpSpecType /\ opspec.data \in Seq(SoundPacket)
  BY Starts DEF OpSpecType
<1>5. \A k \in 1 .. Len(opspec.data) : Deliverable(opspec.data[k], P, c)
  BY <1>2 DEF StreamSound, FlightSound
<1>6. HandlingSound(start, P, rx.seq, c)
  <2>1. HandlingSound(start, P, tx.seq, c) /\ start.rx = rx
    BY DEF StreamSound
  <2>2. rx.seq <= rx.seq
    BY <1>1
  <2> HIDE DEF start, c
  <2> QED BY <2>1, <2>2 DEF HandlingSound
<1>7. HandlingSound(w, P, rx.seq, c)
  <2>1. rx.seq \in Nat
    BY <1>1, SeqSpaceSize
  <2> HIDE DEF start, c
  <2> QED BY <1>1, <1>3, <1>4, <1>5, <1>6, <2>1, BlockWriteSound
<1> HIDE DEF start, w
<1>8. w = [rx |-> rx', acks |-> acks', delivered |-> delivered']
  <2>1. w \in [rx : {w.rx}, acks : Seq(0 .. SeqSpace - 1), delivered : Seq(Nat)]
    BY <1>7 DEF HandlingSound
  <2> QED BY <1>2, <2>1
<1>9. rx.seq <= w.rx.seq /\ w.rx.seq \in Nat /\ w.rx.seq <= c
  <2>1. Receiving(w.rx, P, Len(w.delivered), 0, c) /\ rx.seq <= w.rx.seq
    BY <1>7 DEF HandlingSound
  <2>2. w.rx \in RxShape(w.rx) /\ w.rx.seq <= c
    BY <2>1 DEF Receiving
  <2>3. w.rx.seq \in 0 .. SeqSpace - 1
    BY <2>2 DEF RxShape
  <2> QED BY <2>1, <2>2, <2>3, SeqSpaceSize
<1>10. HandlingSound(w, P, tx.seq, c)
  <2>1. tx.seq <= w.rx.seq
    BY <1>1, <1>9, SeqSpaceSize
  <2> QED BY <1>7, <2>1 DEF HandlingSound
<1>11. opspec'.done
  BY <1>2, <1>4 DEF OpSpecType
<1>12. StreamSound(P)'
  <2>1. CutAt(tx', sent') = c /\ tx' = tx
    BY <1>2
  <2> HIDE DEF c
  <2>2. HandlingSound([rx |-> rx', acks |-> acks', delivered |-> delivered'], P, tx'.seq, c)
    BY <1>8, <1>10, <2>1
  <2>3. FlightSound(opspec', P, c) /\ CutSound(P, tx'.fragments, c)
    BY <1>3, <1>11, <2>1 DEF FlightSound
  <2> QED BY <2>1, <2>2, <2>3 DEF StreamSound
<1>13. AcksSmall'
  <2>1. \A x \in 1 .. Len(epc) : epc[x] <= rx'.seq
    <3> SUFFICES ASSUME NEW x \in 1 .. Len(epc) PROVE epc[x] <= rx'.seq
      OBVIOUS
    <3>1. epc \in Seq(0 .. SeqSpace - 1)
      BY DEF SenderInv, WispNumbers
    <3>2. epc[x] \in 0 .. SeqSpace - 1
      BY <3>1, ElementOfSeq
    <3>3. epc[x] <= rx.seq
      BY DEF AcksSmall
    <3> DEFINE e == epc[x]
    <3> HIDE DEF e
    <3>4. e \in Nat /\ e <= rx.seq
      BY <3>2, <3>3, SeqSpaceSize DEF e
    <3>5. e <= rx'.seq
      BY <1>1, <1>2, <1>9, <3>4, SeqSpaceSize
    <3> QED BY <3>5 DEF e
  <2> QED BY <1>2, <2>1 DEF AcksSmall
<1> QED BY <1>2, <1>9, <1>12, <1>13

\* ACK packets move from the queue to the EPC.
LEMMA UpdateEpcTransfers ==
  ASSUME NoWrap, SenderInv, NEW P, StreamSound(P), AcksSmall, UpdateEpc
  PROVE  StreamSound(P)' /\ AcksSmall'
<1> DEFINE m == Min({EpcCap, Len(acks)})
           c == CutAt(tx, sent)
           w == [rx |-> rx, acks |-> acks, delivered |-> delivered]
           z == [rx |-> rx, acks |-> <<>>, delivered |-> delivered]
<1>1. /\ epc' = SubSeq(acks, 1, m) /\ acks' = <<>> /\ rx' = rx /\ delivered' = delivered
      /\ UNCHANGED connVars
  BY DEF UpdateEpc
<1>2. acks \in Seq(0 .. SeqSpace - 1)
  BY DEF SenderInv, WispNumbers
<1>3. m \in 0 .. Len(acks) /\ m <= EpcCap
  <2> DEFINE T == {EpcCap, Len(acks)}
  <2>1. T \subseteq Nat /\ T # {} /\ Len(acks) \in T /\ EpcCap \in T
    BY <1>2, CapAssumption
  <2> HIDE DEF T
  <2>2. Min(T) \in T /\ Min(T) <= Len(acks) /\ Min(T) <= EpcCap
    BY <2>1, LeastOf
  <2>3. Min(T) \in Nat /\ Len(acks) \in Nat
    BY <2>1, <2>2
  <2>4. Min(T) \in 0 .. Len(acks) /\ Min(T) <= EpcCap
    BY <2>2, <2>3
  <2> QED BY <2>4 DEF T
<1> HIDE DEF m
<1>4. HandlingSound(w, P, tx.seq, c)
  BY DEF StreamSound
<1>5. \A x \in 1 .. Len(acks) : acks[x] <= rx.seq
  <2>1. w.acks = acks /\ w.rx = rx
    OBVIOUS
  <2> HIDE DEF w, c
  <2> QED BY <1>4, <2>1 DEF HandlingSound
<1>6. AcksSmall'
  <2>1. Len(epc') = m /\ \A x \in 1 .. m : epc'[x] = acks[x]
    <3> DEFINE D == 0 .. SeqSpace - 1
    <3>1. acks \in Seq(D) /\ m \in Nat /\ Len(acks) \in Nat
      BY <1>2, <1>3
    <3> HIDE DEF D
    <3>2. Len(SubSeq(acks, 1, m)) = m /\ \A x \in 1 .. m : SubSeq(acks, 1, m)[x] = acks[x]
      BY <1>3, <3>1
    <3> QED BY <1>1, <3>2
  <2>2. \A x \in 1 .. m : x \in 1 .. Len(acks)
    BY <1>2, <1>3
  <2>3. Len(acks') = 0 /\ 0 <= AckQueueCap
    BY <1>1, CapAssumption
  <2>4. \A x \in 1 .. Len(epc') : epc'[x] <= rx'.seq
    BY <1>1, <1>5, <2>1, <2>2
  <2> QED BY <1>3, <2>1, <2>3, <2>4 DEF AcksSmall
<1>7. HandlingSound(z, P, tx.seq, c)
  <2>1. /\ z.rx = w.rx /\ z.acks = <<>> /\ z.delivered = w.delivered
    OBVIOUS
  <2>2. delivered \in Seq(Nat)
    <3>1. w.delivered \in Seq(Nat)
      <4> HIDE DEF w, c
      <4> QED BY <1>4 DEF HandlingSound
    <3> QED BY <3>1
  <2>3. z \in [rx : {z.rx}, acks : Seq(0 .. SeqSpace - 1), delivered : Seq(Nat)]
    BY <2>2
  <2>4. Len(z.acks) = 0
    BY <2>1
  <2> HIDE DEF w, z, c
  <2> QED BY <1>4, <2>1, <2>3, <2>4 DEF HandlingSound
<1>8. z = [rx |-> rx', acks |-> acks', delivered |-> delivered']
  BY <1>1
<1>9. CutSound(P, tx.fragments, c) /\ FlightSound(opspec, P, c)
  BY DEF StreamSound
<1>10. tx' = tx /\ sent' = sent /\ opspec' = opspec
  BY <1>1 DEF connVars
<1> HIDE DEF z
<1>11. StreamSound(P)'
  BY <1>7, <1>8, <1>9, <1>10 DEF StreamSound
<1> QED BY <1>6, <1>11

\* The server handles an EPC: what is acknowledged has been received.
LEMMA SeeEpcTransfers ==
  ASSUME NoWrap, SenderInv, NEW P, StreamSound(P), AcksSmall, SeeEpc
  PROVE  StreamSound(P)' /\ AcksSmall' /\ tx.seq <= tx'.seq /\ tx'.seq <= rx.seq
<1> DEFINE c == CutAt(tx, sent)
           w == [rx |-> rx, acks |-> acks, delivered |-> delivered]
           y == Fold(AckOne, [tx |-> tx, nSent |-> 0], epc)
<1>1. /\ tx' = y.tx /\ sent' = sent /\ opspec' = opspec /\ UNCHANGED wispVars
  BY DEF SeeEpc, HandleAcks
<1>2. TxSound(tx, sent, tx.seq, Len(resolved)) /\ HeadUncut(tx, sent)
  BY TwoEnds, Starts
<1>3. rx.seq \in 0 .. SeqSpace - 1 /\ tx.seq <= rx.seq
  BY TwoEnds
<1>4. epc \in Seq(0 .. SeqSpace - 1) /\ \A k \in 1 .. Len(epc) : epc[k] <= rx.seq
  BY DEF SenderInv, WispNumbers, AcksSmall
<1>5. /\ tx.seq <= y.tx.seq /\ y.tx.seq <= rx.seq /\ CutAt(y.tx, sent) = c
      /\ CutSound(P, tx.fragments, c) => CutSound(P, y.tx.fragments, c)
  BY <1>2, <1>3, <1>4, AcksFollow
<1>6. CutSound(P, tx.fragments, c) /\ FlightSound(opspec, P, c) /\ HandlingSound(w, P, tx.seq, c)
  BY DEF StreamSound
<1> HIDE DEF y
<1>7. HandlingSound(w, P, y.tx.seq, c)
  <2>1. w.rx = rx
    OBVIOUS
  <2> HIDE DEF w, c
  <2> QED BY <1>5, <1>6, <2>1 DEF HandlingSound
<1>8. w = [rx |-> rx', acks |-> acks', delivered |-> delivered'] /\ CutAt(tx', sent') = c
  BY <1>1, <1>5 DEF wispVars
<1> HIDE DEF w, c
<1>9. StreamSound(P)'
  BY <1>1, <1>5, <1>6, <1>7, <1>8 DEF StreamSound
<1>10. AcksSmall'
  BY <1>1 DEF AcksSmall, wispVars
<1> QED BY <1>1, <1>5, <1>9, <1>10

\* A step that leaves all but the OpSpec, which is then not a BlockWrite to be carried
\* out, or the same.
LEMMA StillSound ==
  ASSUME NEW P, StreamSound(P), UNCHANGED <<sent, tx>>, UNCHANGED wispVars,
         opspec' = opspec \/ opspec'.kind # "write" \/ opspec'.done
  PROVE  StreamSound(P)'
<1>1. \A c : FlightSound(opspec, P, c) => FlightSound(opspec', P, c)
  BY DEF FlightSound
<1> QED BY <1>1 DEF StreamSound, wispVars

\* What a step does to the two ends.
Forward ==
  /\ tx.seq <= tx'.seq /\ tx'.seq <= rx.seq
  /\ rx.seq <= rx'.seq /\ rx'.seq <= CutAt(tx, sent)

\* Every step keeps the invariant, and moves both ends forward only.
LEMMA NextDownlink ==
  ASSUME NoWrap, BufferSuffices, DownlinkInv, [Next]_vars
  PROVE  DownlinkInv' /\ Forward
<1>1. PICK P : StreamSound(P)
  BY DEF DownlinkInv
<1>2. SenderInv /\ AcksSmall
  BY DEF DownlinkInv
<1>3. SenderInv'
  BY <1>2, NextSender
<1>4. UNCHANGED wispVars => AcksSmall'
  BY <1>2 DEF wispVars, AcksSmall
<1>5. tx'.seq = tx.seq /\ rx' = rx => Forward
  <2>1. /\ tx.seq \in 0 .. SeqSpace - 1 /\ rx.seq \in 0 .. SeqSpace - 1
        /\ tx.seq <= rx.seq /\ rx.seq <= CutAt(tx, sent)
    BY <1>1, <1>2, TwoEnds
  <2>2. tx.seq <= tx.seq /\ rx.seq <= rx.seq
    BY <2>1, SeqSpaceSize
  <2> QED BY <2>1, <2>2 DEF Forward
<1>6. UNCHANGED wispVars => rx' = rx
  BY DEF wispVars
<1>7. CASE Conn(Send)
  BY <1>1, <1>2, <1>3, <1>4, <1>5, <1>6, <1>7, SendTransfers DEF Conn, DownlinkInv
<1>8. CASE Conn(\E i \in DOMAIN tx.fragments : FragmentTimeout(i))
  BY <1>1, <1>2, <1>3, <1>4, <1>5, <1>6, <1>8, TimeoutTransfers DEF Conn, DownlinkInv
<1>9. CASE Conn(\E n \in 1 .. MaxReads : ReqUplink([i \in 1 .. n |-> WriteInit]))
  BY <1>1, <1>2, <1>3, <1>4, <1>5, <1>6, <1>9, ReqUplinkTransfers DEF Conn, DownlinkInv
<1>10. CASE Conn(\E ok \in BOOLEAN : WriteReport(ok))
  BY <1>1, <1>2, <1>3, <1>4, <1>5, <1>6, <1>10, WriteReportTransfers DEF Conn, DownlinkInv
<1>11. CASE Conn(\E ok \in BOOLEAN, answer \in Answers : ReadReport(ok, answer))
  BY <1>1, <1>2, <1>3, <1>4, <1>5, <1>6, <1>11, ReadReportTransfers DEF Conn, DownlinkInv
<1>12. CASE Conn(AccessSpecFails)
  <2>1. opspec' = NoOpSpec /\ UNCHANGED <<sent, tx>> /\ UNCHANGED wispVars
    BY <1>12 DEF Conn, AccessSpecFails
  <2>2. opspec'.kind # "write"
    BY <2>1 DEF NoOpSpec
  <2> QED BY <1>1, <1>3, <1>4, <1>5, <1>6, <2>1, <2>2, StillSound DEF DownlinkInv
<1>13. CASE BlockWrite
  <2>1. /\ StreamSound(P)' /\ AcksSmall' /\ rx.seq <= rx'.seq
        /\ rx'.seq <= CutAt(tx, sent)
    BY <1>1, <1>2, <1>13, BlockWriteTransfers
  <2>2. tx' = tx
    BY <1>13 DEF BlockWrite
  <2>3. tx.seq \in Nat /\ tx.seq <= rx.seq
    BY <1>1, <1>2, TwoEnds, SeqSpaceSize
  <2>4. Forward
    BY <2>1, <2>2, <2>3 DEF Forward
  <2> QED BY <1>3, <2>1, <2>4 DEF DownlinkInv
<1>14. CASE Read
  <2>1. /\ opspec.kind = "read" /\ opspec' = [opspec EXCEPT !.done = TRUE]
        /\ UNCHANGED <<sent, tx>> /\ UNCHANGED wispVars
    BY <1>14 DEF Read
  <2>2. opspec'.done
    BY <1>2, <2>1, Starts DEF OpSpecType
  <2> QED BY <1>1, <1>3, <1>4, <1>5, <1>6, <2>1, <2>2, StillSound DEF DownlinkInv
<1>15. CASE UpdateEpc
  <2>1. tx' = tx /\ rx' = rx
    BY <1>15 DEF UpdateEpc, connVars
  <2> QED BY <1>1, <1>2, <1>3, <1>15, <1>5, <2>1, UpdateEpcTransfers DEF DownlinkInv
<1>16. CASE SeeEpc
  <2>1. StreamSound(P)' /\ AcksSmall' /\ tx.seq <= tx'.seq /\ tx'.seq <= rx.seq
    BY <1>1, <1>2, <1>16, SeeEpcTransfers
  <2>2. rx' = rx
    BY <1>16 DEF SeeEpc, wispVars
  <2>3. rx.seq \in Nat /\ rx.seq <= CutAt(tx, sent)
    BY <1>1, <1>2, TwoEnds, SeqSpaceSize
  <2>4. Forward
    BY <2>1, <2>2, <2>3 DEF Forward
  <2> QED BY <1>3, <2>1, <2>4 DEF DownlinkInv
<1>17. CASE UNCHANGED vars
  <2>1. UNCHANGED <<sent, tx>> /\ UNCHANGED wispVars /\ opspec' = opspec
    BY <1>17 DEF vars, wispVars
  <2> QED BY <1>1, <1>3, <1>4, <1>5, <1>6, <2>1, StillSound DEF DownlinkInv
<1> QED BY <1>7, <1>8, <1>9, <1>10, <1>11, <1>12, <1>13, <1>14, <1>15, <1>16, <1>17 DEF Next

\* What the application of the WISP has got, and where the WISP is.
LEMMA DeliveredSound ==
  ASSUME NoWrap, BufferSuffices, DownlinkInv
  PROVE  LET i == Len(delivered)
         IN /\ i \in 0 .. sent /\ sent \in 0 .. Len(MsgSize)
            /\ delivered \in Seq(Nat) /\ \A x \in 1 .. i : delivered[x] = x
            /\ rx.seq \in Nat /\ BytesBefore(i) <= rx.seq
            /\ i < Len(MsgSize) => rx.seq < BytesBefore(i + 1)
            /\ rx.buf \in Seq((0 .. Len(MsgSize)) \X Nat) /\ Len(rx.buf) <= MsgBufSize
            /\ rx \in RxShape(rx) /\ Len(rx.infos) <= MsgInfoSize
<1> DEFINE c == CutAt(tx, sent)
           w == [rx |-> rx, acks |-> acks, delivered |-> delivered]
           i == Len(delivered)
           N == Len(MsgSize)
<1>1. PICK P : StreamSound(P)
  BY DEF DownlinkInv
<1>2. /\ c \in 0 .. SeqSpace - 1 /\ rx.seq \in 0 .. SeqSpace - 1
      /\ rx.seq <= c /\ c <= rx.seq + Window
      /\ TxSound(tx, sent, tx.seq, Len(resolved))
  BY <1>1, TwoEnds DEF DownlinkInv
<1>3. sent \in 0 .. N /\ c <= BytesBefore(sent)
  BY <1>2, CutWithin
<1>4. HandlingSound(w, P, tx.seq, c)
  BY <1>1 DEF StreamSound
<1>5. w.rx = rx /\ w.delivered = delivered
  OBVIOUS
<1> HIDE DEF w, c
<1>6. /\ Receiving(rx, P, i, 0, c) /\ delivered \in Seq(Nat)
      /\ \A x \in 1 .. i : delivered[x] = x
  BY <1>4, <1>5 DEF HandlingSound
<1>7. PICK k : Held(rx.buf, i, k, rx.seq) /\ i + 0 = Whole(k, rx.seq)
  BY <1>6 DEF Receiving
<1>8. rx.seq \in Nat /\ c \in Nat
  BY <1>2, SeqSpaceSize
<1>9. i \in 0 .. N /\ k \in i .. N /\ rx.seq <= BytesBefore(k)
      /\ (k = i => rx.seq = BytesBefore(i)) /\ (k > i => BytesBefore(k - 1) < rx.seq)
      /\ rx.buf \in Seq((0 .. N) \X Nat)
  BY <1>7 DEF Held
<1>10. i = Whole(k, rx.seq) /\ i \in Nat /\ k \in Nat /\ N \in Nat
  BY <1>7, <1>9, MessageSizes
<1>11. i < N => rx.seq < BytesBefore(i + 1)
  BY <1>7, <1>8, <1>10, HeldBelow
<1>12. BytesBefore(i) <= rx.seq
  <2>1. CASE rx.seq = BytesBefore(k)
    <3>1. i = k
      BY <1>10, <2>1 DEF Whole
    <3> QED BY <1>8, <2>1, <3>1
  <2>2. CASE rx.seq # BytesBefore(k)
    <3>1. i = k - 1
      BY <1>10, <2>2 DEF Whole
    <3>2. BytesBefore(i) < rx.seq
      BY <1>9, <1>10, <3>1
    <3>3. BytesBefore(i) \in Nat
      BY <1>9, StreamNumbers
    <3> QED BY <1>8, <3>2, <3>3
  <2> QED BY <2>1, <2>2
<1>13. i <= sent
  <2>1. BytesBefore(sent) \in Nat /\ BytesBefore(i) \in Nat
        /\ (sent < i => BytesBefore(sent) < BytesBefore(i))
    BY <1>3, <1>9, StreamNumbers
  <2>2. BytesBefore(i) <= BytesBefore(sent)
    BY <1>2, <1>3, <1>8, <1>12, <2>1
  <2>3. ~(sent < i)
    BY <2>1, <2>2
  <2> QED BY <1>3, <1>10, <2>3
<1>14. Len(rx.buf) <= MsgBufSize
  <2>1. rx.seq <= rx.seq + Window
    BY <1>8, SeqSpaceSize
  <2> QED BY <1>7, <1>8, <1>11, <2>1, HeldFits
<1>15. rx \in RxShape(rx) /\ Len(rx.infos) <= MsgInfoSize
  BY <1>6 DEF Receiving
<1>16. i \in 0 .. sent
  BY <1>3, <1>10, <1>13
<1> QED BY <1>3, <1>6, <1>8, <1>9, <1>11, <1>12, <1>14, <1>15, <1>16

\* The distance of two sequence numbers in order.
LEMMA Distance ==
  ASSUME NEW x \in 0 .. SeqSpace - 1, NEW y \in 0 .. SeqSpace - 1, y <= x
  PROVE  SeqSub(x, y) = x - y
<1>1. At(x) = x /\ At(y) = y
  BY AtSmall
<1>2. x - y \in 0 .. SeqSpace - 1 /\ x \in Int /\ y \in Int
  BY SeqSpaceSize
<1>3. SeqSub(At(x), At(y)) = x - y
  BY <1>2, SubAt
<1> QED BY <1>1, <1>3

\* Both halves of the downlink fit each other in every state.
THEOREM DownlinkInvariant ==
  ASSUME NoWrap, BufferSuffices PROVE Spec => []DownlinkInv
BY InitDownlink, NextDownlink, PTL DEF Spec

\* Under what the proof needs of the sizes, the types of all variables and the sizes of
\* the WISP's stores and buffers; the WISP never overruns its message buffer
\* (wtp_rx_handle_packet, client/wtp/wtp/transmission.c).
THEOREM DownlinkTyped ==
  ASSUME NoWrap, BufferSuffices PROVE Spec => []TypeOK
<1>1. DownlinkInv => TypeOK
  <2> SUFFICES ASSUME DownlinkInv PROVE TypeOK
    OBVIOUS
  <2>1. ConnTypeOK /\ WispNumbers /\ AcksSmall
    BY DEF DownlinkInv, SenderInv, ConnInv
  <2>2. /\ rx.buf \in Seq((0 .. Len(MsgSize)) \X Nat) /\ Len(rx.buf) <= MsgBufSize
        /\ rx \in RxShape(rx) /\ Len(rx.infos) <= MsgInfoSize
    BY DeliveredSound
  <2>3. rx \in RxType
    BY <2>2 DEF RxShape, RxType
  <2> QED BY <2>1, <2>2, <2>3 DEF TypeOK, WispNumbers, AcksSmall
<1> QED BY <1>1, DownlinkInvariant, PTL

\* The WISP has assembled at least what the server takes as acknowledged, and no more
\* than was cut, whichever packets and ACKs are lost, late or repeated.
THEOREM ReceiverAlwaysWithinSent ==
  ASSUME NoWrap, BufferSuffices PROVE Spec => []ReceiverWithinSent
<1>1. DownlinkInv => ReceiverWithinSent
  <2> SUFFICES ASSUME DownlinkInv PROVE ReceiverWithinSent
    OBVIOUS
  <2> DEFINE c == CutAt(tx, sent)
  <2>1. PICK P : StreamSound(P)
    BY DEF DownlinkInv
  <2>2. /\ c \in 0 .. SeqSpace - 1 /\ rx.seq \in 0 .. SeqSpace - 1
        /\ tx.seq \in 0 .. SeqSpace - 1 /\ tx.seq <= rx.seq /\ rx.seq <= c
        /\ TxSound(tx, sent, tx.seq, Len(resolved))
    BY <2>1, TwoEnds DEF DownlinkInv
  <2>3. Rel(tx, FragmentedEnd(tx)) = c - tx.seq
    BY <2>2, SoundAcked
  <2> HIDE DEF c
  <2>4. Rel(tx, rx.seq) = rx.seq - tx.seq
    BY <2>2, Distance DEF Rel
  <2> QED BY <2>2, <2>3, <2>4, SeqSpaceSize DEF ReceiverWithinSent
<1> QED BY <1>1, DownlinkInvariant, PTL

\* The WISP's application has been handed every message that is assembled to its last
\* byte, and no other: the counts of wtp_rx_handle_packet agree with the data.
THEOREM AssembledAlwaysDelivered ==
  ASSUME NoWrap, BufferSuffices PROVE Spec => []AssembledMeansDelivered
<1>1. DownlinkInv => AssembledMeansDelivered
  <2> SUFFICES ASSUME DownlinkInv PROVE AssembledMeansDelivered
    OBVIOUS
  <2> DEFINE i == Len(delivered)
  <2>1. PICK P : StreamSound(P)
    BY DEF DownlinkInv
  <2>2. /\ rx.seq \in 0 .. SeqSpace - 1 /\ tx.seq \in 0 .. SeqSpace - 1 /\ tx.seq <= rx.seq
        /\ TxSound(tx, sent, tx.seq, Len(resolved))
    BY <2>1, TwoEnds DEF DownlinkInv
  <2>3. AckedBytes = tx.seq
    BY <2>2, AckedPosition
  <2>4. Rel(tx, rx.seq) = rx.seq - tx.seq
    BY <2>2, Distance DEF Rel
  <2>5. ReceivedBytes = rx.seq
    <3>1. ReceivedBytes = tx.seq + (rx.seq - tx.seq)
      BY <2>3, <2>4 DEF ReceivedBytes
    <3> QED BY <2>2, <3>1, SeqSpaceSize
  <2>6. /\ i \in 0 .. sent /\ sent \in 0 .. Len(MsgSize)
        /\ rx.seq \in Nat /\ BytesBefore(i) <= rx.seq
        /\ i < Len(MsgSize) => rx.seq < BytesBefore(i + 1)
    BY DeliveredSound
  <2> HIDE DEF i
  <2>7. sent \in Nat /\ sent <= Len(MsgSize) /\ (i < sent => rx.seq < BytesBefore(i + 1))
    BY <2>6, MessageSizes
  <2>8. MessagesIn(rx.seq) = i
    BY <2>6, <2>7, WholeMessages
  <2> QED BY <2>5, <2>8 DEF AssembledMeansDelivered, i
<1> QED BY <1>1, DownlinkInvariant, PTL

\* Neither end ever moves back, the WISP moves by no more than a window in a step, and
\* the server never passes the WISP.
THEOREM SeqNumbersAlwaysAdvance ==
  ASSUME NoWrap, BufferSuffices PROVE Spec => SeqNumbersAdvance
<1> DEFINE A == /\ SeqSub(rx'.seq, rx.seq) <= Window
                /\ Rel(tx, tx'.seq) <= Rel(tx, rx.seq)
<1>1. DownlinkInv /\ [Next]_vars => A
  <2> SUFFICES ASSUME DownlinkInv, [Next]_vars PROVE A
    OBVIOUS
  <2> DEFINE c == CutAt(tx, sent)
  <2>1. PICK P : StreamSound(P)
    BY DEF DownlinkInv
  <2>2. /\ c \in 0 .. SeqSpace - 1 /\ rx.seq \in 0 .. SeqSpace - 1
        /\ tx.seq \in 0 .. SeqSpace - 1 /\ tx.seq <= rx.seq /\ c <= rx.seq + Window
    BY <2>1, TwoEnds DEF DownlinkInv
  <2>3. /\ tx.seq <= tx'.seq /\ tx'.seq <= rx.seq
        /\ rx.seq <= rx'.seq /\ rx'.seq <= c
    BY NextDownlink DEF Forward
  <2>4. SenderInv'
    BY NextDownlink DEF DownlinkInv
  <2>5. rx'.seq \in 0 .. SeqSpace - 1 /\ tx'.seq \in 0 .. SeqSpace - 1
    BY <2>4 DEF SenderInv, ConnInv, ConnTypeOK, TxType, WispNumbers, RxNumbers
  <2> HIDE DEF c
  <2>6. SeqSub(rx'.seq, rx.seq) = rx'.seq - rx.seq
    BY <2>2, <2>3, <2>5, Distance
  <2>7. Rel(tx, tx'.seq) = tx'.seq - tx.seq /\ Rel(tx, rx.seq) = rx.seq - tx.seq
    BY <2>2, <2>3, <2>5, Distance DEF Rel
  <2> QED BY <2>2, <2>3, <2>5, <2>6, <2>7, SeqSpaceSize
<1>2. DownlinkInv /\ [Next]_vars => [A]_vars
  BY <1>1
<1> HIDE DEF A
<1>3. Spec => [][A]_vars
  BY <1>2, DownlinkInvariant, PTL DEF Spec
<1> QED BY <1>3 DEF SeqNumbersAdvance, A

-----------------------------------------------------------------------------
(* What the two applications are promised.                                  *)

\* Messages up to a later position are as many or more.
LEMMA PositionsOrder ==
  ASSUME NoWrap, NEW i \in 0 .. Len(MsgSize), NEW k \in 0 .. Len(MsgSize),
         NEW x \in Nat, NEW y \in Nat, BytesBefore(i) <= x, x <= y,
         k < Len(MsgSize) => y < BytesBefore(k + 1)
  PROVE  i <= k
<1>1. i \in Nat /\ k \in Nat /\ Len(MsgSize) \in Nat /\ i <= Len(MsgSize)
      /\ BytesBefore(i) \in Nat
  BY StreamNumbers
<1>2. ASSUME k < i PROVE FALSE
  <2> DEFINE m == k + 1
  <2>1. m \in 0 .. Len(MsgSize) /\ m <= i /\ k < Len(MsgSize)
    BY <1>1, <1>2
  <2>2. y < BytesBefore(m)
    BY <2>1
  <2> HIDE DEF m
  <2>3. BytesBefore(m) <= BytesBefore(i) /\ BytesBefore(m) \in Nat
    BY <2>1, StreamNumbers
  <2> QED BY <1>1, <2>2, <2>3
<1> QED BY <1>1, <1>2

\* A sequence of the first messages.
LEMMA FirstOnes ==
  ASSUME NEW D, NEW s \in Seq(D), \A x \in 1 .. Len(s) : s[x] = x
  PROVE  s = Stream!FirstMessages(Len(s)) /\ Len(s) \in Nat
BY DEF Stream!FirstMessages

\* What the two applications have been told, and how far the two ends are.
Promised ==
  LET i == Len(delivered)
      j == Len(resolved)
      N == Len(MsgSize)
  IN /\ delivered = Stream!FirstMessages(i) /\ resolved = Stream!FirstMessages(j)
     /\ i \in 0 .. sent /\ j \in 0 .. i /\ sent \in 0 .. N
     /\ tx.seq \in Nat /\ rx.seq \in Nat
     /\ BytesBefore(i) <= rx.seq /\ (i < N => rx.seq < BytesBefore(i + 1))
     /\ BytesBefore(j) <= tx.seq /\ (j < sent => tx.seq < BytesBefore(j + 1))

\* Whenever the invariant holds, so does the promise.
LEMMA InvariantPromises ==
  ASSUME NoWrap, BufferSuffices, DownlinkInv PROVE Promised
<1> DEFINE j == Len(resolved)
           i == Len(delivered)
<1>1. PICK P : StreamSound(P)
  BY DEF DownlinkInv
<1>2. /\ rx.seq \in 0 .. SeqSpace - 1 /\ tx.seq \in 0 .. SeqSpace - 1 /\ tx.seq <= rx.seq
      /\ TxSound(tx, sent, tx.seq, j)
  BY <1>1, TwoEnds DEF DownlinkInv
<1>3. resolved \in Seq(Message) /\ \A x \in 1 .. j : resolved[x] = x
  BY DEF DownlinkInv, SenderInv, ConnInv, ConnTypeOK, SendsMatch
<1>4. j \in Nat /\ resolved = Stream!FirstMessages(j)
  BY <1>3, FirstOnes
<1>5. /\ j \in 0 .. Loaded(tx, sent) /\ BytesBefore(j) <= tx.seq
      /\ j < sent => tx.seq < BytesBefore(j + 1)
  BY <1>2 DEF TxSound, EndsSound
<1>6. /\ Loaded(tx, sent) \in Nat /\ Loaded(tx, sent) <= sent /\ sent <= Len(MsgSize)
      /\ sent \in Nat /\ Len(MsgSize) \in Nat
  BY <1>2, SoundNumbers
<1>7. /\ i \in 0 .. sent /\ sent \in 0 .. Len(MsgSize) /\ rx.seq \in Nat
      /\ BytesBefore(i) <= rx.seq
      /\ i < Len(MsgSize) => rx.seq < BytesBefore(i + 1)
  BY DeliveredSound
<1>8. delivered = Stream!FirstMessages(i)
  <2>1. delivered \in Seq(Nat) /\ \A x \in 1 .. i : delivered[x] = x
    BY DeliveredSound
  <2> QED BY <2>1, FirstOnes
<1> HIDE DEF j, i
<1>9. j \in 0 .. Len(MsgSize) /\ i \in 0 .. Len(MsgSize) /\ i \in Nat
  BY <1>4, <1>5, <1>6, <1>7
<1>10. tx.seq \in Nat
  BY <1>2, SeqSpaceSize
<1>11. j <= i
  BY <1>2, <1>5, <1>7, <1>9, <1>10, PositionsOrder
<1>12. j \in 0 .. i
  BY <1>4, <1>9, <1>11
<1> QED BY <1>4, <1>5, <1>7, <1>8, <1>10, <1>12 DEF Promised, i, j

\* A step of the downlink is one of the stream, or leaves it.
LEMMA StepImplements ==
  ASSUME NoWrap, Promised, Promised', Forward, [Next]_vars
  PROVE  [Stream!StreamNext]_(Stream!streamVars)
<1> DEFINE N == Len(MsgSize)
           i == Len(delivered)
           j == Len(resolved)
           k == Len(delivered')
           l == Len(resolved')
<1>1. /\ delivered = Stream!FirstMessages(i) /\ resolved = Stream!FirstMessages(j)
      /\ i \in 0 .. sent /\ j \in 0 .. i /\ sent \in 0 .. N
      /\ tx.seq \in Nat /\ rx.seq \in Nat
      /\ BytesBefore(i) <= rx.seq /\ BytesBefore(j) <= tx.seq
  BY DEF Promised
<1>2. /\ delivered' = Stream!FirstMessages(k) /\ resolved' = Stream!FirstMessages(l)
      /\ k \in 0 .. sent' /\ l \in 0 .. k /\ sent' \in 0 .. N
      /\ tx'.seq \in Nat /\ rx'.seq \in Nat
      /\ k < N => rx'.seq < BytesBefore(k + 1)
      /\ l < sent' => tx'.seq < BytesBefore(l + 1)
  BY DEF Promised
<1>3. tx.seq <= tx'.seq /\ rx.seq <= rx'.seq
  BY DEF Forward
<1> HIDE DEF i, j, k, l
<1>4. N \in Nat
  BY MessageSizes
<1>5. CASE Conn(Send)
  <2>1. sent < N /\ sent' = sent + 1 /\ UNCHANGED <<delivered, resolved>>
    BY <1>5 DEF Conn, Send, wispVars
  <2> QED BY <2>1 DEF Stream!StreamNext, Stream!StreamSend
<1>6. CASE UNCHANGED <<sent, delivered, resolved>>
  BY <1>6 DEF Stream!streamVars
<1>7. CASE BlockWrite
  <2>1. UNCHANGED <<sent, resolved>>
    BY <1>7 DEF BlockWrite
  <2>2. i <= k
    <3>1. i \in 0 .. N /\ k \in 0 .. N
      BY <1>1, <1>2, <1>4
    <3> QED BY <1>1, <1>2, <1>3, <3>1, PositionsOrder
  <2>3. CASE i = k
    BY <1>1, <1>2, <1>6, <2>1, <2>3
  <2>4. CASE i # k
    <3>1. k \in i + 1 .. sent
      BY <1>1, <1>2, <1>4, <2>1, <2>2, <2>4
    <3> QED BY <1>2, <2>1, <3>1 DEF Stream!StreamNext, Stream!StreamDeliver, i
  <2> QED BY <2>3, <2>4
<1>8. CASE SeeEpc
  <2>1. UNCHANGED <<sent, delivered>>
    BY <1>8 DEF SeeEpc, HandleAcks, wispVars
  <2>2. k = i
    BY <2>1 DEF k, i
  <2>3. j <= l
    <3>1. j \in 0 .. N /\ l \in 0 .. N /\ l \in 0 .. sent /\ j \in 0 .. sent
      BY <1>1, <1>2, <1>4, <2>1
    <3>2. CASE l < sent
      <4>1. l < N => tx'.seq < BytesBefore(l + 1)
        BY <1>2, <2>1, <3>2
      <4> QED BY <1>1, <1>2, <1>3, <3>1, <4>1, PositionsOrder
    <3>3. CASE ~(l < sent)
      BY <1>1, <1>4, <3>1, <3>3
    <3> QED BY <3>2, <3>3
  <2>4. CASE j = l
    BY <1>1, <1>2, <1>6, <2>1, <2>4
  <2>5. CASE j # l
    <3>1. l \in j + 1 .. i
      BY <1>1, <1>2, <1>4, <2>1, <2>2, <2>3, <2>5
    <3> QED BY <1>2, <2>1, <3>1 DEF Stream!StreamNext, Stream!StreamResolve, i, j
  <2> QED BY <2>4, <2>5
<1>9. CASE \/ Conn(\E f \in DOMAIN tx.fragments : FragmentTimeout(f))
            \/ Conn(\E n \in 1 .. MaxReads : ReqUplink([x \in 1 .. n |-> WriteInit]))
            \/ Conn(\E ok \in BOOLEAN : WriteReport(ok))
            \/ Conn(\E ok \in BOOLEAN, answer \in Answers : ReadReport(ok, answer))
            \/ Conn(AccessSpecFails) \/ Read \/ UpdateEpc \/ UNCHANGED vars
  BY <1>6, <1>9 DEF Conn, FragmentTimeout, ReqUplink, WriteReport, ReadReport,
                     AccessSpecFails, Read, UpdateEpc, wispVars, connVars, vars
<1> QED BY <1>5, <1>7, <1>8, <1>9 DEF Next

\* The downlink implements the promise: every message that arrives arrives whole, once
\* and in order, and a Deferred of send() is resolved only when the WISP's application
\* has the message.
THEOREM DownlinkImplementsStream ==
  ASSUME NoWrap, BufferSuffices PROVE Spec => ImplementsStream
<1>1. Init => Stream!StreamInit
  BY DEF Init, ConnInit, Stream!StreamInit
<1>2. DownlinkInv => Promised
  BY InvariantPromises
<1>3. DownlinkInv /\ [Next]_vars => Forward
  BY NextDownlink
<1>4. Promised /\ Promised' /\ Forward /\ [Next]_vars
        => [Stream!StreamNext]_(Stream!streamVars)
  BY StepImplements
<1>5. Spec => Stream!StreamInit /\ [][Stream!StreamNext]_(Stream!streamVars)
  BY <1>1, <1>2, <1>3, <1>4, DownlinkInvariant, PTL DEF Spec
<1> QED BY <1>5 DEF ImplementsStream, Stream!StreamSpec

-----------------------------------------------------------------------------
(* What follows from the promise alone.                                     *)

\* The strengthening that makes it inductive: the counts are natural numbers.
StreamInv == sent \in Nat /\ Stream!InOrderExactlyOnce

\* The first n messages are n.
LEMMA FirstMessagesLen ==
  ASSUME NEW n \in Nat PROVE Len(Stream!FirstMessages(n)) = n
BY DEF Stream!FirstMessages

\* Every step of the stream keeps it.
LEMMA StreamInvStep ==
  ASSUME StreamInv, [Stream!StreamNext]_(Stream!streamVars) PROVE StreamInv'
<1> USE DEF StreamInv, Stream!InOrderExactlyOnce
<1>1. Len(delivered) \in Nat /\ Len(resolved) \in Nat
  <2>1. delivered \in Seq(Nat) /\ resolved \in Seq(Nat)
    BY DEF Stream!FirstMessages
  <2> QED BY <2>1
<1>2. CASE Stream!StreamSend
  BY <1>2 DEF Stream!StreamSend
<1>3. CASE Stream!StreamDeliver
  <2> PICK n \in Len(delivered) + 1 .. sent : delivered' = Stream!FirstMessages(n)
    BY <1>3 DEF Stream!StreamDeliver
  <2>1. n \in Nat /\ n <= sent /\ Len(delivered) <= n
    BY <1>1
  <2>2. Len(delivered') = n
    BY <2>1, FirstMessagesLen
  <2>3. UNCHANGED <<sent, resolved>>
    BY <1>3 DEF Stream!StreamDeliver
  <2> QED BY <1>1, <2>1, <2>2, <2>3
<1>4. CASE Stream!StreamResolve
  <2> PICK n \in Len(resolved) + 1 .. Len(delivered) : resolved' = Stream!FirstMessages(n)
    BY <1>4 DEF Stream!StreamResolve
  <2>1. n \in Nat /\ n <= Len(delivered)
    BY <1>1
  <2>2. Len(resolved') = n
    BY <2>1, FirstMessagesLen
  <2>3. UNCHANGED <<sent, delivered>>
    BY <1>4 DEF Stream!StreamResolve
  <2> QED BY <1>1, <2>1, <2>2, <2>3
<1>5. CASE UNCHANGED Stream!streamVars
  BY <1>5 DEF Stream!streamVars, Stream!FirstMessages
<1> QED BY <1>2, <1>3, <1>4, <1>5 DEF Stream!StreamNext

\* Messages are delivered and resolved in the order of sending, none twice, none
\* left out, and no sender hears of a message that has not arrived.
THEOREM StreamIsInOrder == Stream!StreamSpec => []Stream!InOrderExactlyOnce
<1>1. Stream!StreamInit => StreamInv
  BY DEF Stream!StreamInit, StreamInv, Stream!InOrderExactlyOnce, Stream!FirstMessages
<1>2. StreamInv /\ [Stream!StreamNext]_(Stream!streamVars) => StreamInv'
  BY StreamInvStep
<1>3. StreamInv => Stream!InOrderExactlyOnce
  BY DEF StreamInv
<1> QED BY <1>1, <1>2, <1>3, PTL DEF Stream!StreamSpec

\* So this holds of the code: send() of the server's connection and the receive
\* callbacks of the WISP's endpoint are the two ends of one queue of messages.
THEOREM DownlinkInOrder ==
  ASSUME NoWrap, BufferSuffices PROVE Spec => []Stream!InOrderExactlyOnce
BY DownlinkImplementsStream, StreamIsInOrder, PTL DEF ImplementsStream
=============================================================================
