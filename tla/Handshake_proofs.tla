------------------------- MODULE Handshake_proofs -------------------------
(***************************************************************************)
(* The handshake is in one of three phases: the server does not know the   *)
(* WISP (Unknown), its OPEN is with the reader (OpenSent), or that was     *)
(* carried out or lost (OpenDone).  In the first two the WISP has heard    *)
(* nothing, holds nothing but OPENs in its packet buffer and its EPC, and  *)
(* the answer that the server's OPEN causes fits the buffer.  In the last  *)
(* no OPEN is underway to the WISP, and there never will be.               *)
(*                                                                         *)
(* The proof follows the bytes: what the WISP queues, what the RFID loop   *)
(* copies to the EPC, what the server reads from it and what the server    *)
(* queues in return.                                                       *)
(***************************************************************************)
EXTENDS Handshake, Transmission_proofs

-----------------------------------------------------------------------------
(* Buffers.                                                                 *)

\* Bytes stored in a memory of cells leave a memory of cells.
LEMMA StoreType ==
  ASSUME NEW n \in Nat, NEW C, NEW mem \in [0 .. n - 1 -> C],
         NEW at \in Nat, NEW bytes \in Seq(C)
  PROVE  Store(mem, at, bytes) \in [0 .. n - 1 -> C]
<1>1. ASSUME NEW i \in 0 .. n - 1, i \in at .. at + Len(bytes) - 1
      PROVE  bytes[i - at + 1] \in C
  <2>1. Len(bytes) \in Nat /\ i - at + 1 \in 1 .. Len(bytes)
    BY <1>1
  <2> QED BY <2>1, ElementOfSeq
<1> QED BY <1>1 DEF Store

\* The fields of a buffer.
LEMMA BufFields ==
  ASSUME NEW n \in Nat, NEW C, NEW b \in BufType(n, C)
  PROVE  /\ b.size = n /\ b.posA \in 0 .. n /\ b.posB \in 0 .. n
         /\ b.mem \in [0 .. n - 1 -> C]
BY DEF BufType

\* A buffer with its write cursor elsewhere and other bytes in it.
LEMMA BufFilled ==
  ASSUME NEW n \in Nat, NEW C, NEW b \in BufType(n, C),
         NEW m \in [0 .. n - 1 -> C], NEW j \in 0 .. n
  PROVE  LET z == [b EXCEPT !.mem = m, !.posB = j]
         IN z \in BufType(n, C) /\ z.posA = b.posA /\ z.posB = j /\ z.mem = m
<1> DEFINE z == [b EXCEPT !.mem = m, !.posB = j]
<1>1. z.posA = b.posA /\ z.posB = j /\ z.mem = m
  BY DEF BufType
<1>2. z \in BufType(n, C)
  BY DEF BufType
<1> QED BY <1>1, <1>2

\* A buffer with both cursors elsewhere.
LEMMA BufMoved ==
  ASSUME NEW n \in Nat, NEW C, NEW b \in BufType(n, C),
         NEW i \in 0 .. n, NEW j \in 0 .. n
  PROVE  LET z == [b EXCEPT !.posA = i, !.posB = j]
         IN z \in BufType(n, C) /\ z.posA = i /\ z.posB = j /\ z.mem = b.mem
<1> DEFINE z == [b EXCEPT !.posA = i, !.posB = j]
<1>1. z.posA = i /\ z.posB = j /\ z.mem = b.mem
  BY DEF BufType
<1>2. z \in BufType(n, C)
  BY DEF BufType
<1> QED BY <1>1, <1>2

\* One cursor elsewhere.
LEMMA BufMovedA ==
  ASSUME NEW n \in Nat, NEW C, NEW b \in BufType(n, C), NEW i \in 0 .. n
  PROVE  LET z == [b EXCEPT !.posA = i]
         IN z \in BufType(n, C) /\ z.posA = i /\ z.posB = b.posB /\ z.mem = b.mem
<1> DEFINE z == [b EXCEPT !.posA = i]
<1>1. z.posA = i /\ z.posB = b.posB /\ z.mem = b.mem
  BY DEF BufType
<1>2. z \in BufType(n, C)
  BY DEF BufType
<1> QED BY <1>1, <1>2

\* So with the write cursor.
LEMMA BufMovedB ==
  ASSUME NEW n \in Nat, NEW C, NEW b \in BufType(n, C), NEW j \in 0 .. n
  PROVE  LET z == [b EXCEPT !.posB = j]
         IN z \in BufType(n, C) /\ z.posA = b.posA /\ z.posB = j /\ z.mem = b.mem
<1> DEFINE z == [b EXCEPT !.posB = j]
<1>1. z.posA = b.posA /\ z.posB = j /\ z.mem = b.mem
  BY DEF BufType
<1>2. z \in BufType(n, C)
  BY DEF BufType
<1> QED BY <1>1, <1>2

\* wio_write leaves a buffer, and moves no cursor but posB.
LEMMA BufWriteType ==
  ASSUME NEW n \in Nat, NEW C, NEW b \in BufType(n, C), NEW bytes \in Seq(C)
  PROVE  LET w == BufWrite(b, bytes)
         IN /\ w.ok <=> b.posB + Len(bytes) <= n
            /\ w.buf \in BufType(n, C) /\ w.buf.posA = b.posA
            /\ w.buf.posB = IF b.posB + Len(bytes) <= n THEN b.posB + Len(bytes) ELSE b.posB
<1> DEFINE w == BufWrite(b, bytes)
           m == Store(b.mem, b.posB, bytes)
           z == [b EXCEPT !.mem = m, !.posB = b.posB + Len(bytes)]
<1>1. /\ b.size = n /\ b.posA \in 0 .. n /\ b.posB \in 0 .. n
      /\ b.mem \in [0 .. n - 1 -> C] /\ Len(bytes) \in Nat
  BY BufFields
<1>2. m \in [0 .. n - 1 -> C]
  BY <1>1, StoreType
<1>3. CanWrite(b, Len(bytes)) <=> b.posB + Len(bytes) <= n
  BY <1>1 DEF CanWrite
<1>4. CASE ~CanWrite(b, Len(bytes))
  <2>1. w = [ok |-> CanWrite(b, Len(bytes)), buf |-> b]
    BY <1>4 DEF BufWrite
  <2>2. w.buf = b /\ w.ok = CanWrite(b, Len(bytes))
    BY <2>1
  <2> HIDE DEF w
  <2> QED BY <1>1, <1>3, <1>4, <2>2 DEF w
<1>5. CASE CanWrite(b, Len(bytes))
  <2>1. w = [ok |-> CanWrite(b, Len(bytes)), buf |-> z]
    BY <1>5 DEF BufWrite
  <2>2. w.buf = z /\ w.ok = CanWrite(b, Len(bytes))
    BY <2>1
  <2> HIDE DEF w, m
  <2>3. b.posB + Len(bytes) \in 0 .. n
    BY <1>1, <1>5 DEF CanWrite
  <2>4. z \in BufType(n, C) /\ z.posA = b.posA /\ z.posB = b.posB + Len(bytes)
    <3> DEFINE j == b.posB + Len(bytes)
    <3> HIDE DEF j
    <3>1. j \in 0 .. n
      BY <2>3 DEF j
    <3>2. z = [b EXCEPT !.mem = m, !.posB = j]
      BY DEF z, j
    <3>3. [b EXCEPT !.mem = m, !.posB = j] \in BufType(n, C)
      BY <1>2, <3>1, BufFilled
    <3>4. z.posA = b.posA /\ z.posB = j
      BY <3>2 DEF BufType
    <3> HIDE DEF z
    <3>5. z \in BufType(n, C)
      BY <3>2, <3>3
    <3> QED BY <3>4, <3>5 DEF j
  <2> HIDE DEF z
  <2> QED BY <1>3, <1>5, <2>2, <2>4 DEF w
<1> QED BY <1>4, <1>5

\* wio_copy leaves both buffers buffers.
LEMMA BufCopyType ==
  ASSUME NEW m \in Nat, NEW n \in Nat, NEW C,
         NEW from \in BufType(m, C), NEW to \in BufType(n, C), NEW k \in Nat
  PROVE  LET c == BufCopy(from, to, k)
         IN /\ c.from \in BufType(m, C) /\ c.to \in BufType(n, C)
            /\ c.from.posB = from.posB
<1> DEFINE c == BufCopy(from, to, k)
           z == [from EXCEPT !.posA = from.posA + k]
           bytes == NextBytes(from, k)
<1>1. /\ from.size = m /\ from.posA \in 0 .. m /\ from.posB \in 0 .. m
      /\ from.mem \in [0 .. m - 1 -> C]
  BY BufFields
<1>2. CASE ~(CanRead(from, k) /\ CanWrite(to, k))
  <2>1. c = [from |-> from, to |-> to]
    BY <1>2 DEF BufCopy
  <2> QED BY <2>1
<1>3. CASE CanRead(from, k) /\ CanWrite(to, k)
  <2>1. from.posA + k \in 0 .. m
    BY <1>1, <1>3 DEF CanRead
  <2>2. bytes \in Seq(C)
    <3>1. \A j \in 1 .. k : from.posA + j - 1 \in 0 .. m - 1
      BY <1>1, <2>1
    <3>2. bytes = [j \in 1 .. k |-> from.mem[from.posA + j - 1]]
      BY DEF NextBytes
    <3>3. \A j \in 1 .. k : from.mem[from.posA + j - 1] \in C
      BY <1>1, <3>1
    <3> QED BY <3>2, <3>3
  <2>3. c = [from |-> z, to |-> BufWrite(to, bytes).buf]
    BY <1>3 DEF BufCopy
  <2>4. z \in BufType(m, C) /\ z.posB = from.posB
    BY <2>1, BufMovedA
  <2>5. BufWrite(to, bytes).buf \in BufType(n, C)
    <3> HIDE DEF bytes
    <3> QED BY <2>2, BufWriteType
  <2>6. c.from = z /\ c.to = BufWrite(to, bytes).buf
    BY <2>3
  <2> HIDE DEF c, z, bytes
  <2> QED BY <2>4, <2>5, <2>6 DEF c
<1> QED BY <1>2, <1>3

-----------------------------------------------------------------------------
(* The packet buffer and the EPC.                                           *)

FieldWriting == INSTANCE FoldFacts WITH Op <- WriteField
Pumping == INSTANCE FoldFacts WITH Op <- PumpTurn

\* The local state of a function that writes a packet whose first byte is at `at'.
WritingType(w, n, at) ==
  w \in [ok : BOOLEAN, buf : BufType(n, Nat)] /\ at + 1 <= w.buf.posB

\* Where wio_alloc puts the byte with the size.
LEMMA AllocByte ==
  ASSUME NEW n \in Nat \ {0}, NEW C, NEW b \in BufType(n, C)
  PROVE  /\ AllocPos(b, 1) \in 0 .. n - 1
         /\ b.posB + 1 < n => AllocPos(b, 1) = b.posB
BY BufFields DEF AllocPos

\* A queued packet leaves the packet buffer a buffer.
LEMMA QueuePacketType ==
  ASSUME NEW n \in Nat \ {0}, NEW b \in BufType(n, Nat), NEW fields \in Seq(Seq(Nat))
  PROVE  LET q == QueuePacket(b, fields)
         IN q.ok \in BOOLEAN /\ q.buf \in BufType(n, Nat)
<1> DEFINE at == AllocPos(b, 1)
           begun == [ok |-> TRUE, buf |-> [b EXCEPT !.posB = at + 1]]
           Ended(w) == IF w.ok THEN [w EXCEPT !.buf.mem[at] = w.buf.posB - at - 1] ELSE w
           last == Fold(WriteField, begun, fields)
<1>1. at \in 0 .. n - 1 /\ at + 1 \in 0 .. n
  <2>1. at \in 0 .. n - 1
    BY AllocByte
  <2> QED BY <2>1
<1> HIDE DEF at
<1>2. WritingType(begun, n, at)
  <2>1. [b EXCEPT !.posB = at + 1] \in BufType(n, Nat) /\ [b EXCEPT !.posB = at + 1].posB = at + 1
    <3> DEFINE j == at + 1
    <3> HIDE DEF j
    <3>1. j \in 0 .. n
      BY <1>1 DEF j
    <3>2. [b EXCEPT !.posB = j] \in BufType(n, Nat) /\ [b EXCEPT !.posB = j].posB = j
      BY <3>1, BufMovedB
    <3> QED BY <3>2 DEF j
  <2> DEFINE d == [b EXCEPT !.posB = at + 1]
  <2>2. begun = [ok |-> TRUE, buf |-> d]
    OBVIOUS
  <2> HIDE DEF d, begun
  <2>3. d \in BufType(n, Nat) /\ d.posB = at + 1
    BY <2>1 DEF d
  <2> QED BY <1>1, <2>2, <2>3 DEF WritingType
<1>3. ASSUME NEW w, NEW f \in Seq(Nat), WritingType(w, n, at)
      PROVE  WritingType(WriteField(w, f), n, at)
  <2>1. CASE w.ok
    <3> DEFINE u == BufWrite(w.buf, f)
    <3>1. WriteField(w, f) = u
      BY <2>1 DEF WriteField
    <3>2. w.buf \in BufType(n, Nat) /\ w.buf.posB \in 0 .. n /\ Len(f) \in Nat /\ at + 1 <= w.buf.posB
      BY <1>3, BufFields DEF WritingType
    <3>3. u.buf \in BufType(n, Nat) /\ u.buf.posB >= w.buf.posB
      <4> DEFINE c == w.buf
      <4>1. n \in Nat /\ c \in BufType(n, Nat)
        BY <3>2
      <4> HIDE DEF c
      <4>2. LET z == BufWrite(c, f)
            IN /\ z.buf \in BufType(n, Nat)
               /\ z.buf.posB = IF c.posB + Len(f) <= n THEN c.posB + Len(f) ELSE c.posB
        BY <4>1, BufWriteType
      <4>3. /\ u.buf \in BufType(n, Nat)
            /\ u.buf.posB = IF c.posB + Len(f) <= n THEN c.posB + Len(f) ELSE c.posB
        BY <4>2 DEF c
      <4>4. c.posB \in Nat /\ Len(f) \in Nat
        BY <3>2 DEF c
      <4> HIDE DEF u
      <4> QED BY <4>3, <4>4 DEF c
    <3>4. u = [ok |-> u.ok, buf |-> u.buf] /\ u.ok \in BOOLEAN
      BY DEF BufWrite, CanWrite
    <3>5. u.buf.posB \in 0 .. n
      BY <3>3, BufFields
    <3> HIDE DEF u
    <3> QED BY <1>1, <3>1, <3>2, <3>3, <3>4, <3>5 DEF WritingType
  <2>2. CASE ~w.ok
    BY <1>3, <2>2 DEF WriteField
  <2> QED BY <2>1, <2>2
<1>4. WritingType(last, n, at)
  <2> DEFINE m == Len(fields)
  <2>1. m \in Nat
    OBVIOUS
  <2>2. PICK g : /\ g[0] = begun
                 /\ \A k \in 1 .. m : g[k] = WriteField(g[k - 1], fields[k])
                 /\ FieldWriting!Folded(begun, fields) = g[m]
    <3> HIDE DEF begun
    <3> QED BY <2>1, FieldWriting!FoldSteps
  <2>3. last = FieldWriting!Folded(begun, fields)
    BY DEF Fold, FieldWriting!Folded
  <2> DEFINE T == {k \in 0 .. m : WritingType(g[k], n, at)}
  <2>4. 0 \in T
    BY <1>2, <2>1, <2>2
  <2>5. ASSUME NEW k \in 1 .. m, k - 1 \in T PROVE k \in T
    <3>1. fields[k] \in Seq(Nat)
      BY <2>1, ElementOfSeq
    <3>2. WritingType(g[k - 1], n, at)
      BY <2>5
    <3>3. WritingType(WriteField(g[k - 1], fields[k]), n, at)
      BY <1>3, <3>1, <3>2
    <3> QED BY <2>2, <3>3
  <2> HIDE DEF T, m, begun, last
  <2>6. \A k \in 0 .. m : k \in T
    BY <2>1, <2>4, <2>5, Adding!HoldsToTheEnd
  <2>7. m \in T
    BY <2>1, <2>6
  <2> QED BY <2>2, <2>3, <2>7 DEF T
<1>5. QueuePacket(b, fields) = Ended(last)
  <2>1. QueuePacket(b, fields) = Strictly(Ended, last)
    BY DEF QueuePacket, at
  <2> HIDE DEF last, Ended
  <2> QED BY <2>1 DEF Strictly
<1> HIDE DEF last
<1>6. Ended(last).ok \in BOOLEAN /\ Ended(last).buf \in BufType(n, Nat)
  <2>1. /\ last \in [ok : BOOLEAN, buf : BufType(n, Nat)] /\ last.ok \in BOOLEAN
        /\ last.buf \in BufType(n, Nat) /\ at + 1 <= last.buf.posB /\ last.buf.posB \in 0 .. n
    BY <1>4, BufFields DEF WritingType
  <2>2. CASE ~last.ok
    BY <2>1, <2>2
  <2>3. CASE last.ok
    <3> DEFINE v == last.buf.posB - at - 1
               d == last.buf
    <3>1. v \in Nat
      BY <1>1, <2>1
    <3>2. Ended(last) = [last EXCEPT !.buf = [d EXCEPT !.mem = [d.mem EXCEPT ![at] = v]]]
      BY <2>3
    <3>3. [d.mem EXCEPT ![at] = v] \in [0 .. n - 1 -> Nat]
      BY <1>1, <2>1, <3>1, BufFields
    <3> HIDE DEF v, d
    <3>4. [d EXCEPT !.mem = [d.mem EXCEPT ![at] = v]] \in BufType(n, Nat)
      BY <2>1, <3>3 DEF BufType, d
    <3> QED BY <2>1, <3>2, <3>4
  <2> QED BY <2>2, <2>3
<1> QED BY <1>5, <1>6

\* The constants that the handshake needs.
LEMMA Rooms ==
  /\ PktBufSize \in Nat \ {0} /\ EpcSize \in Nat \ {0} /\ 6 <= PktBufSize
  /\ CtrlSize \in Nat \ {0} /\ WriteInit \in Nat /\ CtrlSize + 1 <= WriteInit
BY EpcPumpAssumption, RoomAssumption, BoundAssumption, WriteSizeAssumption

\* A new buffer holds only zeros.
LEMMA NewBuf ==
  ASSUME NEW n \in Nat \ {0}
  PROVE  LET b == BufInit(n, 0) IN b \in BufType(n, {0, 1}) /\ b.posB = 0 /\ b.posA = 0
BY DEF BufInit, BufType

\* The packet buffer of a WISP that has started holds one packet of one byte, an OPEN:
\* zeros and ones in all.
LEMMA StartedPktBinary == StartedPkt \in BufType(PktBufSize, {0, 1}) /\ StartedPkt.posB = 2
<1> DEFINE n == PktBufSize
           C == {0, 1}
           b == BufInit(n, 0)
           at == AllocPos(b, 1)
           d == [b EXCEPT !.posB = at + 1]
           begun == [ok |-> TRUE, buf |-> d]
           e == <<PktOpen>>
           u == BufWrite(d, e)
           Ended(w) == IF w.ok THEN [w EXCEPT !.buf.mem[at] = w.buf.posB - at - 1] ELSE w
<1>1. n \in Nat \ {0} /\ 6 <= n
  BY Rooms
<1>2. b \in BufType(n, C) /\ b.posB = 0
  BY <1>1, NewBuf
<1>3. at = 0
  <2> HIDE DEF b, n
  <2>1. b.posB + 1 < n
    BY <1>1, <1>2
  <2> QED BY <1>1, <1>2, <2>1, AllocByte
<1> HIDE DEF b, n
<1> HIDE DEF at
<1>4. d \in BufType(n, C) /\ d.posB = 1
  <2>1. at + 1 = 1 /\ 1 \in 0 .. n
    BY <1>1, <1>3
  <2> QED BY <1>1, <1>2, <2>1, BufMovedB
<1> HIDE DEF d
<1>5. e \in Seq(C) /\ Len(e) = 1
  BY DEF PktOpen
<1> HIDE DEF e
<1>6. u.ok /\ u.buf \in BufType(n, C) /\ u.buf.posB = 2
  <2>1. d.posB + Len(e) = 2 /\ d.posB + Len(e) <= n
    BY <1>1, <1>4, <1>5
  <2>2. /\ u.ok <=> d.posB + Len(e) <= n
        /\ u.buf \in BufType(n, C)
        /\ u.buf.posB = IF d.posB + Len(e) <= n THEN d.posB + Len(e) ELSE d.posB
    <3> HIDE DEF C
    <3> QED BY <1>1, <1>4, <1>5, BufWriteType
  <2> HIDE DEF u
  <2> QED BY <2>1, <2>2
<1>7. u = [ok |-> u.ok, buf |-> u.buf]
  BY DEF BufWrite
<1>8. WriteField(begun, e) = u
  BY DEF WriteField
<1>9. Fold(WriteField, begun, <<e>>) = u
  <2>1. Fold(WriteField, begun, <<e>>) = FieldWriting!Folded(begun, <<e>>)
    BY DEF Fold, FieldWriting!Folded
  <2>2. FieldWriting!Folded(begun, <<e>>) = WriteField(begun, e)
    <3> HIDE DEF begun
    <3> QED BY FieldWriting!FoldOne
  <2> QED BY <1>8, <2>1, <2>2
<1>10. StartedPkt = Ended(u).buf
  <2>1. QueuePacket(b, <<e>>) = Strictly(Ended, u)
    <3> HIDE DEF u
    <3> QED BY <1>9, Zenon DEF QueuePacket, at, d, begun
  <2>2. Strictly(Ended, u) = Ended(u)
    <3> HIDE DEF u, Ended
    <3> QED BY DEF Strictly
  <2>3. StartedPkt = QueuePacket(b, <<e>>).buf
    BY DEF StartedPkt, NewPktBuf, OpenFields, b, e, n
  <2> QED BY <2>1, <2>2, <2>3
<1> HIDE DEF u
<1>11. Ended(u).buf \in BufType(n, C) /\ Ended(u).buf.posB = 2
  <2> DEFINE v == u.buf
             k == v.posB - at - 1
             m == [v.mem EXCEPT ![at] = k]
             z == [v EXCEPT !.mem = m]
  <2>1. v.mem \in [0 .. n - 1 -> C] /\ at \in 0 .. n - 1 /\ k \in C
    BY <1>1, <1>3, <1>6, BufFields
  <2>2. m \in [0 .. n - 1 -> C]
    <3> HIDE DEF k, v
    <3> QED BY <1>1, <2>1
  <2>3. Ended(u) = [u EXCEPT !.buf = z]
    BY <1>6
  <2>4. v \in BufType(n, C) /\ v.posB = 2
    BY <1>6
  <2> HIDE DEF m, v
  <2>5. z \in BufType(n, C)
    <3> HIDE DEF C
    <3> QED BY <2>2, <2>4 DEF BufType
  <2>6. z.posB = 2
    BY <2>4 DEF BufType
  <2> HIDE DEF z, Ended, C
  <2>7. Ended(u).buf = z
    BY <1>7, <2>3
  <2> QED BY <2>5, <2>6, <2>7
<1> QED BY <1>10, <1>11 DEF n

\* An ACK fits behind it.
LEMMA AckFits ==
  ASSUME NEW b \in BufType(PktBufSize, Nat), b.posB <= 2
  PROVE  QueuePacket(b, AckFields(0)).ok
<1> DEFINE n == PktBufSize
           at == AllocPos(b, 1)
           d == [b EXCEPT !.posB = at + 1]
           begun == [ok |-> TRUE, buf |-> d]
           e == <<PktAck>>
           f == <<0 % 256, 0 \div 256>>
           u == BufWrite(d, e)
           w == BufWrite(u.buf, f)
           Ended(z) == IF z.ok THEN [z EXCEPT !.buf.mem[at] = z.buf.posB - at - 1] ELSE z
<1>1. n \in Nat \ {0} /\ 6 <= n /\ b.posB \in 0 .. 2
  BY Rooms, BufFields
<1> HIDE DEF n
<1>2. at = b.posB
  BY <1>1, AllocByte DEF n
<1> HIDE DEF at
<1>3. d \in BufType(n, Nat) /\ d.posB = at + 1
  <2> DEFINE j == at + 1
  <2> HIDE DEF j
  <2>1. j \in 0 .. n
    BY <1>1, <1>2 DEF j
  <2>2. [b EXCEPT !.posB = j] \in BufType(n, Nat) /\ [b EXCEPT !.posB = j].posB = j
    BY <1>1, <2>1, BufMovedB DEF n
  <2> QED BY <2>2 DEF j
<1> HIDE DEF d
<1>4. e \in Seq(Nat) /\ Len(e) = 1 /\ f \in Seq(Nat) /\ Len(f) = 2
  BY DEF PktAck
<1> HIDE DEF e, f
<1>5. u.ok /\ u.buf \in BufType(n, Nat) /\ u.buf.posB = at + 2
  <2>1. d.posB + Len(e) <= n /\ d.posB + Len(e) = at + 2
    BY <1>1, <1>2, <1>3, <1>4
  <2>2. /\ u.ok <=> d.posB + Len(e) <= n
        /\ u.buf \in BufType(n, Nat)
        /\ u.buf.posB = IF d.posB + Len(e) <= n THEN d.posB + Len(e) ELSE d.posB
    BY <1>1, <1>3, <1>4, BufWriteType
  <2> HIDE DEF u
  <2> QED BY <2>1, <2>2
<1>6. w.ok
  <2>1. u.buf.posB + Len(f) <= n
    BY <1>1, <1>2, <1>4, <1>5
  <2> HIDE DEF u
  <2> QED BY <1>1, <1>4, <1>5, <2>1, BufWriteType
<1>7. WriteField(begun, e) = u /\ WriteField(u, f) = w
  <2>1. WriteField(begun, e) = u
    BY DEF WriteField
  <2> HIDE DEF u
  <2>2. WriteField(u, f) = w
    BY <1>5 DEF WriteField
  <2> QED BY <2>1, <2>2
<1>8. Fold(WriteField, begun, <<e, f>>) = w
  <2>1. Fold(WriteField, begun, <<e, f>>) = FieldWriting!Folded(begun, <<e, f>>)
    BY DEF Fold, FieldWriting!Folded
  <2>2. FieldWriting!Folded(begun, <<e, f>>) = WriteField(WriteField(begun, e), f)
    <3> HIDE DEF begun
    <3> QED BY FieldWriting!FoldTwo
  <2> HIDE DEF u, w, begun
  <2> QED BY <1>7, <2>1, <2>2
<1>9. QueuePacket(b, <<e, f>>) = Ended(w)
  <2>1. QueuePacket(b, <<e, f>>) = Strictly(Ended, w)
    <3> HIDE DEF w
    <3> QED BY <1>8, Zenon DEF QueuePacket, at, d, begun
  <2> HIDE DEF w, Ended
  <2> QED BY <2>1 DEF Strictly
<1>10. Ended(w).ok
  <2>1. w = [ok |-> w.ok, buf |-> w.buf]
    BY DEF BufWrite
  <2> HIDE DEF w
  <2> QED BY <1>6, <2>1
<1>11. AckFields(0) = <<e, f>>
  BY DEF AckFields, e, f
<1> HIDE DEF w, Ended
<1> QED BY <1>9, <1>10, <1>11

\* Both buffers stay buffers of the same cells in one turn of the loop that copies
\* packets.
PumpType(w, m, n, C, j) ==
  /\ w \in [from : BufType(m, C), to : BufType(n, C), going : BOOLEAN]
  /\ w.from.posB = j

\* A turn keeps them so.
LEMMA PumpTurnType ==
  ASSUME NEW m \in Nat, NEW n \in Nat, NEW C, C \subseteq Nat, NEW j, NEW w, NEW i,
         PumpType(w, m, n, C, j)
  PROVE  PumpType(PumpTurn(w, i), m, n, C, j)
<1> DEFINE size == w.from.mem[w.from.posA]
           d == [w.from EXCEPT !.posA = w.from.posA + 1]
           c == BufCopy(d, w.to, size)
<1>1. /\ w = [from |-> w.from, to |-> w.to, going |-> w.going]
      /\ w.from \in BufType(m, C) /\ w.to \in BufType(n, C) /\ w.going \in BOOLEAN
      /\ w.from.posB = j
      /\ w.from.posA \in 0 .. m /\ w.from.posB \in 0 .. m
      /\ w.from.mem \in [0 .. m - 1 -> C]
  BY BufFields DEF PumpType
<1>2. CASE ~w.going \/ w.from.posA >= w.from.posB
  <2>1. PumpTurn(w, i) = w
    BY <1>1, <1>2 DEF PumpTurn
  <2> QED BY <2>1
<1>3. CASE w.going /\ w.from.posA < w.from.posB /\ size > EpcSize
  <2>1. PumpTurn(w, i) = [w EXCEPT !.going = FALSE]
    BY <1>1, <1>3 DEF PumpTurn
  <2> QED BY <1>1, <2>1 DEF PumpType
<1>4. CASE w.going /\ w.from.posA < w.from.posB /\ ~(size > EpcSize)
  <2>1. PumpTurn(w, i) = [w EXCEPT !.from = c.from, !.to = c.to]
    BY <1>1, <1>4 DEF PumpTurn
  <2>2. size \in Nat /\ w.from.posA + 1 \in 0 .. m
    BY <1>1, <1>4
  <2>3. d \in BufType(m, C) /\ d.posB = j
    <3> DEFINE k == w.from.posA + 1
    <3> HIDE DEF k
    <3>1. k \in 0 .. m
      BY <2>2 DEF k
    <3>2. [w.from EXCEPT !.posA = k] \in BufType(m, C) /\ [w.from EXCEPT !.posA = k].posB = j
      BY <1>1, <3>1, BufMovedA
    <3> QED BY <3>2 DEF k
  <2> HIDE DEF d, size
  <2>4. c.from \in BufType(m, C) /\ c.to \in BufType(n, C) /\ c.from.posB = j
    BY <1>1, <2>2, <2>3, BufCopyType
  <2> HIDE DEF c
  <2> QED BY <1>1, <2>1, <2>4 DEF PumpType
<1> QED BY <1>1, <1>2, <1>3, <1>4

\* The update of the EPC: the packet buffer is emptied or its write cursor stays.
LEMMA PumpTypes ==
  ASSUME NEW m \in Nat, NEW n \in Nat, NEW C, C \subseteq Nat, 0 \in C,
         NEW b \in BufType(m, C), NEW e \in BufType(n, C)
  PROVE  LET p == Pump(b, e)
         IN p.pkt \in BufType(m, C) /\ p.epc \in BufType(n, C) /\ p.pkt.posB \in {0, b.posB}
<1> DEFINE start == [from |-> b, to |-> EpcReset(e), going |-> TRUE]
           turns == [i \in 1 .. b.size |-> i]
           Ended(w) ==
             [pkt |-> IF w.from.posA = w.from.posB
                      THEN [w.from EXCEPT !.posA = 0, !.posB = 0] ELSE w.from,
              epc |-> BufWrite(w.to, <<PktEnd>>).buf]
           last == Fold(PumpTurn, start, turns)
           j == b.posB
<1>1. PumpType(start, m, n, C, j)
  <2>1. EpcReset(e) \in BufType(n, C)
    <3>1. 0 \in 0 .. n
      OBVIOUS
    <3> QED BY <3>1, BufMoved DEF EpcReset
  <2> QED BY <2>1 DEF PumpType
<1>2. Len(turns) \in Nat
  BY BufFields
<1> HIDE DEF start, turns
<1>3. PICK g : /\ g[0] = start
               /\ \A k \in 1 .. Len(turns) : g[k] = PumpTurn(g[k - 1], turns[k])
               /\ Pumping!Folded(start, turns) = g[Len(turns)]
  BY <1>2, Pumping!FoldSteps
<1>4. last = Pumping!Folded(start, turns)
  BY DEF Fold, Pumping!Folded
<1> DEFINE T == {k \in 0 .. Len(turns) : PumpType(g[k], m, n, C, j)}
<1>5. 0 \in T
  BY <1>1, <1>2, <1>3
<1>6. ASSUME NEW k \in 1 .. Len(turns), k - 1 \in T PROVE k \in T
  <2>1. PumpType(g[k - 1], m, n, C, j)
    BY <1>6
  <2>2. PumpType(PumpTurn(g[k - 1], turns[k]), m, n, C, j)
    BY <2>1, PumpTurnType
  <2> QED BY <1>3, <2>2
<1> HIDE DEF T, last, j
<1>7. \A k \in 0 .. Len(turns) : k \in T
  BY <1>2, <1>5, <1>6, Adding!HoldsToTheEnd
<1>8. Len(turns) \in T
  BY <1>2, <1>7
<1>9. PumpType(last, m, n, C, j)
  BY <1>3, <1>4, <1>8 DEF T
<1>10. Pump(b, e) = Ended(last)
  <2>1. Pump(b, e) = Strictly(Ended, last)
    BY DEF Pump, last, start, turns
  <2> HIDE DEF Ended
  <2> QED BY <2>1 DEF Strictly
<1>11. /\ Ended(last).pkt \in BufType(m, C) /\ Ended(last).pkt.posB \in {0, j}
       /\ Ended(last).epc \in BufType(n, C)
  <2>1. last.from \in BufType(m, C) /\ last.to \in BufType(n, C) /\ last.from.posB = j
    BY <1>9 DEF PumpType
  <2>2. BufWrite(last.to, <<PktEnd>>).buf \in BufType(n, C)
    BY <2>1, BufWriteType, <<PktEnd>> \in Seq(C) DEF PktEnd
  <2> DEFINE f == last.from
             z == [f EXCEPT !.posA = 0, !.posB = 0]
  <2>3. z \in BufType(m, C) /\ z.posB = 0
    <3> HIDE DEF f
    <3>1. f \in BufType(m, C) /\ 0 \in 0 .. m
      BY <2>1 DEF f
    <3>2. [f EXCEPT !.posA = 0, !.posB = 0] \in BufType(m, C)
      BY <3>1, BufMoved
    <3> QED BY <3>1, <3>2 DEF BufType
  <2> HIDE DEF z
  <2>4. Ended(last).pkt \in {z, last.from} /\ Ended(last).epc = BufWrite(last.to, <<PktEnd>>).buf
    BY DEF z
  <2> HIDE DEF Ended
  <2> QED BY <2>1, <2>2, <2>3, <2>4
<1> QED BY <1>10, <1>11 DEF j

-----------------------------------------------------------------------------
(* What the server reads from an EPC.                                       *)

Reading == INSTANCE FoldFacts WITH Op <- ReadPacket
ReadAdding == INSTANCE FoldFacts WITH Op <- AddReads

\* A packet that the server reads from an EPC.
EpcPacketType ==
  {p \in [type : {PktOpen, PktAck, PktReqUplink}, data : Seq(Nat)] :
     p.type = PktReqUplink => Len(p.data) = 2}

\* The local state of _handle_packets: every packet has a type that is one of the
\* bytes, and without a connection the first one is an OPEN.
ReadingSound(w, bytes, opened) ==
  /\ w \in [bytes : {bytes}, at : Nat \ {0}, packets : Seq(EpcPacketType),
            going : BOOLEAN, opened : BOOLEAN]
  /\ \A k \in 1 .. Len(w.packets) : \E j \in 1 .. Len(bytes) : w.packets[k].type = bytes[j]
  /\ opened => w.opened
  /\ ~opened => IF w.opened THEN Len(w.packets) > 0 /\ w.packets[1].type = PktOpen
                ELSE w.packets = <<>>

\* One packet more.
LEMMA ReadPacketSound ==
  ASSUME NEW bytes \in Seq(Nat), NEW opened \in BOOLEAN, NEW w, NEW i,
         ReadingSound(w, bytes, opened)
  PROVE  ReadingSound(ReadPacket(w, i), bytes, opened)
<1> DEFINE at == w.at
           type == w.bytes[at]
           u == ReadPacket(w, i)
<1>1. /\ w = [bytes |-> w.bytes, at |-> w.at, packets |-> w.packets, going |-> w.going,
              opened |-> w.opened]
      /\ w.bytes = bytes /\ at \in Nat \ {0} /\ w.packets \in Seq(EpcPacketType)
      /\ w.going \in BOOLEAN /\ w.opened \in BOOLEAN
      /\ Len(bytes) \in Nat /\ Len(w.packets) \in Nat
  BY DEF ReadingSound
<1> SUFFICES ReadingSound(u, bytes, opened)
  OBVIOUS
<1>2. CASE u = w
  <2> HIDE DEF u
  <2> QED BY <1>2
<1>3. CASE u = [w EXCEPT !.going = FALSE]
  <2>1. u \in [bytes : {bytes}, at : Nat \ {0}, packets : Seq(EpcPacketType),
               going : BOOLEAN, opened : BOOLEAN]
    <3>1. [w EXCEPT !.going = FALSE] \in [bytes : {bytes}, at : Nat \ {0},
             packets : Seq(EpcPacketType), going : BOOLEAN, opened : BOOLEAN]
      BY DEF ReadingSound
    <3> HIDE DEF u
    <3> QED BY <1>3, <3>1
  <2> HIDE DEF u
  <2>2. u.packets = w.packets /\ u.opened = w.opened
    BY <1>1, <1>3
  <2> QED BY <2>1, <2>2 DEF ReadingSound
<1>4. CASE u = [w EXCEPT !.at = at + 1]
  <2> DEFINE a == at + 1
  <2>1. a \in Nat \ {0}
    BY <1>1
  <2>2. u = [w EXCEPT !.at = a]
    BY <1>4
  <2> HIDE DEF u, a
  <2>3. u \in [bytes : {bytes}, at : Nat \ {0}, packets : Seq(EpcPacketType),
               going : BOOLEAN, opened : BOOLEAN]
    <3>1. [w EXCEPT !.at = a] \in [bytes : {bytes}, at : Nat \ {0},
             packets : Seq(EpcPacketType), going : BOOLEAN, opened : BOOLEAN]
      BY <2>1 DEF ReadingSound
    <3> QED BY <2>2, <3>1
  <2>4. u.packets = w.packets /\ u.opened = w.opened
    BY <1>1, <2>2
  <2> QED BY <2>3, <2>4 DEF ReadingSound
<1> DEFINE data == SubSeq(w.bytes, at + 1, at + DataSize(type))
           p == [type |-> type, data |-> data]
<1>5. ASSUME at <= Len(bytes), at + DataSize(type) <= Len(bytes),
             type \in {PktOpen, PktAck, PktReqUplink}, w.opened \/ type = PktOpen,
             u = [w EXCEPT !.at = at + 1 + DataSize(type), !.opened = TRUE,
                           !.packets = Append(@, p)]
      PROVE  ReadingSound(u, bytes, opened)
  <2>1. DataSize(type) \in Nat /\ (type = PktReqUplink => DataSize(type) = 2)
    BY <1>5 DEF DataSize, PktOpen, PktAck, PktReqUplink
  <2>2. data \in Seq(Nat) /\ Len(data) = DataSize(type)
    <3> DEFINE d == DataSize(type)
               n == Len(bytes)
               k == at + 1
               l == at + d
    <3>1. k \in 1 .. n + 1 /\ l \in k - 1 .. n /\ l - k + 1 = d
      <4>1. d \in Nat /\ n \in Nat /\ at \in Nat \ {0} /\ at <= n /\ at + d <= n
        BY <1>1, <1>5, <2>1
      <4> HIDE DEF d, n, at
      <4> QED BY <4>1
    <3> HIDE DEF k, l
    <3>2. SubSeq(bytes, k, l) \in Seq(Nat) /\ Len(SubSeq(bytes, k, l)) = l - k + 1
      BY <3>1, SubSeqProperties
    <3>3. data = SubSeq(bytes, k, l)
      BY <1>1 DEF k, l
    <3> QED BY <3>1, <3>2, <3>3
  <2> HIDE DEF data
  <2>3. p \in EpcPacketType
    BY <1>5, <2>1, <2>2 DEF EpcPacketType
  <2> HIDE DEF p
  <2> DEFINE new == Append(w.packets, p)
  <2>4. /\ new \in Seq(EpcPacketType) /\ Len(new) = Len(w.packets) + 1
        /\ \A k \in 1 .. Len(w.packets) : new[k] = w.packets[k]
        /\ new[Len(w.packets) + 1] = p
    BY <1>1, <2>3
  <2> HIDE DEF new
  <2>5. u.packets = new /\ u.opened = TRUE
    BY <1>1, <1>5 DEF new
  <2>6. u \in [bytes : {bytes}, at : Nat \ {0}, packets : Seq(EpcPacketType),
               going : BOOLEAN, opened : BOOLEAN]
    <3> DEFINE a == at + 1 + DataSize(type)
    <3>1. a \in Nat \ {0}
      BY <1>1, <2>1
    <3>2. u = [w EXCEPT !.at = a, !.opened = TRUE, !.packets = new]
      BY <1>1, <1>5 DEF new
    <3> HIDE DEF u, a
    <3>3. [w EXCEPT !.at = a, !.opened = TRUE, !.packets = new] \in
            [bytes : {bytes}, at : Nat \ {0}, packets : Seq(EpcPacketType),
             going : BOOLEAN, opened : BOOLEAN]
      BY <2>4, <3>1 DEF ReadingSound
    <3> QED BY <3>2, <3>3
  <2> HIDE DEF u
  <2>7. p.type = bytes[at] /\ at \in 1 .. Len(bytes) /\ p.type = type
    BY <1>1, <1>5 DEF p
  <2>8. ASSUME NEW k \in 1 .. Len(new) PROVE \E j \in 1 .. Len(bytes) : new[k].type = bytes[j]
    <3>1. CASE k = Len(w.packets) + 1
      BY <2>4, <2>7, <3>1
    <3>2. CASE k # Len(w.packets) + 1
      <4>1. k \in 1 .. Len(w.packets)
        BY <1>1, <2>4, <3>2
      <4> QED BY <2>4, <4>1 DEF ReadingSound
    <3> QED BY <3>1, <3>2
  <2>9. ~opened => Len(new) > 0 /\ new[1].type = PktOpen
    <3>1. CASE opened
      BY <3>1
    <3>2. CASE ~opened /\ w.opened
      <4>1. Len(w.packets) > 0 /\ w.packets[1].type = PktOpen
        BY <3>2 DEF ReadingSound
      <4> QED BY <1>1, <2>4, <4>1
    <3>3. CASE ~opened /\ ~w.opened
      <4>1. Len(w.packets) = 0
        BY <3>3 DEF ReadingSound
      <4>2. type = PktOpen
        BY <1>5, <3>3
      <4> QED BY <2>4, <2>7, <4>1, <4>2
    <3> QED BY <3>1, <3>2, <3>3
  <2> QED BY <2>5, <2>6, <2>8, <2>9 DEF ReadingSound
<1>6. CASE ~w.going \/ at > Len(w.bytes)
  <2>1. u = w
    BY <1>6 DEF ReadPacket
  <2> HIDE DEF u
  <2> QED BY <1>2, <2>1
<1>7. CASE w.going /\ ~(at > Len(w.bytes))
  <2>1. type \in Nat /\ at \in 1 .. Len(bytes)
    <3>1. at \in 1 .. Len(bytes)
      BY <1>1, <1>7
    <3> QED BY <1>1, <3>1, ElementOfSeq
  <2> HIDE DEF p
  <2>2. CASE type = PktEnd
    <3>1. ~(type > 7 \/ (type \notin {PktEnd, PktOpen} /\ ~w.opened))
      BY <2>2 DEF PktEnd
    <3>2. ~(type \in {2, 4, 5, 7} /\ w.opened)
      BY <2>2 DEF PktEnd
    <3>3. u = [w EXCEPT !.going = FALSE]
      BY <1>7, <2>2, <3>1, <3>2 DEF ReadPacket
    <3> QED BY <1>3, <3>3
  <2>3. CASE type # PktEnd /\ (type > 7 \/ (type \notin {PktEnd, PktOpen} /\ ~w.opened))
    <3>1. u = [w EXCEPT !.at = at + 1]
      <4>1. ~(type \in {2, 4, 5, 7} /\ w.opened)
        BY <2>1, <2>3 DEF PktOpen
      <4> QED BY <1>7, <2>3, <4>1 DEF ReadPacket
    <3> QED BY <1>4, <3>1
  <2>4. CASE type \in {2, 4, 5, 7} /\ w.opened
    <3>1. type # PktEnd /\ ~(type > 7 \/ (type \notin {PktEnd, PktOpen} /\ ~w.opened))
      BY <2>1, <2>4 DEF PktEnd
    <3> QED BY <1>3, <1>7, <2>4, <3>1 DEF ReadPacket
  <2>5. CASE /\ type # PktEnd /\ ~(type > 7 \/ (type \notin {PktEnd, PktOpen} /\ ~w.opened))
             /\ ~(type \in {2, 4, 5, 7} /\ w.opened)
    <3>1. type \in {PktOpen, PktAck, PktReqUplink} /\ (w.opened \/ type = PktOpen)
      <4> HIDE DEF type, at
      <4>1. type \in Nat /\ type # 0 /\ ~(type > 7) /\ (type \in {0, 1} \/ w.opened)
        BY <2>1, <2>5 DEF PktEnd, PktOpen
      <4>2. type \in 1 .. 7
        BY <4>1
      <4>3. CASE w.opened
        <5>1. type \notin {2, 4, 5, 7}
          BY <2>5, <4>3
        <5>2. type \in {1, 3, 6}
          BY <4>2, <5>1
        <5> QED BY <4>3, <5>2 DEF PktOpen, PktAck, PktReqUplink
      <4>4. CASE ~w.opened
        BY <4>1, <4>4 DEF PktOpen
      <4> QED BY <4>3, <4>4
    <3>2. CASE at + DataSize(type) > Len(w.bytes)
      BY <1>3, <1>7, <2>5, <3>2 DEF ReadPacket
    <3>3. CASE ~(at + DataSize(type) > Len(w.bytes))
      <4>1. u = [w EXCEPT !.at = at + 1 + DataSize(type), !.opened = TRUE,
                          !.packets = Append(@, p)]
        BY <1>7, <2>5, <3>3 DEF ReadPacket, p
      <4>2. DataSize(type) \in Nat
        BY <3>1 DEF DataSize, PktOpen, PktAck, PktReqUplink
      <4>3. at <= Len(bytes) /\ at + DataSize(type) <= Len(bytes)
        BY <1>1, <2>1, <3>3, <4>2
      <4> HIDE DEF u, type
      <4> QED BY <1>5, <3>1, <4>1, <4>3
    <3> QED BY <3>2, <3>3
  <2> QED BY <2>2, <2>3, <2>4, <2>5
<1> QED BY <1>6, <1>7

\* What the server reads from an EPC.
LEMMA PacketsOfEpcSound ==
  ASSUME NEW bytes \in Seq(Nat), NEW opened \in BOOLEAN
  PROVE  LET ps == PacketsOfEpc(bytes, opened)
         IN /\ ps \in Seq(EpcPacketType)
            /\ \A k \in 1 .. Len(ps) : \E j \in 1 .. Len(bytes) : ps[k].type = bytes[j]
            /\ ~opened => ps = <<>> \/ (Len(ps) > 0 /\ ps[1].type = PktOpen)
<1> DEFINE ps == PacketsOfEpc(bytes, opened)
           start == [bytes |-> bytes, at |-> 1, packets |-> <<>>, going |-> TRUE,
                     opened |-> opened]
           turns == [i \in 1 .. Len(bytes) |-> i]
           last == Fold(ReadPacket, start, turns)
<1>1. ReadingSound(start, bytes, opened)
  BY DEF ReadingSound
<1>2. Len(turns) \in Nat
  OBVIOUS
<1> HIDE DEF start, turns
<1>3. PICK g : /\ g[0] = start
               /\ \A k \in 1 .. Len(turns) : g[k] = ReadPacket(g[k - 1], turns[k])
               /\ Reading!Folded(start, turns) = g[Len(turns)]
  BY <1>2, Reading!FoldSteps
<1>4. last = Reading!Folded(start, turns)
  BY DEF Fold, Reading!Folded
<1> DEFINE T == {k \in 0 .. Len(turns) : ReadingSound(g[k], bytes, opened)}
<1>5. 0 \in T
  BY <1>1, <1>2, <1>3
<1>6. ASSUME NEW k \in 1 .. Len(turns), k - 1 \in T PROVE k \in T
  <2>1. ReadingSound(ReadPacket(g[k - 1], turns[k]), bytes, opened)
    BY <1>6, ReadPacketSound
  <2> QED BY <1>3, <2>1
<1> HIDE DEF T
<1>7. \A k \in 0 .. Len(turns) : k \in T
  BY <1>2, <1>5, <1>6, Adding!HoldsToTheEnd
<1>8. Len(turns) \in T
  BY <1>2, <1>7
<1>9. ReadingSound(last, bytes, opened)
  BY <1>3, <1>4, <1>8 DEF T
<1>10. ps = last.packets
  BY DEF PacketsOfEpc, start, turns
<1> HIDE DEF last, ps
<1>11. /\ ps \in Seq(EpcPacketType)
       /\ \A k \in 1 .. Len(ps) : \E j \in 1 .. Len(bytes) : ps[k].type = bytes[j]
       /\ ~opened => ps = <<>> \/ (Len(ps) > 0 /\ ps[1].type = PktOpen)
  BY <1>9, <1>10 DEF ReadingSound
<1> QED BY <1>11 DEF ps

\* The Reads that the packets ask for.
LEMMA ReadsOfType ==
  ASSUME NEW ps \in Seq(EpcPacketType)
  PROVE  /\ ReadsOf(ps) \in Seq(Nat)
         /\ (\A k \in 1 .. Len(ps) : ps[k].type # PktReqUplink) => ReadsOf(ps) = <<>>
<1> DEFINE n == Len(ps)
           None == \A k \in 1 .. n : ps[k].type # PktReqUplink
           Right(v) == v \in Seq(Nat) /\ (None => v = <<>>)
<1>1. n \in Nat
  OBVIOUS
<1>2. PICK g : /\ g[0] = <<>>
               /\ \A k \in 1 .. n : g[k] = AddReads(g[k - 1], ps[k])
               /\ ReadAdding!Folded(<<>>, ps) = g[n]
  BY <1>1, ReadAdding!FoldSteps
<1>3. ReadsOf(ps) = ReadAdding!Folded(<<>>, ps)
  BY DEF ReadsOf, Fold, ReadAdding!Folded
<1> DEFINE T == {k \in 0 .. n : Right(g[k])}
<1>4. 0 \in T
  <2>1. Right(g[0])
    BY <1>2
  <2> HIDE DEF n, Right
  <2> QED BY <1>1, <2>1
<1>5. ASSUME NEW k \in 1 .. n, k - 1 \in T PROVE k \in T
  <2> DEFINE p == ps[k]
             new == [i \in 1 .. p.data[1] |-> p.data[2]]
  <2>1. p \in EpcPacketType /\ Right(g[k - 1]) /\ g[k] = AddReads(g[k - 1], p)
    BY <1>1, <1>2, <1>5, ElementOfSeq
  <2> HIDE DEF n, p
  <2>2. CASE p.type # PktReqUplink
    <3>1. g[k] = g[k - 1]
      BY <2>1, <2>2 DEF AddReads
    <3> QED BY <2>1, <3>1
  <2>3. CASE p.type = PktReqUplink
    <3>1. g[k] = g[k - 1] \o new
      BY <2>1, <2>3 DEF AddReads
    <3>2. ~None
      BY <2>3 DEF p
    <3>3. p.data \in Seq(Nat) /\ Len(p.data) = 2
      BY <2>1, <2>3 DEF EpcPacketType
    <3>4. p.data[1] \in Nat /\ p.data[2] \in Nat
      BY <3>3, ElementOfSeq
    <3>5. new \in Seq(Nat)
      BY <3>4
    <3> HIDE DEF new, None
    <3>6. g[k] \in Seq(Nat)
      BY <2>1, <3>1, <3>5, ConcatProperties
    <3> QED BY <3>2, <3>6
  <2> QED BY <2>2, <2>3
<1> HIDE DEF T, Right
<1>6. \A k \in 0 .. n : k \in T
  BY <1>1, <1>4, <1>5, Adding!HoldsToTheEnd
<1>7. n \in T
  BY <1>1, <1>6
<1>8. Right(ReadsOf(ps))
  BY <1>2, <1>3, <1>7 DEF T
<1> QED BY <1>8 DEF Right

-----------------------------------------------------------------------------
(* The transmit control without messages.                                   *)

\* The transmit control of a connection without messages.
CtrlTx(ps) == [NewTx EXCEPT !.packets = ps]

\* Only its control packets change.
LEMMA CtrlTxFields ==
  ASSUME NEW ps \in Seq(CtrlPacketType)
  PROVE  /\ CtrlTx(ps) \in TxType /\ CtrlTx(ps).packets = ps
         /\ CtrlTx(ps).messages = <<>> /\ CtrlTx(ps).fragments = <<>>
         /\ NewTx = CtrlTx(<<>>)
         /\ \A qs : [CtrlTx(ps) EXCEPT !.packets = qs] = CtrlTx(qs)
         /\ \A p : AddPacket(CtrlTx(ps), p) = CtrlTx(Append(ps, p))
<1>1. SeqSpace \in Nat \ {0}
  BY SeqSpaceSize
<1>2. /\ CtrlTx(ps).packets = ps /\ CtrlTx(ps).messages = <<>> /\ CtrlTx(ps).fragments = <<>>
  BY DEF CtrlTx, NewTx
<1>3. CtrlTx(ps) \in TxType
  <2>1. NewTx \in TxType
    BY NewTxSound DEF TxSound
  <2> HIDE DEF TxFragmentType
  <2>2. [NewTx EXCEPT !.packets = ps] \in TxType
    BY <2>1 DEF TxType
  <2> QED BY <2>2 DEF CtrlTx
<1>4. NewTx = CtrlTx(<<>>)
  BY DEF CtrlTx, NewTx
<1>5. \A qs : [CtrlTx(ps) EXCEPT !.packets = qs] = CtrlTx(qs)
  BY DEF CtrlTx, NewTx
<1>6. \A p : AddPacket(CtrlTx(ps), p) = CtrlTx(Append(ps, p))
  BY DEF CtrlTx, NewTx, AddPacket
<1> QED BY <1>2, <1>3, <1>4, <1>5, <1>6

\* A pass of the data loop with no message to send ends the loop.
LEMMA NothingToWrite ==
  ASSUME NEW w, NEW size, NEW d, NEW ps \in Seq(CtrlPacketType), w.tx = CtrlTx(ps),
         w = [tx |-> w.tx, est |-> w.est, data |-> w.data, status |-> w.status],
         w.data = d, w.status \in {"building", "done"}
  PROVE  LET u == WriteStep(w, size)
         IN /\ u = [tx |-> u.tx, est |-> u.est, data |-> u.data, status |-> u.status]
            /\ u.tx = CtrlTx(ps) /\ u.data = d /\ u.status = "done"
<1> DEFINE u == WriteStep(w, size)
           none == [kind |-> "none", tx |-> w.tx]
           Made(new) ==
             CASE new.kind = "none"   -> [w EXCEPT !.tx = new.tx, !.status = "done"]
               [] new.kind = "raised" -> [w EXCEPT !.tx = new.tx, !.status = "raised"]
               [] new.kind = "frag"   ->
                    WriteFragment(w, [new.tx EXCEPT !.fragments = Append(@, new.frag)],
                                  Len(new.tx.fragments) + 1)
<1>1. w.tx.messages = <<>> /\ w.tx.fragments = <<>>
  BY CtrlTxFields
<1>2. CASE w.status = "done"
  <2>1. u = w
    BY <1>2 DEF WriteStep
  <2> HIDE DEF u
  <2> QED BY <1>2, <2>1 DEF u
<1>3. CASE w.status = "building"
  <2>1. {i \in DOMAIN w.tx.fragments : w.tx.fragments[i].needSend} = {}
    BY <1>1
  <2>2. u = WriteNew(w, size)
    BY <1>3, <2>1 DEF WriteStep
  <2>3. MakeFragment(w.tx, size - w.est) = none
    BY <1>1 DEF MakeFragment
  <2>4. WriteNew(w, size) = Made(none)
    <3>1. WriteNew(w, size) = CHOOSE r \in {Made(x) : x \in {none}} : TRUE
      BY <2>3 DEF WriteNew, Strictly
    <3> HIDE DEF Made, none
    <3> QED BY <3>1
  <2>5. Made(none) = [w EXCEPT !.tx = w.tx, !.status = "done"]
    OBVIOUS
  <2> HIDE DEF u, Made
  <2>6. u = [tx |-> w.tx, est |-> w.est, data |-> w.data, status |-> "done"]
    BY <2>2, <2>4, <2>5
  <2> QED BY <2>6 DEF u
<1> QED BY <1>2, <1>3

\* What get_write_data writes then: as many control packets as fit; the next one is
\* lost when there is one.
LEMMA GetCtrlData ==
  ASSUME NEW ps \in Seq(CtrlPacketType), NEW size \in Nat
  PROVE  LET w == GetWriteData(CtrlTx(ps), size)
             n == FittingPackets(ps, size)
             taken == IF n < Len(ps) THEN n + 1 ELSE n
         IN /\ w.status = "done" /\ w.data = SubSeq(ps, 1, n)
            /\ w.tx = CtrlTx(SubSeq(ps, taken + 1, Len(ps)))
            /\ SubSeq(ps, 1, n) \in Seq(CtrlPacketType)
            /\ SubSeq(ps, taken + 1, Len(ps)) \in Seq(CtrlPacketType)
<1> DEFINE w     == GetWriteData(CtrlTx(ps), size)
           n     == FittingPackets(ps, size)
           taken == IF n < Len(ps) THEN n + 1 ELSE n
           rest  == SubSeq(ps, taken + 1, Len(ps))
           d     == SubSeq(ps, 1, n)
           start == [tx     |-> CtrlTx(rest),
                     est    |-> PacketsSize(SubSeq(ps, 1, n)),
                     data   |-> d,
                     status |-> IF taken > n THEN "done" ELSE "building"]
           turns == 0 + size \div 5 + 1
           sizes == [i \in 1 .. turns |-> size]
<1>1. n \in 0 .. Len(ps) /\ Len(ps) \in Nat
  BY FittingPacketsType
<1>2. rest \in Seq(CtrlPacketType) /\ d \in Seq(CtrlPacketType)
  <2> HIDE DEF n
  <2> QED BY <1>1
<1>3. w = Fold(WriteStep, start, sizes)
  <2>1. CtrlTx(ps).packets = ps /\ CtrlTx(ps).fragments = <<>>
    BY CtrlTxFields
  <2>2. Len(CtrlTx(ps).fragments) = 0
    BY <2>1
  <2>3. \A qs : [CtrlTx(ps) EXCEPT !.packets = qs] = CtrlTx(qs)
    BY CtrlTxFields
  <2>4. [CtrlTx(ps) EXCEPT !.packets = rest] = CtrlTx(rest)
    BY <2>3
  <2> QED BY <2>1, <2>2, <2>4 DEF GetWriteData
<1>4. turns \in Nat /\ turns >= 1
  <2>1. size \div 5 \in Nat
    OBVIOUS
  <2> QED BY <2>1
<1> HIDE DEF turns
<1>5. Len(sizes) = turns /\ Len(sizes) \in Nat
  BY <1>4
<1>6. /\ start = [tx |-> start.tx, est |-> start.est, data |-> start.data, status |-> start.status]
      /\ start.tx = CtrlTx(rest) /\ start.data = d /\ start.status \in {"building", "done"}
  OBVIOUS
<1> HIDE DEF start, sizes, rest, d, w
<1>7. PICK g : /\ g[0] = start
               /\ \A k \in 1 .. Len(sizes) : g[k] = WriteStep(g[k - 1], sizes[k])
               /\ Writing!Folded(start, sizes) = g[Len(sizes)]
  BY <1>5, Writing!FoldSteps
<1>8. w = Writing!Folded(start, sizes)
  BY <1>3 DEF Fold, Writing!Folded
<1> DEFINE Right(v) ==
             /\ v = [tx |-> v.tx, est |-> v.est, data |-> v.data, status |-> v.status]
             /\ v.tx = CtrlTx(rest) /\ v.data = d
           T == {k \in 0 .. turns : /\ Right(g[k]) /\ g[k].status \in {"building", "done"}
                                    /\ (k > 0 => g[k].status = "done")}
<1>9. 0 \in T
  <2>1. Right(g[0]) /\ g[0].status \in {"building", "done"}
    BY <1>6, <1>7
  <2> HIDE DEF Right
  <2> QED BY <1>4, <2>1
<1>10. ASSUME NEW k \in 1 .. turns, k - 1 \in T PROVE k \in T
  <2>1. Right(g[k - 1]) /\ g[k - 1].status \in {"building", "done"}
    BY <1>10
  <2>2. g[k] = WriteStep(g[k - 1], sizes[k])
    BY <1>5, <1>7
  <2>3. Right(g[k]) /\ g[k].status = "done"
    BY <1>2, <2>1, <2>2, NothingToWrite
  <2> HIDE DEF Right
  <2> QED BY <2>3
<1> HIDE DEF T
<1>11. \A k \in 0 .. turns : k \in T
  BY <1>4, <1>9, <1>10, Adding!HoldsToTheEnd
<1>12. turns \in T
  BY <1>4, <1>11
<1>13. Right(w) /\ w.status = "done"
  BY <1>4, <1>5, <1>7, <1>8, <1>12 DEF T
<1> QED BY <1>2, <1>13 DEF w, rest, d

\* Control packets of a type.
HasPacket(packets, type) == \E i \in DOMAIN packets : packets[i].type = type

\* An OpSpec that is a BlockWrite of control packets, and one that is a Read.
CtrlWrite == [kind : {"write"}, size : {0}, data : Seq(CtrlPacketType), done : BOOLEAN]
AnyRead == [kind : {"read"}, size : Nat, data : Seq(BOOLEAN), done : BOOLEAN]

\* A part of a sequence of packets has only types that are in the whole.
LEMMA PartHas ==
  ASSUME NEW ps \in Seq(CtrlPacketType), NEW i \in 1 .. Len(ps) + 1, NEW j \in i - 1 .. Len(ps)
  PROVE  /\ SubSeq(ps, i, j) \in Seq(CtrlPacketType)
         /\ \A type : HasPacket(SubSeq(ps, i, j), type) => HasPacket(ps, type)
<1> DEFINE part == SubSeq(ps, i, j)
<1>1. /\ part \in Seq(CtrlPacketType) /\ Len(part) = j - i + 1
      /\ \A k \in 1 .. j - i + 1 : part[k] = ps[i + k - 1]
  BY SubSeqProperties
<1>2. Len(ps) \in Nat /\ i \in Nat \ {0} /\ j \in Nat /\ j <= Len(ps)
  OBVIOUS
<1> HIDE DEF part
<1>3. ASSUME NEW type, HasPacket(part, type) PROVE HasPacket(ps, type)
  <2>1. PICK k \in 1 .. j - i + 1 : part[k].type = type
    BY <1>1, <1>3 DEF HasPacket
  <2>2. i + k - 1 \in 1 .. Len(ps)
    BY <1>2
  <2>3. ps[i + k - 1].type = type /\ i + k - 1 \in DOMAIN ps
    BY <1>1, <2>1, <2>2
  <2> QED BY <2>3 DEF HasPacket
<1> QED BY <1>1, <1>3 DEF part

\* What a request for an AccessSpec leaves of control packets ps: nothing changes while
\* one is under way; otherwise the OpSpec is a Read, or a BlockWrite of some of
\* the packets, or there is none.
CtrlRequested(q, ps, r, busy) ==
  /\ q.tx = CtrlTx(q.tx.packets) /\ q.tx.packets \in Seq(CtrlPacketType)
  /\ \A type : HasPacket(q.tx.packets, type) => HasPacket(ps, type)
  /\ q.reads \in Seq(Nat) /\ Len(q.reads) <= Len(r)
  /\ q.ongoing \in BOOLEAN
  /\ IF busy THEN q.opspec = opspec /\ q.ongoing /\ q.tx.packets = ps
     ELSE \/ q.opspec = NoOpSpec
          \/ q.opspec \in AnyRead /\ ~q.opspec.done /\ q.ongoing
          \/ /\ q.opspec \in CtrlWrite /\ q.ongoing
             /\ \A type : HasPacket(q.opspec.data, type) => HasPacket(ps, type)

\* So it is with every request.
LEMMA RequestCtrl ==
  ASSUME NEW ps \in Seq(CtrlPacketType), NEW r \in Seq(Nat), NEW busy \in BOOLEAN,
         NEW size \in Nat
  PROVE  CtrlRequested(RequestAccessSpec(CtrlTx(ps), r, busy, size), ps, r, busy)
<1> DEFINE q == RequestAccessSpec(CtrlTx(ps), r, busy, size)
<1> SUFFICES CtrlRequested(q, ps, r, busy)
  OBVIOUS
<1>1. CtrlTx(ps).packets = ps
  BY CtrlTxFields
<1>2. Len(r) \in Nat
  OBVIOUS
<1>3. CASE busy
  <2>1. q = [tx |-> CtrlTx(ps), reads |-> r, ongoing |-> TRUE, opspec |-> opspec, raised |-> FALSE]
    BY <1>3 DEF RequestAccessSpec
  <2> HIDE DEF q
  <2>2. q.tx = CtrlTx(ps) /\ q.reads = r /\ q.opspec = opspec /\ q.ongoing /\ q.ongoing \in BOOLEAN
    BY <2>1
  <2> QED BY <1>1, <1>2, <1>3, <2>2 DEF CtrlRequested
<1>4. CASE ~busy /\ r # <<>>
  <2>1. Tail(r) \in Seq(Nat) /\ Len(Tail(r)) <= Len(r) /\ Head(r) \in Nat
    BY <1>4
  <2>2. q = [tx |-> CtrlTx(ps), reads |-> Tail(r), ongoing |-> TRUE,
             opspec |-> ReadOpSpec(Head(r)), raised |-> FALSE]
    BY <1>4 DEF RequestAccessSpec
  <2> HIDE DEF q
  <2>3. q.tx = CtrlTx(ps) /\ q.reads = Tail(r) /\ q.opspec = ReadOpSpec(Head(r)) /\ q.ongoing
        /\ q.ongoing \in BOOLEAN
    BY <2>2
  <2>4. q.opspec \in AnyRead /\ ~q.opspec.done
    BY <2>1, <2>3, <<>> \in Seq(BOOLEAN) DEF ReadOpSpec, NoOpSpec, AnyRead
  <2> QED BY <1>1, <1>4, <2>1, <2>3, <2>4 DEF CtrlRequested
<1>5. CASE ~busy /\ r = <<>>
  <2> DEFINE g == GetWriteData(CtrlTx(ps), size)
             n == FittingPackets(ps, size)
             taken == IF n < Len(ps) THEN n + 1 ELSE n
             d == SubSeq(ps, 1, n)
             rest == SubSeq(ps, taken + 1, Len(ps))
             Outcome(w) ==
               LET raised  == w.status = "raised"
                   written == ~raised /\ w.data # <<>>
               IN [tx |-> w.tx, reads |-> r, ongoing |-> raised \/ written,
                   opspec |-> IF written THEN WriteOpSpec(w.data) ELSE NoOpSpec,
                   raised |-> raised]
  <2>1. q = Outcome(g)
    <3>1. q = CHOOSE x \in {Outcome(w) : w \in {g}} : TRUE
      BY <1>5 DEF RequestAccessSpec, Strictly
    <3> HIDE DEF Outcome, q, g
    <3> QED BY <3>1
  <2>2. g.status = "done" /\ g.data = d /\ g.tx = CtrlTx(rest)
    BY GetCtrlData
  <2>3. n \in 0 .. Len(ps) /\ Len(ps) \in Nat
    BY FittingPacketsType
  <2> HIDE DEF g, q, n
  <2>4. /\ d \in Seq(CtrlPacketType) /\ rest \in Seq(CtrlPacketType)
        /\ \A type : HasPacket(d, type) => HasPacket(ps, type)
        /\ \A type : HasPacket(rest, type) => HasPacket(ps, type)
    <3> DEFINE i == taken + 1
               j == Len(ps)
    <3>1. 1 \in 1 .. Len(ps) + 1 /\ n \in 1 - 1 .. Len(ps)
          /\ i \in 1 .. Len(ps) + 1 /\ j \in i - 1 .. Len(ps)
      BY <2>3
    <3> HIDE DEF i
    <3>2. /\ SubSeq(ps, i, j) \in Seq(CtrlPacketType)
          /\ \A type : HasPacket(SubSeq(ps, i, j), type) => HasPacket(ps, type)
      BY <3>1, PartHas
    <3>3. d \in Seq(CtrlPacketType) /\ \A type : HasPacket(d, type) => HasPacket(ps, type)
      BY <3>1, PartHas
    <3> QED BY <3>2, <3>3 DEF i
  <2> HIDE DEF d, rest, taken
  <2>5. CtrlTx(rest).packets = rest
    BY <2>4, CtrlTxFields
  <2>6. /\ q.tx = CtrlTx(rest) /\ q.reads = r /\ q.ongoing = (d # <<>>)
        /\ q.opspec = IF d # <<>> THEN WriteOpSpec(d) ELSE NoOpSpec
    BY <2>1, <2>2
  <2>7. WriteOpSpec(d) \in CtrlWrite /\ WriteOpSpec(d).data = d
    <3> HIDE DEF CtrlPacketType
    <3> QED BY <2>4 DEF WriteOpSpec, NoOpSpec, CtrlWrite
  <2>8. \/ q.opspec = NoOpSpec
        \/ /\ q.opspec \in CtrlWrite /\ q.ongoing
           /\ \A type : HasPacket(q.opspec.data, type) => HasPacket(ps, type)
    <3>1. CASE d = <<>>
      BY <2>6, <3>1
    <3>2. CASE d # <<>>
      BY <2>4, <2>6, <2>7, <3>2
    <3> QED BY <3>1, <3>2
  <2>9. q.ongoing \in BOOLEAN
    BY <2>6
  <2> QED BY <1>2, <1>5, <2>4, <2>5, <2>6, <2>8, <2>9 DEF CtrlRequested
<1> QED BY <1>3, <1>4, <1>5

\* The server's first data: its ACK and its OPEN.
FirstData == <<CtrlPacket("ack", CtrlSize, 0), CtrlPacket("open", 1, 0)>>

\* Both are packets, and both fit the first BlockWrite.
LEMMA FirstDataFits ==
  /\ FirstData \in Seq(CtrlPacketType) /\ Len(FirstData) = 2
  /\ FittingPackets(FirstData, WriteInit) = 2
<1> DEFINE a == CtrlPacket("ack", CtrlSize, 0)
           b == CtrlPacket("open", 1, 0)
<1>1. a \in CtrlPacketType /\ b \in CtrlPacketType /\ a.size = CtrlSize /\ b.size = 1
  BY Rooms DEF CtrlPacket, CtrlPacketType
<1>2. FirstData = <<a, b>>
  BY DEF FirstData
<1> HIDE DEF a, b
<1>3. FirstData \in Seq(CtrlPacketType) /\ Len(FirstData) = 2
  BY <1>1, <1>2
<1>4. SubSeq(FirstData, 1, 1) = <<a>> /\ SubSeq(FirstData, 1, 2) = <<a, b>>
  <2> DEFINE c == SubSeq(FirstData, 1, 1)
             d == SubSeq(FirstData, 1, 2)
  <2>1. c \in Seq(CtrlPacketType) /\ Len(c) = 1 /\ c[1] = FirstData[1]
    BY <1>3, SubSeqProperties
  <2>2. d \in Seq(CtrlPacketType) /\ Len(d) = 2 /\ d[1] = FirstData[1] /\ d[2] = FirstData[2]
    BY <1>3, SubSeqProperties
  <2> HIDE DEF c, d
  <2>3. FirstData[1] = a /\ FirstData[2] = b
    BY <1>2
  <2>4. <<a>> \in Seq(CtrlPacketType) /\ <<a, b>> \in Seq(CtrlPacketType)
    BY <1>1
  <2>5. c = <<a>>
    BY <2>1, <2>3, <2>4, SeqEqual
  <2>6. d = <<a, b>>
    BY <2>2, <2>3, <2>4, SeqEqual
  <2> QED BY <2>5, <2>6 DEF c, d
<1>5. PacketsSize(<<a>>) = CtrlSize
  <2>1. PacketsSize(<<a>>) = Sizing!Folded(0, <<a>>)
    BY DEF PacketsSize, Fold, Sizing!Folded
  <2>2. Sizing!Folded(0, <<a>>) = AddSize(0, a)
    BY Sizing!FoldOne
  <2> QED BY <1>1, <2>1, <2>2, Rooms DEF AddSize
<1>6. PacketsSize(<<a, b>>) = CtrlSize + 1
  <2>1. PacketsSize(<<a, b>>) = Sizing!Folded(0, <<a, b>>)
    BY DEF PacketsSize, Fold, Sizing!Folded
  <2>2. Sizing!Folded(0, <<a, b>>) = AddSize(AddSize(0, a), b)
    BY Sizing!FoldTwo
  <2> QED BY <1>1, <2>1, <2>2, Rooms DEF AddSize
<1>7. {k \in 1 .. Len(FirstData) : PacketsSize(SubSeq(FirstData, 1, k)) > WriteInit} = {}
  <2>1. CtrlSize <= WriteInit
    BY Rooms
  <2>2. ASSUME NEW k \in 1 .. 2 PROVE ~(PacketsSize(SubSeq(FirstData, 1, k)) > WriteInit)
    <3> DEFINE size == PacketsSize(SubSeq(FirstData, 1, k))
    <3>1. CASE k = 1
      <4>1. size = CtrlSize
        BY <1>4, <1>5, <3>1
      <4> HIDE DEF size
      <4>2. ~(size > WriteInit)
        BY <2>1, <4>1, Rooms
      <4> QED BY <4>2 DEF size
    <3>2. CASE k = 2
      <4>1. size = CtrlSize + 1
        BY <1>4, <1>6, <3>2
      <4> HIDE DEF size
      <4>2. ~(size > WriteInit)
        BY <4>1, Rooms
      <4> QED BY <4>2 DEF size
    <3> QED BY <3>1, <3>2
  <2> QED BY <1>3, <2>2
<1> QED BY <1>3, <1>7 DEF FittingPackets

\* _handle_open of a new connection puts them into the first BlockWrite.
LEMMA FirstRequest ==
  LET q == RequestAccessSpec(CtrlTx(FirstData), <<>>, FALSE, WriteInit)
  IN q.tx = CtrlTx(<<>>) /\ q.reads = <<>> /\ q.ongoing = TRUE /\ q.opspec = WriteOpSpec(FirstData)
<1> DEFINE q == RequestAccessSpec(CtrlTx(FirstData), <<>>, FALSE, WriteInit)
           g == GetWriteData(CtrlTx(FirstData), WriteInit)
           r == <<>>
           Outcome(w) ==
             LET raised  == w.status = "raised"
                 written == ~raised /\ w.data # <<>>
             IN [tx |-> w.tx, reads |-> r, ongoing |-> raised \/ written,
                 opspec |-> IF written THEN WriteOpSpec(w.data) ELSE NoOpSpec,
                 raised |-> raised]
<1>1. q = Outcome(g)
  <2>1. q = CHOOSE x \in {Outcome(w) : w \in {g}} : TRUE
    BY DEF RequestAccessSpec, Strictly
  <2> HIDE DEF Outcome, q, g
  <2> QED BY <2>1
<1> DEFINE n == FittingPackets(FirstData, WriteInit)
           taken == IF n < Len(FirstData) THEN n + 1 ELSE n
<1>2. /\ g.status = "done" /\ g.data = SubSeq(FirstData, 1, n)
      /\ g.tx = CtrlTx(SubSeq(FirstData, taken + 1, Len(FirstData)))
  BY FirstDataFits, GetCtrlData, Rooms
<1>3. n = 2 /\ taken = 2 /\ Len(FirstData) = 2 /\ FirstData \in Seq(CtrlPacketType)
  BY FirstDataFits
<1> HIDE DEF n, taken, q, g
<1>4. SubSeq(FirstData, 1, 2) = FirstData /\ SubSeq(FirstData, 2 + 1, 2) = <<>> /\ FirstData # <<>>
  <2> DEFINE c == SubSeq(FirstData, 1, 2)
             d == SubSeq(FirstData, 2 + 1, 2)
  <2>1. c \in Seq(CtrlPacketType) /\ Len(c) = 2 /\ \A k \in 1 .. 2 : c[k] = FirstData[k]
    BY <1>3, SubSeqProperties
  <2>2. d \in Seq(CtrlPacketType) /\ Len(d) = 0
    BY <1>3, SubSeqProperties
  <2> HIDE DEF c, d
  <2>3. c = FirstData
    BY <1>3, <2>1, SeqEqual
  <2>4. d = <<>>
    BY <2>2
  <2>5. FirstData # <<>>
    BY <1>3
  <2> QED BY <2>3, <2>4, <2>5 DEF c, d
<1>5. g.status = "done" /\ g.data = FirstData /\ g.tx = CtrlTx(<<>>)
  BY <1>2, <1>3, <1>4
<1>6. q = [tx |-> CtrlTx(<<>>), reads |-> <<>>, ongoing |-> TRUE, opspec |-> WriteOpSpec(FirstData),
           raised |-> FALSE]
  BY <1>1, <1>4, <1>5
<1>7. q.tx = CtrlTx(<<>>) /\ q.reads = <<>> /\ q.ongoing = TRUE /\ q.opspec = WriteOpSpec(FirstData)
  BY <1>6
<1> QED BY <1>7 DEF q

-----------------------------------------------------------------------------
(* What the WISP does with a BlockWrite of control packets.                 *)

Handling == INSTANCE FoldFacts WITH Op <- HandleCtrl

\* The local state of the WISP's handling of control packets.
CtrlStateType ==
  [up : LinkState, down : LinkState, pkt : BufType(PktBufSize, Nat), opens : Nat,
   loaded : Nat, ok : BOOLEAN]

\* u comes from w by packets without an OPEN, and without an ACK if `deaf'.
OnlyHeard(u, w, deaf) ==
  /\ u \in CtrlStateType
  /\ u.down = w.down /\ u.opens = w.opens /\ u.loaded = w.loaded /\ u.pkt = w.pkt
  /\ u.up = w.up \/ (u.up = "opened" /\ ~deaf)

\* One packet that is no OPEN changes at most the state of the uplink, and only an ACK
\* does that.
LEMMA HandleOther ==
  ASSUME NEW w \in CtrlStateType, NEW p \in CtrlPacketType, p.type # "open",
         NEW deaf \in BOOLEAN, deaf => p.type # "ack"
  PROVE  OnlyHeard(HandleCtrl(w, p), w, deaf)
<1> DEFINE u == HandleCtrl(w, p)
<1> SUFFICES OnlyHeard(u, w, deaf)
  OBVIOUS
<1>1. u = w \/ (u = [w EXCEPT !.up = IF @ = "opening" THEN "opened" ELSE @] /\ p.type = "ack")
  <2>1. CASE ~w.ok
    BY <2>1 DEF HandleCtrl
  <2>2. CASE w.ok /\ p.type = "ack"
    BY <2>2 DEF HandleCtrl
  <2>3. CASE w.ok /\ p.type # "ack"
    BY <2>3 DEF HandleCtrl
  <2> QED BY <2>1, <2>2, <2>3
<1> HIDE DEF u
<1>2. CASE u = w
  BY <1>2 DEF OnlyHeard
<1>3. CASE u = [w EXCEPT !.up = IF @ = "opening" THEN "opened" ELSE @] /\ p.type = "ack"
  <2> DEFINE s == IF w.up = "opening" THEN "opened" ELSE w.up
  <2>1. s \in LinkState /\ (s = w.up \/ s = "opened")
    BY DEF CtrlStateType, LinkState
  <2>2. u = [w EXCEPT !.up = s]
    BY <1>3
  <2> HIDE DEF s
  <2>3. u \in CtrlStateType
    <3>1. [w EXCEPT !.up = s] \in CtrlStateType
      BY <2>1 DEF CtrlStateType
    <3> QED BY <2>2, <3>1
  <2>4. u.down = w.down /\ u.opens = w.opens /\ u.loaded = w.loaded /\ u.pkt = w.pkt /\ u.up = s
    BY <2>2 DEF CtrlStateType
  <2> QED BY <1>3, <2>1, <2>3, <2>4 DEF OnlyHeard
<1> QED BY <1>1, <1>2, <1>3

\* A whole BlockWrite without an OPEN.
LEMMA CtrlHandled ==
  ASSUME NEW w \in CtrlStateType, NEW data \in Seq(CtrlPacketType), ~HasPacket(data, "open"),
         NEW deaf \in BOOLEAN, deaf => ~HasPacket(data, "ack")
  PROVE  OnlyHeard(Fold(HandleCtrl, w, data), w, deaf)
<1> DEFINE n == Len(data)
<1>1. n \in Nat
  OBVIOUS
<1>2. PICK g : /\ g[0] = w
               /\ \A k \in 1 .. n : g[k] = HandleCtrl(g[k - 1], data[k])
               /\ Handling!Folded(w, data) = g[n]
  BY <1>1, Handling!FoldSteps
<1>3. Fold(HandleCtrl, w, data) = Handling!Folded(w, data)
  BY DEF Fold, Handling!Folded
<1> DEFINE T == {k \in 0 .. n : OnlyHeard(g[k], w, deaf)}
<1>4. 0 \in T
  <2>1. OnlyHeard(g[0], w, deaf)
    BY <1>2 DEF OnlyHeard
  <2> HIDE DEF n
  <2> QED BY <1>1, <2>1
<1>5. ASSUME NEW k \in 1 .. n, k - 1 \in T PROVE k \in T
  <2>1. data[k] \in CtrlPacketType
    BY <1>1, ElementOfSeq
  <2>2. data[k].type # "open" /\ (deaf => data[k].type # "ack")
    BY DEF HasPacket
  <2>3. OnlyHeard(g[k - 1], w, deaf)
    BY <1>5
  <2>4. OnlyHeard(HandleCtrl(g[k - 1], data[k]), g[k - 1], deaf)
    BY <2>1, <2>2, <2>3, HandleOther DEF OnlyHeard
  <2>5. OnlyHeard(g[k], g[k - 1], deaf)
    BY <1>2, <2>4
  <2>6. OnlyHeard(g[k], w, deaf)
    BY <2>3, <2>5 DEF OnlyHeard
  <2> QED BY <2>6
<1> HIDE DEF T
<1>6. \A k \in 0 .. n : k \in T
  BY <1>1, <1>4, <1>5, Adding!HoldsToTheEnd
<1>7. n \in T
  BY <1>1, <1>6
<1> QED BY <1>2, <1>3, <1>7 DEF T

\* Zeros and ones are bytes.
LEMMA BinaryBytes ==
  ASSUME NEW n \in Nat, NEW b \in BufType(n, {0, 1}) PROVE b \in BufType(n, Nat)
BY DEF BufType

\* The fields of the packets that the WISP queues.
LEMMA FieldTypes ==
  /\ OpenFields \in Seq(Seq(Nat)) /\ AckFields(0) \in Seq(Seq(Nat))
  /\ \A n \in Nat : ReqFields(n, WriteInit) \in Seq(Seq(Nat))
<1>1. PktOpen \in Nat /\ PktAck \in Nat /\ PktReqUplink \in Nat /\ 0 % 256 \in Nat
      /\ 0 \div 256 \in Nat /\ WriteInit \in Nat
  BY Rooms DEF PktOpen, PktAck, PktReqUplink
<1>2. OpenFields \in Seq(Seq(Nat))
  BY <1>1 DEF OpenFields
<1>3. AckFields(0) \in Seq(Seq(Nat))
  BY <1>1 DEF AckFields
<1>4. ASSUME NEW n \in Nat PROVE ReqFields(n, WriteInit) \in Seq(Seq(Nat))
  BY <1>1 DEF ReqFields
<1> QED BY <1>2, <1>3, <1>4

\* The server's ACK and OPEN open both links of a WISP whose packet buffer has room for
\* the answer, and trigger the event once.
LEMMA FirstDataHandled ==
  ASSUME NEW b \in BufType(PktBufSize, Nat), b.posB <= 2
  PROVE  LET start == [up |-> "opening", down |-> "closed", pkt |-> b, opens |-> 0,
                       loaded |-> 0, ok |-> TRUE]
             w == Fold(HandleCtrl, start, FirstData)
         IN /\ w.up = "opened" /\ w.down = "opened" /\ w.opens = 1
            /\ w.pkt \in BufType(PktBufSize, Nat) /\ w.loaded \in Nat
<1> DEFINE start == [up |-> "opening", down |-> "closed", pkt |-> b, opens |-> 0,
                     loaded |-> 0, ok |-> TRUE]
           w == Fold(HandleCtrl, start, FirstData)
           a == CtrlPacket("ack", CtrlSize, 0)
           o == CtrlPacket("open", 1, 0)
           ack == QueuePacket(b, AckFields(0))
           req == QueuePacket(ack.buf, ReqFields(1, WriteInit))
           u == [start EXCEPT !.up = "opened"]
           v == [u EXCEPT !.down = "opened", !.pkt = ack.buf]
<1>1. w = HandleCtrl(HandleCtrl(start, a), o)
  <2>1. w = Handling!Folded(start, <<a, o>>)
    BY DEF Fold, Handling!Folded, FirstData
  <2> HIDE DEF a, o, start
  <2> QED BY <2>1, Handling!FoldTwo
<1>2. a.type = "ack" /\ o.type = "open"
  BY DEF CtrlPacket
<1>3. ack.ok /\ ack.buf \in BufType(PktBufSize, Nat)
  BY AckFits, FieldTypes, QueuePacketType, Rooms
<1>4. req.ok \in BOOLEAN /\ req.buf \in BufType(PktBufSize, Nat)
  BY <1>3, FieldTypes, QueuePacketType, Rooms
<1> HIDE DEF a, o
<1>5. HandleCtrl(start, a) = u
  BY <1>2 DEF HandleCtrl
<1>6. HandleCtrl(u, o) = TriggerOpen(v)
  <2>1. u.ok /\ u.pkt = b
    OBVIOUS
  <2> HIDE DEF u
  <2> QED BY <1>2, <1>3, <2>1 DEF HandleCtrl
<1> HIDE DEF ack
<1>7. v.pkt = ack.buf /\ v.opens = 0 /\ v.loaded = 0 /\ v.up = "opened" /\ v.down = "opened"
      /\ v \in CtrlStateType
  <2>1. start \in CtrlStateType
    BY DEF CtrlStateType, LinkState
  <2>2. u \in CtrlStateType
    <3> HIDE DEF start
    <3> QED BY <2>1 DEF CtrlStateType, LinkState
  <2>3. v \in CtrlStateType
    <3> HIDE DEF u
    <3> QED BY <1>3, <2>2 DEF CtrlStateType, LinkState
  <2> QED BY <2>3
<1> HIDE DEF v, w
<1> DEFINE l == IF req.ok THEN v.loaded + 1 ELSE v.loaded
<1>8. w = [v EXCEPT !.opens = v.opens + 1, !.pkt = req.buf, !.ok = req.ok, !.loaded = l]
  <2>1. TriggerOpen(v) = [v EXCEPT !.opens = v.opens + 1, !.pkt = req.buf, !.ok = req.ok,
                                   !.loaded = l]
    BY <1>7 DEF TriggerOpen
  <2> QED BY <1>1, <1>5, <1>6, <2>1
<1>11. l \in Nat
  BY <1>7
<1> HIDE DEF req, l, u, start
<1>9. w.up = "opened" /\ w.down = "opened" /\ w.opens = 1 /\ w.pkt = req.buf /\ w.loaded = l
  BY <1>7, <1>8 DEF CtrlStateType
<1>10. w.pkt \in BufType(PktBufSize, Nat) /\ w.loaded \in Nat
  BY <1>4, <1>9, <1>11
<1>12. w.up = "opened" /\ w.down = "opened" /\ w.opens = 1
  BY <1>9
<1> QED BY <1>10, <1>12 DEF w, start

-----------------------------------------------------------------------------
(* The inductive invariant.                                                 *)

\* The server's connection has no messages, and its OpSpec is a Read or a BlockWrite
\* of control packets.
ConnSound ==
  /\ sent = 0 /\ sendDeferreds = <<>> /\ resolved = <<>>
  /\ tx = CtrlTx(tx.packets) /\ tx.packets \in Seq(CtrlPacketType)
  /\ writeSize \in WriteMin - 1 .. WriteMax + 1
  /\ readSize \in WriteMin - 1 .. WriteMax + 1
  /\ opspec = NoOpSpec \/ opspec \in CtrlWrite \/ opspec \in AnyRead
  /\ ongoing \in BOOLEAN /\ (opspec # NoOpSpec => ongoing)
  /\ reads \in Seq(Nat) /\ asked \in 0 .. MaxReads /\ Len(reads) <= asked

\* The types of the rest.
LinkSound ==
  /\ cUp \in LinkState /\ cDown \in LinkState /\ sUp \in LinkState /\ sDown \in LinkState
  /\ conn \in BOOLEAN /\ epcSeen \in BOOLEAN /\ unnoticed \in BOOLEAN
  /\ sends \in 0 .. MaxSends /\ loaded \in Nat /\ restarts \in 0 .. MaxRestarts
  /\ pkt \in BufType(PktBufSize, Nat) /\ epc \in BufType(EpcSize, Nat)
  /\ prevEpcs \in Seq(Seq(Nat)) /\ Len(prevEpcs) = 3

\* The WISP has heard nothing since it started.
Fresh == cUp = "opening" /\ cDown = "closed" /\ opens = 0 /\ loaded = 0

\* It has nothing to send but OPENs, and its packet buffer is almost empty.
OnlyOpens ==
  /\ pkt \in BufType(PktBufSize, {0, 1}) /\ pkt.posB <= 2
  /\ epc \in BufType(EpcSize, {0, 1})

NoneLost == ~unnoticed /\ "openLost" \notin trouble

\* The server does not know the WISP.
Unknown ==
  /\ ~conn /\ sUp = "closed" /\ sDown = "closed" /\ connects = 0
  /\ tx = NewTx /\ ~ongoing /\ opspec = NoOpSpec /\ reads = <<>> /\ asked = 0
  /\ writeSize = WriteInit
  /\ Fresh /\ OnlyOpens /\ NoneLost

\* It has made a connection.
Connected == conn /\ sUp = "opened" /\ connects = 1

\* The BlockWrite with its OPEN is with the reader.
OpenSent ==
  /\ Connected /\ sDown = "opening"
  /\ tx.packets = <<>> /\ opspec = WriteOpSpec(FirstData)
  /\ Fresh /\ OnlyOpens /\ NoneLost

\* Packets on their way to the WISP.
Underway(type) ==
  \/ HasPacket(tx.packets, type)
  \/ opspec.kind = "write" /\ ~opspec.done /\ HasPacket(opspec.data, type)

\* A Read that was carried out found nothing.
ReadNothing == (opspec.kind = "read" /\ opspec.done) => opspec.data = <<FALSE>>

\* The WISP is fresh and stays so: no ACK is on its way, and none will be, as a Read
\* of such a WISP has no data.
Unheard == Fresh /\ ~Underway("ack") /\ ReadNothing

\* The OPEN was carried out or lost, and there is no other.  Before the first restart
\* the WISP has handled it, or goes on with OPENs that the server passes over.
OpenDone ==
  /\ Connected /\ ~Underway("open") /\ opens \in 0 .. 1
  /\ (unnoticed \/ "openLost" \in trouble) => Unheard
  /\ restarts = 0 => \/ cUp = "opened" /\ cDown = "opened" /\ opens = 1
                     \/ "openLost" \in trouble /\ OnlyOpens /\ sDown = "opening"

HandshakeInv == ConnSound /\ LinkSound /\ (Unknown \/ OpenSent \/ OpenDone)

-----------------------------------------------------------------------------
(* What the steps have in common.                                           *)

\* The kinds of OpSpecs.
LEMMA Kinds ==
  /\ NoOpSpec.kind = "none" /\ NoOpSpec.done = FALSE
  /\ \A o \in CtrlWrite : o.kind = "write" /\ o.data \in Seq(CtrlPacketType)
  /\ \A o \in AnyRead : o.kind = "read"
  /\ WriteOpSpec(FirstData).kind = "write" /\ WriteOpSpec(FirstData).data = FirstData
  /\ WriteOpSpec(FirstData).done = FALSE /\ WriteOpSpec(FirstData) # NoOpSpec
  /\ WriteOpSpec(FirstData) \in CtrlWrite
  /\ HasPacket(FirstData, "open")
<1>1. NoOpSpec.kind = "none" /\ NoOpSpec.done = FALSE
  BY DEF NoOpSpec
<1>2. \A o \in CtrlWrite : o.kind = "write" /\ o.data \in Seq(CtrlPacketType)
  BY DEF CtrlWrite
<1>3. \A o \in AnyRead : o.kind = "read"
  BY DEF AnyRead
<1>4. /\ WriteOpSpec(FirstData).kind = "write" /\ WriteOpSpec(FirstData).data = FirstData
      /\ WriteOpSpec(FirstData).done = FALSE
  BY DEF WriteOpSpec, NoOpSpec
<1>5. WriteOpSpec(FirstData) \in CtrlWrite
  <2> HIDE DEF CtrlPacketType, FirstData
  <2> QED BY FirstDataFits DEF WriteOpSpec, NoOpSpec, CtrlWrite
<1>6. HasPacket(FirstData, "open")
  <2>1. FirstData[2].type = "open"
    BY DEF FirstData, CtrlPacket
  <2>2. 2 \in DOMAIN FirstData
    BY FirstDataFits
  <2> QED BY <2>1, <2>2 DEF HasPacket
<1>7. WriteOpSpec(FirstData) # NoOpSpec
  <2>1. "write" # "none"
    OBVIOUS
  <2> QED BY <1>1, <1>4, <2>1
<1> QED BY <1>1, <1>2, <1>3, <1>4, <1>5, <1>6, <1>7

\* A request for an AccessSpec with control packets ps leaves the connection sound, and
\* puts nothing on its way that is not among the packets.
LEMMA RequestStep ==
  ASSUME ConnSound, NEW q, NEW ps, NEW r \in Seq(Nat), NEW busy \in BOOLEAN,
         CtrlRequested(q, ps, r, busy),
         tx' = CtrlTx(tx'.packets), tx'.packets \in Seq(CtrlPacketType),
         reads' = q.reads, ongoing' = q.ongoing, opspec' = q.opspec,
         writeSize' \in WriteMin - 1 .. WriteMax + 1,
         readSize' \in WriteMin - 1 .. WriteMax + 1,
         asked' \in 0 .. MaxReads, Len(r) <= asked',
         UNCHANGED <<sent, sendDeferreds, resolved>>
  PROVE  /\ ConnSound'
         /\ ReadNothing => ReadNothing'
         /\ \A type : ~Underway(type) /\ ~HasPacket(ps, type) /\ ~HasPacket(tx'.packets, type)
                        => ~Underway(type)'
<1>1. \/ busy /\ opspec' = opspec /\ ongoing' = TRUE
      \/ opspec' = NoOpSpec
      \/ opspec' \in AnyRead /\ ~opspec'.done /\ ongoing' = TRUE
      \/ /\ opspec' \in CtrlWrite /\ ongoing' = TRUE
         /\ \A type : HasPacket(opspec'.data, type) => HasPacket(ps, type)
  BY DEF CtrlRequested
<1>2. reads' \in Seq(Nat) /\ Len(reads') <= Len(r) /\ ongoing' \in BOOLEAN
  BY DEF CtrlRequested
<1>3. Len(reads') <= asked'
  <2>1. Len(reads') \in Nat /\ Len(r) \in Nat /\ asked' \in Int
    BY <1>2
  <2> QED BY <1>2, <2>1
<1>4. /\ (opspec = NoOpSpec \/ opspec \in CtrlWrite \/ opspec \in AnyRead)'
      /\ (opspec # NoOpSpec => ongoing)'
  BY <1>1 DEF ConnSound
<1>5. ConnSound'
  <2> HIDE DEF CtrlPacketType, CtrlWrite, AnyRead
  <2> QED BY <1>2, <1>3, <1>4 DEF ConnSound
<1>6. ReadNothing => ReadNothing'
  BY <1>1, Kinds DEF ReadNothing
<1>7. ASSUME NEW type, ~Underway(type), ~HasPacket(ps, type), ~HasPacket(tx'.packets, type)
      PROVE  ~Underway(type)'
  <2>1. ~(opspec'.kind = "write" /\ ~opspec'.done /\ HasPacket(opspec'.data, type))
    BY <1>1, <1>7, Kinds DEF Underway
  <2> QED BY <1>7, <2>1 DEF Underway
<1> QED BY <1>5, <1>6, <1>7

\* The new sizes are in the range of the old.
LEMMA SizesInRange ==
  ASSUME ConnSound, NEW ok, NEW actual
  PROVE  /\ NewWriteSize(ok, actual) \in WriteMin - 1 .. WriteMax + 1
         /\ NewReadSize(ok, actual) \in WriteMin - 1 .. WriteMax + 1
         /\ NewWriteSize(ok, actual) \in Nat /\ NewReadSize(ok, actual) \in Nat
         /\ writeSize \in Nat
<1>1. /\ writeSize \in WriteMin - 1 .. WriteMax + 1
      /\ readSize \in WriteMin - 1 .. WriteMax + 1
      /\ WriteMin \in Nat \ {0} /\ WriteMax \in Nat
  BY WriteSizeAssumption DEF ConnSound
<1>2. \/ NewWriteSize(ok, actual) = writeSize + 2 /\ writeSize < WriteMax
      \/ NewWriteSize(ok, actual) = writeSize - 2 /\ writeSize > WriteMin
      \/ NewWriteSize(ok, actual) = writeSize
  BY DEF NewWriteSize
<1>3. \/ NewReadSize(ok, actual) = readSize + 2 /\ readSize < WriteMax
      \/ NewReadSize(ok, actual) = readSize - 2 /\ readSize > WriteMin
      \/ NewReadSize(ok, actual) = readSize
  BY DEF NewReadSize
<1> QED BY <1>1, <1>2, <1>3

\* A WISP that starts has an OPEN in its packet buffer and nothing in its EPC.
LEMMA Started ==
  /\ StartedPkt \in BufType(PktBufSize, {0, 1}) /\ StartedPkt.posB <= 2
  /\ StartedEpc \in BufType(EpcSize, {0, 1})
  /\ StartedPkt \in BufType(PktBufSize, Nat) /\ StartedEpc \in BufType(EpcSize, Nat)
<1>1. StartedPkt \in BufType(PktBufSize, {0, 1}) /\ StartedPkt.posB <= 2
  BY StartedPktBinary
<1>2. StartedEpc \in BufType(EpcSize, {0, 1})
  BY Rooms, NewBuf DEF StartedEpc
<1> QED BY <1>1, <1>2, Rooms, BinaryBytes

-----------------------------------------------------------------------------
(* The initial state and the steps of the WISP.                             *)

\* A sequence of one item.
LEMMA OneInSeq ==
  ASSUME NEW S, NEW x \in S PROVE <<x>> \in Seq(S)
OBVIOUS

\* A sequence of two items.
LEMMA TwoInSeq ==
  ASSUME NEW S, NEW x \in S, NEW y \in S PROVE Append(<<x>>, y) = <<x, y>>
<1> DEFINE s == Append(<<x>>, y)
<1>1. s \in Seq(S) /\ Len(s) = 2 /\ s[1] = x /\ s[2] = y
  OBVIOUS
<1> HIDE DEF s
<1>2. <<x, y>> \in Seq(S)
  OBVIOUS
<1>3. s = <<x, y>>
  BY <1>1, <1>2, SeqEqual
<1> QED BY <1>3 DEF s

\* A sequence that drops its first item for a new last one.
LEMMA ShiftedSeq ==
  ASSUME NEW S, NEW s \in Seq(S), Len(s) = 3, NEW x \in S
  PROVE  Append(Tail(s), x) \in Seq(S) /\ Len(Append(Tail(s), x)) = 3
<1>1. Tail(s) \in Seq(S) /\ Len(Tail(s)) = 2
  OBVIOUS
<1> QED BY <1>1

\* A WISP and a server that have just started.
LEMMA HandshakeInit == Init => HandshakeInv
<1> SUFFICES ASSUME Init PROVE HandshakeInv
  OBVIOUS
<1>1. ConnSound
  <2>1. tx = CtrlTx(<<>>) /\ CtrlTx(<<>>).packets = <<>>
    BY CtrlTxFields, <<>> \in Seq(CtrlPacketType) DEF Init, ConnInit
  <2>2. WriteInit \in WriteMin - 1 .. WriteMax + 1 /\ 0 \in 0 .. MaxReads /\ Len(<<>>) <= 0
    BY WriteSizeAssumption, BoundAssumption
  <2>3. <<>> \in Seq(Nat) /\ <<>> \in Seq(CtrlPacketType)
    OBVIOUS
  <2> HIDE DEF CtrlPacketType
  <2> QED BY <2>1, <2>2, <2>3 DEF ConnSound, Init, ConnInit
<1>2. LinkSound
  <2>1. << <<>>, <<>>, <<>> >> \in Seq(Seq(Nat)) /\ Len(<< <<>>, <<>>, <<>> >>) = 3
    OBVIOUS
  <2>2. 0 \in 0 .. MaxSends /\ 0 \in 0 .. MaxRestarts
    BY HandshakeAssumption
  <2> QED BY <2>1, <2>2, Started DEF LinkSound, Init, LinkState
<1>3. Unknown
  BY Started DEF Unknown, Init, ConnInit, Fresh, OnlyOpens, NoneLost
<1> QED BY <1>1, <1>2, <1>3 DEF HandshakeInv

\* The power fails.
LEMMA RestartKeeps ==
  ASSUME HandshakeInv, Restart PROVE HandshakeInv'
<1> USE DEF HandshakeInv
<1>1. /\ UNCHANGED connVars /\ UNCHANGED <<conn, sUp, sDown, connects, prevEpcs, sends, trouble>>
      /\ restarts' = restarts + 1 /\ restarts < MaxRestarts
      /\ cUp' = "opening" /\ cDown' = "closed" /\ opens' = 0 /\ loaded' = 0
      /\ pkt' = StartedPkt /\ epc' = StartedEpc /\ epcSeen' = FALSE
      /\ unnoticed' = (conn /\ ~ongoing /\ tx.packets = <<>>)
  BY DEF Restart, serverVars
<1>2. ConnSound'
  BY <1>1 DEF ConnSound, connVars
<1>3. restarts' \in 0 .. MaxRestarts /\ restarts' # 0
  BY <1>1, HandshakeAssumption DEF LinkSound
<1>4. LinkSound'
  <2>1. unnoticed' \in BOOLEAN
    BY <1>1 DEF LinkSound
  <2> QED BY <1>1, <1>3, <2>1, Started DEF LinkSound, LinkState
<1>5. Fresh' /\ OnlyOpens'
  BY <1>1, Started DEF Fresh, OnlyOpens
<1>6. CASE Unknown
  <2>1. ~unnoticed'
    BY <1>1, <1>6 DEF Unknown
  <2> QED BY <1>1, <1>2, <1>4, <1>5, <1>6, <2>1 DEF Unknown, NoneLost, connVars
<1>7. CASE OpenSent
  <2>1. ~unnoticed'
    BY <1>1, <1>7, Kinds DEF OpenSent, ConnSound
  <2> QED BY <1>1, <1>2, <1>4, <1>5, <1>7, <2>1 DEF OpenSent, NoneLost, Connected, connVars
<1>8. CASE OpenDone
  <2>1. ~Underway("open")' /\ (Underway("ack")' <=> Underway("ack")) /\ (ReadNothing' <=> ReadNothing)
    BY <1>1, <1>8 DEF OpenDone, Underway, ReadNothing, connVars
  <2>2. ASSUME unnoticed' PROVE Unheard'
    <3>1. opspec = NoOpSpec /\ tx.packets = <<>>
      BY <1>1, <2>2 DEF ConnSound
    <3>2. ~Underway("ack") /\ ReadNothing
      BY <3>1, Kinds DEF Underway, ReadNothing, HasPacket
    <3> QED BY <1>5, <2>1, <3>2 DEF Unheard
  <2>3. ASSUME "openLost" \in trouble' PROVE Unheard'
    BY <1>1, <1>5, <1>8, <2>1, <2>3 DEF Unheard, OpenDone
  <2> QED BY <1>1, <1>2, <1>3, <1>4, <1>8, <2>1, <2>2, <2>3 DEF OpenDone, Connected
<1> QED BY <1>6, <1>7, <1>8

\* The RFID loop moves packets to the EPC.
LEMMA UpdateEpcKeeps ==
  ASSUME HandshakeInv, UpdateEpc PROVE HandshakeInv'
<1> USE DEF HandshakeInv
<1>1. /\ pkt' = Pump(pkt, epc).pkt /\ epc' = Pump(pkt, epc).epc /\ epcSeen' = FALSE
      /\ UNCHANGED connVars /\ UNCHANGED <<cUp, cDown, opens, sends, loaded, conn, sUp, sDown,
                                           connects, prevEpcs, restarts, unnoticed>>
      /\ ("openLost" \in trouble' <=> "openLost" \in trouble)
  BY DEF UpdateEpc, serverVars
<1>2. ConnSound'
  BY <1>1 DEF ConnSound, connVars
<1>3. LinkSound'
  <2>1. pkt \in BufType(PktBufSize, Nat) /\ epc \in BufType(EpcSize, Nat)
    BY DEF LinkSound
  <2>2. pkt' \in BufType(PktBufSize, Nat) /\ epc' \in BufType(EpcSize, Nat)
    BY <1>1, <2>1, Rooms, PumpTypes
  <2> QED BY <1>1, <2>2 DEF LinkSound
<1>4. OnlyOpens => OnlyOpens'
  <2> SUFFICES ASSUME OnlyOpens PROVE OnlyOpens'
    OBVIOUS
  <2> DEFINE C == {0, 1}
  <2>1. C \subseteq Nat /\ 0 \in C
    OBVIOUS
  <2>2. pkt \in BufType(PktBufSize, C) /\ pkt.posB <= 2 /\ epc \in BufType(EpcSize, C)
    BY DEF OnlyOpens
  <2> HIDE DEF C
  <2>3. /\ Pump(pkt, epc).pkt \in BufType(PktBufSize, C) /\ Pump(pkt, epc).epc \in BufType(EpcSize, C)
        /\ Pump(pkt, epc).pkt.posB \in {0, pkt.posB}
    BY <2>1, <2>2, Rooms, PumpTypes
  <2>4. pkt'.posB <= 2
    BY <1>1, <2>2, <2>3
  <2> QED BY <1>1, <2>3, <2>4 DEF OnlyOpens, C
<1>5. CASE Unknown
  BY <1>1, <1>2, <1>3, <1>4, <1>5 DEF Unknown, Fresh, NoneLost, connVars
<1>6. CASE OpenSent
  BY <1>1, <1>2, <1>3, <1>4, <1>6 DEF OpenSent, Fresh, NoneLost, Connected, connVars
<1>7. CASE OpenDone
  <2>1. /\ ~Underway("open")' /\ (Underway("ack")' <=> Underway("ack"))
        /\ (ReadNothing' <=> ReadNothing)
    BY <1>1, <1>7 DEF OpenDone, Underway, ReadNothing, connVars
  <2>2. Unheard => Unheard'
    BY <1>1, <2>1 DEF Unheard, Fresh
  <2> QED BY <1>1, <1>2, <1>3, <1>4, <1>7, <2>1, <2>2 DEF OpenDone, Connected
<1> QED BY <1>5, <1>6, <1>7

\* The application sends a message, which it can only when its downlink is open.
LEMMA WispSendKeeps ==
  ASSUME HandshakeInv, NEW n \in 1 .. 2, WispSend(n) PROVE HandshakeInv'
<1> USE DEF HandshakeInv
<1> DEFINE req == QueuePacket(pkt, ReqFields(n, WriteInit))
<1>1. /\ cDown = "opened" /\ sends < MaxSends /\ sends' = sends + 1
      /\ pkt' = req.buf /\ loaded' = IF req.ok THEN loaded + n ELSE loaded
      /\ UNCHANGED connVars /\ UNCHANGED <<cUp, cDown, opens, epc, conn, sUp, sDown, connects,
                                           prevEpcs, epcSeen, restarts, unnoticed, trouble>>
  BY DEF WispSend, serverVars, histVars
<1>2. ConnSound'
  BY <1>1 DEF ConnSound, connVars
<1>3. req.buf \in BufType(PktBufSize, Nat)
  <2>1. n \in Nat /\ pkt \in BufType(PktBufSize, Nat)
    BY DEF LinkSound
  <2>2. ReqFields(n, WriteInit) \in Seq(Seq(Nat))
    BY <2>1, FieldTypes
  <2> QED BY <2>1, <2>2, Rooms, QueuePacketType
<1> HIDE DEF req
<1>4. LinkSound'
  <2>1. loaded' \in Nat
    BY <1>1 DEF LinkSound
  <2>2. sends' \in 0 .. MaxSends
    BY <1>1, HandshakeAssumption DEF LinkSound
  <2> QED BY <1>1, <1>3, <2>1, <2>2 DEF LinkSound
<1>5. ~Fresh
  BY <1>1 DEF Fresh
<1>6. OpenDone /\ ~Unheard
  BY <1>5 DEF Unknown, OpenSent, Unheard
<1>7. ~Underway("open")'
  BY <1>1, <1>6 DEF OpenDone, Underway, connVars
<1> QED BY <1>1, <1>2, <1>4, <1>6, <1>7 DEF OpenDone, Connected

\* The WISP carries out a BlockWrite.
LEMMA BlockWriteKeeps ==
  ASSUME HandshakeInv, BlockWrite PROVE HandshakeInv'
<1> USE DEF HandshakeInv
<1> DEFINE start == [up |-> cUp, down |-> cDown, pkt |-> pkt, opens |-> opens,
                     loaded |-> loaded, ok |-> TRUE]
           w == Fold(HandleCtrl, start, opspec.data)
<1>1. /\ opspec.kind = "write" /\ ~opspec.done /\ opspec' = [opspec EXCEPT !.done = TRUE]
      /\ cUp' = w.up /\ cDown' = w.down /\ pkt' = w.pkt /\ opens' = w.opens /\ loaded' = w.loaded
      /\ UNCHANGED <<sent, tx, writeSize, readSize, ongoing, reads, asked, sendDeferreds, resolved>>
      /\ UNCHANGED <<sends, epc, conn, sUp, sDown, connects, prevEpcs, epcSeen, restarts,
                     unnoticed, trouble>>
  BY DEF BlockWrite, serverVars, histVars
<1>2. opspec \in CtrlWrite /\ opspec.data \in Seq(CtrlPacketType) /\ ~Unknown
  BY <1>1, Kinds DEF ConnSound, Unknown
<1>3. opspec' \in CtrlWrite /\ opspec'.kind = "write" /\ opspec'.done
  <2> HIDE DEF CtrlPacketType
  <2>1. [opspec EXCEPT !.done = TRUE] \in CtrlWrite
    BY <1>2 DEF CtrlWrite
  <2> QED BY <1>1, <1>2, <2>1 DEF CtrlWrite
<1>4. ConnSound'
  <2>1. ongoing
    BY <1>1, Kinds DEF ConnSound
  <2> HIDE DEF CtrlPacketType
  <2> QED BY <1>1, <1>3, <2>1 DEF ConnSound
<1>5. /\ ~Underway("open") => ~Underway("open")'
      /\ ~Underway("ack") => ~Underway("ack")'
      /\ ReadNothing'
  BY <1>1, <1>3 DEF Underway, ReadNothing
<1>6. CASE OpenSent
  <2>1. /\ w.up = "opened" /\ w.down = "opened" /\ w.opens = 1
        /\ w.pkt \in BufType(PktBufSize, Nat) /\ w.loaded \in Nat
    <3>1. /\ cUp = "opening" /\ cDown = "closed" /\ opens = 0 /\ loaded = 0
          /\ pkt.posB <= 2 /\ pkt \in BufType(PktBufSize, Nat) /\ opspec.data = FirstData
      BY <1>6, Kinds DEF OpenSent, Fresh, OnlyOpens, LinkSound
    <3> HIDE DEF FirstData
    <3> QED BY <3>1, FirstDataHandled
  <2> HIDE DEF w
  <2>2. LinkSound'
    BY <1>1, <2>1 DEF LinkSound, LinkState
  <2>3. ~Underway("open")'
    <3>1. ~HasPacket(tx.packets, "open")
      BY <1>6 DEF OpenSent, HasPacket
    <3> QED BY <1>1, <1>3, <3>1 DEF Underway
  <2>4. OpenDone'
    BY <1>1, <1>6, <2>1, <2>3 DEF OpenDone, OpenSent, NoneLost, Connected
  <2> QED BY <1>4, <2>2, <2>4
<1>7. CASE OpenDone
  <2> DEFINE deaf == ~HasPacket(opspec.data, "ack")
  <2>1. start \in CtrlStateType
    BY <1>7, 0 \in Nat, 1 \in Nat DEF CtrlStateType, LinkSound, OpenDone
  <2>2. ~HasPacket(opspec.data, "open")
    BY <1>1, <1>7 DEF OpenDone, Underway
  <2>3. OnlyHeard(w, start, deaf)
    <3> HIDE DEF start
    <3>1. deaf \in BOOLEAN
      OBVIOUS
    <3> QED BY <1>2, <2>1, <2>2, <3>1, CtrlHandled
  <2> HIDE DEF w
  <2>4. /\ w.down = cDown /\ w.opens = opens /\ w.loaded = loaded /\ w.pkt = pkt
        /\ w.up \in LinkState /\ (w.up = cUp \/ (w.up = "opened" /\ ~deaf))
    BY <2>3 DEF OnlyHeard, CtrlStateType
  <2>5. LinkSound'
    BY <1>1, <2>4 DEF LinkSound
  <2>6. Unheard => Unheard'
    BY <1>1, <1>5, <2>4 DEF Unheard, Fresh, Underway
  <2>7. restarts' = 0 => \/ cUp' = "opened" /\ cDown' = "opened" /\ opens' = 1
                         \/ "openLost" \in trouble' /\ OnlyOpens' /\ sDown' = "opening"
    <3>1. OnlyOpens => OnlyOpens'
      BY <1>1, <2>4 DEF OnlyOpens
    <3> QED BY <1>1, <1>7, <2>4, <3>1 DEF OpenDone
  <2>8. OpenDone'
    BY <1>1, <1>5, <1>7, <2>4, <2>6, <2>7 DEF OpenDone, Connected
  <2> QED BY <1>4, <2>5, <2>8
<1> QED BY <1>2, <1>6, <1>7

\* It answers a Read.
LEMMA ReadKeeps ==
  ASSUME HandshakeInv, Read PROVE HandshakeInv'
<1> USE DEF HandshakeInv
<1>1. /\ opspec.kind = "read" /\ ~opspec.done
      /\ opspec' = [opspec EXCEPT !.done = TRUE, !.data = <<loaded > 0>>]
      /\ loaded' = IF loaded > 0 THEN loaded - 1 ELSE 0
      /\ UNCHANGED <<sent, tx, writeSize, readSize, ongoing, reads, asked, sendDeferreds, resolved>>
      /\ UNCHANGED <<cUp, cDown, opens, sends, pkt, epc, conn, sUp, sDown, connects, prevEpcs,
                     epcSeen, restarts, unnoticed, trouble>>
  BY DEF Read, serverVars, histVars
<1>2. opspec \in AnyRead /\ OpenDone /\ ongoing
  BY <1>1, Kinds DEF ConnSound, Unknown, OpenSent
<1> DEFINE d == <<loaded > 0>>
<1>3. d \in Seq(BOOLEAN) /\ (loaded = 0 => d = <<FALSE>>)
  <2> DEFINE b == loaded > 0
  <2>1. b \in BOOLEAN /\ (loaded = 0 => b = FALSE)
    BY DEF LinkSound
  <2>2. d = <<b>>
    OBVIOUS
  <2> HIDE DEF b, d
  <2>3. d \in Seq(BOOLEAN)
    BY <2>1, <2>2, OneInSeq
  <2>4. loaded = 0 => d = <<FALSE>>
    BY <2>1, <2>2, Zenon
  <2> QED BY <2>3, <2>4
<1>4. opspec' = [opspec EXCEPT !.done = TRUE, !.data = d]
  BY <1>1
<1> HIDE DEF d
<1>5. [opspec EXCEPT !.done = TRUE, !.data = d] \in AnyRead
  BY <1>2, <1>3 DEF AnyRead
<1>6. opspec' \in AnyRead /\ opspec'.kind = "read" /\ opspec'.data = d
  BY <1>2, <1>4, <1>5 DEF AnyRead
<1>7. ConnSound'
  <2> HIDE DEF CtrlPacketType
  <2> QED BY <1>1, <1>2, <1>6 DEF ConnSound
<1>8. loaded' \in Nat /\ (loaded = 0 => loaded' = 0)
  BY <1>1 DEF LinkSound
<1>9. LinkSound'
  BY <1>1, <1>8 DEF LinkSound
<1>10. /\ ~Underway("open") => ~Underway("open")'
       /\ ~Underway("ack") => ~Underway("ack")'
  BY <1>1, <1>6 DEF Underway
<1>11. Unheard => Unheard'
  BY <1>1, <1>3, <1>6, <1>8, <1>10 DEF Unheard, Fresh, ReadNothing
<1>12. OnlyOpens' <=> OnlyOpens
  BY <1>1 DEF OnlyOpens
<1> QED BY <1>1, <1>2, <1>7, <1>9, <1>10, <1>11, <1>12 DEF OpenDone, Connected

-----------------------------------------------------------------------------
(* The steps of the server.                                                 *)

\* The bytes of the EPC.
LEMMA EpcBytesType ==
  ASSUME NEW C, C \subseteq Nat, epc \in BufType(EpcSize, C)
  PROVE  EpcBytes(epc) \in Seq(C) /\ EpcBytes(epc) \in Seq(Nat)
<1>1. epc.mem \in [0 .. EpcSize - 1 -> C] /\ EpcSize \in Nat
  BY Rooms, BufFields
<1>2. ASSUME NEW i \in 1 .. EpcSize PROVE epc.mem[i - 1] \in C
  <2>1. i - 1 \in 0 .. EpcSize - 1
    BY <1>1
  <2> QED BY <1>1, <2>1
<1>3. EpcBytes(epc) \in [1 .. EpcSize -> C] /\ EpcBytes(epc) \in [1 .. EpcSize -> Nat]
  BY <1>2 DEF EpcBytes
<1> QED BY <1>1, <1>3

\* An EPC of zeros and ones asks for no Read and acknowledges nothing.
LEMMA OnlyOpensRead ==
  ASSUME OnlyOpens, NEW opened \in BOOLEAN
  PROVE  LET ps == PacketsOfEpc(EpcBytes(epc), opened)
         IN ReadsOf(ps) = <<>> /\ ~DownlinkOpened("opening", ps)
<1> DEFINE bytes == EpcBytes(epc)
           ps == PacketsOfEpc(bytes, opened)
           C == {0, 1}
<1>1. bytes \in Seq(C) /\ bytes \in Seq(Nat)
  <2>1. C \subseteq Nat /\ epc \in BufType(EpcSize, C)
    BY DEF OnlyOpens
  <2> HIDE DEF C
  <2> QED BY <2>1, EpcBytesType
<1> HIDE DEF bytes
<1>2. /\ ps \in Seq(EpcPacketType)
      /\ \A k \in 1 .. Len(ps) : \E j \in 1 .. Len(bytes) : ps[k].type = bytes[j]
  BY <1>1, PacketsOfEpcSound
<1> HIDE DEF ps
<1>3. ASSUME NEW k \in 1 .. Len(ps) PROVE ps[k].type \in {0, 1}
  <2>1. PICK j \in 1 .. Len(bytes) : ps[k].type = bytes[j]
    BY <1>2
  <2>2. bytes[j] \in C
    BY <1>1, ElementOfSeq
  <2> QED BY <2>1, <2>2
<1>4. \A k \in 1 .. Len(ps) : ps[k].type # PktReqUplink /\ ps[k].type # PktAck
  BY <1>3 DEF PktReqUplink, PktAck
<1>5. ReadsOf(ps) = <<>>
  BY <1>2, <1>4, ReadsOfType
<1>6. ~DownlinkOpened("opening", ps)
  BY <1>2, <1>4 DEF DownlinkOpened
<1> QED BY <1>5, <1>6 DEF ps, bytes

\* A tag report with an EPC: the first OPEN makes a connection ...
LEMMA SeeEpcUnknown ==
  ASSUME HandshakeInv, SeeEpc, Unknown PROVE HandshakeInv'
<1> DEFINE bytes == EpcBytes(epc)
           ps == PacketsOfEpc(bytes, conn)
<1>1. bytes \in Seq(Nat) /\ ReadsOf(ps) = <<>>
  <2>1. epc \in BufType(EpcSize, Nat) /\ conn \in BOOLEAN /\ OnlyOpens
    BY DEF HandshakeInv, LinkSound, Unknown
  <2> QED BY <2>1, Nat \subseteq Nat, EpcBytesType, OnlyOpensRead
<1> HIDE DEF bytes
<1>2. /\ epcSeen' = TRUE /\ UNCHANGED wispVars /\ UNCHANGED <<restarts, unnoticed, trouble>>
      /\ \/ UNCHANGED <<connVars, serverVars>>
         \/ /\ prevEpcs' = PrevEpcs(prevEpcs, bytes)
            /\ NewClient(ps)
            /\ conn' = TRUE /\ connects' = connects + 1 /\ sUp' = "opened" /\ sDown' = "opening"
            /\ HandleOpen
            /\ UNCHANGED <<sent, writeSize, readSize, asked, sendDeferreds, resolved>>
         \/ /\ prevEpcs' = PrevEpcs(prevEpcs, bytes)
            /\ sDown' = IF DownlinkOpened(sDown, ps) THEN "opened" ELSE sDown
            /\ UNCHANGED connVars /\ UNCHANGED <<conn, sUp, connects>>
  BY <1>1 DEF SeeEpc, bytes
<1> HIDE DEF ps
<1>3. prevEpcs' = PrevEpcs(prevEpcs, bytes) => prevEpcs' \in Seq(Seq(Nat)) /\ Len(prevEpcs') = 3
  <2>1. prevEpcs \in Seq(Seq(Nat)) /\ Len(prevEpcs) = 3
    BY DEF HandshakeInv, LinkSound
  <2> QED BY <1>1, <2>1, ShiftedSeq DEF PrevEpcs
<1>4. UNCHANGED wispVars => (Fresh' <=> Fresh) /\ (OnlyOpens' <=> OnlyOpens)
  BY DEF wispVars, Fresh, OnlyOpens
<1>5. CASE UNCHANGED <<connVars, serverVars>>
  <2>1. ConnSound'
    BY <1>5 DEF HandshakeInv, ConnSound, connVars
  <2>2. LinkSound'
    BY <1>2, <1>5 DEF HandshakeInv, LinkSound, serverVars, wispVars
  <2>3. Unknown'
    BY <1>2, <1>4, <1>5 DEF Unknown, connVars, serverVars, NoneLost
  <2> QED BY <2>1, <2>2, <2>3 DEF HandshakeInv
<1>6. CASE /\ prevEpcs' = PrevEpcs(prevEpcs, bytes)
           /\ NewClient(ps)
           /\ conn' = TRUE /\ connects' = connects + 1 /\ sUp' = "opened" /\ sDown' = "opening"
           /\ HandleOpen
           /\ UNCHANGED <<sent, writeSize, readSize, asked, sendDeferreds, resolved>>
  <2> DEFINE a == CtrlPacket("ack", CtrlSize, 0)
             o == CtrlPacket("open", 1, 0)
             q == RequestAccessSpec(AddPacket(AddPacket(NewTx, a), o), reads, ongoing, writeSize)
  <2>1. tx' = q.tx /\ reads' = q.reads /\ ongoing' = q.ongoing /\ opspec' = q.opspec
    BY <1>6 DEF HandleOpen, Become
  <2>2. AddPacket(AddPacket(NewTx, a), o) = CtrlTx(FirstData)
    <3>1. a \in CtrlPacketType /\ o \in CtrlPacketType /\ <<>> \in Seq(CtrlPacketType)
      BY Rooms DEF CtrlPacket, CtrlPacketType
    <3> HIDE DEF a, o
    <3>2. NewTx = CtrlTx(<<>>) /\ AddPacket(CtrlTx(<<>>), a) = CtrlTx(Append(<<>>, a))
      BY <3>1, CtrlTxFields
    <3>3. Append(<<>>, a) = <<a>> /\ <<a>> \in Seq(CtrlPacketType)
      BY <3>1
    <3>4. AddPacket(CtrlTx(<<a>>), o) = CtrlTx(Append(<<a>>, o))
      BY <3>3, CtrlTxFields
    <3>5. Append(<<a>>, o) = <<a, o>>
      BY <3>1, TwoInSeq
    <3> QED BY <3>2, <3>3, <3>4, <3>5 DEF FirstData, a, o
  <2>3. q = RequestAccessSpec(CtrlTx(FirstData), <<>>, FALSE, WriteInit)
    <3>1. reads = <<>> /\ ongoing = FALSE /\ writeSize = WriteInit
      BY DEF Unknown, HandshakeInv, ConnSound
    <3> QED BY <2>2, <3>1
  <2>4. /\ tx' = CtrlTx(<<>>) /\ reads' = <<>> /\ ongoing' = TRUE
        /\ opspec' = WriteOpSpec(FirstData)
    <3> HIDE DEF q
    <3> QED BY <2>1, <2>3, FirstRequest
  <2>5. CtrlTx(<<>>).packets = <<>> /\ <<>> \in Seq(CtrlPacketType) /\ <<>> \in Seq(Nat)
    <3>1. <<>> \in Seq(CtrlPacketType) /\ <<>> \in Seq(Nat)
      OBVIOUS
    <3> HIDE DEF CtrlPacketType
    <3> QED BY <3>1, CtrlTxFields
  <2> HIDE DEF q, a, o
  <2>6. ConnSound'
    <3>1. asked' \in 0 .. MaxReads /\ Len(reads') <= asked'
      BY <1>6, <2>4, BoundAssumption DEF HandshakeInv, ConnSound
    <3> HIDE DEF CtrlPacketType, FirstData
    <3> QED BY <1>6, <2>4, <2>5, <3>1, Kinds DEF HandshakeInv, ConnSound
  <2>7. LinkSound'
    BY <1>2, <1>3, <1>6 DEF HandshakeInv, LinkSound, wispVars, LinkState
  <2>8. OpenSent'
    <3>1. connects' = 1
      BY <1>6 DEF Unknown
    <3> QED BY <1>2, <1>4, <1>6, <2>4, <2>5, <3>1 DEF OpenSent, Unknown, Connected, NoneLost
  <2> QED BY <2>6, <2>7, <2>8 DEF HandshakeInv
<1>7. CASE /\ prevEpcs' = PrevEpcs(prevEpcs, bytes)
           /\ sDown' = IF DownlinkOpened(sDown, ps) THEN "opened" ELSE sDown
           /\ UNCHANGED connVars /\ UNCHANGED <<conn, sUp, connects>>
  <2>1. sDown' = "closed"
    BY <1>7 DEF Unknown, DownlinkOpened
  <2>2. ConnSound'
    BY <1>7 DEF HandshakeInv, ConnSound, connVars
  <2>3. LinkSound'
    BY <1>2, <1>3, <1>7, <2>1 DEF HandshakeInv, LinkSound, wispVars, LinkState
  <2>4. Unknown'
    BY <1>2, <1>4, <1>7, <2>1 DEF Unknown, connVars, NoneLost
  <2> QED BY <2>2, <2>3, <2>4 DEF HandshakeInv
<1> QED BY <1>2, <1>5, <1>6, <1>7

\* ... and later ones are passed over; Reads may be asked for.
LEMMA SeeEpcKnown ==
  ASSUME HandshakeInv, SeeEpc, Connected PROVE HandshakeInv'
<1> DEFINE bytes == EpcBytes(epc)
           ps == PacketsOfEpc(bytes, conn)
           r == ReadsOf(ps)
<1>1. bytes \in Seq(Nat) /\ r \in Seq(Nat) /\ ps \in Seq(EpcPacketType)
  <2>1. epc \in BufType(EpcSize, Nat) /\ conn \in BOOLEAN
    BY DEF HandshakeInv, LinkSound
  <2>2. bytes \in Seq(Nat)
    BY <2>1, Nat \subseteq Nat, EpcBytesType
  <2> HIDE DEF bytes
  <2>3. ps \in Seq(EpcPacketType)
    BY <2>1, <2>2, PacketsOfEpcSound
  <2> HIDE DEF ps
  <2> QED BY <2>2, <2>3, ReadsOfType
<1>2. /\ epcSeen' = TRUE /\ UNCHANGED wispVars /\ UNCHANGED <<restarts, unnoticed, trouble>>
      /\ UNCHANGED <<conn, sUp, connects>>
      /\ \/ sDown' = sDown /\ prevEpcs' = prevEpcs /\ UNCHANGED connVars
         \/ /\ prevEpcs' = PrevEpcs(prevEpcs, bytes)
            /\ sDown' = IF DownlinkOpened(sDown, ps) THEN "opened" ELSE sDown
            /\ IF r = <<>> THEN UNCHANGED connVars ELSE ReqUplink(r)
  BY DEF SeeEpc, Connected, NewClient, serverVars
<1>3. OnlyOpens => r = <<>> /\ ~DownlinkOpened("opening", ps)
  BY OnlyOpensRead DEF HandshakeInv, LinkSound
<1> HIDE DEF bytes, ps, r
<1>4. (prevEpcs \in Seq(Seq(Nat)) /\ Len(prevEpcs) = 3)'
  <2>1. prevEpcs \in Seq(Seq(Nat)) /\ Len(prevEpcs) = 3
    BY DEF HandshakeInv, LinkSound
  <2>2. PrevEpcs(prevEpcs, bytes) \in Seq(Seq(Nat)) /\ Len(PrevEpcs(prevEpcs, bytes)) = 3
    BY <1>1, <2>1, ShiftedSeq DEF PrevEpcs
  <2> QED BY <1>2, <2>1, <2>2 DEF connVars
<1>5. LinkSound'
  BY <1>2, <1>4 DEF HandshakeInv, LinkSound, wispVars, LinkState
<1>6. (Fresh' <=> Fresh) /\ (OnlyOpens' <=> OnlyOpens) /\ Connected' /\ (NoneLost' <=> NoneLost)
  BY <1>2 DEF wispVars, Fresh, OnlyOpens, Connected, NoneLost
<1>7. OnlyOpens /\ sDown = "opening" => sDown' = "opening" /\ UNCHANGED connVars
  BY <1>2, <1>3
<1>8. CASE OpenSent
  <2>1. UNCHANGED connVars /\ sDown' = "opening"
    BY <1>7, <1>8 DEF OpenSent
  <2>2. ConnSound'
    BY <2>1 DEF HandshakeInv, ConnSound, connVars
  <2>3. OpenSent'
    BY <1>6, <1>8, <2>1 DEF OpenSent, connVars
  <2> QED BY <1>5, <2>2, <2>3 DEF HandshakeInv
<1>9. CASE OpenDone
  <2>1. /\ ConnSound' /\ (ReadNothing => ReadNothing')
        /\ \A type : ~Underway(type) => ~Underway(type)'
    <3>1. CASE UNCHANGED connVars
      <4>1. ConnSound'
        BY <3>1 DEF HandshakeInv, ConnSound, connVars
      <4>2. ReadNothing => ReadNothing'
        BY <3>1 DEF ReadNothing, connVars
      <4>3. \A type : ~Underway(type) => ~Underway(type)'
        BY <3>1 DEF Underway, connVars
      <4> QED BY <4>1, <4>2, <4>3
    <3>2. CASE ReqUplink(r)
      <4> DEFINE s == reads \o r
                 q == RequestAccessSpec(tx, s, ongoing, writeSize)
                 c == tx.packets
      <4>1. /\ tx' = q.tx /\ reads' = q.reads /\ ongoing' = q.ongoing /\ opspec' = q.opspec
            /\ asked' = asked + Len(r) /\ asked + Len(r) <= MaxReads
            /\ UNCHANGED <<sent, writeSize, readSize, sendDeferreds, resolved>>
        BY <3>2 DEF ReqUplink, Become
      <4>2. /\ reads \in Seq(Nat) /\ ongoing \in BOOLEAN /\ asked \in 0 .. MaxReads
            /\ Len(reads) <= asked /\ c \in Seq(CtrlPacketType) /\ tx = CtrlTx(c)
            /\ writeSize \in WriteMin - 1 .. WriteMax + 1
            /\ readSize \in WriteMin - 1 .. WriteMax + 1 /\ ConnSound
        BY DEF HandshakeInv, ConnSound
      <4>3. s \in Seq(Nat) /\ Len(s) = Len(reads) + Len(r) /\ Len(r) \in Nat /\ Len(reads) \in Nat
        BY <1>1, <4>2
      <4>4. asked' \in 0 .. MaxReads /\ Len(s) <= asked'
        BY <4>1, <4>2, <4>3, BoundAssumption
      <4>5. writeSize \in Nat
        BY <4>2, SizesInRange
      <4> HIDE DEF s, c
      <4>6. CtrlRequested(q, c, s, ongoing)
        BY <4>2, <4>3, <4>5, RequestCtrl
      <4> HIDE DEF q
      <4>7. /\ tx' = CtrlTx(tx'.packets) /\ tx'.packets \in Seq(CtrlPacketType)
            /\ \A type : HasPacket(tx'.packets, type) => HasPacket(c, type)
        BY <4>1, <4>6 DEF CtrlRequested
      <4>8. /\ ConnSound' /\ (ReadNothing => ReadNothing')
            /\ \A type : ~Underway(type) /\ ~HasPacket(c, type) /\ ~HasPacket(tx'.packets, type)
                           => ~Underway(type)'
        BY <4>1, <4>2, <4>3, <4>4, <4>6, <4>7, RequestStep
      <4>9. \A type : ~Underway(type) => ~HasPacket(c, type)
        BY DEF Underway, c
      <4> QED BY <4>7, <4>8, <4>9
    <3> QED BY <1>2, <3>1, <3>2 DEF connVars
  <2>2. Unheard => Unheard'
    BY <1>6, <2>1 DEF Unheard
  <2>3. opens' = opens /\ restarts' = restarts /\ trouble' = trouble /\ unnoticed' = unnoticed
        /\ cUp' = cUp /\ cDown' = cDown
    BY <1>2 DEF wispVars
  <2>4. OpenDone'
    BY <1>6, <1>7, <1>9, <2>1, <2>2, <2>3 DEF OpenDone
  <2> QED BY <1>5, <2>1, <2>4 DEF HandshakeInv
<1>10. ~Unknown
  BY DEF Unknown, Connected
<1> QED BY <1>8, <1>9, <1>10 DEF HandshakeInv

\* The outcome of a request has five parts.
LEMMA RequestParts ==
  ASSUME NEW t, NEW r, NEW busy, NEW size
  PROVE  LET q == RequestAccessSpec(t, r, busy, size)
         IN q = [tx |-> q.tx, reads |-> q.reads, ongoing |-> q.ongoing,
                 opspec |-> q.opspec, raised |-> q.raised]
<1> DEFINE Outcome(w) ==
             LET raised  == w.status = "raised"
                 written == ~raised /\ w.data # <<>>
             IN [tx |-> w.tx, reads |-> r, ongoing |-> raised \/ written,
                 opspec |-> IF written THEN WriteOpSpec(w.data) ELSE NoOpSpec,
                 raised |-> raised]
           q == RequestAccessSpec(t, r, busy, size)
<1>1. CASE busy
  BY <1>1 DEF RequestAccessSpec
<1>2. CASE ~busy /\ r # <<>>
  BY <1>2 DEF RequestAccessSpec
<1>3. CASE ~busy /\ r = <<>>
  <2> DEFINE g == GetWriteData(t, size)
  <2>1. q = CHOOSE x \in {Outcome(w) : w \in {g}} : TRUE
    BY <1>3 DEF RequestAccessSpec, Strictly
  <2> HIDE DEF Outcome, q, g
  <2>2. q = Outcome(g)
    BY <2>1
  <2>3. Outcome(g) = [tx |-> Outcome(g).tx, reads |-> Outcome(g).reads,
                      ongoing |-> Outcome(g).ongoing,
                      opspec |-> Outcome(g).opspec, raised |-> Outcome(g).raised]
    BY DEF Outcome
  <2> QED BY <2>2, <2>3 DEF q
<1> QED BY <1>1, <1>2, <1>3

\* The report of a BlockWrite.
LEMMA WriteEndsKeeps ==
  ASSUME HandshakeInv, NEW ok \in BOOLEAN, WriteEnds(ok) PROVE HandshakeInv'
<1> DEFINE size == NewWriteSize(ok, WrittenSize(opspec.data))
           q == RequestAccessSpec(tx, reads, FALSE, size)
           c == tx.packets
<1>1. /\ opspec.kind = "write" /\ (ok => opspec.done) /\ writeSize' = size
      /\ tx' = q.tx /\ reads' = q.reads /\ ongoing' = q.ongoing /\ opspec' = q.opspec
      /\ UNCHANGED <<sent, readSize, asked, sendDeferreds, resolved>>
      /\ UNCHANGED wispVars /\ UNCHANGED <<conn, sUp, sDown, connects, prevEpcs>>
      /\ UNCHANGED <<epcSeen, restarts, unnoticed>>
  BY DEF WriteEnds, WriteReport, Become, serverVars
<1>2. trouble' = trouble \cup
        (IF opspec.done THEN {}
         ELSE IF HasPacket(opspec.data, "open") THEN {"openLost"} ELSE {"writeLost"})
  BY DEF WriteEnds, HasPacket
<1>3. /\ ConnSound /\ size \in WriteMin - 1 .. WriteMax + 1 /\ size \in Nat
      /\ readSize \in WriteMin - 1 .. WriteMax + 1
      /\ reads \in Seq(Nat) /\ asked \in 0 .. MaxReads /\ Len(reads) <= asked
      /\ c \in Seq(CtrlPacketType) /\ tx = CtrlTx(c)
  BY SizesInRange DEF HandshakeInv, ConnSound
<1> HIDE DEF size, c
<1>4. CtrlRequested(q, c, reads, FALSE)
  BY <1>3, FALSE \in BOOLEAN, RequestCtrl
<1> HIDE DEF q
<1>5. /\ tx' = CtrlTx(tx'.packets) /\ tx'.packets \in Seq(CtrlPacketType)
      /\ \A type : HasPacket(tx'.packets, type) => HasPacket(c, type)
  BY <1>1, <1>4 DEF CtrlRequested
<1>6. /\ ConnSound' /\ (ReadNothing => ReadNothing')
      /\ \A type : ~Underway(type) /\ ~HasPacket(c, type) /\ ~HasPacket(tx'.packets, type)
                     => ~Underway(type)'
  BY <1>1, <1>3, <1>4, <1>5, FALSE \in BOOLEAN, RequestStep
<1>7. LinkSound'
  BY <1>1 DEF HandshakeInv, LinkSound, wispVars
<1>8. (Fresh' <=> Fresh) /\ (OnlyOpens' <=> OnlyOpens) /\ (Connected' <=> Connected)
  BY <1>1 DEF wispVars, Fresh, OnlyOpens, Connected
<1>9. opens' = opens /\ cUp' = cUp /\ cDown' = cDown
  BY <1>1 DEF wispVars
<1>10. \A type : ~HasPacket(c, type) => ~Underway(type) \/ HasPacket(opspec.data, type)
  BY DEF Underway, c
<1>11. CASE OpenSent
  <2>1. opspec.data = FirstData /\ ~opspec.done /\ c = <<>> /\ tx.packets = <<>>
    BY <1>11, Kinds DEF OpenSent, c
  <2>2. "openLost" \in trouble'
    BY <1>2, <2>1, Kinds
  <2>3. \A type : ~HasPacket(c, type) /\ ~HasPacket(tx'.packets, type)
    <3>1. \A type : ~HasPacket(<<>>, type)
      BY DEF HasPacket
    <3> QED BY <1>5, <2>1, <3>1
  <2>4. ReadNothing
    BY <1>1 DEF ReadNothing
  <2>5. \A type : ~Underway(type)'
    <3>1. opspec' = NoOpSpec \/ (opspec' \in AnyRead /\ ~opspec'.done)
          \/ (opspec' \in CtrlWrite /\ \A type : ~HasPacket(opspec'.data, type))
      BY <1>1, <1>4, <2>3 DEF CtrlRequested
    <3> QED BY <2>3, <3>1, Kinds DEF Underway
  <2>6. Unheard'
    BY <1>6, <1>8, <1>11, <2>4, <2>5 DEF Unheard, OpenSent
  <2>7. OpenDone'
    BY <1>1, <1>8, <1>9, <1>11, <2>2, <2>5, <2>6 DEF OpenDone, OpenSent, Fresh
  <2> QED BY <1>6, <1>7, <2>7 DEF HandshakeInv
<1>12. CASE OpenDone
  <2>1. \A type : ~Underway(type) => ~Underway(type)'
    <3>1. \A type : ~Underway(type) => ~HasPacket(c, type)
      BY DEF Underway, c
    <3> QED BY <1>5, <1>6, <3>1
  <2>2. "openLost" \in trouble' => "openLost" \in trouble
    <3>1. opspec.done \/ ~HasPacket(opspec.data, "open")
      BY <1>1, <1>12 DEF OpenDone, Underway
    <3> QED BY <1>2, <3>1
  <2>3. "openLost" \in trouble => "openLost" \in trouble'
    BY <1>2
  <2>4. Unheard => Unheard'
    BY <1>6, <1>8, <2>1 DEF Unheard
  <2>5. OpenDone'
    BY <1>1, <1>8, <1>9, <1>12, <2>1, <2>2, <2>3, <2>4 DEF OpenDone
  <2> QED BY <1>6, <1>7, <2>5 DEF HandshakeInv
<1>13. ~Unknown
  BY <1>1, Kinds DEF Unknown
<1> QED BY <1>11, <1>12, <1>13 DEF HandshakeInv

\* The first of one item.
LEMMA HeadOfOne == ASSUME NEW x PROVE Head(<<x>>) = x
OBVIOUS

\* The report of a Read: only one with data is answered with an ACK.
LEMMA ReadEndsKeeps ==
  ASSUME HandshakeInv, NEW ok \in BOOLEAN, ReadEnds(ok) PROVE HandshakeInv'
<1> DEFINE size == NewReadSize(ok, WordBytes(opspec.size))
           param == CtrlPacket("setParam", CtrlSize, size)
           ack == CtrlPacket("ack", CtrlSize, 1)
           heard == ok /\ Head(opspec.data)
           answer == IF heard THEN <<ack>> ELSE <<>>
           c == tx.packets
           d == Append(c, param)
           q == RequestAccessSpec(AddPacket(tx, param), reads, FALSE, writeSize)
           all == q.tx.packets \o answer
           u == [q EXCEPT !.tx.packets = @ \o answer]
<1>1. /\ opspec.kind = "read" /\ (ok => opspec.done) /\ readSize' = size
      /\ tx' = u.tx /\ reads' = u.reads /\ ongoing' = u.ongoing /\ opspec' = u.opspec
      /\ UNCHANGED <<sent, writeSize, asked, sendDeferreds, resolved>>
      /\ UNCHANGED wispVars /\ UNCHANGED <<conn, sUp, sDown, connects, prevEpcs>>
      /\ UNCHANGED <<epcSeen, restarts, unnoticed, trouble>>
  BY DEF ReadEnds, ReadReport, Become, serverVars, histVars
<1>2. /\ ConnSound /\ size \in WriteMin - 1 .. WriteMax + 1 /\ size \in Nat /\ writeSize \in Nat
      /\ writeSize \in WriteMin - 1 .. WriteMax + 1
      /\ reads \in Seq(Nat) /\ asked \in 0 .. MaxReads /\ Len(reads) <= asked
      /\ c \in Seq(CtrlPacketType) /\ tx = CtrlTx(c)
  BY SizesInRange DEF HandshakeInv, ConnSound
<1> HIDE DEF size
<1>3. param \in CtrlPacketType /\ ack \in CtrlPacketType /\ param.type = "setParam"
      /\ ack.type = "ack"
  BY <1>2, Rooms DEF CtrlPacket, CtrlPacketType
<1> HIDE DEF param, ack, c
<1>4. AddPacket(tx, param) = CtrlTx(d)
  BY <1>2, CtrlTxFields
<1>5. d \in Seq(CtrlPacketType) /\ \A type : type # "setParam" /\ ~HasPacket(c, type) => ~HasPacket(d, type)
  <2>1. /\ d \in Seq(CtrlPacketType) /\ Len(d) = Len(c) + 1 /\ Len(c) \in Nat
        /\ \A k \in 1 .. Len(c) : d[k] = c[k]
        /\ d[Len(c) + 1] = param
    BY <1>2, <1>3
  <2> HIDE DEF d
  <2>2. ASSUME NEW type, type # "setParam", NEW k \in DOMAIN d, d[k].type = type
        PROVE  HasPacket(c, type)
    <3>1. k \in 1 .. Len(c) + 1 /\ k # Len(c) + 1
      BY <1>3, <2>1, <2>2
    <3>2. k \in 1 .. Len(c)
      BY <2>1, <3>1
    <3>3. c[k].type = type /\ k \in DOMAIN c
      BY <1>2, <2>1, <2>2, <3>2
    <3> QED BY <3>3 DEF HasPacket
  <2> QED BY <2>1, <2>2 DEF HasPacket
<1> HIDE DEF d
<1>6. CtrlRequested(q, d, reads, FALSE)
  BY <1>2, <1>4, <1>5, FALSE \in BOOLEAN, RequestCtrl
<1>7. q = [tx |-> q.tx, reads |-> q.reads, ongoing |-> q.ongoing,
           opspec |-> q.opspec, raised |-> q.raised]
  BY RequestParts
<1> HIDE DEF q
<1>8. /\ q.tx = CtrlTx(q.tx.packets) /\ q.tx.packets \in Seq(CtrlPacketType)
      /\ \A type : HasPacket(q.tx.packets, type) => HasPacket(d, type)
  BY <1>6 DEF CtrlRequested
<1> HIDE DEF heard
<1>9. /\ answer \in Seq(CtrlPacketType) /\ Len(answer) \in Nat
      /\ \A k \in 1 .. Len(answer) : answer[k] = ack /\ heard
  <2>1. <<>> \in Seq(CtrlPacketType) /\ <<ack>> \in Seq(CtrlPacketType)
    BY <1>3, OneInSeq
  <2>2. CASE heard
    <3>1. answer = <<ack>>
      BY <2>2
    <3> HIDE DEF answer
    <3> QED BY <2>1, <2>2, <3>1
  <2>3. CASE ~heard
    <3>1. answer = <<>>
      BY <2>3
    <3> HIDE DEF answer
    <3> QED BY <2>1, <3>1
  <2> QED BY <2>2, <2>3
<1> HIDE DEF answer
<1>10. tx' = CtrlTx(all) /\ reads' = q.reads /\ ongoing' = q.ongoing /\ opspec' = q.opspec
  <2>1. u.tx = [q.tx EXCEPT !.packets = all] /\ u.reads = q.reads /\ u.ongoing = q.ongoing
        /\ u.opspec = q.opspec
    BY <1>7
  <2>2. [CtrlTx(q.tx.packets) EXCEPT !.packets = all] = CtrlTx(all)
    BY <1>8, CtrlTxFields
  <2> HIDE DEF u, all
  <2> QED BY <1>1, <1>8, <2>1, <2>2
<1>11. /\ all \in Seq(CtrlPacketType)
       /\ \A type : HasPacket(all, type) => HasPacket(d, type) \/ (type = "ack" /\ heard)
  <2> DEFINE p == q.tx.packets
             m == Len(p)
  <2>1. /\ p \in Seq(CtrlPacketType) /\ m \in Nat
        /\ all \in Seq(CtrlPacketType) /\ Len(all) = m + Len(answer)
        /\ \A k \in 1 .. m + Len(answer) : all[k] = IF k <= m THEN p[k] ELSE answer[k - m]
    <3>1. p \in Seq(CtrlPacketType) /\ all = p \o answer
      BY <1>8
    <3> HIDE DEF p, all
    <3>2. m \in Nat
      BY <3>1
    <3> QED BY <1>9, <3>1, <3>2, ConcatProperties
  <2> HIDE DEF all, p, m
  <2>3. Len(all) \in Nat /\ DOMAIN all = 1 .. m + Len(answer)
    BY <2>1
  <2>2. ASSUME NEW type, HasPacket(all, type)
        PROVE  HasPacket(d, type) \/ (type = "ack" /\ heard)
    <3>1. PICK k \in 1 .. m + Len(answer) : all[k].type = type
      BY <2>2, <2>3 DEF HasPacket
    <3>2. CASE k <= m
      <4>1. k \in DOMAIN p /\ p[k].type = type
        <5>1. k \in 1 .. m /\ all[k] = p[k]
          BY <1>9, <2>1, <3>1, <3>2
        <5>2. DOMAIN p = 1 .. m
          BY <2>1 DEF m
        <5> QED BY <3>1, <5>1, <5>2
      <4>2. HasPacket(p, type)
        BY <4>1 DEF HasPacket
      <4> QED BY <1>8, <4>2 DEF p
    <3>3. CASE ~(k <= m)
      <4>1. k - m \in 1 .. Len(answer) /\ all[k] = answer[k - m]
        <5> DEFINE j == Len(answer)
        <5>1. m \in Nat /\ j \in Nat /\ k \in 1 .. m + j
          BY <1>9, <2>1
        <5> HIDE DEF j
        <5>2. k - m \in 1 .. j
          BY <3>3, <5>1
        <5>3. all[k] = answer[k - m]
          BY <2>1, <3>3
        <5> QED BY <5>2, <5>3 DEF j
      <4>2. all[k] = ack /\ heard
        BY <1>9, <4>1
      <4> QED BY <1>3, <3>1, <4>2
    <3> QED BY <3>2, <3>3
  <2> QED BY <2>1, <2>2
<1> HIDE DEF all, u
<1>12. tx'.packets = all /\ tx' = CtrlTx(tx'.packets)
  BY <1>10, <1>11, CtrlTxFields
<1>13. /\ ConnSound' /\ (ReadNothing => ReadNothing')
       /\ \A type : ~Underway(type) /\ ~HasPacket(d, type) /\ ~HasPacket(tx'.packets, type)
                      => ~Underway(type)'
  BY <1>1, <1>2, <1>6, <1>10, <1>11, <1>12, FALSE \in BOOLEAN, RequestStep
<1>14. LinkSound'
  BY <1>1 DEF HandshakeInv, LinkSound, wispVars
<1>15. (Fresh' <=> Fresh) /\ (OnlyOpens' <=> OnlyOpens) /\ (Connected' <=> Connected)
       /\ opens' = opens /\ cUp' = cUp /\ cDown' = cDown
  BY <1>1 DEF wispVars, Fresh, OnlyOpens, Connected
<1>16. OpenDone
  BY <1>1, Kinds DEF HandshakeInv, Unknown, OpenSent
<1>17. ~Underway("open")'
  <2>1. ~HasPacket(c, "open")
    BY <1>16 DEF OpenDone, Underway, c
  <2>2. ~HasPacket(d, "open") /\ ~HasPacket(all, "open")
    BY <1>5, <1>11, <2>1
  <2> QED BY <1>12, <1>13, <1>16, <2>2 DEF OpenDone
<1>18. Unheard => Unheard'
  <2> SUFFICES ASSUME Unheard PROVE Unheard'
    OBVIOUS
  <2>1. ~HasPacket(c, "ack") /\ ~Underway("ack") /\ ReadNothing /\ Fresh
    BY DEF Unheard, Underway, c
  <2>2. ~heard
    <3>1. CASE ok
      <4>1. opspec.data = <<FALSE>>
        BY <1>1, <2>1, <3>1 DEF ReadNothing
      <4>2. Head(<<FALSE>>) = FALSE
        BY HeadOfOne
      <4>3. Head(opspec.data) = FALSE
        BY <4>1, <4>2
      <4> QED BY <4>3, Zenon DEF heard
    <3>2. CASE ~ok
      BY <3>2 DEF heard
    <3> QED BY <3>1, <3>2
  <2>3. ~HasPacket(d, "ack") /\ ~HasPacket(all, "ack")
    BY <1>5, <1>11, <2>1, <2>2
  <2> QED BY <1>12, <1>13, <1>15, <2>1, <2>3 DEF Unheard
<1>19. OpenDone'
  BY <1>1, <1>15, <1>16, <1>17, <1>18 DEF OpenDone
<1> QED BY <1>13, <1>14, <1>19 DEF HandshakeInv

-----------------------------------------------------------------------------
(* The theorems.                                                            *)

\* Any step.
LEMMA HandshakeStep == HandshakeInv /\ [Next]_vars => HandshakeInv'
<1> SUFFICES ASSUME HandshakeInv, [Next]_vars PROVE HandshakeInv'
  OBVIOUS
<1>1. CASE Restart
  BY <1>1, RestartKeeps
<1>2. CASE UpdateEpc
  BY <1>2, UpdateEpcKeeps
<1>3. CASE \E n \in 1 .. 2 : WispSend(n)
  BY <1>3, WispSendKeeps
<1>4. CASE SeeEpc
  <2>1. Unknown \/ Connected
    BY DEF HandshakeInv, OpenSent, OpenDone
  <2> QED BY <1>4, <2>1, SeeEpcUnknown, SeeEpcKnown
<1>5. CASE BlockWrite
  BY <1>5, BlockWriteKeeps
<1>6. CASE Read
  BY <1>6, ReadKeeps
<1>7. CASE \E ok \in BOOLEAN : WriteEnds(ok)
  BY <1>7, WriteEndsKeeps
<1>8. CASE \E ok \in BOOLEAN : ReadEnds(ok)
  BY <1>8, ReadEndsKeeps
<1>9. CASE UNCHANGED vars
  <2>1. UNCHANGED <<connVars, wispVars, serverVars, histVars>>
    BY <1>9 DEF vars
  <2>2. ConnSound' /\ LinkSound'
    BY <2>1 DEF HandshakeInv, ConnSound, LinkSound, connVars, wispVars, serverVars, histVars
  <2>3. /\ (Fresh' <=> Fresh) /\ (OnlyOpens' <=> OnlyOpens) /\ (Connected' <=> Connected)
        /\ (NoneLost' <=> NoneLost) /\ (ReadNothing' <=> ReadNothing)
        /\ (Underway("ack")' <=> Underway("ack")) /\ (Underway("open")' <=> Underway("open"))
    BY <2>1 DEF Fresh, OnlyOpens, Connected, NoneLost, ReadNothing, Underway, connVars, wispVars,
                serverVars, histVars
  <2>4. Unknown => Unknown'
    BY <2>1, <2>3 DEF Unknown, connVars, serverVars
  <2>5. OpenSent => OpenSent'
    BY <2>1, <2>3 DEF OpenSent, connVars, serverVars
  <2>6. OpenDone => OpenDone'
    BY <2>1, <2>3 DEF OpenDone, Unheard, wispVars, serverVars, histVars
  <2> QED BY <2>2, <2>4, <2>5, <2>6 DEF HandshakeInv
<1> QED BY <1>1, <1>2, <1>3, <1>4, <1>5, <1>6, <1>7, <1>8, <1>9 DEF Next

\* The handshake is in one of three phases: the server does not know the WISP, its
\* OPEN is with the reader, or it was carried out or lost for good.
THEOREM HandshakeInvariant == Spec => []HandshakeInv
BY HandshakeInit, HandshakeStep, PTL DEF Spec

\* The types of all variables of the handshake.
THEOREM HandshakeTyped == Spec => []TypeOK
<1>1. HandshakeInv => TypeOK
  <2> SUFFICES ASSUME HandshakeInv PROVE TypeOK
    OBVIOUS
  <2>1. sent \in 0 .. Len(MsgSize)
    BY MessageSizes DEF HandshakeInv, ConnSound
  <2>2. tx \in TxType
    BY CtrlTxFields DEF HandshakeInv, ConnSound
  <2>3. opspec.kind \in {"none", "read", "write"} /\ opspec.done \in BOOLEAN
    <3>1. CASE opspec = NoOpSpec
      BY <3>1, Kinds
    <3>2. CASE opspec \in CtrlWrite
      <4>1. opspec.done \in BOOLEAN
        BY <3>2 DEF CtrlWrite
      <4> QED BY <3>2, <4>1, Kinds
    <3>3. CASE opspec \in AnyRead
      <4>1. opspec.done \in BOOLEAN
        BY <3>3 DEF AnyRead
      <4> QED BY <3>3, <4>1, Kinds
    <3> QED BY <3>1, <3>2, <3>3 DEF HandshakeInv, ConnSound
  <2>4. sendDeferreds \in Seq(Message) /\ resolved \in Seq(Message)
    BY DEF HandshakeInv, ConnSound
  <2>5. ConnTypeOK
    BY <2>1, <2>2, <2>3, <2>4 DEF HandshakeInv, ConnSound, ConnTypeOK
  <2>6. opens \in 0 .. 2 /\ connects \in 0 .. 1
    BY DEF HandshakeInv, Unknown, OpenSent, OpenDone, Fresh, Connected
  <2> QED BY <2>5, <2>6 DEF HandshakeInv, LinkSound, TypeOK
<1> QED BY <1>1, HandshakeInvariant, PTL

\* A side takes its link as opened only if the other side does; with no restart the
\* WISP opens both at once and calls ert_on_connect once, and the server opens the
\* downlink after it (wtp_handle_ack, wtp_handle_open, _handle_open, _handle_ack).
THEOREM AlwaysOpenedTogether == Spec => []OpenedTogether
<1>1. HandshakeInv => OpenedTogether
  BY DEF HandshakeInv, Unknown, OpenSent, OpenDone, Unheard, Fresh, Connected, OpenedTogether
<1> QED BY <1>1, HandshakeInvariant, PTL

\* A WISP whose OPEN was lost, or that restarted while the server had nothing under way
\* for it, stays unopened for ever: nothing of the handshake is repeated.
THEOREM NeverOpenedAgain == Spec => []NeverReopened
<1>1. HandshakeInv => NeverReopened
  BY DEF HandshakeInv, Unknown, OpenSent, OpenDone, Unheard, Fresh, NoneLost, NeverReopened
<1> QED BY <1>1, HandshakeInvariant, PTL
=============================================================================
