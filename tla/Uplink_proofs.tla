---------------------------- MODULE Uplink_proofs ----------------------------
(***************************************************************************)
(* The uplink, for all windows, messages, buffer sizes and losses.         *)
(*                                                                         *)
(* UplinkInv is inductive.  Its last part, OrderInv, puts in one order     *)
(* what the two ends and the packets between them say about the stream of  *)
(* bytes: from what the WISP takes as acknowledged, over the numbers of    *)
(* the ACKs that wait to be written, what the server has assembled, the    *)
(* fragment that the reader brings and the one in the Read memory, to the  *)
(* end of what is cut, not more than a window on.  It holds only while     *)
(* the trouble so far leaves the arena in order (Intact): a message whose  *)
(* data goes to the beginning of the arena can be written over the size of *)
(* one that is still being cut, and then the WISP's numbers mean nothing.  *)
(*                                                                         *)
(* The parts: distances of sequence numbers; the WISP's transmit control   *)
(* and its Read memory, operator by operator; the ACKs and the BlockWrite  *)
(* that brings them; the connection, which drops and repeats control       *)
(* packets but keeps their order; the server's receive control; and a      *)
(* lemma for each action.                                                  *)
(***************************************************************************)
EXTENDS Uplink, SequenceTheorems, TLAPS

-----------------------------------------------------------------------------
(* Sequence numbers.                                                        *)

\* The sequence number of position x in the stream.
At(x) == x % SeqSpace

\* The window is smaller than the space of sequence numbers.
LEMMA SeqSpaceSize == SeqSpace \in Nat \ {0} /\ Window \in Nat \ {0} /\ Window < SeqSpace
BY WindowAssumption

\* ... which are the positions themselves before the first wrap ...
LEMMA AtSmall == ASSUME NEW x \in 0 .. SeqSpace - 1 PROVE At(x) = x
BY SeqSpaceSize DEF At

\* ... and are the same after any number of wraps.
LEMMA AtMultiple ==
  ASSUME NEW x \in Int, NEW q \in Int PROVE At(SeqSpace * q + x) = At(x)
<1> DEFINE r == x % SeqSpace
           p == x \div SeqSpace
<1>1. r \in 0 .. SeqSpace - 1 /\ p \in Int /\ x = SeqSpace * p + r
  BY SeqSpaceSize
<1> HIDE DEF r, p
<1>2. SeqSpace * q + x = SeqSpace * (q + p) + r
  BY <1>1, SeqSpaceSize
<1>3. (SeqSpace * (q + p) + r) % SeqSpace = r
  BY <1>1, SeqSpaceSize
<1> QED BY <1>2, <1>3 DEF At, r

\* Numbers that are counted on from numbers.
LEMMA AtShift ==
  ASSUME NEW x \in Int, NEW y \in Int
  PROVE  SeqAdd(At(x), y) = At(x + y) /\ SeqSub(At(x), At(y)) = At(x - y)
<1> DEFINE r == At(x)
           p == x \div SeqSpace
           s == At(y)
           q == y \div SeqSpace
<1>1. r \in 0 .. SeqSpace - 1 /\ p \in Int /\ x = SeqSpace * p + r
  BY SeqSpaceSize DEF At
<1>2. s \in 0 .. SeqSpace - 1 /\ q \in Int /\ y = SeqSpace * q + s
  BY SeqSpaceSize DEF At
<1> HIDE DEF r, p, s, q
<1>3. x + y = SeqSpace * p + (r + y)
  BY <1>1, SeqSpaceSize
<1>4. x - y = SeqSpace * (p - q) + (r - s)
  BY <1>1, <1>2, SeqSpaceSize
<1>5. At(x + y) = At(r + y) /\ At(x - y) = At(r - s)
  BY <1>1, <1>2, <1>3, <1>4, AtMultiple
<1> QED BY <1>5 DEF At, SeqAdd, SeqSub, r, s

-----------------------------------------------------------------------------
(* Distances of sequence numbers.                                           *)

\* A distance is less than SeqSpace, and so is a sum a number.
LEMMA Distances ==
  ASSUME NEW a \in Int, NEW x \in Int
  PROVE  SeqSub(x, a) \in 0 .. SeqSpace - 1 /\ SeqAdd(x, a) \in 0 .. SeqSpace - 1
BY SeqSpaceSize DEF SeqSub, SeqAdd

\* From a number on the way, the rest of the way is left.
LEMMA RestOfTheWay ==
  ASSUME NEW a \in Int, NEW s \in Int, NEW x \in Int, SeqSub(s, a) <= SeqSub(x, a)
  PROVE  SeqSub(x, s) = SeqSub(x, a) - SeqSub(s, a)
<1> DEFINE dx == SeqSub(x, a)
           ds == SeqSub(s, a)
           p  == (x - a) \div SeqSpace
           q  == (s - a) \div SeqSpace
<1>1. dx \in 0 .. SeqSpace - 1 /\ ds \in 0 .. SeqSpace - 1 /\ ds <= dx
  BY Distances
<1>2. p \in Int /\ x - a = SeqSpace * p + dx
  BY SeqSpaceSize DEF SeqSub
<1>3. q \in Int /\ s - a = SeqSpace * q + ds
  BY SeqSpaceSize DEF SeqSub
<1> HIDE DEF dx, ds, p, q
<1>4. x - s = SeqSpace * (p - q) + (dx - ds)
  BY <1>1, <1>2, <1>3, SeqSpaceSize
<1>5. dx - ds \in 0 .. SeqSpace - 1 /\ dx - ds \in Int /\ p - q \in Int
  BY <1>1, <1>2, <1>3, SeqSpaceSize
<1>6. At(x - s) = dx - ds
  BY <1>4, <1>5, AtMultiple, AtSmall
<1> QED BY <1>6 DEF At, SeqSub, dx, ds

\* A step that does not go round adds to the distance.
LEMMA OneStepOn ==
  ASSUME NEW a \in Int, NEW x \in Int, NEW n \in Nat, SeqSub(x, a) + n < SeqSpace
  PROVE  SeqSub(SeqAdd(x, n), a) = SeqSub(x, a) + n
<1> DEFINE d == SeqSub(x, a)
           p == (x - a) \div SeqSpace
           q == (x + n) \div SeqSpace
           y == SeqAdd(x, n)
<1>1. d \in 0 .. SeqSpace - 1 /\ y \in 0 .. SeqSpace - 1 /\ d + n < SeqSpace
  BY Distances
<1>2. p \in Int /\ x - a = SeqSpace * p + d
  BY SeqSpaceSize DEF SeqSub
<1>3. q \in Int /\ x + n = SeqSpace * q + y
  BY SeqSpaceSize DEF SeqAdd
<1> HIDE DEF d, p, q, y
<1>4. y - a = SeqSpace * (p - q) + (d + n)
  BY <1>1, <1>2, <1>3, SeqSpaceSize
<1>5. d + n \in 0 .. SeqSpace - 1 /\ p - q \in Int
  BY <1>1, <1>2, <1>3, SeqSpaceSize
<1>6. At(y - a) = d + n
  BY <1>4, <1>5, AtMultiple, AtSmall
<1> QED BY <1>6 DEF At, SeqSub, d, y

\* What is left of the window.
LEMMA WindowRest ==
  ASSUME NEW a \in Int, NEW x \in Int, SeqSub(x, a) <= Window
  PROVE  SeqSub(a + Window, x) = Window - SeqSub(x, a)
<1> DEFINE d == SeqSub(x, a)
           p == (x - a) \div SeqSpace
<1>1. d \in 0 .. SeqSpace - 1 /\ d <= Window
  BY Distances
<1>2. p \in Int /\ x - a = SeqSpace * p + d
  BY SeqSpaceSize DEF SeqSub
<1> HIDE DEF d, p
<1>3. (a + Window) - x = SeqSpace * (- p) + (Window - d)
  BY <1>1, <1>2, SeqSpaceSize
<1>4. Window - d \in 0 .. SeqSpace - 1 /\ - p \in Int
  BY <1>1, <1>2, SeqSpaceSize
<1>5. At((a + Window) - x) = Window - d
  BY <1>3, <1>4, AtMultiple, AtSmall
<1> QED BY <1>5 DEF At, SeqSub, d

\* A sum may be taken modulo SeqSpace first.
LEMMA SumOrNumber ==
  ASSUME NEW a \in Int, NEW x \in Int, NEW y \in Int
  PROVE  SeqSub(SeqAdd(x, y), a) = SeqSub(x + y, a)
<1> DEFINE z == SeqAdd(x, y)
           q == (x + y) \div SeqSpace
<1>1. z \in 0 .. SeqSpace - 1
  BY Distances
<1>2. q \in Int /\ x + y = SeqSpace * q + z
  BY SeqSpaceSize DEF SeqAdd
<1> HIDE DEF q, z
<1>3. (x + y) - a = SeqSpace * q + (z - a)
  BY <1>1, <1>2, SeqSpaceSize
<1>4. At((x + y) - a) = At(z - a)
  BY <1>1, <1>2, <1>3, AtMultiple
<1> QED BY <1>4 DEF At, SeqSub, z

-----------------------------------------------------------------------------
(* The least of numbers.                                                    *)

\* A fragment is as long as the smallest of three bounds.
LEMMA MinOfThree ==
  ASSUME NEW x \in Int, NEW y \in Int, NEW z \in Int
  PROVE  LET m == Min({x, y, z})
         IN m \in {x, y, z} /\ m <= x /\ m <= y /\ m <= z
<1> DEFINE T == {x, y, z}
<1>1. \E m \in T : \A k \in T : m <= k
  <2>1. CASE x <= y /\ x <= z
    BY <2>1
  <2>2. CASE y <= x /\ y <= z
    BY <2>2
  <2>3. CASE z <= x /\ z <= y
    BY <2>3
  <2> QED BY <2>1, <2>2, <2>3
<1> HIDE DEF T
<1>2. Min(T) \in T /\ \A k \in T : Min(T) <= k
  BY <1>1 DEF Min
<1> QED BY <1>2 DEF T

-----------------------------------------------------------------------------
(* Buffers.                                                                 *)

\* Bytes stored in a memory of cells leave a memory of cells.
LEMMA StoreType ==
  ASSUME NEW n \in Nat, NEW C, NEW cells \in [0 .. n - 1 -> C],
         NEW at \in Nat, NEW bytes \in Seq(C)
  PROVE  Store(cells, at, bytes) \in [0 .. n - 1 -> C]
<1>1. ASSUME NEW i \in 0 .. n - 1, i \in at .. at + Len(bytes) - 1
      PROVE  bytes[i - at + 1] \in C
  <2>1. Len(bytes) \in Nat /\ i - at + 1 \in 1 .. Len(bytes)
    BY <1>1
  <2> QED BY <2>1, ElementOfSeq
<1> QED BY <1>1 DEF Store

\* The fields of a buffer.
LEMMA BufFields ==
  ASSUME NEW n \in Nat, NEW C, NEW b \in BufType(n, C)
  PROVE  /\ b.size = n /\ b.posA \in 0 .. n /\ b.posB \in 0 .. n
         /\ b.mem \in [0 .. n - 1 -> C]
BY DEF BufType

\* A buffer with its write cursor elsewhere and other bytes in it.
LEMMA BufFilled ==
  ASSUME NEW n \in Nat, NEW C, NEW b \in BufType(n, C),
         NEW m \in [0 .. n - 1 -> C], NEW j \in 0 .. n
  PROVE  LET z == [b EXCEPT !.mem = m, !.posB = j]
         IN z \in BufType(n, C) /\ z.posA = b.posA /\ z.posB = j /\ z.mem = m
<1> DEFINE z == [b EXCEPT !.mem = m, !.posB = j]
<1>1. z.posA = b.posA /\ z.posB = j /\ z.mem = m
  BY DEF BufType
<1>2. z \in BufType(n, C)
  BY DEF BufType
<1> QED BY <1>1, <1>2

\* A buffer with both cursors elsewhere.
LEMMA BufMoved ==
  ASSUME NEW n \in Nat, NEW C, NEW b \in BufType(n, C),
         NEW i \in 0 .. n, NEW j \in 0 .. n
  PROVE  LET z == [b EXCEPT !.posA = i, !.posB = j]
         IN z \in BufType(n, C) /\ z.posA = i /\ z.posB = j /\ z.mem = b.mem
<1> DEFINE z == [b EXCEPT !.posA = i, !.posB = j]
<1>1. z.posA = i /\ z.posB = j /\ z.mem = b.mem
  BY DEF BufType
<1>2. z \in BufType(n, C)
  BY DEF BufType
<1> QED BY <1>1, <1>2

\* One cursor elsewhere.
LEMMA BufMovedA ==
  ASSUME NEW n \in Nat, NEW C, NEW b \in BufType(n, C), NEW i \in 0 .. n
  PROVE  LET z == [b EXCEPT !.posA = i]
         IN z \in BufType(n, C) /\ z.posA = i /\ z.posB = b.posB /\ z.mem = b.mem
<1> DEFINE z == [b EXCEPT !.posA = i]
<1>1. z.posA = i /\ z.posB = b.posB /\ z.mem = b.mem
  BY DEF BufType
<1>2. z \in BufType(n, C)
  BY DEF BufType
<1> QED BY <1>1, <1>2

\* So with the write cursor.
LEMMA BufMovedB ==
  ASSUME NEW n \in Nat, NEW C, NEW b \in BufType(n, C), NEW j \in 0 .. n
  PROVE  LET z == [b EXCEPT !.posB = j]
         IN z \in BufType(n, C) /\ z.posA = b.posA /\ z.posB = j /\ z.mem = b.mem
<1> DEFINE z == [b EXCEPT !.posB = j]
<1>1. z.posA = b.posA /\ z.posB = j /\ z.mem = b.mem
  BY DEF BufType
<1>2. z \in BufType(n, C)
  BY DEF BufType
<1> QED BY <1>1, <1>2

\* wio_write leaves a buffer, and moves no cursor but posB.
LEMMA BufWriteType ==
  ASSUME NEW n \in Nat, NEW C, NEW b \in BufType(n, C), NEW bytes \in Seq(C)
  PROVE  LET w == BufWrite(b, bytes)
         IN /\ w.ok <=> b.posB + Len(bytes) <= n
            /\ w.buf \in BufType(n, C) /\ w.buf.posA = b.posA
            /\ w.buf.posB = IF b.posB + Len(bytes) <= n THEN b.posB + Len(bytes) ELSE b.posB
<1> DEFINE w == BufWrite(b, bytes)
           m == Store(b.mem, b.posB, bytes)
           z == [b EXCEPT !.mem = m, !.posB = b.posB + Len(bytes)]
<1>1. /\ b.size = n /\ b.posA \in 0 .. n /\ b.posB \in 0 .. n
      /\ b.mem \in [0 .. n - 1 -> C] /\ Len(bytes) \in Nat
  BY BufFields
<1>2. m \in [0 .. n - 1 -> C]
  BY <1>1, StoreType
<1>3. CanWrite(b, Len(bytes)) <=> b.posB + Len(bytes) <= n
  BY <1>1 DEF CanWrite
<1>4. CASE ~CanWrite(b, Len(bytes))
  <2>1. w = [ok |-> CanWrite(b, Len(bytes)), buf |-> b]
    BY <1>4 DEF BufWrite
  <2>2. w.buf = b /\ w.ok = CanWrite(b, Len(bytes))
    BY <2>1
  <2> HIDE DEF w
  <2> QED BY <1>1, <1>3, <1>4, <2>2 DEF w
<1>5. CASE CanWrite(b, Len(bytes))
  <2>1. w = [ok |-> CanWrite(b, Len(bytes)), buf |-> z]
    BY <1>5 DEF BufWrite
  <2>2. w.buf = z /\ w.ok = CanWrite(b, Len(bytes))
    BY <2>1
  <2> HIDE DEF w, m
  <2>3. b.posB + Len(bytes) \in 0 .. n
    BY <1>1, <1>5 DEF CanWrite
  <2>4. z \in BufType(n, C) /\ z.posA = b.posA /\ z.posB = b.posB + Len(bytes)
    <3> DEFINE j == b.posB + Len(bytes)
    <3> HIDE DEF j
    <3>1. j \in 0 .. n
      BY <2>3 DEF j
    <3>2. z = [b EXCEPT !.mem = m, !.posB = j]
      BY DEF z, j
    <3>3. [b EXCEPT !.mem = m, !.posB = j] \in BufType(n, C)
      BY <1>2, <3>1, BufFilled
    <3>4. z.posA = b.posA /\ z.posB = j
      BY <3>2 DEF BufType
    <3> HIDE DEF z
    <3>5. z \in BufType(n, C)
      BY <3>2, <3>3
    <3> QED BY <3>4, <3>5 DEF j
  <2> HIDE DEF z
  <2> QED BY <1>3, <1>5, <2>2, <2>4 DEF w
<1> QED BY <1>4, <1>5

\* wio_copy leaves both buffers buffers.
LEMMA BufCopyType ==
  ASSUME NEW m \in Nat, NEW n \in Nat, NEW C,
         NEW from \in BufType(m, C), NEW to \in BufType(n, C), NEW k \in Nat
  PROVE  LET c == BufCopy(from, to, k)
         IN /\ c.from \in BufType(m, C) /\ c.to \in BufType(n, C)
            /\ c.from.posB = from.posB
<1> DEFINE c == BufCopy(from, to, k)
           z == [from EXCEPT !.posA = from.posA + k]
           bytes == NextBytes(from, k)
<1>1. /\ from.size = m /\ from.posA \in 0 .. m /\ from.posB \in 0 .. m
      /\ from.mem \in [0 .. m - 1 -> C]
  BY BufFields
<1>2. CASE ~(CanRead(from, k) /\ CanWrite(to, k))
  <2>1. c = [from |-> from, to |-> to]
    BY <1>2 DEF BufCopy
  <2> QED BY <2>1
<1>3. CASE CanRead(from, k) /\ CanWrite(to, k)
  <2>1. from.posA + k \in 0 .. m
    BY <1>1, <1>3 DEF CanRead
  <2>2. bytes \in Seq(C)
    <3>1. \A j \in 1 .. k : from.posA + j - 1 \in 0 .. m - 1
      BY <1>1, <2>1
    <3>2. bytes = [j \in 1 .. k |-> from.mem[from.posA + j - 1]]
      BY DEF NextBytes
    <3>3. \A j \in 1 .. k : from.mem[from.posA + j - 1] \in C
      BY <1>1, <3>1
    <3> QED BY <3>2, <3>3
  <2>3. c = [from |-> z, to |-> BufWrite(to, bytes).buf]
    BY <1>3 DEF BufCopy
  <2>4. z \in BufType(m, C) /\ z.posB = from.posB
    BY <2>1, BufMovedA
  <2>5. BufWrite(to, bytes).buf \in BufType(n, C)
    <3> HIDE DEF bytes
    <3> QED BY <2>2, BufWriteType
  <2>6. c.from = z /\ c.to = BufWrite(to, bytes).buf
    BY <2>3
  <2> HIDE DEF c, z, bytes
  <2> QED BY <2>4, <2>5, <2>6 DEF c
<1> QED BY <1>2, <1>3

-----------------------------------------------------------------------------
(* The WISP's transmit control.                                             *)

\* A cell of the arena, whose second part may be taken for the size of a message.
Cell == Nat \X (0 .. TxBufSize)

CtxRecord ==
  [seq : 0 .. SeqSpace - 1, readSize : {n \in Nat : n > 6},
   buf : BufType(TxBufSize, Cell),
   beginSeq : 0 .. SeqSpace - 1, beginPos : 0 .. TxBufSize, fragmented : Nat,
   slots : [0 .. FragCap - 1 -> UpFragmentType],
   end : 0 .. FragCap - 1, count : 0 .. FragCap,
   readInfos : Seq(ReadInfoType), msgEnds : Seq(0 .. SeqSpace - 1)]

\* The transmit control with its queues within their capacities.
CtxType == {c \in CtxRecord : Len(c.readInfos) <= MsgCap /\ Len(c.msgEnds) <= MsgCap}

\* The constants of the uplink.
LEMMA UpConstants ==
  /\ TxBufSize \in Nat /\ FragCap \in Nat \ {0} /\ MsgCap \in Nat \ {0}
  /\ ReadInit \in Nat /\ ReadInit > 6 /\ Len(UpSize) \in Nat
  /\ \A i \in UpMessage : UpSize[i] \in Nat \ {0} /\ UpSize[i] <= TxBufSize
  /\ MsgSize = <<>> /\ ReadInit = WriteInit /\ WriteMin > 7
BY ClientTxAssumption, UpSizeAssumption, UplinkAssumption, RoomAssumption DEF UpMessage

\* The fields of the structure.
LEMMA CtxFields ==
  ASSUME NEW c \in CtxType
  PROVE  /\ c.seq \in 0 .. SeqSpace - 1 /\ c.readSize \in Nat /\ c.readSize > 6
         /\ c.buf \in BufType(TxBufSize, Cell)
         /\ c.beginSeq \in 0 .. SeqSpace - 1 /\ c.beginPos \in 0 .. TxBufSize
         /\ c.fragmented \in Nat
         /\ c.slots \in [0 .. FragCap - 1 -> UpFragmentType]
         /\ c.end \in 0 .. FragCap - 1 /\ c.count \in 0 .. FragCap
         /\ c.readInfos \in Seq(ReadInfoType) /\ Len(c.readInfos) <= MsgCap
         /\ c.msgEnds \in Seq(0 .. SeqSpace - 1) /\ Len(c.msgEnds) <= MsgCap
         /\ c.buf.size = TxBufSize
         /\ c.buf.posA \in 0 .. TxBufSize /\ c.buf.posB \in 0 .. TxBufSize
         /\ c.buf.mem \in [0 .. TxBufSize - 1 -> Cell]
<1>1. c \in CtxRecord
  BY DEF CtxType
<1>2. c.buf \in BufType(TxBufSize, Cell)
  BY <1>1 DEF CtxRecord
<1>3. /\ c.buf.size = TxBufSize
      /\ c.buf.posA \in 0 .. TxBufSize /\ c.buf.posB \in 0 .. TxBufSize
      /\ c.buf.mem \in [0 .. TxBufSize - 1 -> Cell]
  BY <1>2, UpConstants, BufFields
<1> QED BY <1>1, <1>3 DEF CtxRecord, CtxType

\* It is of the type that the runs check.
LEMMA CtxIsTyped ==
  ASSUME NEW c \in CtxType PROVE c \in UpTxType
<1>1. Cell \subseteq Nat \X Nat
  BY UpConstants DEF Cell
<1>2. c.buf \in BufType(TxBufSize, Nat \X Nat)
  <2>1. c.buf \in BufType(TxBufSize, Cell)
    BY CtxFields
  <2> HIDE DEF Cell
  <2> QED BY <1>1, <2>1 DEF BufType
<1> QED BY <1>2 DEF CtxType, CtxRecord, UpTxType

\* So it starts.
LEMMA NewUpTxTyped == NewUpTx \in CtxType
<1>1. BufInit(TxBufSize, Junk) \in BufType(TxBufSize, Cell)
  BY UpConstants DEF BufInit, BufType, Junk, Cell
<1>2. NoFragment \in UpFragmentType
  BY SeqSpaceSize DEF NoFragment, UpFragmentType
<1>3. [k \in 0 .. FragCap - 1 |-> NoFragment] \in [0 .. FragCap - 1 -> UpFragmentType]
  BY <1>2
<1> DEFINE b == BufInit(TxBufSize, Junk)
           f == [k \in 0 .. FragCap - 1 |-> NoFragment]
<1>4. NewUpTx = [seq |-> 0, readSize |-> ReadInit, buf |-> b, beginSeq |-> 0, beginPos |-> 0,
                 fragmented |-> 0, slots |-> f, end |-> 0, count |-> 0,
                 readInfos |-> <<>>, msgEnds |-> <<>>]
  BY DEF NewUpTx
<1>5. <<>> \in Seq(ReadInfoType) /\ <<>> \in Seq(0 .. SeqSpace - 1) /\ Len(<<>>) = 0
  OBVIOUS
<1> HIDE DEF b, f
<1>6. b \in BufType(TxBufSize, Cell) /\ f \in [0 .. FragCap - 1 -> UpFragmentType]
  BY <1>1, <1>3 DEF b, f
<1>7. NewUpTx \in CtxRecord
  BY <1>4, <1>5, <1>6, UpConstants, SeqSpaceSize DEF CtxRecord
<1>8. Len(NewUpTx.readInfos) = 0 /\ Len(NewUpTx.msgEnds) = 0
  BY <1>4, <1>5
<1> QED BY <1>7, <1>8, UpConstants DEF CtxType

-----------------------------------------------------------------------------
\* Memory keeps what a store does not reach.
LEMMA StoreElsewhere ==
  ASSUME NEW n \in Nat, NEW C, NEW m \in [0 .. n - 1 -> C], NEW at \in Nat,
         NEW bytes \in Seq(C), NEW k \in 0 .. n - 1, k < at \/ k >= at + Len(bytes)
  PROVE  Store(m, at, bytes)[k] = m[k]
<1>1. Len(bytes) \in Nat
  OBVIOUS
<1>2. k \notin at .. at + Len(bytes) - 1
  BY <1>1
<1>3. k \in DOMAIN m
  OBVIOUS
<1> QED BY <1>2, <1>3 DEF Store

\* The Reads for a message.
LEMMA ReadInfoTyped ==
  ASSUME NEW size \in Nat, NEW r \in Nat, r > 6
  PROVE  ReadInfo(size, r) \in ReadInfoType
<1>1. size \div (r - 6) \in Nat
  OBVIOUS
<1>2. ReadsNeeded(size, r) \in Nat \ {0}
  BY <1>1 DEF ReadsNeeded
<1> HIDE DEF ReadsNeeded
<1> QED BY <1>2 DEF ReadInfo, ReadInfoType

\* A new message in the arena.
LEMMA AddMsgTyped ==
  ASSUME NEW c \in CtxType, NEW i \in UpMessage
  PROVE  LET a == TxAddMsg(c, i)
         IN /\ a.tx \in CtxType /\ a.ok \in BOOLEAN
            /\ a.ok => Last(a.tx.readInfos) \in ReadInfoType
            /\ a.tx.seq = c.seq /\ a.tx.beginSeq = c.beginSeq
            /\ a.tx.beginPos = c.beginPos /\ a.tx.fragmented = c.fragmented
            /\ a.ok /\ ~Straddles(c, i) =>
                 /\ a.tx.buf.posB = c.buf.posB + 2 + UpSize[i] /\ a.tx.buf.posB <= TxBufSize
                 /\ a.tx.buf.mem[c.buf.posB][2] = UpSize[i]
                 /\ \A k \in 0 .. c.buf.posB - 1 : a.tx.buf.mem[k] = c.buf.mem[k]
<1> DEFINE a == TxAddMsg(c, i)
           n == UpSize[i]
           b == c.buf
           cells == SizeCells(n)
           head == BufWrite(b, cells)
           full == Len(c.readInfos) >= MsgCap
           bytes == UpBytes(i)
           data == AllocStore(head.buf, bytes)
           pos == AllocPos(head.buf, n)
           infos == IF full THEN c.readInfos ELSE Append(c.readInfos, ReadInfo(n, c.readSize))
<1>1. /\ n \in Nat \ {0} /\ n <= TxBufSize /\ TxBufSize \in Nat
      /\ b \in BufType(TxBufSize, Cell) /\ b.size = TxBufSize
      /\ b.posB \in 0 .. TxBufSize /\ b.mem \in [0 .. TxBufSize - 1 -> Cell]
  BY UpConstants, CtxFields
<1>2. cells \in Seq(Cell) /\ Len(cells) = 2 /\ cells[1] = <<0, n>>
  <2>1. <<0, n>> \in Cell
    BY <1>1 DEF Cell
  <2> HIDE DEF n
  <2> QED BY <2>1 DEF SizeCells
<1>3. bytes \in Seq(Cell) /\ Len(bytes) = n
  <2>1. ASSUME NEW k \in 1 .. n PROVE <<i, k - 1>> \in Cell
    <3>1. i \in Nat /\ k - 1 \in 0 .. TxBufSize
      <4>1. i \in Nat
        BY DEF UpMessage
      <4> QED BY <1>1, <4>1
    <3> QED BY <3>1 DEF Cell
  <2>2. bytes = [k \in 1 .. n |-> <<i, k - 1>>]
    BY DEF UpBytes
  <2> HIDE DEF bytes, n, Cell
  <2> QED BY <1>1, <2>1, <2>2
<1> HIDE DEF cells, bytes, n, Cell, b
<1>4. /\ head.buf \in BufType(TxBufSize, Cell)
      /\ head.ok <=> b.posB + 2 <= TxBufSize
      /\ head.ok => head.buf.posB = b.posB + 2 /\ head.buf.mem = Store(b.mem, b.posB, cells)
  <2>1. LET w == BufWrite(b, cells)
        IN /\ w.ok <=> b.posB + Len(cells) <= TxBufSize
           /\ w.buf \in BufType(TxBufSize, Cell)
           /\ w.buf.posB = IF b.posB + Len(cells) <= TxBufSize THEN b.posB + Len(cells) ELSE b.posB
    BY <1>1, <1>2, BufWriteType
  <2>2. ASSUME head.ok PROVE head.buf.mem = Store(b.mem, b.posB, cells)
    <3>1. head.buf = [b EXCEPT !.mem = Store(@, b.posB, cells), !.posB = @ + Len(cells)]
      BY <2>2 DEF BufWrite
    <3> HIDE DEF head
    <3> QED BY <1>1, <3>1 DEF BufType
  <2> HIDE DEF head
  <2> QED BY <1>2, <2>1, <2>2 DEF head
<1>5. head.ok \in BOOLEAN
  BY DEF BufWrite, CanWrite
<1> HIDE DEF head
<1>6. /\ head.buf.size = TxBufSize /\ head.buf.posB \in 0 .. TxBufSize
      /\ head.buf.mem \in [0 .. TxBufSize - 1 -> Cell]
  BY <1>1, <1>4, BufFields
<1>7. /\ pos \in Nat /\ pos + n \in 0 .. TxBufSize
      /\ head.buf.posB + n < TxBufSize => pos = head.buf.posB
  BY <1>1, <1>6 DEF AllocPos
<1> HIDE DEF pos
<1> DEFINE mem2 == Store(head.buf.mem, pos, bytes)
<1>8. mem2 \in [0 .. TxBufSize - 1 -> Cell]
  BY <1>1, <1>3, <1>6, <1>7, StoreType
<1>9. data = [head.buf EXCEPT !.mem = mem2, !.posB = pos + n]
  BY <1>3, <1>4, <1>6 DEF AllocStore, pos, BufType
<1> HIDE DEF data
<1>10. data \in BufType(TxBufSize, Cell) /\ data.posB = pos + n /\ data.mem = mem2
  <2> DEFINE j == pos + n
  <2> HIDE DEF mem2, j
  <2> DEFINE h == head.buf
  <2>1. j \in 0 .. TxBufSize /\ data = [h EXCEPT !.mem = mem2, !.posB = j]
    BY <1>7, <1>9 DEF j
  <2>2. TxBufSize \in Nat /\ h \in BufType(TxBufSize, Cell)
        /\ mem2 \in [0 .. TxBufSize - 1 -> Cell]
    BY <1>1, <1>4, <1>8
  <2> HIDE DEF h
  <2>3. data \in BufType(TxBufSize, Cell)
    <3>1. [h EXCEPT !.mem = mem2, !.posB = j] \in BufType(TxBufSize, Cell)
      BY <2>1, <2>2, BufFilled
    <3> QED BY <2>1, <3>1
  <2>4. data.posB = j /\ data.mem = mem2
    BY <2>1, <2>2 DEF BufType
  <2> QED BY <2>3, <2>4 DEF j
<1>11. infos \in Seq(ReadInfoType) /\ Len(infos) <= MsgCap
       /\ (~full => Last(infos) \in ReadInfoType)
  <2>1. ReadInfo(n, c.readSize) \in ReadInfoType
    BY <1>1, CtxFields, ReadInfoTyped
  <2> DEFINE r == ReadInfo(n, c.readSize)
             s == c.readInfos
  <2> HIDE DEF r
  <2>2. s \in Seq(ReadInfoType) /\ r \in ReadInfoType /\ Len(s) <= MsgCap /\ Len(s) \in Nat
    BY <2>1, CtxFields DEF r
  <2>3. Append(s, r) \in Seq(ReadInfoType) /\ Len(Append(s, r)) = Len(s) + 1
        /\ Last(Append(s, r)) = r
    BY <2>2 DEF Last
  <2>4. infos = IF full THEN s ELSE Append(s, r)
    BY DEF r
  <2> HIDE DEF infos, s
  <2> QED BY <2>2, <2>3, <2>4, UpConstants DEF s
<1>12. CASE ~head.ok
  <2>1. a = [ok |-> FALSE, tx |-> c]
    BY <1>12 DEF TxAddMsg, head, cells, n, b
  <2> QED BY <2>1
<1>13. CASE head.ok
  <2>1. a = [ok |-> ~full, tx |-> [c EXCEPT !.buf = data, !.readInfos = infos]]
    <3>1. [c EXCEPT !.buf = data, !.readInfos = infos]
            = [c EXCEPT !.buf = data,
                        !.readInfos = IF full THEN @
                          ELSE Append(@, ReadInfo(UpSize[i], c.readSize))]
      BY DEF CtxType, CtxRecord, n
    <3> QED BY <1>13, <3>1 DEF TxAddMsg, head, cells, n, b, data, bytes
  <2> DEFINE d == [c EXCEPT !.buf = data, !.readInfos = infos]
  <2> HIDE DEF infos, mem2
  <2>2. d \in CtxRecord
    BY <1>10, <1>11 DEF CtxType, CtxRecord
  <2>3. /\ d.buf = data /\ d.readInfos = infos /\ d.msgEnds = c.msgEnds /\ d.seq = c.seq
        /\ d.beginSeq = c.beginSeq /\ d.beginPos = c.beginPos /\ d.fragmented = c.fragmented
    BY DEF CtxType, CtxRecord
  <2> HIDE DEF d
  <2>4. d \in CtxType
    BY <1>11, <2>2, <2>3, CtxFields DEF CtxType
  <2>5. a.tx = d /\ a.ok = ~full
    BY <2>1 DEF d
  <2>6. ASSUME ~Straddles(c, i)
        PROVE  /\ data.posB = b.posB + 2 + n /\ data.posB <= TxBufSize
               /\ data.mem[b.posB][2] = n
               /\ \A k \in 0 .. b.posB - 1 : data.mem[k] = b.mem[k]
    <3>1. b.posB + 2 + n < TxBufSize
      BY <1>1, <2>6 DEF Straddles, b, n
    <3>2. pos = b.posB + 2 /\ pos + n <= TxBufSize /\ head.buf.mem = Store(b.mem, b.posB, cells)
      BY <1>1, <1>4, <1>7, <1>13, <3>1
    <3>3. ASSUME NEW k \in 0 .. b.posB + 1 PROVE mem2[k] = head.buf.mem[k]
      <4>1. k \in 0 .. TxBufSize - 1 /\ k < pos
        BY <1>1, <3>1, <3>2
      <4> DEFINE m == head.buf.mem
      <4>2. m \in [0 .. TxBufSize - 1 -> Cell] /\ TxBufSize \in Nat
        BY <1>1, <1>6
      <4> HIDE DEF m
      <4>3. pos \in Nat /\ bytes \in Seq(Cell)
        BY <1>3, <1>7
      <4>4. Store(m, pos, bytes)[k] = m[k]
        BY <4>1, <4>2, <4>3, StoreElsewhere
      <4> QED BY <4>4 DEF mem2, m
    <3>4. ASSUME NEW k \in 0 .. b.posB - 1 PROVE head.buf.mem[k] = b.mem[k]
      <4>1. k \in 0 .. TxBufSize - 1 /\ k < b.posB /\ b.posB \in Nat
        BY <1>1, <3>1
      <4>2. Store(b.mem, b.posB, cells)[k] = b.mem[k]
        BY <1>1, <1>2, <4>1, StoreElsewhere
      <4> QED BY <3>2, <4>2
    <3>5. head.buf.mem[b.posB] = <<0, n>>
      <4>1. b.posB \in 0 .. TxBufSize - 1 /\ b.posB \in b.posB .. b.posB + Len(cells) - 1
            /\ b.posB - b.posB + 1 = 1
        BY <1>1, <1>2, <3>1
      <4>2. Store(b.mem, b.posB, cells)[b.posB] = cells[b.posB - b.posB + 1]
        BY <1>1, <4>1 DEF Store
      <4> QED BY <1>2, <3>2, <4>1, <4>2
    <3>6. mem2[b.posB] = <<0, n>> /\ \A k \in 0 .. b.posB - 1 : mem2[k] = b.mem[k]
      <4>1. b.posB \in 0 .. b.posB + 1 /\ \A k \in 0 .. b.posB - 1 : k \in 0 .. b.posB + 1
        BY <1>1
      <4> QED BY <3>3, <3>4, <3>5, <4>1
    <3> QED BY SMTT(30), <1>1, <1>10, <3>1, <3>2, <3>6
  <2>7. a.ok => Last(a.tx.readInfos) \in ReadInfoType
    BY <1>11, <2>3, <2>5
  <2>8. a.ok \in BOOLEAN
    BY <2>5
  <2> HIDE DEF a, full
  <2> QED BY <2>3, <2>4, <2>5, <2>6, <2>7, <2>8 DEF b, n, a
<1> QED BY <1>5, <1>12, <1>13

-----------------------------------------------------------------------------
(* Fragments.                                                               *)

\* The sequence number up to which everything is cut.
CutEnd(c) == SeqAdd(c.beginSeq, c.fragmented)

\* The first n messages lie in the arena one behind the other, message j at at[j], and
\* the one that is being cut is one of them, or the next to come.
ArenaSound(c, n) ==
  \E at \in [1 .. n + 1 -> 0 .. TxBufSize] :
    /\ at[n + 1] = c.buf.posB
    /\ \A j \in 1 .. n : /\ at[j] < c.buf.posB /\ at[j + 1] = at[j] + 2 + UpSize[j]
                         /\ c.buf.mem[at[j]][2] = UpSize[j]
    /\ \E k \in 1 .. n + 1 : /\ c.beginPos = at[k]
                             /\ c.fragmented <= IF k <= n THEN UpSize[k] ELSE 0

\* The size of a message is a size whatever lies there.
LEMMA SizeRead ==
  ASSUME NEW c \in CtxType, NEW p \in 0 .. TxBufSize - 1
  PROVE  c.buf.mem[p][2] \in 0 .. TxBufSize
<1>1. c.buf.mem[p] \in Cell
  BY CtxFields
<1> QED BY <1>1 DEF Cell

\* Where wio_free leaves the read cursor.
LEMMA FreedPos ==
  ASSUME NEW c \in CtxType, NEW p \in 0 .. TxBufSize, NEW n \in 0 .. TxBufSize
  PROVE  /\ FreeFrom(c.buf, p, n) \in 0 .. TxBufSize
         /\ p + n <= TxBufSize => FreeFrom(c.buf, p, n) = p + n
<1>1. c.buf.size = TxBufSize /\ TxBufSize \in Nat
  BY CtxFields, UpConstants
<1> QED BY <1>1 DEF FreeFrom

\* Leaving a message that is cut completely keeps the end of what is cut.
LEMMA NextMessageSound ==
  ASSUME NEW c \in CtxType, c.beginPos # c.buf.posB, c.beginPos + 2 <= TxBufSize
  PROVE  LET t == NextMessage(c)
         IN /\ t \in CtxType /\ t.seq = c.seq /\ t.buf = c.buf /\ t.readInfos = c.readInfos
            /\ t.count = c.count
            /\ t.fragmented = 0 \/ (t = c /\ c.fragmented < c.buf.mem[c.beginPos][2])
            /\ \A n \in 0 .. Len(UpSize) : ArenaSound(c, n) =>
                 ArenaSound(t, n) /\ CutEnd(t) = CutEnd(c)
<1> DEFINE t == NextMessage(c)
           size == c.buf.mem[c.beginPos][2]
           pos == FreeFrom(c.buf, c.beginPos + 2, size)
           s == SeqAdd(c.beginSeq, size)
           d == [c EXCEPT !.beginSeq = s, !.fragmented = 0, !.beginPos = pos]
<1>1. /\ c.beginPos \in 0 .. TxBufSize - 1 /\ TxBufSize \in Nat
      /\ c.beginSeq \in 0 .. SeqSpace - 1 /\ c.fragmented \in Nat
      /\ c.beginPos + 2 \in 0 .. TxBufSize /\ c.buf.posB \in 0 .. TxBufSize
  BY CtxFields, UpConstants
<1>2. size \in 0 .. TxBufSize
  BY <1>1, SizeRead
<1>3. pos \in 0 .. TxBufSize /\ s \in 0 .. SeqSpace - 1
      /\ (c.beginPos + 2 + size <= TxBufSize => pos = c.beginPos + 2 + size)
  <2> DEFINE p == c.beginPos + 2
  <2>1. p \in 0 .. TxBufSize
    BY <1>1
  <2> HIDE DEF p
  <2>2. FreeFrom(c.buf, p, size) \in 0 .. TxBufSize
        /\ (p + size <= TxBufSize => FreeFrom(c.buf, p, size) = p + size)
    BY <1>2, <2>1, FreedPos
  <2>3. s \in 0 .. SeqSpace - 1
    <3>1. c.beginSeq \in Int /\ size \in Int
      BY <1>1, <1>2, SeqSpaceSize
    <3> QED BY <3>1, Distances
  <2> QED BY <2>2, <2>3 DEF p
<1>4. CASE c.fragmented < size
  <2>1. t = c
    BY <1>4 DEF NextMessage
  <2> HIDE DEF t
  <2> QED BY <1>4, <2>1 DEF t
<1>5. CASE ~(c.fragmented < size)
  <2>1. t = d
    BY <1>5 DEF NextMessage, CtxType, CtxRecord
  <2> HIDE DEF s, pos
  <2>2. d \in CtxRecord
    BY <1>3 DEF CtxType, CtxRecord
  <2>3. /\ d.readInfos = c.readInfos /\ d.msgEnds = c.msgEnds /\ d.seq = c.seq
        /\ d.buf = c.buf /\ d.beginSeq = s /\ d.beginPos = pos /\ d.fragmented = 0
        /\ d.count = c.count
    BY DEF CtxType, CtxRecord
  <2> HIDE DEF d, t, size
  <2>4. d \in CtxType
    BY <2>2, <2>3, CtxFields DEF CtxType
  <2>5. ASSUME NEW n \in 0 .. Len(UpSize), ArenaSound(c, n)
        PROVE  ArenaSound(d, n) /\ CutEnd(d) = CutEnd(c)
    <3>1. PICK at \in [1 .. n + 1 -> 0 .. TxBufSize] :
            /\ at[n + 1] = c.buf.posB
            /\ \A j \in 1 .. n : /\ at[j] < c.buf.posB /\ at[j + 1] = at[j] + 2 + UpSize[j]
                                 /\ c.buf.mem[at[j]][2] = UpSize[j]
            /\ \E k \in 1 .. n + 1 : /\ c.beginPos = at[k]
                                     /\ c.fragmented <= IF k <= n THEN UpSize[k] ELSE 0
      BY <2>5 DEF ArenaSound
    <3>2. PICK k \in 1 .. n + 1 : /\ c.beginPos = at[k]
                                  /\ c.fragmented <= IF k <= n THEN UpSize[k] ELSE 0
      BY <3>1
    <3>11. n \in Nat /\ n <= Len(UpSize) /\ Len(UpSize) \in Nat /\ k \in Nat
      BY UpConstants
    <3>3. k \in 1 .. n
      <4>1. at[n + 1] = c.buf.posB
        BY <3>1
      <4>2. k # n + 1
        BY <3>2, <4>1
      <4> QED BY <3>11, <4>2
    <3>4. size = UpSize[k] /\ at[k + 1] = at[k] + 2 + UpSize[k] /\ k + 1 \in 1 .. n + 1
      <4>1. /\ at[k] < c.buf.posB /\ at[k + 1] = at[k] + 2 + UpSize[k]
            /\ c.buf.mem[at[k]][2] = UpSize[k]
        BY <3>1, <3>3
      <4>2. k + 1 \in 1 .. n + 1
        BY <3>3, <3>11
      <4> QED BY <3>2, <4>1, <4>2 DEF size
    <3>5. c.fragmented = size
      <4>1. c.fragmented <= UpSize[k]
        BY <3>2, <3>3, <3>11
      <4>2. size \in Nat
        BY <1>1, <1>2
      <4>3. c.fragmented \in Nat /\ ~(c.fragmented < size)
        BY <1>1, <1>5
      <4>4. c.fragmented <= size
        BY <3>4, <4>1
      <4> HIDE DEF size
      <4> QED BY <4>2, <4>3, <4>4
    <3>6. at[k + 1] \in 0 .. TxBufSize
      BY <3>1, <3>4
    <3>7. pos = at[k + 1]
      BY <1>3, <3>2, <3>4, <3>6
    <3>8. 0 <= IF k + 1 <= n THEN UpSize[k + 1] ELSE 0
      <4>1. k + 1 <= n => k + 1 \in UpMessage
        BY <3>3, <3>11 DEF UpMessage
      <4> QED BY <4>1, UpConstants
    <3>9. ArenaSound(d, n)
      <4>1. \E l \in 1 .. n + 1 : /\ d.beginPos = at[l]
                                  /\ d.fragmented <= IF l <= n THEN UpSize[l] ELSE 0
        BY <2>3, <3>4, <3>7, <3>8
      <4>2. /\ at[n + 1] = d.buf.posB
            /\ \A j \in 1 .. n : /\ at[j] < d.buf.posB /\ at[j + 1] = at[j] + 2 + UpSize[j]
                                 /\ d.buf.mem[at[j]][2] = UpSize[j]
        BY <2>3, <3>1
      <4> QED BY <4>1, <4>2 DEF ArenaSound
    <3>10. CutEnd(d) = CutEnd(c)
      <4>1. CutEnd(d) = SeqAdd(s, 0) /\ CutEnd(c) = s
        BY <2>3, <3>5 DEF CutEnd, s
      <4>2. SeqAdd(s, 0) = s
        <5>1. s \in 0 .. SeqSpace - 1
          BY <1>3
        <5> HIDE DEF s
        <5>2. s + 0 = s
          BY <5>1, SeqSpaceSize
        <5>3. s % SeqSpace = s
          BY <5>1, SeqSpaceSize
        <5> QED BY <5>2, <5>3 DEF SeqAdd
      <4> QED BY <4>1, <4>2
    <3> QED BY <3>9, <3>10
  <2> QED BY <2>1, <2>3, <2>4, <2>5 DEF t
<1> QED BY <1>4, <1>5

\* The message end that is noted leaves the rest as it is.
LEMMA NoteEndSound ==
  ASSUME NEW t \in CtxType, t.fragmented = 0 => Len(t.msgEnds) < MsgCap,
         t.beginPos + 2 <= TxBufSize
  PROVE  LET e == NoteEnd(t)
         IN /\ e \in CtxType /\ e.seq = t.seq /\ e.buf = t.buf /\ e.readInfos = t.readInfos
            /\ e.count = t.count /\ e.end = t.end
            /\ e.beginSeq = t.beginSeq /\ e.beginPos = t.beginPos /\ e.fragmented = t.fragmented
<1> DEFINE e == NoteEnd(t)
           size == t.buf.mem[t.beginPos][2]
           s == SeqAdd(t.beginSeq, size)
           ends == Append(t.msgEnds, s)
           d == [t EXCEPT !.msgEnds = ends]
<1>1. CASE t.fragmented > 0
  <2>1. e = t
    BY <1>1 DEF NoteEnd
  <2> QED BY <2>1
<1>2. CASE ~(t.fragmented > 0)
  <2>1. t.beginPos \in 0 .. TxBufSize - 1 /\ t.beginSeq \in Int /\ t.fragmented = 0
    BY <1>2, CtxFields, UpConstants, SeqSpaceSize
  <2>2. size \in Int
    BY SMTT(30), <2>1, SizeRead, UpConstants
  <2> HIDE DEF size
  <2>3. s \in 0 .. SeqSpace - 1
    BY <2>1, <2>2, Distances
  <2>4. e = d
    BY <1>2 DEF NoteEnd, CtxType, CtxRecord, size
  <2> HIDE DEF s
  <2>5. t.msgEnds \in Seq(0 .. SeqSpace - 1) /\ Len(t.msgEnds) < MsgCap
    BY <2>1, CtxFields
  <2>6. ends \in Seq(0 .. SeqSpace - 1) /\ Len(ends) <= MsgCap
    <3> DEFINE S == 0 .. SeqSpace - 1
               q == t.msgEnds
    <3> HIDE DEF S, q
    <3>1. q \in Seq(S) /\ s \in S /\ Len(q) < MsgCap /\ MsgCap \in Nat
      BY <2>3, <2>5, UpConstants DEF S, q
    <3>2. Append(q, s) \in Seq(S) /\ Len(Append(q, s)) = Len(q) + 1 /\ Len(q) \in Nat
      BY <3>1
    <3> QED BY <3>1, <3>2 DEF S, q
  <2> HIDE DEF ends
  <2>7. d \in CtxRecord
    BY <2>6 DEF CtxType, CtxRecord
  <2>8. /\ d.readInfos = t.readInfos /\ d.msgEnds = ends /\ d.seq = t.seq
        /\ d.buf = t.buf /\ d.beginSeq = t.beginSeq /\ d.beginPos = t.beginPos
        /\ d.fragmented = t.fragmented /\ d.count = t.count /\ d.end = t.end
    BY DEF CtxType, CtxRecord
  <2> HIDE DEF d, e
  <2>9. d \in CtxType
    BY <2>6, <2>7, <2>8, CtxFields DEF CtxType
  <2> QED BY <2>4, <2>8, <2>9 DEF e
<1>3. t.fragmented \in Nat
  BY CtxFields
<1> QED BY <1>1, <1>2

\* The structure with one fragment more, up to byte n of the message.
OneMore(e, f, n) ==
  [e EXCEPT !.fragmented = n, !.count = @ + 1, !.slots[(e.end + e.count) % FragCap] = f]

\* A fragment in its slot.
LEMMA FragmentQueued ==
  ASSUME NEW e \in CtxType, NEW f \in UpFragmentType, NEW n \in Nat, e.count # FragCap
  PROVE  LET d == OneMore(e, f, n)
         IN /\ d \in CtxType /\ d.seq = e.seq /\ d.buf = e.buf /\ d.readInfos = e.readInfos
            /\ d.beginSeq = e.beginSeq /\ d.beginPos = e.beginPos /\ d.fragmented = n
<1> DEFINE i == (e.end + e.count) % FragCap
           slots == [e.slots EXCEPT ![i] = f]
           k == e.count + 1
           d == OneMore(e, f, n)
<1>1. /\ e.end \in 0 .. FragCap - 1 /\ e.count \in 0 .. FragCap /\ FragCap \in Nat \ {0}
      /\ e.slots \in [0 .. FragCap - 1 -> UpFragmentType]
  BY CtxFields, UpConstants
<1>2. k \in 0 .. FragCap
  BY <1>1
<1>3. i \in 0 .. FragCap - 1
  BY <1>1
<1>4. slots \in [0 .. FragCap - 1 -> UpFragmentType]
  BY <1>1, <1>3
<1>7. d = [e EXCEPT !.fragmented = n, !.count = k, !.slots = slots]
  BY DEF OneMore, CtxType, CtxRecord
<1> HIDE DEF slots, k, d
<1>5. d \in CtxRecord
  BY <1>2, <1>4, <1>7 DEF CtxType, CtxRecord
<1>6. /\ d.readInfos = e.readInfos /\ d.msgEnds = e.msgEnds /\ d.seq = e.seq
      /\ d.buf = e.buf /\ d.beginSeq = e.beginSeq /\ d.beginPos = e.beginPos
      /\ d.fragmented = n
  BY <1>7 DEF CtxType, CtxRecord
<1>8. d \in CtxType
  BY <1>5, <1>6, CtxFields DEF CtxType
<1> QED BY <1>6, <1>8 DEF d

\* Moving on without one.
LEMMA FragmentSkipped ==
  ASSUME NEW e \in CtxType, NEW n \in Nat
  PROVE  LET d == [e EXCEPT !.fragmented = n]
         IN /\ d \in CtxType /\ d.seq = e.seq /\ d.buf = e.buf /\ d.readInfos = e.readInfos
            /\ d.beginSeq = e.beginSeq /\ d.beginPos = e.beginPos /\ d.fragmented = n
<1> DEFINE d == [e EXCEPT !.fragmented = n]
<1>1. d \in CtxRecord
  BY DEF CtxType, CtxRecord
<1>2. /\ d.readInfos = e.readInfos /\ d.msgEnds = e.msgEnds /\ d.seq = e.seq
      /\ d.buf = e.buf /\ d.beginSeq = e.beginSeq /\ d.beginPos = e.beginPos
      /\ d.fragmented = n
  BY DEF CtxType, CtxRecord
<1> HIDE DEF d
<1>3. d \in CtxType
  BY <1>1, <1>2, CtxFields DEF CtxType
<1> QED BY <1>2, <1>3 DEF d

\* What wtp_tx_make_fragment may return for transmit control c: it keeps the type, and
\* with an arena in order it goes on from the end of what is cut, within the window.
MadeSound(m, c) ==
  /\ m.kind \in {"none", "window", "error", "frag"}
  /\ m.tx \in CtxType /\ m.tx.seq = c.seq /\ m.tx.buf = c.buf /\ m.tx.readInfos = c.readInfos
  /\ m.frag \in UpFragmentType
  /\ \A n \in 0 .. Len(UpSize) : ArenaSound(c, n) =>
       /\ ArenaSound(m.tx, n)
       /\ \E len \in Nat :
            /\ CutEnd(m.tx) = SeqAdd(CutEnd(c), len)
            /\ len <= SeqSub(c.seq + Window, CutEnd(c)) \/ len = 0
            /\ m.kind = "frag" => m.frag.seq = CutEnd(c) /\ m.frag.len = len

\* Without a fragment.
LEMMA MadeNothing ==
  ASSUME NEW c \in CtxType, NEW t \in CtxType, NEW kind \in {"none", "window", "error"},
         t.seq = c.seq, t.buf = c.buf, t.readInfos = c.readInfos,
         \A n \in 0 .. Len(UpSize) : ArenaSound(c, n) => ArenaSound(t, n) /\ CutEnd(t) = CutEnd(c)
  PROVE  MadeSound([kind |-> kind, tx |-> t, frag |-> NoFragment], c)
<1> DEFINE m == [kind |-> kind, tx |-> t, frag |-> NoFragment]
<1>1. m.kind = kind /\ m.tx = t /\ m.frag = NoFragment /\ kind # "frag"
  OBVIOUS
<1>2. NoFragment \in UpFragmentType
  BY SeqSpaceSize DEF NoFragment, UpFragmentType
<1> HIDE DEF m
<1>3. ASSUME NEW n \in 0 .. Len(UpSize), ArenaSound(c, n)
      PROVE  /\ ArenaSound(m.tx, n)
             /\ \E len \in Nat :
                  /\ CutEnd(m.tx) = SeqAdd(CutEnd(c), len)
                  /\ len <= SeqSub(c.seq + Window, CutEnd(c)) \/ len = 0
                  /\ m.kind = "frag" => m.frag.seq = CutEnd(c) /\ m.frag.len = len
  <2>1. ArenaSound(m.tx, n) /\ CutEnd(m.tx) = CutEnd(c)
    BY <1>1, <1>3
  <2>2. CutEnd(c) \in 0 .. SeqSpace - 1
    <3>1. c.beginSeq \in Int /\ c.fragmented \in Int
      BY CtxFields, SeqSpaceSize
    <3> QED BY <3>1, Distances DEF CutEnd
  <2>3. SeqAdd(CutEnd(c), 0) = CutEnd(c)
    BY <2>2, SeqSpaceSize DEF SeqAdd
  <2> QED BY <1>1, <2>1, <2>3
<1>4. MadeSound(m, c)
  BY <1>1, <1>2, <1>3 DEF MadeSound
<1> QED BY <1>4 DEF m

\* wtp_tx_make_fragment when a byte can be expected to fit a Read.
LEMMA MakeUpFragment ==
  ASSUME NEW c \in CtxType, NEW avail \in Nat, avail > 6
  PROVE  MadeSound(TxMakeFragment(c, avail), c)
<1> DEFINE Nothing(t, kind) == [kind |-> kind, tx |-> t, frag |-> NoFragment]
           AtEnd(t)   == t.beginPos = t.buf.posB
           NoSize(t)  == t.beginPos + 2 > TxBufSize
           Cut(t, e) ==
             LET size == t.buf.mem[t.beginPos][2]
                 seq  == SeqAdd(t.beginSeq, t.fragmented)
                 len  == Min({avail - (IF t.fragmented = 0 THEN 6 ELSE 4),
                              size - t.fragmented, SeqSub(t.seq + Window, seq)})
                 frag == [seq |-> seq, msgSize |-> IF t.fragmented = 0 THEN size ELSE 0,
                          at |-> t.beginPos + 2 + t.fragmented, len |-> len]
                 moved == [e EXCEPT !.fragmented = @ + len]
             IN CASE len = 0 -> Nothing(e, "window")
                  [] len > 0 /\ t.count = FragCap -> Nothing(moved, "error")
                  [] OTHER ->
                       [kind |-> "frag", frag |-> frag,
                        tx |-> [moved EXCEPT !.count = @ + 1,
                                  !.slots[(t.end + t.count) % FragCap] = frag]]
           Next1(t) ==
             CASE AtEnd(t) -> Nothing(t, "none")
               [] ~AtEnd(t) /\ NoSize(t) -> Nothing(t, "error")
               [] OTHER -> IF t.fragmented = 0 /\ Len(t.msgEnds) = MsgCap
                           THEN Nothing(t, "error") ELSE Cut(t, NoteEnd(t))
<1>1. TxMakeFragment(c, avail)
        = CASE AtEnd(c) -> Nothing(c, "none")
            [] ~AtEnd(c) /\ NoSize(c) -> Nothing(c, "error")
            [] OTHER -> Next1(NextMessage(c))
  BY DEF TxMakeFragment
<1>2. ASSUME NEW t \in CtxType, NEW kind \in {"none", "window", "error"},
             t.seq = c.seq, t.buf = c.buf, t.readInfos = c.readInfos,
             \A n \in 0 .. Len(UpSize) :
               ArenaSound(c, n) => ArenaSound(t, n) /\ CutEnd(t) = CutEnd(c)
      PROVE  MadeSound(Nothing(t, kind), c)
  BY <1>2, MadeNothing
<1>3. ASSUME NEW t \in CtxType, ~AtEnd(t), ~NoSize(t),
             ~(t.fragmented = 0 /\ Len(t.msgEnds) = MsgCap),
             t.seq = c.seq, t.buf = c.buf, t.readInfos = c.readInfos,
             t.fragmented = 0 \/ t.fragmented < t.buf.mem[t.beginPos][2],
             \A n \in 0 .. Len(UpSize) :
               ArenaSound(c, n) => ArenaSound(t, n) /\ CutEnd(t) = CutEnd(c)
      PROVE  MadeSound(Cut(t, NoteEnd(t)), c)
  <2> DEFINE e == NoteEnd(t)
             size == t.buf.mem[t.beginPos][2]
             seq  == SeqAdd(t.beginSeq, t.fragmented)
             left == SeqSub(t.seq + Window, seq)
             room == avail - (IF t.fragmented = 0 THEN 6 ELSE 4)
             len  == Min({room, size - t.fragmented, left})
             frag == [seq |-> seq, msgSize |-> IF t.fragmented = 0 THEN size ELSE 0,
                      at |-> t.beginPos + 2 + t.fragmented, len |-> len]
             upTo == e.fragmented + len
             moved == [e EXCEPT !.fragmented = upTo]
             queued == OneMore(e, frag, upTo)
  <2>1. /\ t.beginPos \in 0 .. TxBufSize - 1 /\ t.beginPos + 2 <= TxBufSize
        /\ TxBufSize \in Nat /\ t.fragmented \in Nat /\ t.beginPos \in Nat
        /\ t.seq \in 0 .. SeqSpace - 1 /\ t.beginSeq \in 0 .. SeqSpace - 1
        /\ Len(t.msgEnds) <= MsgCap /\ MsgCap \in Nat /\ Len(t.msgEnds) \in Nat
    <3>1. /\ t.beginPos \in 0 .. TxBufSize /\ TxBufSize \in Nat /\ t.fragmented \in Nat
          /\ t.seq \in 0 .. SeqSpace - 1 /\ t.beginSeq \in 0 .. SeqSpace - 1
          /\ MsgCap \in Nat
      BY CtxFields, UpConstants
    <3>2. t.msgEnds \in Seq(0 .. SeqSpace - 1) /\ Len(t.msgEnds) <= MsgCap
      BY CtxFields
    <3>3. Len(t.msgEnds) \in Nat
      BY <3>2
    <3>4. ~(t.beginPos + 2 > TxBufSize)
      BY <1>3
    <3> QED BY <3>1, <3>2, <3>3, <3>4
  <2>2. size \in 0 .. TxBufSize /\ size \in Nat
    BY <2>1, SizeRead
  <2>3. seq \in 0 .. SeqSpace - 1 /\ seq \in Int /\ left \in 0 .. SeqSpace - 1 /\ left \in Nat
    <3>1. t.beginSeq \in Int /\ t.fragmented \in Int /\ t.seq + Window \in Int
      BY <2>1, SeqSpaceSize
    <3>2. seq \in 0 .. SeqSpace - 1
      BY <3>1, Distances
    <3> HIDE DEF seq
    <3>3. seq \in Int
      BY <3>2, SeqSpaceSize
    <3>4. left \in 0 .. SeqSpace - 1
      BY <3>1, <3>3, Distances
    <3> QED BY <3>2, <3>3, <3>4, SeqSpaceSize
  <2>4. /\ e \in CtxType /\ e.seq = t.seq /\ e.buf = t.buf /\ e.readInfos = t.readInfos
        /\ e.count = t.count /\ e.end = t.end
        /\ e.beginSeq = t.beginSeq /\ e.beginPos = t.beginPos /\ e.fragmented = t.fragmented
    <3>1. t.fragmented = 0 => Len(t.msgEnds) < MsgCap
      BY <1>3, <2>1
    <3> QED BY <2>1, <3>1, NoteEndSound
  <2> HIDE DEF e
  <2>5. room \in Nat /\ size - t.fragmented \in Nat
    <3> HIDE DEF size
    <3>1. t.fragmented = 0 \/ t.fragmented < size
      BY <1>3 DEF size
    <3> QED BY <2>1, <2>2, <3>1
  <2>6. len \in Nat /\ len <= size - t.fragmented /\ len <= left
    <3> DEFINE rest == size - t.fragmented
    <3> HIDE DEF room, rest, left
    <3>1. room \in Nat /\ rest \in Nat /\ left \in Nat
      BY <2>3, <2>5 DEF rest
    <3>2. len = Min({room, rest, left})
      BY DEF rest
    <3>3. len \in {room, rest, left} /\ len <= rest /\ len <= left
      BY <3>1, <3>2, MinOfThree
    <3>4. len \in Nat
      BY <3>1, <3>3
    <3> QED BY <3>3, <3>4 DEF rest
  <2> HIDE DEF len, room
  <2>7. upTo \in Nat /\ upTo = t.fragmented + len
    BY <2>1, <2>4, <2>6
  <2>8. frag \in UpFragmentType /\ frag.seq = seq /\ frag.len = len
    <3>1. t.beginPos + 2 + t.fragmented \in Nat
      BY <2>1
    <3>2. (IF t.fragmented = 0 THEN size ELSE 0) \in Nat
      BY <2>2
    <3> HIDE DEF seq, size
    <3> QED BY <2>3, <2>6, <3>1, <3>2 DEF UpFragmentType
  <2>9. CutEnd(t) = seq
    BY DEF CutEnd
  <2> HIDE DEF seq, left, frag, upTo
  <2>10. ASSUME NEW d, d.seq = e.seq, d.buf = e.buf, d.beginSeq = e.beginSeq,
                d.beginPos = e.beginPos, d.fragmented = upTo,
                NEW n \in 0 .. Len(UpSize), ArenaSound(c, n)
         PROVE  /\ ArenaSound(d, n) /\ CutEnd(d) = SeqAdd(CutEnd(c), len)
                /\ len <= SeqSub(c.seq + Window, CutEnd(c))
    <3>1. ArenaSound(t, n) /\ CutEnd(t) = CutEnd(c)
      BY <1>3, <2>10
    <3>2. len <= SeqSub(c.seq + Window, CutEnd(c))
      BY <1>3, <2>6, <2>9, <3>1 DEF left
    <3>3. CutEnd(d) = SeqAdd(CutEnd(c), len)
      <4>1. CutEnd(d) = (t.beginSeq + (t.fragmented + len)) % SeqSpace
        BY <2>4, <2>7, <2>10 DEF CutEnd, SeqAdd
      <4>2. seq = At(t.beginSeq + t.fragmented)
        BY DEF seq, SeqAdd, At
      <4> DEFINE x == t.beginSeq + t.fragmented
      <4>3. x \in Int /\ len \in Int /\ t.beginSeq + (t.fragmented + len) = x + len
        BY SMTT(30), <2>1, <2>6, SeqSpaceSize
      <4> HIDE DEF x
      <4>4. SeqAdd(At(x), len) = At(x + len)
        BY <4>3, AtShift
      <4>5. seq = At(x)
        BY <4>2 DEF x
      <4> QED BY <2>9, <3>1, <4>1, <4>3, <4>4, <4>5 DEF At
    <3>4. ArenaSound(d, n)
      <4>1. PICK at \in [1 .. n + 1 -> 0 .. TxBufSize] :
              /\ at[n + 1] = t.buf.posB
              /\ \A j \in 1 .. n : /\ at[j] < t.buf.posB /\ at[j + 1] = at[j] + 2 + UpSize[j]
                                   /\ t.buf.mem[at[j]][2] = UpSize[j]
              /\ \E k \in 1 .. n + 1 : /\ t.beginPos = at[k]
                                       /\ t.fragmented <= IF k <= n THEN UpSize[k] ELSE 0
        BY <3>1 DEF ArenaSound
      <4>2. PICK k \in 1 .. n + 1 : t.beginPos = at[k]
        BY <4>1
      <4>3. k # n + 1
        BY <1>3, <4>1, <4>2
      <4>9. n \in Nat /\ k \in 1 .. n + 1
        BY UpConstants
      <4>4. k \in 1 .. n /\ k <= n
        BY <4>3, <4>9
      <4>5. size = UpSize[k]
        BY <4>1, <4>2, <4>4
      <4>6. upTo <= UpSize[k]
        <5> HIDE DEF size
        <5> QED BY SMTT(30), <2>1, <2>2, <2>6, <2>7, <4>5
      <4>7. \E l \in 1 .. n + 1 : /\ d.beginPos = at[l]
                                  /\ d.fragmented <= IF l <= n THEN UpSize[l] ELSE 0
        BY <2>4, <2>10, <4>2, <4>4, <4>6
      <4>8. /\ at[n + 1] = d.buf.posB
            /\ \A j \in 1 .. n : /\ at[j] < d.buf.posB /\ at[j + 1] = at[j] + 2 + UpSize[j]
                                 /\ d.buf.mem[at[j]][2] = UpSize[j]
        BY <2>4, <2>10, <4>1
      <4> QED BY <4>7, <4>8 DEF ArenaSound
    <3> QED BY <3>2, <3>3, <3>4
  <2>11. CASE len = 0
    <3>1. Cut(t, NoteEnd(t)) = Nothing(e, "window")
      BY <2>11 DEF e, len, room, left, seq
    <3>2. \A n \in 0 .. Len(UpSize) :
            ArenaSound(c, n) => ArenaSound(e, n) /\ CutEnd(e) = CutEnd(c)
      <4>1. upTo = e.fragmented
        BY <2>4, <2>7, <2>11, <2>1
      <4>2. ASSUME NEW n \in 0 .. Len(UpSize), ArenaSound(c, n)
            PROVE  ArenaSound(e, n) /\ CutEnd(e) = CutEnd(c)
        <5>1. ArenaSound(e, n)
          BY <2>10, <4>1, <4>2
        <5>2. CutEnd(e) = CutEnd(t) /\ CutEnd(t) = CutEnd(c)
          BY <1>3, <2>4, <4>2 DEF CutEnd
        <5> QED BY <5>1, <5>2
      <4> QED BY <4>2
    <3> HIDE DEF Cut, Nothing
    <3>3. MadeSound(Nothing(e, "window"), c)
      BY <1>2, <1>3, <2>4, <3>2
    <3> QED BY <3>1, <3>3
  <2>12. CASE len # 0 /\ t.count = FragCap
    <3>1. Cut(t, NoteEnd(t)) = Nothing(moved, "error")
      BY <2>6, <2>12 DEF e, len, room, left, seq, upTo
    <3>2. /\ moved \in CtxType /\ moved.seq = e.seq /\ moved.buf = e.buf
          /\ moved.readInfos = e.readInfos /\ moved.beginSeq = e.beginSeq
          /\ moved.beginPos = e.beginPos /\ moved.fragmented = upTo
      BY <2>4, <2>7, FragmentSkipped
    <3> HIDE DEF moved
    <3> DEFINE m == Nothing(moved, "error")
    <3>3. m.kind = "error" /\ m.tx = moved /\ m.frag = NoFragment
      OBVIOUS
    <3>4. NoFragment \in UpFragmentType
      BY SeqSpaceSize DEF NoFragment, UpFragmentType
    <3> HIDE DEF m, Cut
    <3>5. MadeSound(m, c)
      BY <1>3, <2>4, <2>6, <2>10, <3>2, <3>3, <3>4 DEF MadeSound
    <3> QED BY <3>1, <3>5 DEF m
  <2>13. CASE len # 0 /\ t.count # FragCap
    <3>1. Cut(t, NoteEnd(t)) = [kind |-> "frag", frag |-> frag, tx |-> queued]
      <4>1. [[e EXCEPT !.fragmented = @ + len] EXCEPT !.count = @ + 1,
                                  !.slots[(t.end + t.count) % FragCap] = frag] = queued
        BY <2>4 DEF upTo, CtxType, CtxRecord, OneMore
      <4>2. ~(len = 0) /\ ~(len > 0 /\ t.count = FragCap)
        BY <2>13
      <4> QED BY <4>1, <4>2 DEF e, len, room, left, seq, frag
    <3>2. /\ queued \in CtxType /\ queued.seq = e.seq /\ queued.buf = e.buf
          /\ queued.readInfos = e.readInfos /\ queued.beginSeq = e.beginSeq
          /\ queued.beginPos = e.beginPos /\ queued.fragmented = upTo
      <4>1. e \in CtxType /\ frag \in UpFragmentType /\ upTo \in Nat
        BY <2>4, <2>7, <2>8
      <4>2. e.count # FragCap
        <5>1. t.count # FragCap /\ e.count = t.count
          BY <2>4, <2>13
        <5> QED BY <5>1
      <4> QED BY <4>1, <4>2, FragmentQueued
    <3> HIDE DEF queued
    <3> DEFINE m == [kind |-> "frag", frag |-> frag, tx |-> queued]
    <3>3. m.kind = "frag" /\ m.tx = queued /\ m.frag = frag
      OBVIOUS
    <3> HIDE DEF m, Cut
    <3>4. ASSUME NEW n \in 0 .. Len(UpSize), ArenaSound(c, n)
          PROVE  /\ ArenaSound(queued, n) /\ CutEnd(queued) = SeqAdd(CutEnd(c), len)
                 /\ len <= SeqSub(c.seq + Window, CutEnd(c)) /\ frag.seq = CutEnd(c)
      BY <1>3, <2>8, <2>9, <2>10, <3>2, <3>4
    <3>5. MadeSound(m, c)
      BY <1>3, <2>4, <2>6, <2>8, <3>2, <3>3, <3>4 DEF MadeSound
    <3> QED BY <3>1, <3>5 DEF m
  <2> QED BY <2>11, <2>12, <2>13
<1> HIDE DEF Cut, Nothing
<1>4. CASE AtEnd(c)
  BY <1>1, <1>2, <1>4
<1>5. CASE ~AtEnd(c) /\ NoSize(c)
  BY <1>1, <1>2, <1>5
<1>6. CASE ~AtEnd(c) /\ ~NoSize(c)
  <2> DEFINE t == NextMessage(c)
  <2>1. TxMakeFragment(c, avail) = Next1(t)
    BY <1>1, <1>6
  <2>2. c.beginPos \in Nat /\ TxBufSize \in Nat
    BY CtxFields, UpConstants
  <2>3. /\ t \in CtxType /\ t.seq = c.seq /\ t.buf = c.buf /\ t.readInfos = c.readInfos
        /\ t.fragmented = 0 \/ (t = c /\ c.fragmented < c.buf.mem[c.beginPos][2])
        /\ \A n \in 0 .. Len(UpSize) : ArenaSound(c, n) =>
             ArenaSound(t, n) /\ CutEnd(t) = CutEnd(c)
    BY <1>6, <2>2, NextMessageSound
  <2> HIDE DEF t
  <2>4. CASE AtEnd(t)
    BY <1>2, <2>1, <2>3, <2>4
  <2>5. CASE ~AtEnd(t) /\ NoSize(t)
    BY <1>2, <2>1, <2>3, <2>5
  <2>6. CASE ~AtEnd(t) /\ ~NoSize(t)
    <3>1. CASE t.fragmented = 0 /\ Len(t.msgEnds) = MsgCap
      <4>1. Next1(t) = Nothing(t, "error")
        BY <2>6, <3>1
      <4> QED BY <1>2, <2>1, <2>3, <4>1
    <3>2. CASE ~(t.fragmented = 0 /\ Len(t.msgEnds) = MsgCap)
      <4>1. Next1(t) = Cut(t, NoteEnd(t))
        BY <2>6, <3>2
      <4> QED BY <1>3, <2>1, <2>3, <2>6, <3>2, <4>1
    <3> QED BY <3>1, <3>2
  <2> QED BY <2>4, <2>5, <2>6
<1> QED BY <1>4, <1>5, <1>6

-----------------------------------------------------------------------------
(* The Read memory.                                                         *)

MemType ==
  [kind : {"end", "data"}, seq : 0 .. SeqSpace - 1, msgSize : Nat, len : Nat,
   cells : [0 .. ReadMemSize - 1 -> Nat \X Nat]]

\* The Read memory that a WISP starts with.
LEMMA EndMemTyped == EndMem \in MemType /\ EndMem.kind = "end"
<1>1. Junk \in Nat \X Nat
  BY DEF Junk
<1> HIDE DEF Junk
<1> QED BY <1>1, SeqSpaceSize DEF EndMem, MemType

\* The bytes of a fragment are cells.
LEMMA FragmentBytesTyped ==
  ASSUME NEW c \in CtxType, NEW f \in UpFragmentType
  PROVE  FragmentBytes(c, f) \in Seq(Nat \X Nat)
<1> DEFINE D == Nat \X Nat
           n == f.len
           Byte(k) == IF f.at + k - 1 < TxBufSize THEN c.buf.mem[f.at + k - 1] ELSE Junk
<1>1. f.at \in Nat /\ n \in Nat
  BY DEF UpFragmentType
<1>2. ASSUME NEW k \in 1 .. n PROVE Byte(k) \in D
  <2>1. CASE f.at + k - 1 < TxBufSize
    <3>1. f.at + k - 1 \in 0 .. TxBufSize - 1
      BY <1>1, <2>1, UpConstants
    <3>2. c.buf.mem[f.at + k - 1] \in Cell
      BY <3>1, CtxFields
    <3>3. Cell \subseteq D
      BY UpConstants DEF Cell
    <3> QED BY <2>1, <3>2, <3>3
  <2>2. CASE ~(f.at + k - 1 < TxBufSize)
    BY <2>2 DEF Junk
  <2> QED BY <2>1, <2>2
<1>3. FragmentBytes(c, f) = [k \in 1 .. n |-> Byte(k)]
  BY DEF FragmentBytes
<1> HIDE DEF D, n, Byte
<1> QED BY <1>1, <1>2, <1>3 DEF D, n

\* A fragment in the Read memory.
LEMMA WriteFragmentTyped ==
  ASSUME NEW m \in MemType, NEW c \in CtxType, NEW f \in UpFragmentType, NEW size
  PROVE  LET w == WriteFragmentTo(m, c, f, size)
         IN w \in MemType /\ w.kind = "data" /\ w.seq = f.seq /\ w.len = f.len
<1> DEFINE w == WriteFragmentTo(m, c, f, size)
           head == HeaderSize(f.msgSize)
           bytes == FragmentBytes(c, f)
           cells == IF head + f.len <= size THEN Store(m.cells, head, bytes) ELSE m.cells
           n == ReadMemSize
           C == Nat \X Nat
<1>1. head \in Nat /\ n \in Nat /\ bytes \in Seq(C)
  BY ClientTxAssumption, FragmentBytesTyped DEF HeaderSize
<1>2. m.cells \in [0 .. n - 1 -> C]
  BY DEF MemType
<1>3. cells \in [0 .. n - 1 -> C]
  <2> HIDE DEF head, bytes, n, C
  <2>1. Store(m.cells, head, bytes) \in [0 .. n - 1 -> C]
    BY <1>1, <1>2, StoreType
  <2> QED BY <1>2, <2>1
<1>4. f.seq \in 0 .. SeqSpace - 1 /\ f.msgSize \in Nat /\ f.len \in Nat
  BY DEF UpFragmentType
<1>5. w = [kind |-> "data", seq |-> f.seq, msgSize |-> f.msgSize, len |-> f.len, cells |-> cells]
  BY DEF WriteFragmentTo
<1> HIDE DEF w, cells, C, n
<1>6. w \in [kind : {"end", "data"}, seq : 0 .. SeqSpace - 1, msgSize : Nat, len : Nat,
             cells : [0 .. n - 1 -> C]]
  BY <1>3, <1>4, <1>5
<1>7. w.kind = "data" /\ w.seq = f.seq /\ w.len = f.len
  BY <1>5
<1> QED BY <1>6, <1>7 DEF MemType, w, n, C

\* Less Reads to come.
LEMMA ReadUsed ==
  ASSUME NEW c \in CtxType, c.readInfos # <<>>
  PROVE  LET info == Head(c.readInfos)
             less == [info EXCEPT !.n = @ - 1]
             used == [c EXCEPT !.readInfos = IF info.n = 1 THEN Tail(@)
                                             ELSE [@ EXCEPT ![1] = less]]
         IN /\ used \in CtxType /\ used.seq = c.seq /\ used.buf = c.buf
            /\ used.beginSeq = c.beginSeq /\ used.beginPos = c.beginPos
            /\ used.fragmented = c.fragmented /\ used.readSize = c.readSize
<1> DEFINE s == c.readInfos
           info == Head(s)
           less == [info EXCEPT !.n = info.n - 1]
           q == IF info.n = 1 THEN Tail(s) ELSE [s EXCEPT ![1] = less]
           used == [c EXCEPT !.readInfos = q]
<1>1. s \in Seq(ReadInfoType) /\ Len(s) <= MsgCap /\ Len(s) \in Nat /\ MsgCap \in Nat
  BY CtxFields, UpConstants
<1>2. q \in Seq(ReadInfoType) /\ Len(q) <= MsgCap
  <2> HIDE DEF s
  <2>1. s # <<>>
    BY DEF s
  <2>2. CASE info.n = 1
    <3>1. Tail(s) \in Seq(ReadInfoType) /\ Len(Tail(s)) = Len(s) - 1
      BY <1>1, <2>1
    <3> QED BY <1>1, <2>2, <3>1
  <2>3. CASE info.n # 1
    <3>1. info \in ReadInfoType
      BY <1>1, <2>1
    <3>2. less \in ReadInfoType
      BY <2>3, <3>1 DEF ReadInfoType
    <3> DEFINE R == ReadInfoType
    <3> HIDE DEF less, R
    <3>4. s \in Seq(R) /\ less \in R
      BY <1>1, <3>2 DEF R
    <3>5. 1 \in 1 .. Len(s)
      BY <1>1, <2>1
    <3>3. [s EXCEPT ![1] = less] \in Seq(R) /\ Len([s EXCEPT ![1] = less]) = Len(s)
      BY <3>4, <3>5, ExceptSeq
    <3> USE DEF R
    <3> QED BY <1>1, <2>3, <3>3
  <2> QED BY <2>2, <2>3
<1> HIDE DEF q
<1>4. used \in CtxRecord
  BY <1>2 DEF CtxType, CtxRecord
<1>5. /\ used.readInfos = q /\ used.msgEnds = c.msgEnds /\ used.seq = c.seq
      /\ used.buf = c.buf /\ used.beginSeq = c.beginSeq /\ used.beginPos = c.beginPos
      /\ used.fragmented = c.fragmented /\ used.readSize = c.readSize
  BY DEF CtxType, CtxRecord
<1> HIDE DEF used
<1>6. used \in CtxType
  BY <1>2, <1>4, <1>5, CtxFields DEF CtxType
<1> QED BY <1>5, <1>6 DEF used, q

\* wtp_load_read_mem: a new fragment in the Read memory goes on from the end of what was
\* cut; without one the memory stays, or says that there is nothing.
LEMMA LoadSound ==
  ASSUME NEW c \in CtxType, NEW m \in MemType
  PROVE  LET r == LoadReadMem(c, m)
         IN /\ r.tx \in CtxType /\ r.tx.seq = c.seq /\ r.mem \in MemType
            /\ \A n \in 0 .. Len(UpSize) : ArenaSound(c, n) =>
                 /\ ArenaSound(r.tx, n)
                 /\ \E len \in Nat :
                      /\ CutEnd(r.tx) = SeqAdd(CutEnd(c), len)
                      /\ len <= SeqSub(c.seq + Window, CutEnd(c)) \/ len = 0
                      /\ r.mem.kind = "data" =>
                           r.mem = m \/ (r.mem.seq = CutEnd(c) /\ r.mem.len = len)
<1> DEFINE r == LoadReadMem(c, m)
           info == Head(c.readInfos)
           less == [info EXCEPT !.n = @ - 1]
           used == [c EXCEPT !.readInfos = IF info.n = 1 THEN Tail(@)
                                           ELSE [@ EXCEPT ![1] = less]]
           Load(x) ==
             LET fits == HeaderSize(x.frag.msgSize) + x.frag.len <= info.size
             IN [tx |-> x.tx, loaded |-> TRUE,
                 mem |-> IF x.kind = "frag" THEN WriteFragmentTo(m, x.tx, x.frag, info.size)
                         ELSE m,
                 trouble |-> CASE x.kind = "none" \/ (x.kind = "frag" /\ fits) -> {}
                               [] x.kind = "frag" /\ ~fits -> {"overrun"}
                               [] OTHER -> {x.kind}]
           made == TxMakeFragment(used, used.readSize)
<1>1. CASE c.readInfos = <<>>
  <2> DEFINE e == [m EXCEPT !.kind = "end"]
  <2>1. r = [tx |-> c, loaded |-> FALSE, mem |-> e, trouble |-> {}]
    BY <1>1 DEF LoadReadMem
  <2>2. e \in MemType /\ e.kind = "end"
    BY DEF MemType
  <2> HIDE DEF e, r
  <2>3. r.tx = c /\ r.mem = e
    BY <2>1
  <2>4. CutEnd(c) = SeqAdd(CutEnd(c), 0)
    <3>1. CutEnd(c) \in 0 .. SeqSpace - 1
      <4>1. c.beginSeq \in Int /\ c.fragmented \in Int
        BY CtxFields, SeqSpaceSize
      <4> QED BY <4>1, Distances DEF CutEnd
    <3> QED BY <3>1, SeqSpaceSize DEF SeqAdd
  <2>5. "end" # "data"
    OBVIOUS
  <2> QED BY <2>2, <2>3, <2>4, <2>5 DEF r
<1>2. CASE c.readInfos # <<>>
  <2>1. /\ used \in CtxType /\ used.seq = c.seq /\ used.buf = c.buf
        /\ used.beginSeq = c.beginSeq /\ used.beginPos = c.beginPos
        /\ used.fragmented = c.fragmented /\ used.readSize = c.readSize
    BY <1>2, ReadUsed
  <2>2. r = Load(made)
    <3>1. r = CHOOSE y \in {Load(x) : x \in {made}} : TRUE
      BY <1>2 DEF LoadReadMem, Strictly
    <3> HIDE DEF Load, made, r
    <3> QED BY <3>1
  <2> HIDE DEF used
  <2>3. MadeSound(made, used)
    <3>1. used.readSize \in Nat /\ used.readSize > 6
      BY <2>1, CtxFields
    <3> QED BY <2>1, <3>1, MakeUpFragment
  <2> HIDE DEF made
  <2>4. r.tx = made.tx /\ r.mem = IF made.kind = "frag"
                                  THEN WriteFragmentTo(m, made.tx, made.frag, info.size) ELSE m
    BY <2>2
  <2> HIDE DEF r, Load
  <2>5. made.tx \in CtxType /\ made.frag \in UpFragmentType /\ made.tx.seq = used.seq
    BY <2>3 DEF MadeSound
  <2> DEFINE w == WriteFragmentTo(m, made.tx, made.frag, info.size)
  <2>6. w \in MemType /\ w.seq = made.frag.seq /\ w.len = made.frag.len
    BY <2>5, WriteFragmentTyped
  <2> HIDE DEF w
  <2>7. r.mem = IF made.kind = "frag" THEN w ELSE m
    BY <2>4 DEF w
  <2>8. CutEnd(used) = CutEnd(c)
    BY <2>1 DEF CutEnd
  <2>9. ASSUME NEW n \in 0 .. Len(UpSize), ArenaSound(c, n)
        PROVE  /\ ArenaSound(r.tx, n)
               /\ \E len \in Nat :
                    /\ CutEnd(r.tx) = SeqAdd(CutEnd(c), len)
                    /\ len <= SeqSub(c.seq + Window, CutEnd(c)) \/ len = 0
                    /\ r.mem.kind = "data" =>
                         r.mem = m \/ (r.mem.seq = CutEnd(c) /\ r.mem.len = len)
    <3>1. ArenaSound(used, n)
      BY <2>1, <2>9 DEF ArenaSound
    <3>2. ArenaSound(made.tx, n)
      BY <2>3, <3>1 DEF MadeSound
    <3>3. PICK len \in Nat :
            /\ CutEnd(made.tx) = SeqAdd(CutEnd(used), len)
            /\ len <= SeqSub(used.seq + Window, CutEnd(used)) \/ len = 0
            /\ made.kind = "frag" => made.frag.seq = CutEnd(used) /\ made.frag.len = len
      BY <2>3, <3>1 DEF MadeSound
    <3>4. r.mem = m \/ (r.mem.seq = CutEnd(c) /\ r.mem.len = len)
      <4>1. CASE made.kind = "frag"
        BY <2>6, <2>7, <2>8, <3>3, <4>1
      <4>2. CASE made.kind # "frag"
        BY <2>7, <4>2
      <4> QED BY <4>1, <4>2
    <3>5. /\ CutEnd(r.tx) = SeqAdd(CutEnd(c), len)
          /\ len <= SeqSub(c.seq + Window, CutEnd(c)) \/ len = 0
      BY <2>1, <2>4, <2>8, <3>3
    <3> QED BY <2>4, <3>2, <3>4, <3>5
  <2>10. r.tx \in CtxType /\ r.tx.seq = c.seq /\ r.mem \in MemType
    BY <2>1, <2>4, <2>5, <2>6, <2>7
  <2> QED BY <2>9, <2>10 DEF r
<1> QED BY <1>1, <1>2

-----------------------------------------------------------------------------
(* The server's control packets.                                            *)

Plus(m, n) == m + n
Adding == INSTANCE FoldFacts WITH Op <- Plus


\* Min of natural numbers is the least of them.
LEMMA LeastOf ==
  ASSUME NEW T, T \subseteq Nat, T # {}
  PROVE  Min(T) \in T /\ \A k \in T : Min(T) <= k
<1>1. \E n \in T : \A k \in T : n <= k
  BY Adding!LeastExists
<1> QED BY <1>1 DEF Min

\* A prefix of the control packets fits.
LEMMA FittingPacketsType ==
  ASSUME NEW ps \in Seq(CtrlPacketType), NEW room
  PROVE  FittingPackets(ps, room) \in 0 .. Len(ps)
<1> DEFINE tooLong == {k \in 1 .. Len(ps) : PacketsSize(SubSeq(ps, 1, k)) > room}
<1>1. FittingPackets(ps, room) = IF tooLong = {} THEN Len(ps) ELSE Min(tooLong) - 1
  BY DEF FittingPackets
<1>2. tooLong \subseteq 1 .. Len(ps) /\ tooLong \subseteq Nat /\ Len(ps) \in Nat
  OBVIOUS
<1> HIDE DEF tooLong
<1>3. CASE tooLong = {}
  BY <1>1, <1>2, <1>3
<1>4. CASE tooLong # {}
  <2>1. Min(tooLong) \in 1 .. Len(ps)
    BY <1>2, <1>4, LeastOf
  <2> QED BY <1>1, <1>2, <1>4, <2>1
<1> QED BY <1>3, <1>4

-----------------------------------------------------------------------------
(* The packet buffer and the EPC.                                           *)

FieldWriting == INSTANCE FoldFacts WITH Op <- WriteField
Pumping == INSTANCE FoldFacts WITH Op <- PumpTurn

\* The local state of a function that writes a packet whose first byte is at `at'.
WritingType(w, n, at) ==
  w \in [ok : BOOLEAN, buf : BufType(n, Nat)] /\ at + 1 <= w.buf.posB

\* Where wio_alloc puts the byte with the size.
LEMMA AllocByte ==
  ASSUME NEW n \in Nat \ {0}, NEW C, NEW b \in BufType(n, C)
  PROVE  /\ AllocPos(b, 1) \in 0 .. n - 1
         /\ b.posB + 1 < n => AllocPos(b, 1) = b.posB
BY BufFields DEF AllocPos

\* A queued packet leaves the packet buffer a buffer.
LEMMA QueuePacketType ==
  ASSUME NEW n \in Nat \ {0}, NEW b \in BufType(n, Nat), NEW fields \in Seq(Seq(Nat))
  PROVE  LET q == QueuePacket(b, fields)
         IN q.ok \in BOOLEAN /\ q.buf \in BufType(n, Nat)
<1> DEFINE at == AllocPos(b, 1)
           begun == [ok |-> TRUE, buf |-> [b EXCEPT !.posB = at + 1]]
           Ended(w) == IF w.ok THEN [w EXCEPT !.buf.mem[at] = w.buf.posB - at - 1] ELSE w
           last == Fold(WriteField, begun, fields)
<1>1. at \in 0 .. n - 1 /\ at + 1 \in 0 .. n
  <2>1. at \in 0 .. n - 1
    BY AllocByte
  <2> QED BY <2>1
<1> HIDE DEF at
<1>2. WritingType(begun, n, at)
  <2>1. [b EXCEPT !.posB = at + 1] \in BufType(n, Nat) /\ [b EXCEPT !.posB = at + 1].posB = at + 1
    <3> DEFINE j == at + 1
    <3> HIDE DEF j
    <3>1. j \in 0 .. n
      BY <1>1 DEF j
    <3>2. [b EXCEPT !.posB = j] \in BufType(n, Nat) /\ [b EXCEPT !.posB = j].posB = j
      BY <3>1, BufMovedB
    <3> QED BY <3>2 DEF j
  <2> DEFINE d == [b EXCEPT !.posB = at + 1]
  <2>2. begun = [ok |-> TRUE, buf |-> d]
    OBVIOUS
  <2> HIDE DEF d, begun
  <2>3. d \in BufType(n, Nat) /\ d.posB = at + 1
    BY <2>1 DEF d
  <2> QED BY <1>1, <2>2, <2>3 DEF WritingType
<1>3. ASSUME NEW w, NEW f \in Seq(Nat), WritingType(w, n, at)
      PROVE  WritingType(WriteField(w, f), n, at)
  <2>1. CASE w.ok
    <3> DEFINE u == BufWrite(w.buf, f)
    <3>1. WriteField(w, f) = u
      BY <2>1 DEF WriteField
    <3>2. w.buf \in BufType(n, Nat) /\ w.buf.posB \in 0 .. n /\ Len(f) \in Nat /\ at + 1 <= w.buf.posB
      BY <1>3, BufFields DEF WritingType
    <3>3. u.buf \in BufType(n, Nat) /\ u.buf.posB >= w.buf.posB
      <4> DEFINE c == w.buf
      <4>1. n \in Nat /\ c \in BufType(n, Nat)
        BY <3>2
      <4> HIDE DEF c
      <4>2. LET z == BufWrite(c, f)
            IN /\ z.buf \in BufType(n, Nat)
               /\ z.buf.posB = IF c.posB + Len(f) <= n THEN c.posB + Len(f) ELSE c.posB
        BY <4>1, BufWriteType
      <4>3. /\ u.buf \in BufType(n, Nat)
            /\ u.buf.posB = IF c.posB + Len(f) <= n THEN c.posB + Len(f) ELSE c.posB
        BY <4>2 DEF c
      <4>4. c.posB \in Nat /\ Len(f) \in Nat
        BY <3>2 DEF c
      <4> HIDE DEF u
      <4> QED BY <4>3, <4>4 DEF c
    <3>4. u = [ok |-> u.ok, buf |-> u.buf] /\ u.ok \in BOOLEAN
      BY DEF BufWrite, CanWrite
    <3>5. u.buf.posB \in 0 .. n
      BY <3>3, BufFields
    <3> HIDE DEF u
    <3> QED BY <1>1, <3>1, <3>2, <3>3, <3>4, <3>5 DEF WritingType
  <2>2. CASE ~w.ok
    BY <1>3, <2>2 DEF WriteField
  <2> QED BY <2>1, <2>2
<1>4. WritingType(last, n, at)
  <2> DEFINE m == Len(fields)
  <2>1. m \in Nat
    OBVIOUS
  <2>2. PICK g : /\ g[0] = begun
                 /\ \A k \in 1 .. m : g[k] = WriteField(g[k - 1], fields[k])
                 /\ FieldWriting!Folded(begun, fields) = g[m]
    <3> HIDE DEF begun
    <3> QED BY <2>1, FieldWriting!FoldSteps
  <2>3. last = FieldWriting!Folded(begun, fields)
    BY DEF Fold, FieldWriting!Folded
  <2> DEFINE T == {k \in 0 .. m : WritingType(g[k], n, at)}
  <2>4. 0 \in T
    BY <1>2, <2>1, <2>2
  <2>5. ASSUME NEW k \in 1 .. m, k - 1 \in T PROVE k \in T
    <3>1. fields[k] \in Seq(Nat)
      BY <2>1, ElementOfSeq
    <3>2. WritingType(g[k - 1], n, at)
      BY <2>5
    <3>3. WritingType(WriteField(g[k - 1], fields[k]), n, at)
      BY <1>3, <3>1, <3>2
    <3> QED BY <2>2, <3>3
  <2> HIDE DEF T, m, begun, last
  <2>6. \A k \in 0 .. m : k \in T
    BY <2>1, <2>4, <2>5, Adding!HoldsToTheEnd
  <2>7. m \in T
    BY <2>1, <2>6
  <2> QED BY <2>2, <2>3, <2>7 DEF T
<1>5. QueuePacket(b, fields) = Ended(last)
  <2>1. QueuePacket(b, fields) = Strictly(Ended, last)
    BY DEF QueuePacket, at
  <2> HIDE DEF last, Ended
  <2> QED BY <2>1 DEF Strictly
<1> HIDE DEF last
<1>6. Ended(last).ok \in BOOLEAN /\ Ended(last).buf \in BufType(n, Nat)
  <2>1. /\ last \in [ok : BOOLEAN, buf : BufType(n, Nat)] /\ last.ok \in BOOLEAN
        /\ last.buf \in BufType(n, Nat) /\ at + 1 <= last.buf.posB /\ last.buf.posB \in 0 .. n
    BY <1>4, BufFields DEF WritingType
  <2>2. CASE ~last.ok
    BY <2>1, <2>2
  <2>3. CASE last.ok
    <3> DEFINE v == last.buf.posB - at - 1
               d == last.buf
    <3>1. v \in Nat
      BY <1>1, <2>1
    <3>2. Ended(last) = [last EXCEPT !.buf = [d EXCEPT !.mem = [d.mem EXCEPT ![at] = v]]]
      BY <2>3
    <3>3. [d.mem EXCEPT ![at] = v] \in [0 .. n - 1 -> Nat]
      BY <1>1, <2>1, <3>1, BufFields
    <3> HIDE DEF v, d
    <3>4. [d EXCEPT !.mem = [d.mem EXCEPT ![at] = v]] \in BufType(n, Nat)
      BY <2>1, <3>3 DEF BufType, d
    <3> QED BY <2>1, <3>2, <3>4
  <2> QED BY <2>2, <2>3
<1> QED BY <1>5, <1>6

\* A new buffer holds only zeros.
LEMMA NewBuf ==
  ASSUME NEW n \in Nat \ {0}
  PROVE  LET b == BufInit(n, 0) IN b \in BufType(n, {0, 1}) /\ b.posB = 0 /\ b.posA = 0
BY DEF BufInit, BufType

\* Both buffers stay buffers of the same cells in one turn of the loop that copies
\* packets.
PumpType(w, m, n, C, j) ==
  /\ w \in [from : BufType(m, C), to : BufType(n, C), going : BOOLEAN]
  /\ w.from.posB = j

\* A turn keeps them so.
LEMMA PumpTurnType ==
  ASSUME NEW m \in Nat, NEW n \in Nat, NEW C, C \subseteq Nat, NEW j, NEW w, NEW i,
         PumpType(w, m, n, C, j)
  PROVE  PumpType(PumpTurn(w, i), m, n, C, j)
<1> DEFINE size == w.from.mem[w.from.posA]
           d == [w.from EXCEPT !.posA = w.from.posA + 1]
           c == BufCopy(d, w.to, size)
<1>1. /\ w = [from |-> w.from, to |-> w.to, going |-> w.going]
      /\ w.from \in BufType(m, C) /\ w.to \in BufType(n, C) /\ w.going \in BOOLEAN
      /\ w.from.posB = j
      /\ w.from.posA \in 0 .. m /\ w.from.posB \in 0 .. m
      /\ w.from.mem \in [0 .. m - 1 -> C]
  BY BufFields DEF PumpType
<1>2. CASE ~w.going \/ w.from.posA >= w.from.posB
  <2>1. PumpTurn(w, i) = w
    BY <1>1, <1>2 DEF PumpTurn
  <2> QED BY <2>1
<1>3. CASE w.going /\ w.from.posA < w.from.posB /\ size > EpcSize
  <2>1. PumpTurn(w, i) = [w EXCEPT !.going = FALSE]
    BY <1>1, <1>3 DEF PumpTurn
  <2> QED BY <1>1, <2>1 DEF PumpType
<1>4. CASE w.going /\ w.from.posA < w.from.posB /\ ~(size > EpcSize)
  <2>1. PumpTurn(w, i) = [w EXCEPT !.from = c.from, !.to = c.to]
    BY <1>1, <1>4 DEF PumpTurn
  <2>2. size \in Nat /\ w.from.posA + 1 \in 0 .. m
    BY <1>1, <1>4
  <2>3. d \in BufType(m, C) /\ d.posB = j
    <3> DEFINE k == w.from.posA + 1
    <3> HIDE DEF k
    <3>1. k \in 0 .. m
      BY <2>2 DEF k
    <3>2. [w.from EXCEPT !.posA = k] \in BufType(m, C) /\ [w.from EXCEPT !.posA = k].posB = j
      BY <1>1, <3>1, BufMovedA
    <3> QED BY <3>2 DEF k
  <2> HIDE DEF d, size
  <2>4. c.from \in BufType(m, C) /\ c.to \in BufType(n, C) /\ c.from.posB = j
    BY <1>1, <2>2, <2>3, BufCopyType
  <2> HIDE DEF c
  <2> QED BY <1>1, <2>1, <2>4 DEF PumpType
<1> QED BY <1>1, <1>2, <1>3, <1>4

\* The update of the EPC: the packet buffer is emptied or its write cursor stays.
LEMMA PumpTypes ==
  ASSUME NEW m \in Nat, NEW n \in Nat, NEW C, C \subseteq Nat, 0 \in C,
         NEW b \in BufType(m, C), NEW e \in BufType(n, C)
  PROVE  LET p == Pump(b, e)
         IN p.pkt \in BufType(m, C) /\ p.epc \in BufType(n, C) /\ p.pkt.posB \in {0, b.posB}
<1> DEFINE start == [from |-> b, to |-> EpcReset(e), going |-> TRUE]
           turns == [i \in 1 .. b.size |-> i]
           Ended(w) ==
             [pkt |-> IF w.from.posA = w.from.posB
                      THEN [w.from EXCEPT !.posA = 0, !.posB = 0] ELSE w.from,
              epc |-> BufWrite(w.to, <<PktEnd>>).buf]
           last == Fold(PumpTurn, start, turns)
           j == b.posB
<1>1. PumpType(start, m, n, C, j)
  <2>1. EpcReset(e) \in BufType(n, C)
    <3>1. 0 \in 0 .. n
      OBVIOUS
    <3> QED BY <3>1, BufMoved DEF EpcReset
  <2> QED BY <2>1 DEF PumpType
<1>2. Len(turns) \in Nat
  BY BufFields
<1> HIDE DEF start, turns
<1>3. PICK g : /\ g[0] = start
               /\ \A k \in 1 .. Len(turns) : g[k] = PumpTurn(g[k - 1], turns[k])
               /\ Pumping!Folded(start, turns) = g[Len(turns)]
  BY <1>2, Pumping!FoldSteps
<1>4. last = Pumping!Folded(start, turns)
  BY DEF Fold, Pumping!Folded
<1> DEFINE T == {k \in 0 .. Len(turns) : PumpType(g[k], m, n, C, j)}
<1>5. 0 \in T
  BY <1>1, <1>2, <1>3
<1>6. ASSUME NEW k \in 1 .. Len(turns), k - 1 \in T PROVE k \in T
  <2>1. PumpType(g[k - 1], m, n, C, j)
    BY <1>6
  <2>2. PumpType(PumpTurn(g[k - 1], turns[k]), m, n, C, j)
    BY <2>1, PumpTurnType
  <2> QED BY <1>3, <2>2
<1> HIDE DEF T, last, j
<1>7. \A k \in 0 .. Len(turns) : k \in T
  BY <1>2, <1>5, <1>6, Adding!HoldsToTheEnd
<1>8. Len(turns) \in T
  BY <1>2, <1>7
<1>9. PumpType(last, m, n, C, j)
  BY <1>3, <1>4, <1>8 DEF T
<1>10. Pump(b, e) = Ended(last)
  <2>1. Pump(b, e) = Strictly(Ended, last)
    BY DEF Pump, last, start, turns
  <2> HIDE DEF Ended
  <2> QED BY <2>1 DEF Strictly
<1>11. /\ Ended(last).pkt \in BufType(m, C) /\ Ended(last).pkt.posB \in {0, j}
       /\ Ended(last).epc \in BufType(n, C)
  <2>1. last.from \in BufType(m, C) /\ last.to \in BufType(n, C) /\ last.from.posB = j
    BY <1>9 DEF PumpType
  <2>2. BufWrite(last.to, <<PktEnd>>).buf \in BufType(n, C)
    BY <2>1, BufWriteType, <<PktEnd>> \in Seq(C) DEF PktEnd
  <2> DEFINE f == last.from
             z == [f EXCEPT !.posA = 0, !.posB = 0]
  <2>3. z \in BufType(m, C) /\ z.posB = 0
    <3> HIDE DEF f
    <3>1. f \in BufType(m, C) /\ 0 \in 0 .. m
      BY <2>1 DEF f
    <3>2. [f EXCEPT !.posA = 0, !.posB = 0] \in BufType(m, C)
      BY <3>1, BufMoved
    <3> QED BY <3>1, <3>2 DEF BufType
  <2> HIDE DEF z
  <2>4. Ended(last).pkt \in {z, last.from} /\ Ended(last).epc = BufWrite(last.to, <<PktEnd>>).buf
    BY DEF z
  <2> HIDE DEF Ended
  <2> QED BY <2>1, <2>2, <2>3, <2>4
<1> QED BY <1>10, <1>11 DEF j

-----------------------------------------------------------------------------
(* What the server reads from an EPC.                                       *)

Reading == INSTANCE FoldFacts WITH Op <- ReadPacket
ReadAdding == INSTANCE FoldFacts WITH Op <- AddReads

\* A packet that the server reads from an EPC.
EpcPacketType ==
  {p \in [type : {PktOpen, PktAck, PktReqUplink}, data : Seq(Nat)] :
     p.type = PktReqUplink => Len(p.data) = 2}

\* The local state of _handle_packets: every packet has a type that is one of the
\* bytes, and without a connection the first one is an OPEN.
ReadingSound(w, bytes, opened) ==
  /\ w \in [bytes : {bytes}, at : Nat \ {0}, packets : Seq(EpcPacketType),
            going : BOOLEAN, opened : BOOLEAN]
  /\ \A k \in 1 .. Len(w.packets) : \E j \in 1 .. Len(bytes) : w.packets[k].type = bytes[j]
  /\ opened => w.opened
  /\ ~opened => IF w.opened THEN Len(w.packets) > 0 /\ w.packets[1].type = PktOpen
                ELSE w.packets = <<>>

\* One packet more.
LEMMA ReadPacketSound ==
  ASSUME NEW bytes \in Seq(Nat), NEW opened \in BOOLEAN, NEW w, NEW i,
         ReadingSound(w, bytes, opened)
  PROVE  ReadingSound(ReadPacket(w, i), bytes, opened)
<1> DEFINE at == w.at
           type == w.bytes[at]
           u == ReadPacket(w, i)
<1>1. /\ w = [bytes |-> w.bytes, at |-> w.at, packets |-> w.packets, going |-> w.going,
              opened |-> w.opened]
      /\ w.bytes = bytes /\ at \in Nat \ {0} /\ w.packets \in Seq(EpcPacketType)
      /\ w.going \in BOOLEAN /\ w.opened \in BOOLEAN
      /\ Len(bytes) \in Nat /\ Len(w.packets) \in Nat
  BY DEF ReadingSound
<1> SUFFICES ReadingSound(u, bytes, opened)
  OBVIOUS
<1>2. CASE u = w
  <2> HIDE DEF u
  <2> QED BY <1>2
<1>3. CASE u = [w EXCEPT !.going = FALSE]
  <2>1. u \in [bytes : {bytes}, at : Nat \ {0}, packets : Seq(EpcPacketType),
               going : BOOLEAN, opened : BOOLEAN]
    <3>1. [w EXCEPT !.going = FALSE] \in [bytes : {bytes}, at : Nat \ {0},
             packets : Seq(EpcPacketType), going : BOOLEAN, opened : BOOLEAN]
      BY DEF ReadingSound
    <3> HIDE DEF u
    <3> QED BY <1>3, <3>1
  <2> HIDE DEF u
  <2>2. u.packets = w.packets /\ u.opened = w.opened
    BY <1>1, <1>3
  <2> QED BY <2>1, <2>2 DEF ReadingSound
<1>4. CASE u = [w EXCEPT !.at = at + 1]
  <2> DEFINE a == at + 1
  <2>1. a \in Nat \ {0}
    BY <1>1
  <2>2. u = [w EXCEPT !.at = a]
    BY <1>4
  <2> HIDE DEF u, a
  <2>3. u \in [bytes : {bytes}, at : Nat \ {0}, packets : Seq(EpcPacketType),
               going : BOOLEAN, opened : BOOLEAN]
    <3>1. [w EXCEPT !.at = a] \in [bytes : {bytes}, at : Nat \ {0},
             packets : Seq(EpcPacketType), going : BOOLEAN, opened : BOOLEAN]
      BY <2>1 DEF ReadingSound
    <3> QED BY <2>2, <3>1
  <2>4. u.packets = w.packets /\ u.opened = w.opened
    BY <1>1, <2>2
  <2> QED BY <2>3, <2>4 DEF ReadingSound
<1> DEFINE data == SubSeq(w.bytes, at + 1, at + DataSize(type))
           p == [type |-> type, data |-> data]
<1>5. ASSUME at <= Len(bytes), at + DataSize(type) <= Len(bytes),
             type \in {PktOpen, PktAck, PktReqUplink}, w.opened \/ type = PktOpen,
             u = [w EXCEPT !.at = at + 1 + DataSize(type), !.opened = TRUE,
                           !.packets = Append(@, p)]
      PROVE  ReadingSound(u, bytes, opened)
  <2>1. DataSize(type) \in Nat /\ (type = PktReqUplink => DataSize(type) = 2)
    BY <1>5 DEF DataSize, PktOpen, PktAck, PktReqUplink
  <2>2. data \in Seq(Nat) /\ Len(data) = DataSize(type)
    <3> DEFINE d == DataSize(type)
               n == Len(bytes)
               k == at + 1
               l == at + d
    <3>1. k \in 1 .. n + 1 /\ l \in k - 1 .. n /\ l - k + 1 = d
      <4>1. d \in Nat /\ n \in Nat /\ at \in Nat \ {0} /\ at <= n /\ at + d <= n
        BY <1>1, <1>5, <2>1
      <4> HIDE DEF d, n, at
      <4> QED BY <4>1
    <3> HIDE DEF k, l
    <3>2. SubSeq(bytes, k, l) \in Seq(Nat) /\ Len(SubSeq(bytes, k, l)) = l - k + 1
      BY <3>1, SubSeqProperties
    <3>3. data = SubSeq(bytes, k, l)
      BY <1>1 DEF k, l
    <3> QED BY <3>1, <3>2, <3>3
  <2> HIDE DEF data
  <2>3. p \in EpcPacketType
    BY <1>5, <2>1, <2>2 DEF EpcPacketType
  <2> HIDE DEF p
  <2> DEFINE new == Append(w.packets, p)
  <2>4. /\ new \in Seq(EpcPacketType) /\ Len(new) = Len(w.packets) + 1
        /\ \A k \in 1 .. Len(w.packets) : new[k] = w.packets[k]
        /\ new[Len(w.packets) + 1] = p
    BY <1>1, <2>3
  <2> HIDE DEF new
  <2>5. u.packets = new /\ u.opened = TRUE
    BY <1>1, <1>5 DEF new
  <2>6. u \in [bytes : {bytes}, at : Nat \ {0}, packets : Seq(EpcPacketType),
               going : BOOLEAN, opened : BOOLEAN]
    <3> DEFINE a == at + 1 + DataSize(type)
    <3>1. a \in Nat \ {0}
      BY <1>1, <2>1
    <3>2. u = [w EXCEPT !.at = a, !.opened = TRUE, !.packets = new]
      BY <1>1, <1>5 DEF new
    <3> HIDE DEF u, a
    <3>3. [w EXCEPT !.at = a, !.opened = TRUE, !.packets = new] \in
            [bytes : {bytes}, at : Nat \ {0}, packets : Seq(EpcPacketType),
             going : BOOLEAN, opened : BOOLEAN]
      BY <2>4, <3>1 DEF ReadingSound
    <3> QED BY <3>2, <3>3
  <2> HIDE DEF u
  <2>7. p.type = bytes[at] /\ at \in 1 .. Len(bytes) /\ p.type = type
    BY <1>1, <1>5 DEF p
  <2>8. ASSUME NEW k \in 1 .. Len(new) PROVE \E j \in 1 .. Len(bytes) : new[k].type = bytes[j]
    <3>1. CASE k = Len(w.packets) + 1
      BY <2>4, <2>7, <3>1
    <3>2. CASE k # Len(w.packets) + 1
      <4>1. k \in 1 .. Len(w.packets)
        BY <1>1, <2>4, <3>2
      <4> QED BY <2>4, <4>1 DEF ReadingSound
    <3> QED BY <3>1, <3>2
  <2>9. ~opened => Len(new) > 0 /\ new[1].type = PktOpen
    <3>1. CASE opened
      BY <3>1
    <3>2. CASE ~opened /\ w.opened
      <4>1. Len(w.packets) > 0 /\ w.packets[1].type = PktOpen
        BY <3>2 DEF ReadingSound
      <4> QED BY <1>1, <2>4, <4>1
    <3>3. CASE ~opened /\ ~w.opened
      <4>1. Len(w.packets) = 0
        BY <3>3 DEF ReadingSound
      <4>2. type = PktOpen
        BY <1>5, <3>3
      <4> QED BY <2>4, <2>7, <4>1, <4>2
    <3> QED BY <3>1, <3>2, <3>3
  <2> QED BY <2>5, <2>6, <2>8, <2>9 DEF ReadingSound
<1>6. CASE ~w.going \/ at > Len(w.bytes)
  <2>1. u = w
    BY <1>6 DEF ReadPacket
  <2> HIDE DEF u
  <2> QED BY <1>2, <2>1
<1>7. CASE w.going /\ ~(at > Len(w.bytes))
  <2>1. type \in Nat /\ at \in 1 .. Len(bytes)
    <3>1. at \in 1 .. Len(bytes)
      BY <1>1, <1>7
    <3> QED BY <1>1, <3>1, ElementOfSeq
  <2> HIDE DEF p
  <2>2. CASE type = PktEnd
    <3>1. ~(type > 7 \/ (type \notin {PktEnd, PktOpen} /\ ~w.opened))
      BY <2>2 DEF PktEnd
    <3>2. ~(type \in {2, 4, 5, 7} /\ w.opened)
      BY <2>2 DEF PktEnd
    <3>3. u = [w EXCEPT !.going = FALSE]
      BY <1>7, <2>2, <3>1, <3>2 DEF ReadPacket
    <3> QED BY <1>3, <3>3
  <2>3. CASE type # PktEnd /\ (type > 7 \/ (type \notin {PktEnd, PktOpen} /\ ~w.opened))
    <3>1. u = [w EXCEPT !.at = at + 1]
      <4>1. ~(type \in {2, 4, 5, 7} /\ w.opened)
        BY SMTT(30), <2>1, <2>3 DEF PktOpen
      <4> QED BY <1>7, <2>3, <4>1 DEF ReadPacket
    <3> QED BY <1>4, <3>1
  <2>4. CASE type \in {2, 4, 5, 7} /\ w.opened
    <3>1. type # PktEnd /\ ~(type > 7 \/ (type \notin {PktEnd, PktOpen} /\ ~w.opened))
      BY <2>1, <2>4 DEF PktEnd
    <3> QED BY <1>3, <1>7, <2>4, <3>1 DEF ReadPacket
  <2>5. CASE /\ type # PktEnd /\ ~(type > 7 \/ (type \notin {PktEnd, PktOpen} /\ ~w.opened))
             /\ ~(type \in {2, 4, 5, 7} /\ w.opened)
    <3>1. type \in {PktOpen, PktAck, PktReqUplink} /\ (w.opened \/ type = PktOpen)
      <4> HIDE DEF type, at
      <4>1. type \in Nat /\ type # 0 /\ ~(type > 7) /\ (type \in {0, 1} \/ w.opened)
        BY <2>1, <2>5 DEF PktEnd, PktOpen
      <4>2. type \in 1 .. 7
        BY <4>1
      <4>3. CASE w.opened
        <5>1. type \notin {2, 4, 5, 7}
          BY <2>5, <4>3
        <5>2. type \in {1, 3, 6}
          BY <4>2, <5>1
        <5> QED BY <4>3, <5>2 DEF PktOpen, PktAck, PktReqUplink
      <4>4. CASE ~w.opened
        BY <4>1, <4>4 DEF PktOpen
      <4> QED BY <4>3, <4>4
    <3>2. CASE at + DataSize(type) > Len(w.bytes)
      BY <1>3, <1>7, <2>5, <3>2 DEF ReadPacket
    <3>3. CASE ~(at + DataSize(type) > Len(w.bytes))
      <4>1. u = [w EXCEPT !.at = at + 1 + DataSize(type), !.opened = TRUE,
                          !.packets = Append(@, p)]
        BY <1>7, <2>5, <3>3 DEF ReadPacket, p
      <4>2. DataSize(type) \in Nat
        BY <3>1 DEF DataSize, PktOpen, PktAck, PktReqUplink
      <4>3. at <= Len(bytes) /\ at + DataSize(type) <= Len(bytes)
        BY <1>1, <2>1, <3>3, <4>2
      <4> HIDE DEF u, type
      <4> QED BY <1>5, <3>1, <4>1, <4>3
    <3> QED BY <3>2, <3>3
  <2> QED BY <2>2, <2>3, <2>4, <2>5
<1> QED BY <1>6, <1>7

\* What the server reads from an EPC.
LEMMA PacketsOfEpcSound ==
  ASSUME NEW bytes \in Seq(Nat), NEW opened \in BOOLEAN
  PROVE  LET ps == PacketsOfEpc(bytes, opened)
         IN /\ ps \in Seq(EpcPacketType)
            /\ \A k \in 1 .. Len(ps) : \E j \in 1 .. Len(bytes) : ps[k].type = bytes[j]
            /\ ~opened => ps = <<>> \/ (Len(ps) > 0 /\ ps[1].type = PktOpen)
<1> DEFINE ps == PacketsOfEpc(bytes, opened)
           start == [bytes |-> bytes, at |-> 1, packets |-> <<>>, going |-> TRUE,
                     opened |-> opened]
           turns == [i \in 1 .. Len(bytes) |-> i]
           last == Fold(ReadPacket, start, turns)
<1>1. ReadingSound(start, bytes, opened)
  BY DEF ReadingSound
<1>2. Len(turns) \in Nat
  OBVIOUS
<1> HIDE DEF start, turns
<1>3. PICK g : /\ g[0] = start
               /\ \A k \in 1 .. Len(turns) : g[k] = ReadPacket(g[k - 1], turns[k])
               /\ Reading!Folded(start, turns) = g[Len(turns)]
  BY <1>2, Reading!FoldSteps
<1>4. last = Reading!Folded(start, turns)
  BY DEF Fold, Reading!Folded
<1> DEFINE T == {k \in 0 .. Len(turns) : ReadingSound(g[k], bytes, opened)}
<1>5. 0 \in T
  BY <1>1, <1>2, <1>3
<1>6. ASSUME NEW k \in 1 .. Len(turns), k - 1 \in T PROVE k \in T
  <2>1. ReadingSound(ReadPacket(g[k - 1], turns[k]), bytes, opened)
    BY <1>6, ReadPacketSound
  <2> QED BY <1>3, <2>1
<1> HIDE DEF T
<1>7. \A k \in 0 .. Len(turns) : k \in T
  BY <1>2, <1>5, <1>6, Adding!HoldsToTheEnd
<1>8. Len(turns) \in T
  BY <1>2, <1>7
<1>9. ReadingSound(last, bytes, opened)
  BY <1>3, <1>4, <1>8 DEF T
<1>10. ps = last.packets
  BY DEF PacketsOfEpc, start, turns
<1> HIDE DEF last, ps
<1>11. /\ ps \in Seq(EpcPacketType)
       /\ \A k \in 1 .. Len(ps) : \E j \in 1 .. Len(bytes) : ps[k].type = bytes[j]
       /\ ~opened => ps = <<>> \/ (Len(ps) > 0 /\ ps[1].type = PktOpen)
  BY <1>9, <1>10 DEF ReadingSound
<1> QED BY <1>11 DEF ps

\* The Reads that the packets ask for.
LEMMA ReadsOfType ==
  ASSUME NEW ps \in Seq(EpcPacketType)
  PROVE  /\ ReadsOf(ps) \in Seq(Nat)
         /\ (\A k \in 1 .. Len(ps) : ps[k].type # PktReqUplink) => ReadsOf(ps) = <<>>
<1> DEFINE n == Len(ps)
           None == \A k \in 1 .. n : ps[k].type # PktReqUplink
           Right(v) == v \in Seq(Nat) /\ (None => v = <<>>)
<1>1. n \in Nat
  OBVIOUS
<1>2. PICK g : /\ g[0] = <<>>
               /\ \A k \in 1 .. n : g[k] = AddReads(g[k - 1], ps[k])
               /\ ReadAdding!Folded(<<>>, ps) = g[n]
  BY <1>1, ReadAdding!FoldSteps
<1>3. ReadsOf(ps) = ReadAdding!Folded(<<>>, ps)
  BY DEF ReadsOf, Fold, ReadAdding!Folded
<1> DEFINE T == {k \in 0 .. n : Right(g[k])}
<1>4. 0 \in T
  <2>1. Right(g[0])
    BY <1>2
  <2> HIDE DEF n, Right
  <2> QED BY <1>1, <2>1
<1>5. ASSUME NEW k \in 1 .. n, k - 1 \in T PROVE k \in T
  <2> DEFINE p == ps[k]
             new == [i \in 1 .. p.data[1] |-> p.data[2]]
  <2>1. p \in EpcPacketType /\ Right(g[k - 1]) /\ g[k] = AddReads(g[k - 1], p)
    BY <1>1, <1>2, <1>5, ElementOfSeq
  <2> HIDE DEF n, p
  <2>2. CASE p.type # PktReqUplink
    <3>1. g[k] = g[k - 1]
      BY <2>1, <2>2 DEF AddReads
    <3> QED BY <2>1, <3>1
  <2>3. CASE p.type = PktReqUplink
    <3>1. g[k] = g[k - 1] \o new
      BY <2>1, <2>3 DEF AddReads
    <3>2. ~None
      BY <2>3 DEF p
    <3>3. p.data \in Seq(Nat) /\ Len(p.data) = 2
      BY <2>1, <2>3 DEF EpcPacketType
    <3>4. p.data[1] \in Nat /\ p.data[2] \in Nat
      BY <3>3, ElementOfSeq
    <3>5. new \in Seq(Nat)
      BY <3>4
    <3> HIDE DEF new, None
    <3>6. g[k] \in Seq(Nat)
      BY <2>1, <3>1, <3>5, ConcatProperties
    <3> QED BY <3>2, <3>6
  <2> QED BY <2>2, <2>3
<1> HIDE DEF T, Right
<1>6. \A k \in 0 .. n : k \in T
  BY <1>1, <1>4, <1>5, Adding!HoldsToTheEnd
<1>7. n \in T
  BY <1>1, <1>6
<1>8. Right(ReadsOf(ps))
  BY <1>2, <1>3, <1>7 DEF T
<1> QED BY <1>8 DEF Right

-----------------------------------------------------------------------------
(* The transmit control without messages.                                   *)

\* The transmit control of a connection without messages.
CtrlTx(ps) == [NewTx EXCEPT !.packets = ps]

Writing == INSTANCE FoldFacts WITH Op <- WriteStep

\* Only its control packets change.
LEMMA CtrlTxFields ==
  ASSUME NEW ps \in Seq(CtrlPacketType)
  PROVE  /\ CtrlTx(ps) \in TxType /\ CtrlTx(ps).packets = ps
         /\ CtrlTx(ps).messages = <<>> /\ CtrlTx(ps).fragments = <<>>
         /\ NewTx = CtrlTx(<<>>)
         /\ \A qs : [CtrlTx(ps) EXCEPT !.packets = qs] = CtrlTx(qs)
         /\ \A p : AddPacket(CtrlTx(ps), p) = CtrlTx(Append(ps, p))
<1>1. SeqSpace \in Nat \ {0}
  BY SeqSpaceSize
<1>2. /\ CtrlTx(ps).packets = ps /\ CtrlTx(ps).messages = <<>> /\ CtrlTx(ps).fragments = <<>>
  BY DEF CtrlTx, NewTx
<1>3. CtrlTx(ps) \in TxType
  <2>1. NewTx \in TxType
    BY <1>1 DEF NewTx, TxType
  <2> HIDE DEF TxFragmentType
  <2>2. [NewTx EXCEPT !.packets = ps] \in TxType
    BY <2>1 DEF TxType
  <2> QED BY <2>2 DEF CtrlTx
<1>4. NewTx = CtrlTx(<<>>)
  BY DEF CtrlTx, NewTx
<1>5. \A qs : [CtrlTx(ps) EXCEPT !.packets = qs] = CtrlTx(qs)
  BY DEF CtrlTx, NewTx
<1>6. \A p : AddPacket(CtrlTx(ps), p) = CtrlTx(Append(ps, p))
  BY DEF CtrlTx, NewTx, AddPacket
<1> QED BY <1>2, <1>3, <1>4, <1>5, <1>6

\* A pass of the data loop with no message to send ends the loop.
LEMMA NothingToWrite ==
  ASSUME NEW w, NEW size, NEW d, NEW ps \in Seq(CtrlPacketType), w.tx = CtrlTx(ps),
         w = [tx |-> w.tx, est |-> w.est, data |-> w.data, status |-> w.status],
         w.data = d, w.status \in {"building", "done"}
  PROVE  LET u == WriteStep(w, size)
         IN /\ u = [tx |-> u.tx, est |-> u.est, data |-> u.data, status |-> u.status]
            /\ u.tx = CtrlTx(ps) /\ u.data = d /\ u.status = "done"
<1> DEFINE u == WriteStep(w, size)
           none == [kind |-> "none", tx |-> w.tx]
           Made(new) ==
             CASE new.kind = "none"   -> [w EXCEPT !.tx = new.tx, !.status = "done"]
               [] new.kind = "raised" -> [w EXCEPT !.tx = new.tx, !.status = "raised"]
               [] new.kind = "frag"   ->
                    WriteFragment(w, [new.tx EXCEPT !.fragments = Append(@, new.frag)],
                                  Len(new.tx.fragments) + 1)
<1>1. w.tx.messages = <<>> /\ w.tx.fragments = <<>>
  BY CtrlTxFields
<1>2. CASE w.status = "done"
  <2>1. u = w
    BY <1>2 DEF WriteStep
  <2> HIDE DEF u
  <2> QED BY <1>2, <2>1 DEF u
<1>3. CASE w.status = "building"
  <2>1. {i \in DOMAIN w.tx.fragments : w.tx.fragments[i].needSend} = {}
    BY <1>1
  <2>2. u = WriteNew(w, size)
    BY <1>3, <2>1 DEF WriteStep
  <2>3. MakeFragment(w.tx, size - w.est) = none
    BY <1>1 DEF MakeFragment
  <2>4. WriteNew(w, size) = Made(none)
    <3>1. WriteNew(w, size) = CHOOSE r \in {Made(x) : x \in {none}} : TRUE
      BY <2>3 DEF WriteNew, Strictly
    <3> HIDE DEF Made, none
    <3> QED BY <3>1
  <2>5. Made(none) = [w EXCEPT !.tx = w.tx, !.status = "done"]
    OBVIOUS
  <2> HIDE DEF u, Made
  <2>6. u = [tx |-> w.tx, est |-> w.est, data |-> w.data, status |-> "done"]
    BY <2>2, <2>4, <2>5
  <2> QED BY <2>6 DEF u
<1> QED BY <1>2, <1>3

\* What get_write_data writes then: as many control packets as fit; the next one is
\* lost when there is one.
LEMMA GetCtrlData ==
  ASSUME NEW ps \in Seq(CtrlPacketType), NEW size \in Nat
  PROVE  LET w == GetWriteData(CtrlTx(ps), size)
             n == FittingPackets(ps, size)
             taken == IF n < Len(ps) THEN n + 1 ELSE n
         IN /\ w.status = "done" /\ w.data = SubSeq(ps, 1, n)
            /\ w.tx = CtrlTx(SubSeq(ps, taken + 1, Len(ps)))
            /\ SubSeq(ps, 1, n) \in Seq(CtrlPacketType)
            /\ SubSeq(ps, taken + 1, Len(ps)) \in Seq(CtrlPacketType)
<1> DEFINE w     == GetWriteData(CtrlTx(ps), size)
           n     == FittingPackets(ps, size)
           taken == IF n < Len(ps) THEN n + 1 ELSE n
           rest  == SubSeq(ps, taken + 1, Len(ps))
           d     == SubSeq(ps, 1, n)
           start == [tx     |-> CtrlTx(rest),
                     est    |-> PacketsSize(SubSeq(ps, 1, n)),
                     data   |-> d,
                     status |-> IF taken > n THEN "done" ELSE "building"]
           turns == 0 + size \div 5 + 1
           sizes == [i \in 1 .. turns |-> size]
<1>1. n \in 0 .. Len(ps) /\ Len(ps) \in Nat
  BY FittingPacketsType
<1>2. rest \in Seq(CtrlPacketType) /\ d \in Seq(CtrlPacketType)
  <2> HIDE DEF n
  <2> QED BY <1>1
<1>3. w = Fold(WriteStep, start, sizes)
  <2>1. CtrlTx(ps).packets = ps /\ CtrlTx(ps).fragments = <<>>
    BY CtrlTxFields
  <2>2. Len(CtrlTx(ps).fragments) = 0
    BY <2>1
  <2>3. \A qs : [CtrlTx(ps) EXCEPT !.packets = qs] = CtrlTx(qs)
    BY CtrlTxFields
  <2>4. [CtrlTx(ps) EXCEPT !.packets = rest] = CtrlTx(rest)
    BY <2>3
  <2> QED BY <2>1, <2>2, <2>4 DEF GetWriteData
<1>4. turns \in Nat /\ turns >= 1
  <2>1. size \div 5 \in Nat
    OBVIOUS
  <2> QED BY <2>1
<1> HIDE DEF turns
<1>5. Len(sizes) = turns /\ Len(sizes) \in Nat
  BY <1>4
<1>6. /\ start = [tx |-> start.tx, est |-> start.est, data |-> start.data, status |-> start.status]
      /\ start.tx = CtrlTx(rest) /\ start.data = d /\ start.status \in {"building", "done"}
  OBVIOUS
<1> HIDE DEF start, sizes, rest, d, w
<1>7. PICK g : /\ g[0] = start
               /\ \A k \in 1 .. Len(sizes) : g[k] = WriteStep(g[k - 1], sizes[k])
               /\ Writing!Folded(start, sizes) = g[Len(sizes)]
  BY SMTT(30), <1>5, Writing!FoldSteps
<1>8. w = Writing!Folded(start, sizes)
  BY <1>3 DEF Fold, Writing!Folded
<1> DEFINE Right(v) ==
             /\ v = [tx |-> v.tx, est |-> v.est, data |-> v.data, status |-> v.status]
             /\ v.tx = CtrlTx(rest) /\ v.data = d
           T == {k \in 0 .. turns : /\ Right(g[k]) /\ g[k].status \in {"building", "done"}
                                    /\ (k > 0 => g[k].status = "done")}
<1>9. 0 \in T
  <2>1. Right(g[0]) /\ g[0].status \in {"building", "done"}
    BY <1>6, <1>7
  <2> HIDE DEF Right
  <2> QED BY <1>4, <2>1
<1>10. ASSUME NEW k \in 1 .. turns, k - 1 \in T PROVE k \in T
  <2>1. Right(g[k - 1]) /\ g[k - 1].status \in {"building", "done"}
    BY <1>10
  <2>2. g[k] = WriteStep(g[k - 1], sizes[k])
    BY <1>5, <1>7
  <2>3. Right(g[k]) /\ g[k].status = "done"
    BY <1>2, <2>1, <2>2, NothingToWrite
  <2> HIDE DEF Right
  <2> QED BY <2>3
<1> HIDE DEF T
<1>11. \A k \in 0 .. turns : k \in T
  BY <1>4, <1>9, <1>10, Adding!HoldsToTheEnd
<1>12. turns \in T
  BY <1>4, <1>11
<1>13. Right(w) /\ w.status = "done"
  BY <1>4, <1>5, <1>7, <1>8, <1>12 DEF T
<1> QED BY <1>2, <1>13 DEF w, rest, d

-----------------------------------------------------------------------------
(* The ACK.                                                                 *)

Removing == INSTANCE FoldFacts WITH Op <- RemoveFragment

\* What lies in the arena, and what is cut, is the same.
SameArena(t, c) ==
  /\ t.buf.mem = c.buf.mem /\ t.buf.posB = c.buf.posB
  /\ t.beginSeq = c.beginSeq /\ t.beginPos = c.beginPos /\ t.fragmented = c.fragmented

\* So the messages are in order in both, or in none.
LEMMA SameArenaSound ==
  ASSUME NEW t, NEW c, SameArena(t, c)
  PROVE  CutEnd(t) = CutEnd(c) /\ \A n : ArenaSound(c, n) => ArenaSound(t, n)
<1>1. CutEnd(t) = CutEnd(c)
  BY DEF SameArena, CutEnd
<1>2. ASSUME NEW n, ArenaSound(c, n) PROVE ArenaSound(t, n)
  BY <1>2 DEF SameArena, ArenaSound
<1> QED BY <1>1, <1>2

\* After the removal of k fragments of transmit control c.
AckState(w, c, k) ==
  /\ w \in [tx : CtxType, nSent : Nat, ok : BOOLEAN]
  /\ SameArena(w.tx, c) /\ w.tx.seq = c.seq /\ w.tx.count >= c.count - k

\* One more.
LEMMA RemoveFragmentSound ==
  ASSUME NEW c \in CtxType, NEW k \in 1 .. c.count, NEW w, AckState(w, c, k - 1), NEW i
  PROVE  AckState(RemoveFragment(w, i), c, k)
<1> DEFINE t == w.tx
           e == (t.end + 1) % FragCap
           n == t.count - 1
           left == [t EXCEPT !.end = e, !.count = n]
           size == left.buf.mem[left.buf.posA][2]
           ends == Tail(left.msgEnds)
           pos == IF CanRead(left.buf, 2) THEN FreeFrom(left.buf, left.buf.posA + 2, size)
                  ELSE left.buf.posA
           b == [left.buf EXCEPT !.posA = pos]
           last == [left EXCEPT !.msgEnds = ends, !.buf = b]
           u == RemoveFragment(w, i)
<1>1. /\ w = [tx |-> t, nSent |-> w.nSent, ok |-> w.ok] /\ t \in CtxType /\ w.nSent \in Nat
      /\ w.ok \in BOOLEAN /\ SameArena(t, c) /\ t.seq = c.seq /\ t.count >= c.count - (k - 1)
  BY DEF AckState
<1>2. /\ t.end \in 0 .. FragCap - 1 /\ t.count \in 0 .. FragCap /\ FragCap \in Nat \ {0}
      /\ c.count \in 0 .. FragCap
  BY <1>1, CtxFields, UpConstants
<1>3. e \in 0 .. FragCap - 1 /\ n \in 0 .. FragCap /\ n >= c.count - k
  <2>1. k \in Nat /\ k <= c.count
    BY <1>2
  <2>2. n \in 0 .. FragCap /\ n >= c.count - k
    BY <1>1, <1>2, <2>1
  <2>3. e \in 0 .. FragCap - 1
    BY <1>2
  <2> QED BY <2>2, <2>3
<1> HIDE DEF t
<1>4. CASE ~w.ok
  <2>1. u = w
    BY <1>4 DEF RemoveFragment
  <2>2. t.count >= c.count - k
    BY <1>1, <1>2
  <2> HIDE DEF u
  <2> QED BY <1>1, <2>1, <2>2 DEF AckState, t, u
<1> HIDE DEF e, n
<1>5. /\ left \in CtxRecord
      /\ left.buf = t.buf /\ left.msgEnds = t.msgEnds /\ left.readInfos = t.readInfos
      /\ left.seq = t.seq /\ left.beginSeq = t.beginSeq /\ left.beginPos = t.beginPos
      /\ left.fragmented = t.fragmented /\ left.count = n
  BY <1>1, <1>3 DEF CtxType, CtxRecord
<1>6. left \in CtxType
  <2> HIDE DEF left
  <2> QED BY <1>1, <1>5, CtxFields DEF CtxType
<1>7. CASE w.ok /\ (left.msgEnds = <<>> \/ Head(left.msgEnds) > UpEnd(t.slots[t.end]))
  <2>1. u = [w EXCEPT !.tx = left]
    BY <1>7 DEF RemoveFragment, t, e, n
  <2> HIDE DEF left, u
  <2>2. u = [tx |-> left, nSent |-> w.nSent, ok |-> w.ok]
    BY <1>1, <2>1
  <2>3. u.tx = left
    BY <2>2
  <2>4. u \in [tx : CtxType, nSent : Nat, ok : BOOLEAN]
    <3> HIDE DEF CtxType
    <3> QED BY <1>1, <1>6, <2>2
  <2> QED BY <1>1, <1>3, <1>5, <2>3, <2>4 DEF AckState, SameArena, u
<1>8. CASE w.ok /\ ~(left.msgEnds = <<>> \/ Head(left.msgEnds) > UpEnd(t.slots[t.end]))
  <2> DEFINE ok == CanRead(left.buf, 2)
  <2>1. u = [w EXCEPT !.nSent = w.nSent + 1, !.ok = ok, !.tx = last]
    BY <1>8 DEF RemoveFragment, t, e, n
  <2> HIDE DEF left, u
  <2>2. /\ left.buf \in BufType(TxBufSize, Cell) /\ left.buf.size = TxBufSize
        /\ left.buf.posA \in 0 .. TxBufSize /\ TxBufSize \in Nat
        /\ left.msgEnds \in Seq(0 .. SeqSpace - 1) /\ Len(left.msgEnds) <= MsgCap
        /\ MsgCap \in Nat
    BY <1>6, CtxFields, UpConstants
  <2>3. pos \in 0 .. TxBufSize
    <3>1. CASE ok
      <4>1. left.buf.posA \in 0 .. TxBufSize - 1 /\ left.buf.posA + 2 \in 0 .. TxBufSize
        BY SMTT(30), <2>2, <3>1 DEF CanRead
      <4>2. size \in 0 .. TxBufSize
        BY <1>6, <4>1, SizeRead
      <4> HIDE DEF size
      <4> DEFINE p == left.buf.posA + 2
      <4> HIDE DEF p
      <4>3. p \in 0 .. TxBufSize
        BY <4>1 DEF p
      <4>4. FreeFrom(left.buf, p, size) \in 0 .. TxBufSize
        BY <1>6, <4>2, <4>3, FreedPos
      <4>5. pos = FreeFrom(left.buf, p, size)
        BY <3>1 DEF p
      <4> QED BY <4>4, <4>5
    <3>2. CASE ~ok
      BY <2>2, <3>2
    <3> QED BY <3>1, <3>2
  <2> HIDE DEF pos
  <2>4. b \in BufType(TxBufSize, Cell) /\ b.mem = left.buf.mem /\ b.posB = left.buf.posB
    <3> DEFINE h == left.buf
    <3> HIDE DEF h
    <3>1. h \in BufType(TxBufSize, Cell)
      BY <2>2 DEF h
    <3>2. [h EXCEPT !.posA = pos] \in BufType(TxBufSize, Cell)
          /\ [h EXCEPT !.posA = pos].mem = h.mem /\ [h EXCEPT !.posA = pos].posB = h.posB
      BY <2>2, <2>3, <3>1, BufMovedA
    <3> QED BY <3>2 DEF h
  <2>5. ends \in Seq(0 .. SeqSpace - 1) /\ Len(ends) <= MsgCap
    <3> DEFINE S == 0 .. SeqSpace - 1
               q == left.msgEnds
    <3> HIDE DEF S, q
    <3>1. q \in Seq(S) /\ q # <<>> /\ Len(q) <= MsgCap
      BY <1>8, <2>2 DEF S, q
    <3>2. Tail(q) \in Seq(S) /\ Len(Tail(q)) = Len(q) - 1 /\ Len(q) \in Nat
      BY <3>1
    <3>3. Len(Tail(q)) <= MsgCap
      BY <2>2, <3>1, <3>2
    <3> QED BY <3>2, <3>3 DEF S, q
  <2> HIDE DEF ends, b
  <2>6. /\ last \in CtxRecord
        /\ last.buf = b /\ last.msgEnds = ends /\ last.readInfos = left.readInfos
        /\ last.seq = left.seq /\ last.beginSeq = left.beginSeq
        /\ last.beginPos = left.beginPos /\ last.fragmented = left.fragmented
        /\ last.count = left.count
    BY <1>6, <2>4, <2>5 DEF CtxType, CtxRecord
  <2> HIDE DEF last
  <2>7. last \in CtxType
    BY <1>6, <2>5, <2>6, CtxFields DEF CtxType
  <2>8. ok \in BOOLEAN
    BY DEF CanRead
  <2> HIDE DEF ok
  <2>9. u = [tx |-> last, nSent |-> w.nSent + 1, ok |-> ok]
    BY <1>1, <2>1
  <2>10. u.tx = last /\ w.nSent + 1 \in Nat
    BY <1>1, <2>9
  <2>11. u \in [tx : CtxType, nSent : Nat, ok : BOOLEAN]
    <3> DEFINE m == w.nSent + 1
    <3> HIDE DEF CtxType, m
    <3>1. u = [tx |-> last, nSent |-> m, ok |-> ok] /\ m \in Nat
      BY <2>9, <2>10 DEF m
    <3> QED BY <2>7, <2>8, <3>1
  <2>12. SameArena(last, c) /\ last.seq = c.seq /\ last.count = n
    BY <1>1, <1>5, <2>4, <2>6 DEF SameArena
  <2> QED BY <1>3, <2>10, <2>11, <2>12 DEF AckState, u
<1> QED BY <1>1, <1>4, <1>7, <1>8

\* No more are acknowledged than there are.
LEMMA FragmentsAckedBound ==
  ASSUME NEW c \in CtxType, NEW s
  PROVE  FragmentsAcked(c, s) \in 0 .. c.count
<1> DEFINE EndAt(k) == UpEnd(c.slots[WalkIndex(c, k)])
           reaching == {k \in 0 .. c.count - 1 : EndAt(k) >= s}
<1>1. c.count \in Nat
  BY CtxFields, UpConstants
<1>2. FragmentsAcked(c, s) = IF reaching = {} THEN c.count
                             ELSE IF EndAt(Min(reaching)) = s THEN Min(reaching) + 1 ELSE 0
  BY DEF FragmentsAcked
<1>3. reaching \subseteq 0 .. c.count - 1 /\ reaching \subseteq Nat
  BY <1>1
<1> HIDE DEF reaching, EndAt
<1>4. CASE reaching = {}
  BY <1>1, <1>2, <1>4
<1>5. CASE reaching # {}
  <2>1. Min(reaching) \in 0 .. c.count - 1
    BY <1>3, <1>5, LeastOf
  <2> QED BY <1>1, <1>2, <1>5, <2>1
<1> QED BY <1>4, <1>5

\* wtp_tx_handle_ack moves the number of what is acknowledged to the ACK's, or not at
\* all, and leaves the arena.
LEMMA UpAckSound ==
  ASSUME NEW c \in CtxType, NEW s \in 0 .. SeqSpace - 1
  PROVE  LET h == TxHandleAck(c, s)
         IN /\ h.tx \in CtxType /\ h.nSent \in Nat /\ h.ok \in BOOLEAN
            /\ h.tx.seq \in {c.seq, s} /\ SameArena(h.tx, c)
<1> DEFINE h == TxHandleAck(c, s)
           n == FragmentsAcked(c, s)
           start == [tx |-> c, nSent |-> 0, ok |-> TRUE]
           Done(w) == IF w.ok THEN [w EXCEPT !.tx.seq = s] ELSE [w EXCEPT !.nSent = 0]
           turns == [i \in 1 .. n |-> i]
           last == Fold(RemoveFragment, start, turns)
<1>1. SameArena(c, c)
  BY DEF SameArena
<1>2. n \in 0 .. c.count /\ c.count \in 0 .. FragCap /\ FragCap \in Nat
  BY FragmentsAckedBound, CtxFields, UpConstants
<1> HIDE DEF n
<1>3. AckState(start, c, 0)
  <2>1. start.tx = c /\ c.count >= c.count - 0
    BY <1>2
  <2>2. start \in [tx : CtxType, nSent : Nat, ok : BOOLEAN]
    <3> HIDE DEF CtxType
    <3> QED OBVIOUS
  <2> HIDE DEF start
  <2> QED BY <1>1, <2>1, <2>2 DEF AckState
<1>4. CASE AckRefused(c, s)
  <2>1. h = [start EXCEPT !.ok = FALSE]
    BY <1>4 DEF TxHandleAck
  <2>2. h = [tx |-> c, nSent |-> 0, ok |-> FALSE]
    BY <2>1
  <2> HIDE DEF h
  <2>3. h.tx = c /\ h.nSent = 0 /\ h.ok = FALSE
    BY <2>2
  <2>5. h.ok \in BOOLEAN
    BY <2>3, Zenon
  <2>6. h.nSent \in Nat
    BY <2>3
  <2>4. h.tx.seq \in {c.seq, s} /\ h.nSent \in Nat /\ h.ok \in BOOLEAN
    BY <2>3, <2>5, <2>6, Zenon
  <2> QED BY <1>1, <2>3, <2>4 DEF h
<1>5. CASE ~AckRefused(c, s) /\ c.count > 0 /\ n = 0
  <2>1. h = start
    BY <1>5 DEF TxHandleAck, n
  <2> HIDE DEF h
  <2>3. h.tx = c /\ h.nSent = 0 /\ h.ok = TRUE
    BY <2>1
  <2>5. h.ok \in BOOLEAN
    BY <2>3, Zenon
  <2>6. h.nSent \in Nat
    BY <2>3
  <2>4. h.tx.seq \in {c.seq, s} /\ h.nSent \in Nat /\ h.ok \in BOOLEAN
    BY <2>3, <2>5, <2>6, Zenon
  <2> QED BY <1>1, <2>3, <2>4 DEF h
<1>6. CASE ~AckRefused(c, s) /\ ~(c.count > 0 /\ n = 0)
  <2>1. h = Done(last)
    <3>1. h = CHOOSE y \in {Done(x) : x \in {last}} : TRUE
      BY <1>6 DEF TxHandleAck, Strictly, n
    <3> HIDE DEF Done, last, h
    <3> QED BY <3>1
  <2>2. Len(turns) = n /\ Len(turns) \in Nat /\ n \in Nat
    BY <1>2
  <2>3. last = Removing!Folded(start, turns)
    BY DEF Fold, Removing!Folded
  <2> HIDE DEF start, turns, last
  <2>4. PICK g : /\ g[0] = start
                 /\ \A k \in 1 .. Len(turns) : g[k] = RemoveFragment(g[k - 1], turns[k])
                 /\ Removing!Folded(start, turns) = g[Len(turns)]
    BY ZenonT(30), <2>2, Removing!FoldSteps
  <2> DEFINE T == {k \in 0 .. n : AckState(g[k], c, k)}
  <2>5. 0 \in T
    BY <1>3, <2>2, <2>4
  <2>6. ASSUME NEW k \in 1 .. n, k - 1 \in T PROVE k \in T
    <3>1. g[k] = RemoveFragment(g[k - 1], turns[k]) /\ AckState(g[k - 1], c, k - 1)
      BY <2>2, <2>4, <2>6
    <3>2. k \in 1 .. c.count
      BY <1>2
    <3>3. AckState(g[k], c, k)
      BY <3>1, <3>2, RemoveFragmentSound
    <3> QED BY <3>3
  <2> HIDE DEF T
  <2>7. \A k \in 0 .. n : k \in T
    BY <2>2, <2>5, <2>6, Adding!HoldsToTheEnd
  <2>8. AckState(last, c, n)
    <3>1. n \in T
      BY <2>2, <2>7
    <3> QED BY <2>2, <2>3, <2>4, <3>1 DEF T
  <2> DEFINE t == last.tx
             z == [t EXCEPT !.seq = s]
  <2>9. /\ last = [tx |-> t, nSent |-> last.nSent, ok |-> last.ok] /\ t \in CtxType
        /\ last.nSent \in Nat /\ last.ok \in BOOLEAN /\ SameArena(t, c) /\ t.seq = c.seq
    BY <2>8 DEF AckState
  <2> HIDE DEF t, h
  <2>10. CASE last.ok
    <3>1. h = [tx |-> z, nSent |-> last.nSent, ok |-> TRUE]
      <4>1. h = [last EXCEPT !.tx = [last.tx EXCEPT !.seq = s]]
        BY <2>1, <2>10
      <4> QED BY <2>9, <2>10, <4>1 DEF t
    <3>2. /\ z \in CtxRecord /\ z.seq = s /\ z.readInfos = t.readInfos /\ z.msgEnds = t.msgEnds
          /\ z.buf = t.buf /\ z.beginSeq = t.beginSeq /\ z.beginPos = t.beginPos
          /\ z.fragmented = t.fragmented
      BY <2>9 DEF CtxType, CtxRecord
    <3> HIDE DEF z
    <3>3. z \in CtxType
      BY <2>9, <3>2, CtxFields DEF CtxType
    <3>4. SameArena(z, c)
      BY <2>9, <3>2 DEF SameArena
    <3>5. h.tx = z /\ h.nSent = last.nSent /\ h.ok = TRUE
      BY <3>1
    <3> QED BY <2>9, <3>2, <3>3, <3>4, <3>5 DEF h
  <2>11. CASE ~last.ok
    <3>1. h = [tx |-> t, nSent |-> 0, ok |-> last.ok]
      <4>1. h = [last EXCEPT !.nSent = 0]
        BY <2>1, <2>11
      <4> QED BY <2>9, <4>1
    <3>2. h.tx = t /\ h.nSent = 0 /\ h.ok = last.ok
      BY <3>1
    <3> QED BY <2>9, <3>2 DEF h
  <2> QED BY <2>10, <2>11
<1> QED BY <1>4, <1>5, <1>6

-----------------------------------------------------------------------------
(* What the server writes.                                                  *)

\* Its packets: ACKs, and the sizes of Reads that have room for a header and a byte.
UpPacketType ==
  {p \in CtrlPacketType : \/ p.type = "ack" /\ p.val \in 0 .. SeqSpace - 1
                          \/ p.type = "setParam" /\ p.val \in Nat /\ p.val > 6}

\* Sequences of them are sequences of control packets.
LEMMA UpPacketsAreCtrl ==
  ASSUME NEW ps \in Seq(UpPacketType) PROVE ps \in Seq(CtrlPacketType)
<1>1. UpPacketType \subseteq CtrlPacketType
  BY DEF UpPacketType
<1> HIDE DEF UpPacketType, CtrlPacketType
<1> QED BY <1>1

Controlling == INSTANCE FoldFacts WITH Op <- HandleCtrl

\* The WISP while it handles the packets of a BlockWrite.
CtrlState(w, c) ==
  /\ w = [ctx |-> w.ctx, sendCbs |-> w.sendCbs, called |-> w.called, ok |-> w.ok,
          stray |-> w.stray]
  /\ w.ctx \in CtxType /\ w.sendCbs \in Seq(UpMessage) /\ Len(w.sendCbs) <= MsgCap
  /\ w.ok \in BOOLEAN /\ SameArena(w.ctx, c)

\* One packet: only an ACK moves the number of what is acknowledged, and to its own.
LEMMA HandleCtrlSound ==
  ASSUME NEW c, NEW w, CtrlState(w, c), NEW p \in UpPacketType
  PROVE  LET u == HandleCtrl(w, p)
         IN /\ CtrlState(u, c)
            /\ u.ctx.seq = w.ctx.seq \/ (p.type = "ack" /\ u.ctx.seq = p.val)
<1> DEFINE u == HandleCtrl(w, p)
           t == w.ctx
           q == w.sendCbs
           Acked(h) ==
             [ctx     |-> h.tx,
              sendCbs |-> SubSeq(w.sendCbs, h.nSent + 1, Len(w.sendCbs)),
              called  |-> w.called \o SubSeq(w.sendCbs, 1, h.nSent),
              ok      |-> h.ok,
              stray   |-> w.stray \/ StrayWalk(w.ctx)]
           h == TxHandleAck(t, p.val)
<1>1. /\ w = [ctx |-> t, sendCbs |-> q, called |-> w.called, ok |-> w.ok, stray |-> w.stray]
      /\ t \in CtxType /\ q \in Seq(UpMessage) /\ Len(q) <= MsgCap
      /\ w.ok \in BOOLEAN /\ SameArena(t, c)
  BY DEF CtrlState
<1>2. CASE ~w.ok
  <2>1. u = w
    BY <1>2 DEF HandleCtrl
  <2> QED BY <2>1
<1>3. CASE w.ok /\ p.type = "setParam"
  <2> DEFINE d == [t EXCEPT !.readSize = p.val]
  <2>1. p.val \in Nat /\ p.val > 6
    BY <1>3 DEF UpPacketType
  <2>2. u = [w EXCEPT !.ctx.readSize = p.val]
    BY <1>3 DEF HandleCtrl, HandleSetParam
  <2> HIDE DEF t, u
  <2>3. u = [ctx |-> d, sendCbs |-> q, called |-> w.called, ok |-> w.ok, stray |-> w.stray]
    <3>1. u = [w EXCEPT !.ctx = [w.ctx EXCEPT !.readSize = p.val]]
      BY <2>2
    <3>2. u = [w EXCEPT !.ctx = d]
      BY <3>1 DEF t
    <3> HIDE DEF d, q
    <3> QED BY <1>1, <3>2
  <2>4. /\ d \in CtxRecord /\ d.seq = t.seq /\ d.readInfos = t.readInfos /\ d.msgEnds = t.msgEnds
        /\ d.buf = t.buf /\ d.beginSeq = t.beginSeq /\ d.beginPos = t.beginPos
        /\ d.fragmented = t.fragmented
    BY <1>1, <2>1 DEF CtxType, CtxRecord
  <2> HIDE DEF d
  <2>5. d \in CtxType
    BY <1>1, <2>4, CtxFields DEF CtxType
  <2>6. SameArena(d, c)
    BY <1>1, <2>4 DEF SameArena
  <2> HIDE DEF q
  <2>7. u.ctx = d /\ u.sendCbs = q /\ u.ok = w.ok /\ u.called = w.called /\ u.stray = w.stray
    BY <2>3
  <2>8. CtrlState(u, c)
    BY <1>1, <2>3, <2>5, <2>6, <2>7 DEF CtrlState
  <2> QED BY <2>4, <2>7, <2>8 DEF u, t
<1>4. CASE w.ok /\ p.type # "setParam"
  <2>1. p.type = "ack" /\ p.val \in 0 .. SeqSpace - 1
    BY <1>4 DEF UpPacketType
  <2>2. u = Acked(h)
    <3>1. u = CHOOSE y \in {Acked(x) : x \in {h}} : TRUE
      BY <1>4 DEF HandleCtrl, Strictly
    <3> HIDE DEF Acked, h, u
    <3> QED BY <3>1
  <2>3. /\ h.tx \in CtxType /\ h.nSent \in Nat /\ h.ok \in BOOLEAN
        /\ h.tx.seq \in {t.seq, p.val} /\ SameArena(h.tx, t)
    BY <1>1, <2>1, UpAckSound
  <2> HIDE DEF h, t, q
  <2> DEFINE i == h.nSent + 1
             rest == SubSeq(q, i, Len(q))
             given == w.called \o SubSeq(q, 1, h.nSent)
             stray == w.stray \/ StrayWalk(t)
  <2>4. rest \in Seq(UpMessage) /\ Len(rest) <= MsgCap
    <3>1. i \in Nat \ {0} /\ Len(q) \in Nat
      BY <1>1, <2>3
    <3> HIDE DEF i
    <3>2. rest \in Seq(UpMessage) /\ Len(rest) <= Len(q) /\ Len(rest) \in Nat
      BY <1>1, <3>1
    <3> HIDE DEF rest
    <3> QED BY <1>1, <3>1, <3>2, UpConstants
  <2>5. u = [ctx |-> h.tx, sendCbs |-> rest, called |-> given, ok |-> h.ok, stray |-> stray]
    BY <2>2 DEF t, q
  <2> HIDE DEF rest, given, stray, u
  <2>6. u.ctx = h.tx /\ u.sendCbs = rest /\ u.ok = h.ok /\ u.called = given /\ u.stray = stray
    BY <2>5
  <2>7. SameArena(h.tx, c)
    BY <1>1, <2>3 DEF SameArena
  <2>8. CtrlState(u, c)
    BY <2>3, <2>4, <2>5, <2>6, <2>7 DEF CtrlState
  <2>9. u.ctx.seq = t.seq \/ u.ctx.seq = p.val
    BY <2>3, <2>6
  <2> QED BY <2>1, <2>8, <2>9 DEF u, t
<1> QED BY <1>1, <1>2, <1>3, <1>4

\* The whole BlockWrite: what is acknowledged is what was, or the number of an ACK in it.
LEMMA BlockWriteSound ==
  ASSUME NEW c \in CtxType, NEW w, CtrlState(w, c), w.ctx = c, NEW data \in Seq(UpPacketType)
  PROVE  LET u == Fold(HandleCtrl, w, data)
         IN /\ CtrlState(u, c)
            /\ \/ u.ctx.seq = c.seq
               \/ \E j \in 1 .. Len(data) : data[j].type = "ack" /\ u.ctx.seq = data[j].val
<1> DEFINE u == Fold(HandleCtrl, w, data)
           n == Len(data)
           Right(v, k) ==
             /\ CtrlState(v, c)
             /\ \/ v.ctx.seq = c.seq
                \/ \E j \in 1 .. k : data[j].type = "ack" /\ v.ctx.seq = data[j].val
<1>1. n \in Nat
  OBVIOUS
<1>2. PICK g : /\ g[0] = w
               /\ \A k \in 1 .. n : g[k] = HandleCtrl(g[k - 1], data[k])
               /\ Controlling!Folded(w, data) = g[n]
  BY <1>1, Controlling!FoldSteps
<1>3. u = Controlling!Folded(w, data)
  BY DEF Fold, Controlling!Folded
<1> HIDE DEF u
<1> DEFINE T == {k \in 0 .. n : Right(g[k], k)}
<1>4. 0 \in T
  BY <1>1, <1>2
<1>5. ASSUME NEW k \in 1 .. n, k - 1 \in T PROVE k \in T
  <2> DEFINE v == g[k - 1]
             z == g[k]
  <2>1. z = HandleCtrl(v, data[k]) /\ Right(v, k - 1)
    BY <1>2, <1>5
  <2>2. data[k] \in UpPacketType
    BY ElementOfSeq
  <2> HIDE DEF v, z
  <2>3. CtrlState(z, c) /\ (z.ctx.seq = v.ctx.seq \/ (data[k].type = "ack" /\ z.ctx.seq = data[k].val))
    BY <2>1, <2>2, HandleCtrlSound
  <2>4. \/ z.ctx.seq = c.seq
        \/ \E j \in 1 .. k : data[j].type = "ack" /\ z.ctx.seq = data[j].val
    <3>1. k \in Nat /\ k \in 1 .. k /\ \A j \in 1 .. k - 1 : j \in 1 .. k
      BY <1>1
    <3> QED BY <2>1, <2>3, <3>1
  <2> QED BY <2>3, <2>4 DEF z
<1> HIDE DEF T, Right
<1>6. \A k \in 0 .. n : k \in T
  BY <1>1, <1>4, <1>5, Adding!HoldsToTheEnd
<1>7. n \in T
  BY <1>1, <1>6
<1> QED BY <1>2, <1>3, <1>7 DEF T, Right, u

-----------------------------------------------------------------------------
(* The order of the ACKs.                                                   *)

\* The items of u are items of s, in their order.
SubList(u, s) ==
  \E h \in [1 .. Len(u) -> 1 .. Len(s)] :
    /\ \A i, j \in 1 .. Len(u) : i <= j => h[i] <= h[j]
    /\ \A i \in 1 .. Len(u) : u[i] = s[h[i]]

\* Seen from a, the numbers of the ACKs among the packets do not decrease, and go to
\* `top' at most.
InTurn(ps, a, top) ==
  \A i \in 1 .. Len(ps) : ps[i].type = "ack" =>
    /\ SeqSub(ps[i].val, a) <= SeqSub(top, a)
    /\ \A j \in 1 .. i : ps[j].type = "ack" => SeqSub(ps[j].val, a) <= SeqSub(ps[i].val, a)

\* Some of the packets.
LEMMA PartInTurn ==
  ASSUME NEW u, NEW ps, SubList(u, ps), NEW a, NEW top, InTurn(ps, a, top),
         Len(u) \in Nat, Len(ps) \in Nat
  PROVE  InTurn(u, a, top)
<1>1. PICK h \in [1 .. Len(u) -> 1 .. Len(ps)] :
        /\ \A i, j \in 1 .. Len(u) : i <= j => h[i] <= h[j]
        /\ \A i \in 1 .. Len(u) : u[i] = ps[h[i]]
  BY DEF SubList
<1> SUFFICES ASSUME NEW i \in 1 .. Len(u), u[i].type = "ack"
             PROVE  /\ SeqSub(u[i].val, a) <= SeqSub(top, a)
                    /\ \A j \in 1 .. i : u[j].type = "ack" =>
                         SeqSub(u[j].val, a) <= SeqSub(u[i].val, a)
  BY DEF InTurn
<1>2. h[i] \in 1 .. Len(ps) /\ u[i] = ps[h[i]]
  BY <1>1
<1>3. SeqSub(u[i].val, a) <= SeqSub(top, a)
  BY <1>2 DEF InTurn
<1>4. ASSUME NEW j \in 1 .. i, u[j].type = "ack"
      PROVE  SeqSub(u[j].val, a) <= SeqSub(u[i].val, a)
  <2>1. j \in 1 .. Len(u) /\ j <= i
    OBVIOUS
  <2>2. h[j] \in 1 .. h[i] /\ u[j] = ps[h[j]]
    BY <1>1, <1>2, <2>1
  <2> QED BY <1>2, <1>4, <2>2 DEF InTurn
<1> QED BY <1>3, <1>4

\* Distances are numbers.
LEMMA AckDistance ==
  ASSUME NEW ps \in Seq(UpPacketType), NEW i \in 1 .. Len(ps), ps[i].type = "ack",
         NEW a \in Int
  PROVE  ps[i].val \in 0 .. SeqSpace - 1 /\ SeqSub(ps[i].val, a) \in 0 .. SeqSpace - 1
<1>1. ps[i] \in UpPacketType
  BY ElementOfSeq
<1>2. ps[i].val \in 0 .. SeqSpace - 1
  BY <1>1 DEF UpPacketType
<1>3. ps[i].val \in Int
  BY <1>2, SeqSpaceSize
<1> QED BY <1>2, <1>3, Distances

\* They may go further.
LEMMA LaterTop ==
  ASSUME NEW ps \in Seq(UpPacketType), NEW a \in Int, NEW top \in Int, NEW new \in Int,
         InTurn(ps, a, top), SeqSub(top, a) <= SeqSub(new, a)
  PROVE  InTurn(ps, a, new)
<1> SUFFICES ASSUME NEW i \in 1 .. Len(ps), ps[i].type = "ack"
             PROVE  SeqSub(ps[i].val, a) <= SeqSub(new, a)
  BY DEF InTurn
<1>1. SeqSub(ps[i].val, a) <= SeqSub(top, a)
  BY DEF InTurn
<1>2. /\ SeqSub(ps[i].val, a) \in 0 .. SeqSpace - 1 /\ SeqSub(top, a) \in 0 .. SeqSpace - 1
      /\ SeqSub(new, a) \in 0 .. SeqSpace - 1
  BY AckDistance, Distances
<1> QED BY <1>1, <1>2, SeqSpaceSize

\* One more packet: no ACK, or one with the last number.
LEMMA OneMoreInTurn ==
  ASSUME NEW ps \in Seq(UpPacketType), NEW p \in UpPacketType, NEW a \in Int, NEW top \in Int,
         InTurn(ps, a, top), p.type # "ack" \/ p.val = top
  PROVE  InTurn(Append(ps, p), a, top)
<1> DEFINE qs == Append(ps, p)
           n == Len(ps)
<1>1. /\ n \in Nat /\ Len(qs) = n + 1 /\ qs[n + 1] = p
      /\ \A i \in 1 .. n : qs[i] = ps[i]
  OBVIOUS
<1> HIDE DEF qs
<1> SUFFICES ASSUME NEW i \in 1 .. n + 1, qs[i].type = "ack"
             PROVE  /\ SeqSub(qs[i].val, a) <= SeqSub(top, a)
                    /\ \A j \in 1 .. i : qs[j].type = "ack" =>
                         SeqSub(qs[j].val, a) <= SeqSub(qs[i].val, a)
  BY <1>1 DEF InTurn, qs
<1>2. CASE i \in 1 .. n
  <2>1. \A j \in 1 .. i : j \in 1 .. n
    BY <1>1, <1>2
  <2> QED BY <1>1, <1>2, <2>1 DEF InTurn
<1>3. CASE i = n + 1
  <2>1. qs[i].val = top
    BY <1>1, <1>3
  <2>2. SeqSub(top, a) \in 0 .. SeqSpace - 1
    BY Distances
  <2>3. ASSUME NEW j \in 1 .. i, qs[j].type = "ack" PROVE SeqSub(qs[j].val, a) <= SeqSub(top, a)
    <3>1. CASE j = n + 1
      BY <1>3, <2>1, <2>2, <3>1, SeqSpaceSize
    <3>2. CASE j \in 1 .. n
      BY <1>1, <2>3, <3>2 DEF InTurn
    <3> QED BY <1>1, <1>3, <3>1, <3>2
  <2>4. SeqSub(top, a) <= SeqSub(top, a)
    BY <2>2, SeqSpaceSize
  <2> QED BY <2>1, <2>3, <2>4
<1> QED BY <1>1, <1>2, <1>3

\* Seen from a number that none of them is before.
LEMMA InTurnFrom ==
  ASSUME NEW ps \in Seq(UpPacketType), NEW a \in Int, NEW s \in Int, NEW top \in Int,
         InTurn(ps, a, top), SeqSub(s, a) <= SeqSub(top, a),
         \A i \in 1 .. Len(ps) : ps[i].type = "ack" => SeqSub(s, a) <= SeqSub(ps[i].val, a)
  PROVE  InTurn(ps, s, top)
<1>1. SeqSub(top, s) = SeqSub(top, a) - SeqSub(s, a)
  BY RestOfTheWay
<1>2. ASSUME NEW i \in 1 .. Len(ps), ps[i].type = "ack"
      PROVE  /\ SeqSub(ps[i].val, s) = SeqSub(ps[i].val, a) - SeqSub(s, a)
             /\ SeqSub(ps[i].val, a) \in Int
  <2>1. ps[i].val \in Int /\ SeqSub(ps[i].val, a) \in Int
    <3>1. ps[i].val \in 0 .. SeqSpace - 1 /\ SeqSub(ps[i].val, a) \in 0 .. SeqSpace - 1
      BY <1>2, AckDistance
    <3> QED BY <3>1, SeqSpaceSize
  <2>2. SeqSub(s, a) <= SeqSub(ps[i].val, a)
    BY <1>2
  <2> QED BY <2>1, <2>2, RestOfTheWay
<1>3. SeqSub(top, a) \in Int /\ SeqSub(s, a) \in Int
  BY Distances, SeqSpaceSize
<1> SUFFICES ASSUME NEW i \in 1 .. Len(ps), ps[i].type = "ack"
             PROVE  /\ SeqSub(ps[i].val, s) <= SeqSub(top, s)
                    /\ \A j \in 1 .. i : ps[j].type = "ack" =>
                         SeqSub(ps[j].val, s) <= SeqSub(ps[i].val, s)
  BY DEF InTurn
<1>4. SeqSub(ps[i].val, s) <= SeqSub(top, s)
  <2>1. SeqSub(ps[i].val, a) <= SeqSub(top, a)
    BY DEF InTurn
  <2> QED BY <1>1, <1>2, <1>3, <2>1
<1>5. ASSUME NEW j \in 1 .. i, ps[j].type = "ack"
      PROVE  SeqSub(ps[j].val, s) <= SeqSub(ps[i].val, s)
  <2>1. j \in 1 .. Len(ps)
    OBVIOUS
  <2>2. SeqSub(ps[j].val, a) <= SeqSub(ps[i].val, a)
    BY <1>5 DEF InTurn
  <2> QED BY <1>2, <1>3, <1>5, <2>1, <2>2
<1> QED BY <1>4, <1>5

-----------------------------------------------------------------------------
(* What waits for the reader.                                               *)

\* The packets that the WISP has not carried out: those of the BlockWrite, and then
\* those of the transmit control.
Waiting(o, ps) == IF o.kind = "write" /\ ~o.done THEN o.data \o ps ELSE ps

\* An OpSpec that is a BlockWrite of control packets, and one that is a Read.
UpWrite == [kind : {"write"}, size : {0}, data : Seq(UpPacketType), done : BOOLEAN]
UpRead == [kind : {"read"}, size : Nat, data : Seq(MemType), done : BOOLEAN]
UpOpSpec == {o \in UpWrite \cup UpRead \cup {NoOpSpec} :
               o.kind = "read" /\ o.done => Len(o.data) = 1}

\* The sequence of packets has a type.
LEMMA WaitingType ==
  ASSUME NEW o \in UpOpSpec, NEW ps \in Seq(UpPacketType)
  PROVE  Waiting(o, ps) \in Seq(UpPacketType) /\ SubList(ps, Waiting(o, ps))
<1> DEFINE n == Len(ps)
           T == UpPacketType
<1>1. n \in Nat /\ ps \in Seq(T)
  OBVIOUS
<1> HIDE DEF T
<1>2. CASE o.kind = "write" /\ ~o.done
  <2> DEFINE d == o.data
             w == d \o ps
             h == [i \in 1 .. n |-> Len(d) + i]
  <2>1. Waiting(o, ps) = w
    BY <1>2 DEF Waiting
  <2>2. d \in Seq(T)
    <3>1. o \in UpWrite
      BY <1>2 DEF UpOpSpec, UpRead, NoOpSpec
    <3> QED BY <3>1 DEF UpWrite, T
  <2> HIDE DEF d
  <2>3. /\ w \in Seq(T) /\ Len(w) = Len(d) + n /\ Len(d) \in Nat
        /\ \A i \in 1 .. Len(w) : w[i] = IF i <= Len(d) THEN d[i] ELSE ps[i - Len(d)]
    BY <1>1, <2>2, ConcatProperties
  <2> HIDE DEF w
  <2>4. h \in [1 .. Len(ps) -> 1 .. Len(w)]
    BY <1>1, <2>3
  <2>5. \A i, j \in 1 .. Len(ps) : i <= j => h[i] <= h[j]
    BY <1>1, <2>3
  <2>6. \A i \in 1 .. Len(ps) : ps[i] = w[h[i]]
    BY <1>1, <2>3
  <2> HIDE DEF h
  <2>7. SubList(ps, w)
    BY <2>4, <2>5, <2>6 DEF SubList
  <2> QED BY <2>1, <2>3, <2>7 DEF T
<1>3. CASE ~(o.kind = "write" /\ ~o.done)
  <2> DEFINE h == [i \in 1 .. n |-> i]
  <2>1. Waiting(o, ps) = ps
    BY <1>3 DEF Waiting
  <2>2. /\ h \in [1 .. Len(ps) -> 1 .. Len(ps)]
        /\ \A i, j \in 1 .. Len(ps) : i <= j => h[i] <= h[j]
        /\ \A i \in 1 .. Len(ps) : ps[i] = ps[h[i]]
    BY <1>1
  <2> HIDE DEF h
  <2>3. SubList(ps, ps)
    BY <2>2 DEF SubList
  <2> QED BY <2>1, <2>3
<1> QED BY <1>2, <1>3

\* The first packets of a sequence, and the rest of it but for what a request drops.
LEMMA PartsOfPackets ==
  ASSUME NEW ps \in Seq(UpPacketType), NEW n \in 0 .. Len(ps), NEW k \in n .. Len(ps)
  PROVE  LET d == SubSeq(ps, 1, n)
             rest == SubSeq(ps, k + 1, Len(ps))
         IN /\ d \in Seq(UpPacketType) /\ rest \in Seq(UpPacketType)
            /\ SubList(rest, ps) /\ SubList(d \o rest, ps)
<1> DEFINE d == SubSeq(ps, 1, n)
           rest == SubSeq(ps, k + 1, Len(ps))
           T == UpPacketType
           l == Len(ps)
           w == d \o rest
           f == [i \in 1 .. l - k |-> k + i]
           h == [i \in 1 .. n + (l - k) |-> IF i <= n THEN i ELSE i - n + k]
<1>1. l \in Nat /\ n \in Nat /\ k \in Nat /\ n <= k /\ k <= l /\ ps \in Seq(T)
  OBVIOUS
<1> HIDE DEF T
<1>2. d \in Seq(T) /\ Len(d) = n /\ \A i \in 1 .. n : d[i] = ps[i]
  <2>1. 1 \in 1 .. l + 1 /\ n \in 1 - 1 .. l /\ n - 1 + 1 = n
    BY <1>1
  <2>2. /\ d \in Seq(T) /\ Len(d) = n - 1 + 1
        /\ \A i \in 1 .. n - 1 + 1 : d[i] = ps[1 + i - 1]
    BY <1>1, <2>1, SubSeqProperties
  <2> HIDE DEF d
  <2>3. \A i \in 1 .. n : 1 + i - 1 = i
    BY <1>1
  <2> QED BY <2>1, <2>2, <2>3
<1>3. rest \in Seq(T) /\ Len(rest) = l - k /\ \A i \in 1 .. l - k : rest[i] = ps[k + i]
  <2> DEFINE m == k + 1
  <2>1. m \in 1 .. l + 1 /\ l \in m - 1 .. l /\ l - m + 1 = l - k
    BY <1>1
  <2> HIDE DEF m
  <2>2. /\ SubSeq(ps, m, l) \in Seq(T) /\ Len(SubSeq(ps, m, l)) = l - m + 1
        /\ \A i \in 1 .. l - m + 1 : SubSeq(ps, m, l)[i] = ps[m + i - 1]
    BY <1>1, <2>1, SubSeqProperties
  <2>3. \A i \in 1 .. l - k : m + i - 1 = k + i
    BY <1>1 DEF m
  <2>4. rest = SubSeq(ps, m, l)
    BY DEF m
  <2> HIDE DEF rest
  <2> QED BY <2>1, <2>2, <2>3, <2>4
<1> HIDE DEF d, rest
<1>4. /\ w \in Seq(T) /\ Len(w) = n + (l - k)
      /\ \A i \in 1 .. Len(w) : w[i] = IF i <= n THEN d[i] ELSE rest[i - n]
  <2>1. /\ w \in Seq(T) /\ Len(w) = Len(d) + Len(rest)
        /\ \A i \in 1 .. Len(d) + Len(rest) :
             w[i] = IF i <= Len(d) THEN d[i] ELSE rest[i - Len(d)]
    BY <1>2, <1>3, ConcatProperties
  <2> HIDE DEF w
  <2> QED BY <1>2, <1>3, <2>1
<1> HIDE DEF w
<1>5. SubList(rest, ps)
  <2>1. f \in [1 .. Len(rest) -> 1 .. Len(ps)]
    BY <1>1, <1>3
  <2>2. \A i, j \in 1 .. Len(rest) : i <= j => f[i] <= f[j]
    BY <1>1, <1>3
  <2>3. \A i \in 1 .. Len(rest) : rest[i] = ps[f[i]]
    BY <1>3
  <2> HIDE DEF f
  <2> QED BY <2>1, <2>2, <2>3 DEF SubList
<1>6. SubList(w, ps)
  <2>1. h \in [1 .. Len(w) -> 1 .. Len(ps)]
    <3>1. ASSUME NEW i \in 1 .. n + (l - k)
          PROVE  (IF i <= n THEN i ELSE i - n + k) \in 1 .. l
      BY <1>1
    <3> QED BY <1>4, <3>1
  <2>2. \A i, j \in 1 .. Len(w) : i <= j => h[i] <= h[j]
    <3> SUFFICES ASSUME NEW i \in 1 .. Len(w), NEW j \in 1 .. Len(w), i <= j
                 PROVE  h[i] <= h[j]
      OBVIOUS
    <3>1. h[i] = (IF i <= n THEN i ELSE i - n + k) /\ h[j] = (IF j <= n THEN j ELSE j - n + k)
      BY <1>4
    <3> HIDE DEF h
    <3>2. i \in Nat /\ j \in Nat /\ n \in Nat /\ k \in Nat /\ n <= k
      BY <1>1, <1>4
    <3> QED BY <3>1, <3>2
  <2>3. \A i \in 1 .. Len(w) : w[i] = ps[h[i]]
    <3> SUFFICES ASSUME NEW i \in 1 .. Len(w) PROVE w[i] = ps[h[i]]
      OBVIOUS
    <3>1. i \in 1 .. n + (l - k) /\ w[i] = (IF i <= n THEN d[i] ELSE rest[i - n])
      BY <1>4
    <3>2. CASE i <= n
      <4>1. h[i] = i /\ i \in 1 .. n
        BY <1>1, <3>1, <3>2
      <4> QED BY <1>2, <3>1, <3>2, <4>1
    <3>3. CASE ~(i <= n)
      <4>1. i - n \in 1 .. l - k /\ k + (i - n) = i - n + k
        BY <1>1, <3>1, <3>3
      <4>2. h[i] = i - n + k
        BY <3>1, <3>3
      <4> HIDE DEF h
      <4>3. rest[i - n] = ps[k + (i - n)]
        BY <1>3, <4>1
      <4> QED BY <3>1, <3>3, <4>1, <4>2, <4>3
    <3> QED BY <3>2, <3>3
  <2> HIDE DEF h
  <2> QED BY <2>1, <2>2, <2>3 DEF SubList
<1> QED BY <1>2, <1>3, <1>5, <1>6 DEF w, d, rest, T

\* What a request for an AccessSpec leaves of the packets ps: nothing changes while one
\* is under way; otherwise what waits is some of them, in their order.
UpRequested(q, ps, r, busy) ==
  /\ q = [tx |-> q.tx, reads |-> q.reads, ongoing |-> q.ongoing,
          opspec |-> q.opspec, raised |-> q.raised]
  /\ q.tx = CtrlTx(q.tx.packets) /\ q.tx.packets \in Seq(UpPacketType)
  /\ q.reads \in Seq(Nat) /\ Len(q.reads) <= Len(r)
  /\ q.ongoing \in BOOLEAN
  /\ IF busy THEN q.opspec = opspec /\ q.tx.packets = ps
     ELSE /\ q.opspec \in UpOpSpec /\ ~q.opspec.done
          /\ SubList(Waiting(q.opspec, q.tx.packets), ps)

\* The OpSpecs that a request makes.
LEMMA NewOpSpecs ==
  /\ NoOpSpec \in UpOpSpec /\ ~NoOpSpec.done /\ NoOpSpec.kind = "none"
  /\ \A n \in Nat : /\ ReadOpSpec(n) \in UpOpSpec /\ ReadOpSpec(n).kind = "read"
                    /\ ~ReadOpSpec(n).done
  /\ \A d \in Seq(UpPacketType) :
       /\ WriteOpSpec(d) \in UpOpSpec /\ WriteOpSpec(d).kind = "write"
       /\ ~WriteOpSpec(d).done /\ WriteOpSpec(d).data = d
<1>1. NoOpSpec \in UpOpSpec /\ ~NoOpSpec.done /\ NoOpSpec.kind = "none"
  <2>1. NoOpSpec.kind = "none" /\ ~NoOpSpec.done /\ "none" # "read"
    BY DEF NoOpSpec
  <2> HIDE DEF NoOpSpec
  <2> QED BY <2>1 DEF UpOpSpec
<1>2. ASSUME NEW n \in Nat
      PROVE  /\ ReadOpSpec(n) \in UpOpSpec /\ ReadOpSpec(n).kind = "read"
             /\ ~ReadOpSpec(n).done
  <2>1. <<>> \in Seq(MemType)
    <3> HIDE DEF MemType
    <3> QED OBVIOUS
  <2> DEFINE D == Seq(MemType)
  <2> HIDE DEF D
  <2>2. <<>> \in D
    BY <2>1 DEF D
  <2>3. ReadOpSpec(n) \in [kind : {"read"}, size : Nat, data : D, done : BOOLEAN]
    BY <2>2 DEF ReadOpSpec, NoOpSpec
  <2>4. ReadOpSpec(n).kind = "read" /\ ~ReadOpSpec(n).done
    BY DEF ReadOpSpec, NoOpSpec
  <2> HIDE DEF ReadOpSpec
  <2> QED BY <2>3, <2>4 DEF UpOpSpec, UpRead, D
<1>3. ASSUME NEW d \in Seq(UpPacketType)
      PROVE  /\ WriteOpSpec(d) \in UpOpSpec /\ WriteOpSpec(d).kind = "write"
             /\ ~WriteOpSpec(d).done /\ WriteOpSpec(d).data = d
  <2> DEFINE D == Seq(UpPacketType)
  <2> HIDE DEF D
  <2>1. d \in D
    BY DEF D
  <2>2. WriteOpSpec(d) \in [kind : {"write"}, size : {0}, data : D, done : BOOLEAN]
    BY <2>1 DEF WriteOpSpec, NoOpSpec
  <2>3. WriteOpSpec(d).kind = "write" /\ ~WriteOpSpec(d).done /\ WriteOpSpec(d).data = d
    BY DEF WriteOpSpec, NoOpSpec
  <2> QED BY <2>2, <2>3 DEF UpOpSpec, UpWrite, D
<1> QED BY <1>1, <1>2, <1>3

\* A sequence is a part of itself.
LEMMA WholeSubList ==
  ASSUME NEW ps \in Seq(UpPacketType) PROVE SubList(ps, ps)
<1> DEFINE h == [i \in 1 .. Len(ps) |-> i]
<1>1. Len(ps) \in Nat
  OBVIOUS
<1>2. /\ h \in [1 .. Len(ps) -> 1 .. Len(ps)]
      /\ \A i, j \in 1 .. Len(ps) : i <= j => h[i] <= h[j]
      /\ \A i \in 1 .. Len(ps) : ps[i] = ps[h[i]]
  BY <1>1
<1> HIDE DEF h
<1> QED BY <1>2 DEF SubList

\* So it is with every request.
LEMMA RequestUp ==
  ASSUME NEW ps \in Seq(UpPacketType), NEW r \in Seq(Nat), NEW busy \in BOOLEAN,
         NEW size \in Nat
  PROVE  UpRequested(RequestAccessSpec(CtrlTx(ps), r, busy, size), ps, r, busy)
<1> DEFINE q == RequestAccessSpec(CtrlTx(ps), r, busy, size)
<1> SUFFICES UpRequested(q, ps, r, busy)
  OBVIOUS
<1>1. ps \in Seq(CtrlPacketType) /\ CtrlTx(ps).packets = ps
  BY UpPacketsAreCtrl, CtrlTxFields
<1>2. Len(r) \in Nat
  OBVIOUS
<1>3. CASE busy
  <2>1. q = [tx |-> CtrlTx(ps), reads |-> r, ongoing |-> TRUE, opspec |-> opspec, raised |-> FALSE]
    BY <1>3 DEF RequestAccessSpec
  <2> HIDE DEF q
  <2>2. q.tx = CtrlTx(ps) /\ q.reads = r /\ q.opspec = opspec /\ q.ongoing = TRUE
        /\ q.raised = FALSE
    BY <2>1
  <2>3. q.ongoing \in BOOLEAN
    BY <2>2, Zenon
  <2> QED BY <1>1, <1>2, <1>3, <2>1, <2>2, <2>3 DEF UpRequested
<1>4. CASE ~busy /\ r # <<>>
  <2>1. Tail(r) \in Seq(Nat) /\ Len(Tail(r)) <= Len(r) /\ Head(r) \in Nat
    BY <1>4
  <2>2. q = [tx |-> CtrlTx(ps), reads |-> Tail(r), ongoing |-> TRUE,
             opspec |-> ReadOpSpec(Head(r)), raised |-> FALSE]
    BY <1>4 DEF RequestAccessSpec
  <2> HIDE DEF q
  <2>3. q.tx = CtrlTx(ps) /\ q.reads = Tail(r) /\ q.opspec = ReadOpSpec(Head(r))
        /\ q.ongoing = TRUE /\ q.raised = FALSE
    BY <2>2
  <2>4. q.ongoing \in BOOLEAN
    BY <2>3, Zenon
  <2>5. q.opspec \in UpOpSpec /\ ~q.opspec.done /\ q.opspec.kind = "read"
    BY <2>1, <2>3, NewOpSpecs
  <2>6. Waiting(q.opspec, q.tx.packets) = ps
    BY <1>1, <2>3, <2>5 DEF Waiting
  <2> QED BY <1>1, <1>4, <2>1, <2>2, <2>3, <2>4, <2>5, <2>6, WholeSubList DEF UpRequested
<1>5. CASE ~busy /\ r = <<>>
  <2> DEFINE g == GetWriteData(CtrlTx(ps), size)
             n == FittingPackets(ps, size)
             taken == IF n < Len(ps) THEN n + 1 ELSE n
             d == SubSeq(ps, 1, n)
             rest == SubSeq(ps, taken + 1, Len(ps))
             Outcome(w) ==
               LET raised  == w.status = "raised"
                   written == ~raised /\ w.data # <<>>
               IN [tx |-> w.tx, reads |-> r, ongoing |-> raised \/ written,
                   opspec |-> IF written THEN WriteOpSpec(w.data) ELSE NoOpSpec,
                   raised |-> raised]
  <2>1. q = Outcome(g)
    <3>1. q = CHOOSE x \in {Outcome(w) : w \in {g}} : TRUE
      BY <1>5 DEF RequestAccessSpec, Strictly
    <3> HIDE DEF Outcome, q, g
    <3> QED BY <3>1
  <2>2. g.status = "done" /\ g.data = d /\ g.tx = CtrlTx(rest)
    BY <1>1, GetCtrlData
  <2>3. n \in 0 .. Len(ps) /\ Len(ps) \in Nat
    BY <1>1, FittingPacketsType
  <2> HIDE DEF g, q, n
  <2>4. taken \in n .. Len(ps)
    BY <2>3
  <2> HIDE DEF taken
  <2>5. /\ d \in Seq(UpPacketType) /\ rest \in Seq(UpPacketType)
        /\ SubList(rest, ps) /\ SubList(d \o rest, ps)
    BY <2>3, <2>4, PartsOfPackets
  <2> HIDE DEF d, rest
  <2>6. CtrlTx(rest).packets = rest
    BY <2>5, UpPacketsAreCtrl, CtrlTxFields
  <2>7. q = [tx |-> CtrlTx(rest), reads |-> r, ongoing |-> d # <<>>,
             opspec |-> IF d # <<>> THEN WriteOpSpec(d) ELSE NoOpSpec, raised |-> FALSE]
    <3>1. g.status # "raised"
      BY <2>2
    <3> QED BY <2>1, <2>2, <3>1
  <2>8. /\ q.tx = CtrlTx(rest) /\ q.reads = r /\ q.ongoing = (d # <<>>)
        /\ q.opspec = IF d # <<>> THEN WriteOpSpec(d) ELSE NoOpSpec
        /\ q.raised = FALSE
    BY <2>7
  <2>9. q.ongoing \in BOOLEAN
    BY <2>8
  <2>10. /\ q.opspec \in UpOpSpec /\ ~q.opspec.done
         /\ SubList(Waiting(q.opspec, rest), ps)
    <3>1. CASE d = <<>>
      <4>1. q.opspec = NoOpSpec
        BY <2>8, <3>1
      <4>2. Waiting(q.opspec, rest) = rest
        BY <4>1, NewOpSpecs DEF Waiting
      <4> QED BY <2>5, <4>1, <4>2, NewOpSpecs
    <3>2. CASE d # <<>>
      <4>1. q.opspec = WriteOpSpec(d)
        BY <2>8, <3>2
      <4>2. Waiting(q.opspec, rest) = d \o rest
        BY <2>5, <4>1, NewOpSpecs DEF Waiting
      <4> QED BY <2>5, <4>1, <4>2, NewOpSpecs
    <3> QED BY <3>1, <3>2
  <2>11. q = [tx |-> q.tx, reads |-> q.reads, ongoing |-> q.ongoing,
              opspec |-> q.opspec, raised |-> q.raised]
    BY <2>7, <2>8
  <2> QED BY <1>2, <1>5, <2>5, <2>6, <2>8, <2>9, <2>10, <2>11 DEF UpRequested
<1> QED BY <1>3, <1>4, <1>5

Gathering == INSTANCE FoldFacts WITH Op <- Gather
HandingOut == INSTANCE FoldFacts WITH Op <- HandOut

-----------------------------------------------------------------------------
(* What the server receives.                                                *)

\* The assembly of a single fragment looks at it, and takes it if it goes on.
LEMMA GatherOne ==
  ASSUME NEW seq, NEW data, NEW infos, NEW f
  PROVE  LET start == [seq |-> seq, data |-> data, infos |-> infos,
                       msgs |-> <<>>, looked |-> 0, going |-> TRUE]
             w == Fold(Gather, start, <<f>>)
         IN /\ w.looked = 1
            /\ w.seq = seq \/ (f.seq = seq /\ w.seq = SeqAdd(seq, Len(f.data)))
            /\ w.msgs = <<>> \/ \E x : w.msgs = <<x>>
<1> DEFINE start == [seq |-> seq, data |-> data, infos |-> infos,
                     msgs |-> <<>>, looked |-> 0, going |-> TRUE]
           w == Fold(Gather, start, <<f>>)
<1>1. Fold(Gather, start, <<f>>) = Gathering!Folded(start, <<f>>)
  BY DEF Fold, Gathering!Folded
<1> HIDE DEF start
<1>2. Gathering!Folded(start, <<f>>) = Gather(start, f)
  <2> HIDE DEF Gather
  <2> QED BY Gathering!FoldOne
<1>3. w = Gather(start, f)
  BY <1>1, <1>2
<1> HIDE DEF w
<1>4. CASE Continues(seq, f)
  <2> DEFINE next == SeqAdd(seq, Len(f.data))
             all  == data \o f.data
             ends == infos # <<>> /\ SeqAdd(Head(infos).begin, Head(infos).size) = next
             rest == IF ends THEN <<>> ELSE all
             left == IF ends THEN Tail(infos) ELSE infos
             out  == IF ends THEN Append(<<>>, all) ELSE <<>>
  <2>1. w = [start EXCEPT !.looked = 1, !.seq = next, !.data = rest, !.infos = left,
                          !.msgs = out]
    BY <1>3, <1>4 DEF Gather, start
  <2>2. out = <<>> \/ \E x : out = <<x>>
    <3>1. Append(<<>>, all) = <<all>>
      OBVIOUS
    <3> QED BY <3>1
  <2> HIDE DEF next, rest, left, out
  <2>3. w.looked = 1 /\ w.seq = next /\ w.msgs = out
    BY <2>1 DEF start
  <2> QED BY <1>4, <2>2, <2>3 DEF Continues, next, w, start
<1>5. CASE ~Continues(seq, f)
  <2>1. w = [start EXCEPT !.looked = 1, !.going = FALSE]
    BY <1>3, <1>5 DEF Gather, start
  <2>2. w.looked = 1 /\ w.seq = seq /\ w.msgs = <<>>
    BY <2>1 DEF start
  <2> QED BY <2>2 DEF w, start
<1> QED BY <1>4, <1>5

\* With no fragment kept, handle_packet keeps none, and goes on by a packet that begins
\* where it stands, or not at all.
LEMMA ReceiveSound ==
  ASSUME NEW r, r.fragments = <<>>, NEW seq, NEW data, NEW msgSize
  PROVE  LET out == RxCtrlHandlePacket(r, seq, data, msgSize)
         IN /\ out.rx.fragments = <<>>
            /\ out.rx.seq = r.seq \/ (seq = r.seq /\ out.rx.seq = SeqAdd(r.seq, Len(data)))
            /\ out.msgs = <<>> \/ \E x : out.msgs = <<x>>
<1> DEFINE begins   == [i \in DOMAIN r.infos |-> RelRx(r, r.infos[i].begin)]
           numbers  == [i \in DOMAIN r.fragments |-> RelRx(r, r.fragments[i].seq)]
           n        == RelRx(r, seq)
           noted    == IF msgSize = 0 THEN r
                       ELSE [r EXCEPT !.infos = InsertAt(@, SearchIndex(begins, n),
                                                  [begin |-> seq, size |-> msgSize])]
           f        == [seq |-> seq, data |-> data]
           inserted == InsertAt(r.fragments, SearchIndex(numbers, n), f)
           start    == [seq |-> r.seq, data |-> r.data, infos |-> noted.infos,
                        msgs |-> <<>>, looked |-> 0, going |-> TRUE]
           Outcome(w) ==
             [rx   |-> [seq |-> w.seq, data |-> w.data, infos |-> w.infos,
                        fragments |-> SubSeq(inserted, Looked(w) + 1, Len(inserted))],
              msgs |-> w.msgs]
           w        == Fold(Gather, start, inserted)
           out      == RxCtrlHandlePacket(r, seq, data, msgSize)
<1>1. inserted = <<f>>
  <2>1. numbers = <<>>
    OBVIOUS
  <2>2. SearchIndex(numbers, n) = 1
    BY <2>1 DEF SearchIndex
  <2> HIDE DEF numbers, f
  <2>3. SubSeq(<<>>, 1, 1 - 1) = <<>> /\ SubSeq(<<>>, 1, Len(<<>>)) = <<>>
    OBVIOUS
  <2>4. inserted = SubSeq(<<>>, 1, 1 - 1) \o <<f>> \o SubSeq(<<>>, 1, Len(<<>>))
    BY <2>2, Zenon DEF InsertAt
  <2>5. inserted = <<>> \o <<f>> \o <<>>
    BY <2>3, <2>4, Zenon
  <2>6. <<>> \o <<f>> \o <<>> = <<f>>
    OBVIOUS
  <2> QED BY <2>5, <2>6
<1>2. /\ w.looked = 1
      /\ w.seq = r.seq \/ (seq = r.seq /\ w.seq = SeqAdd(r.seq, Len(data)))
      /\ w.msgs = <<>> \/ \E x : w.msgs = <<x>>
  <2>1. f.seq = seq /\ f.data = data
    OBVIOUS
  <2> HIDE DEF f, inserted, noted
  <2> QED BY <1>1, <2>1, GatherOne
<1>3. Outcome(w).rx.fragments = <<>>
  <2> HIDE DEF w, inserted
  <2>1. SubSeq(<<f>>, 2, 1) = <<>> /\ Len(<<f>>) = 1
    OBVIOUS
  <2> QED BY <1>1, <1>2, <2>1 DEF Looked
<1>4. Strictly(Outcome, w) = Outcome(w)
  <2> HIDE DEF w, Outcome
  <2> QED BY DEF Strictly
<1>5. noted.fragments = <<>> /\ noted.seq = r.seq
  OBVIOUS
<1>6. out \in {[rx |-> r, msgs |-> <<>>], [rx |-> noted, msgs |-> <<>>], Outcome(w)}
  <2> HIDE DEF w, Outcome
  <2>1. out \in {[rx |-> r, msgs |-> <<>>], [rx |-> noted, msgs |-> <<>>], Strictly(Outcome, w)}
    BY Zenon DEF RxCtrlHandlePacket, Outcome, w
  <2> QED BY <2>1, <1>4
<1>7. Outcome(w).rx.seq = w.seq /\ Outcome(w).msgs = w.msgs
  OBVIOUS
<1> HIDE DEF w, Outcome, noted, out
<1>8. CASE out = Outcome(w)
  BY <1>2, <1>3, <1>7, <1>8 DEF out
<1>9. CASE out = [rx |-> r, msgs |-> <<>>]
  <2>1. out.rx = r /\ out.msgs = <<>>
    BY <1>9
  <2> QED BY <2>1 DEF out
<1>10. CASE out = [rx |-> noted, msgs |-> <<>>]
  <2>1. out.rx = noted /\ out.msgs = <<>>
    BY <1>10
  <2> QED BY <1>5, <2>1 DEF out
<1> QED BY <1>6, <1>8, <1>9, <1>10

\* A Read brings some of the fragment's bytes, or none.
LEMMA PayloadLength ==
  ASSUME NEW m \in MemType, NEW n \in Int
  PROVE  Len(ReadPayload(m, n)) \in 0 .. m.len
<1> DEFINE head == HeaderSize(m.msgSize)
           k == Min({m.len, n - head})
           Byte(i) == m.cells[head + i - 1]
           d == [i \in 1 .. k |-> Byte(i)]
<1>1. m.len \in Nat /\ n - head \in Int
  BY DEF MemType, HeaderSize
<1>2. k \in Int /\ k <= m.len
  <2> DEFINE j == n - head
             l == m.len
  <2>1. j \in Int /\ l \in Nat
    BY <1>1
  <2> HIDE DEF j, l
  <2>2. Min({l, j}) \in {l, j} /\ \A x \in {l, j} : Min({l, j}) <= x
    <3>1. \E x \in {l, j} : \A y \in {l, j} : x <= y
      BY <2>1
    <3> QED BY <3>1 DEF Min
  <2>3. k = Min({l, j})
    BY DEF j, l
  <2> HIDE DEF k
  <2> QED BY <2>1, <2>2, <2>3 DEF l
<1>3. ReadPayload(m, n) = d
  BY DEF ReadPayload
<1> HIDE DEF k, Byte
<1>4. CASE k \in Nat
  <2>1. Len(d) = k
    BY <1>4
  <2> QED BY <1>1, <1>2, <1>3, <1>4, <2>1
<1>5. CASE k \notin Nat
  <2>1. 1 .. k = {}
    BY <1>2, <1>5
  <2>2. d = <<>>
    BY <2>1
  <2>3. Len(<<>>) = 0
    OBVIOUS
  <2>4. Len(ReadPayload(m, n)) = 0
    BY <1>3, <2>2, <2>3, Zenon
  <2> QED BY <1>1, <2>4
<1> QED BY <1>4, <1>5

\* Messages as the application sees them.
Given == UpMessage \cup {0}

\* One message handed out.
LEMMA HandOutTyped ==
  ASSUME NEW msgs \in Seq(Given), NEW given \in Seq(Given), NEW n \in 0 .. Len(UpSize),
         NEW again \in BOOLEAN, NEW x \in Given
  PROVE  LET w == HandOut([msgs |-> msgs, waiting |-> n, given |-> given, again |-> again], x)
         IN w.msgs \in Seq(Given) /\ w.given \in Seq(Given) /\ w.waiting \in 0 .. Len(UpSize)
<1> DEFINE v == [msgs |-> msgs, waiting |-> n, given |-> given, again |-> again]
           w == HandOut(v, x)
           left == n - (IF again THEN 0 ELSE 1)
<1>1. Append(msgs, x) \in Seq(Given) /\ Append(given, x) \in Seq(Given) /\ Len(UpSize) \in Nat
  <2> HIDE DEF Given
  <2> QED BY UpConstants
<1> HIDE DEF Given
<1>2. CASE n = 0
  <2>1. w = [v EXCEPT !.msgs = Append(msgs, x)]
    BY <1>2 DEF HandOut
  <2>2. w = [msgs |-> Append(msgs, x), waiting |-> n, given |-> given, again |-> again]
    BY <2>1
  <2> HIDE DEF w
  <2>3. w.msgs = Append(msgs, x) /\ w.waiting = n /\ w.given = given
    BY <2>2
  <2> QED BY <1>1, <2>3 DEF w
<1>3. CASE n # 0
  <2>1. w = [v EXCEPT !.given = Append(given, x), !.waiting = left]
    BY <1>3 DEF HandOut
  <2>2. left \in 0 .. Len(UpSize)
    BY <1>1, <1>3
  <2> HIDE DEF left
  <2>3. w = [msgs |-> msgs, waiting |-> left, given |-> Append(given, x), again |-> again]
    BY <2>1
  <2> HIDE DEF w
  <2>4. w.msgs = msgs /\ w.waiting = left /\ w.given = Append(given, x)
    BY <2>3
  <2> QED BY <1>1, <2>2, <2>4 DEF w
<1> QED BY <1>2, <1>3

\* No message or one.
LEMMA HandOutAllTyped ==
  ASSUME recvMsgs \in Seq(Given), delivered \in Seq(Given), waiting \in 0 .. Len(UpSize),
         NEW again \in BOOLEAN, NEW msgs, msgs = <<>> \/ \E x : msgs = <<x>>
  PROVE  LET w == HandOutAll(msgs, again)
         IN w.msgs \in Seq(Given) /\ w.given \in Seq(Given) /\ w.waiting \in 0 .. Len(UpSize)
<1> DEFINE start == [msgs |-> recvMsgs, waiting |-> waiting, given |-> delivered, again |-> again]
           items == [k \in DOMAIN msgs |-> UpMessageOf(msgs[k])]
           w == HandOutAll(msgs, again)
<1>1. w = HandingOut!Folded(start, items)
  BY DEF HandOutAll, Fold, HandingOut!Folded
<1>2. start.msgs = recvMsgs /\ start.waiting = waiting /\ start.given = delivered
  OBVIOUS
<1> HIDE DEF w
<1>3. CASE msgs = <<>>
  <2>1. items = <<>> /\ Len(<<>>) = 0
    BY <1>3
  <2> HIDE DEF items, start
  <2>2. HandingOut!Folded(start, <<>>) = start
    BY <2>1, HandingOut!FoldSteps
  <2> QED BY <1>1, <1>2, <2>1, <2>2 DEF w
<1>4. ASSUME NEW x, msgs = <<x>>
      PROVE  w.msgs \in Seq(Given) /\ w.given \in Seq(Given) /\ w.waiting \in 0 .. Len(UpSize)
  <2> DEFINE y == UpMessageOf(x)
  <2>1. y \in Given
    <3>1. CASE \E i \in UpMessage : UpBytes(i) = x
      <4>1. (CHOOSE i \in UpMessage : UpBytes(i) = x) \in UpMessage
        BY <3>1
      <4> HIDE DEF UpMessage
      <4> QED BY <3>1, <4>1 DEF UpMessageOf, Given
    <3>2. CASE ~\E i \in UpMessage : UpBytes(i) = x
      BY <3>2 DEF UpMessageOf, Given
    <3> QED BY <3>1, <3>2
  <2> HIDE DEF y
  <2>2. items = <<y>>
    <3>1. DOMAIN msgs = {1} /\ msgs[1] = x
      BY <1>4
    <3>2. items = [k \in {1} |-> y]
      BY <3>1 DEF y
    <3>3. [k \in {1} |-> y] = <<y>>
      OBVIOUS
    <3> HIDE DEF items
    <3> QED BY <3>2, <3>3
  <2> HIDE DEF items
  <2>3. w = HandOut(start, y)
    <3> HIDE DEF start
    <3>1. HandingOut!Folded(start, <<y>>) = HandOut(start, y)
      BY HandingOut!FoldOne
    <3> QED BY <1>1, <2>2, <3>1
  <2> QED BY <2>1, <2>3, HandOutTyped
<1> QED BY <1>3, <1>4 DEF w

-----------------------------------------------------------------------------
(* The inductive invariant.                                                 *)

\* The server's connection has no messages, and its OpSpec is a Read or a BlockWrite
\* of control packets.
ConnSound ==
  /\ sent = 0 /\ sendDeferreds = <<>> /\ resolved = <<>>
  /\ tx = CtrlTx(tx.packets) /\ tx.packets \in Seq(UpPacketType)
  /\ writeSize \in WriteMin - 1 .. WriteMax + 1
  /\ readSize \in WriteMin - 1 .. WriteMax + 1
  /\ opspec \in UpOpSpec /\ ongoing \in BOOLEAN
  /\ reads \in Seq(Nat) /\ asked \in 0 .. MaxReads /\ Len(reads) <= asked

WispSound ==
  /\ csent \in 0 .. Len(UpSize)
  /\ ctx \in CtxType /\ mem \in MemType
  /\ sendCbs \in Seq(UpMessage) /\ Len(sendCbs) <= MsgCap
  /\ pkt \in BufType(PktBufSize, Nat) /\ epc \in BufType(EpcSize, Nat)

RecvSound ==
  /\ srx.seq \in 0 .. SeqSpace - 1 /\ srx.fragments = <<>>
  /\ waiting \in 0 .. Len(UpSize)
  /\ delivered \in Seq(Given) /\ recvMsgs \in Seq(Given)

\* Seen from a, a fragment in Read memory m ends where the server stands, at s, or later,
\* and not behind e, the end of what is cut.
InPlace(m, a, s, e) ==
  m.kind = "data" => /\ m.len <= Window
                     /\ SeqSub(s, a) <= SeqSub(UpEnd(m), a)
                     /\ SeqSub(UpEnd(m), a) <= SeqSub(e, a)

\* Read memory m does not end behind n.
NotBehind(m, n, a) ==
  m.kind = "data" /\ n.kind = "data" => SeqSub(UpEnd(m), a) <= SeqSub(UpEnd(n), a)

\* From what is acknowledged on: the ACKs that wait, what the server has, the fragment
\* on its way to it, the fragment to be read next, and the end of what is cut.
Ordered(a, e, s, ps, m) ==
  /\ SeqSub(s, a) <= SeqSub(e, a) /\ SeqSub(e, a) <= Window
  /\ InTurn(ps, a, s)
  /\ InPlace(m, a, s, e)

OnItsWay(o, m, a, e, s) ==
  o.kind = "read" /\ o.done => InPlace(Head(o.data), a, s, e) /\ NotBehind(Head(o.data), m, a)

OrderInv ==
  /\ ArenaSound(ctx, csent)
  /\ Ordered(ctx.seq, CutEnd(ctx), srx.seq, Waiting(opspec, tx.packets), mem)
  /\ OnItsWay(opspec, mem, ctx.seq, CutEnd(ctx), srx.seq)

UplinkInv == ConnSound /\ WispSound /\ RecvSound /\ (Intact => OrderInv)

\* The numbers.
LEMMA CutEndType ==
  ASSUME NEW c \in CtxType
  PROVE  CutEnd(c) \in 0 .. SeqSpace - 1 /\ CutEnd(c) \in Int /\ c.seq \in Int
<1>1. c.beginSeq \in Int /\ c.fragmented \in Int /\ c.seq \in Int
  BY CtxFields, SeqSpaceSize
<1>2. CutEnd(c) \in 0 .. SeqSpace - 1
  BY <1>1, Distances DEF CutEnd
<1> QED BY <1>1, <1>2, SeqSpaceSize

\* So are those of a fragment in Read memory.
LEMMA UpEndType ==
  ASSUME NEW m \in MemType
  PROVE  UpEnd(m) \in Int /\ m.len \in Nat /\ m.seq \in 0 .. SeqSpace - 1 /\ m.seq \in Int
<1>1. m.seq \in 0 .. SeqSpace - 1 /\ m.len \in Nat
  BY DEF MemType
<1>2. m.seq \in Int /\ m.len \in Int
  BY <1>1, SeqSpaceSize
<1>3. UpEnd(m) \in 0 .. SeqSpace - 1
  BY <1>2, Distances DEF UpEnd
<1> QED BY <1>1, <1>2, <1>3, SeqSpaceSize

\* Loading the next fragment keeps the order.
LEMMA LoadOrdered ==
  ASSUME NEW c \in CtxType, NEW m \in MemType, NEW n \in 0 .. Len(UpSize), ArenaSound(c, n),
         NEW s \in Int, NEW ps, Ordered(c.seq, CutEnd(c), s, ps, m)
  PROVE  LET r == LoadReadMem(c, m)
         IN /\ ArenaSound(r.tx, n)
            /\ Ordered(c.seq, CutEnd(r.tx), s, ps, r.mem)
            /\ \A x \in MemType : InPlace(x, c.seq, s, CutEnd(c)) /\ NotBehind(x, m, c.seq) =>
                 InPlace(x, c.seq, s, CutEnd(r.tx)) /\ NotBehind(x, r.mem, c.seq)
<1> DEFINE r == LoadReadMem(c, m)
           a == c.seq
           e == CutEnd(c)
           f == CutEnd(r.tx)
           D(x) == SeqSub(x, a)
<1>1. /\ r.tx \in CtxType /\ r.tx.seq = c.seq /\ r.mem \in MemType
      /\ ArenaSound(r.tx, n)
      /\ \E len \in Nat :
           /\ CutEnd(r.tx) = SeqAdd(CutEnd(c), len)
           /\ len <= SeqSub(c.seq + Window, CutEnd(c)) \/ len = 0
           /\ r.mem.kind = "data" =>
                r.mem = m \/ (r.mem.seq = CutEnd(c) /\ r.mem.len = len)
  BY LoadSound
<1>2. PICK len \in Nat :
        /\ CutEnd(r.tx) = SeqAdd(CutEnd(c), len)
        /\ len <= SeqSub(c.seq + Window, CutEnd(c)) \/ len = 0
        /\ r.mem.kind = "data" =>
             r.mem = m \/ (r.mem.seq = CutEnd(c) /\ r.mem.len = len)
  BY <1>1
<1> HIDE DEF r
<1>3. a \in Int /\ e \in Int /\ f \in Int
  BY <1>1, CutEndType
<1>4. D(e) \in Nat /\ D(e) <= Window /\ D(s) \in Nat /\ D(s) <= D(e) /\ D(f) \in Nat
  <2>1. D(e) \in 0 .. SeqSpace - 1 /\ D(s) \in 0 .. SeqSpace - 1 /\ D(f) \in 0 .. SeqSpace - 1
    BY <1>3, Distances
  <2> QED BY <2>1, SeqSpaceSize DEF Ordered
<1>5. len <= Window - D(e)
  <2>1. SeqSub(a + Window, e) = Window - D(e)
    BY <1>3, <1>4, WindowRest
  <2> QED BY <1>2, <1>4, <2>1, SeqSpaceSize
<1>6. D(f) = D(e) + len /\ D(f) <= Window /\ len <= Window
  <2>1. D(e) + len < SeqSpace
    BY <1>4, <1>5, SeqSpaceSize
  <2>2. D(SeqAdd(e, len)) = D(e) + len
    BY <1>3, <2>1, OneStepOn
  <2> QED BY <1>2, <1>4, <1>5, <2>2, SeqSpaceSize
<1>7. ASSUME NEW x \in MemType, InPlace(x, a, s, e) PROVE InPlace(x, a, s, f)
  <2> SUFFICES ASSUME x.kind = "data" PROVE InPlace(x, a, s, f)
    BY DEF InPlace
  <2>1. D(UpEnd(x)) \in 0 .. SeqSpace - 1
    BY <1>3, UpEndType, Distances
  <2>2. x.len <= Window /\ D(s) <= D(UpEnd(x)) /\ D(UpEnd(x)) <= D(e)
    BY <1>7 DEF InPlace
  <2>3. D(UpEnd(x)) <= D(f)
    BY <1>4, <1>6, <2>1, <2>2, SeqSpaceSize
  <2> QED BY <2>2, <2>3 DEF InPlace
<1>8. CASE r.mem = m
  <2>1. InPlace(r.mem, a, s, f)
    BY <1>7, <1>8 DEF Ordered
  <2> QED BY <1>1, <1>4, <1>6, <1>7, <1>8, <2>1 DEF Ordered, r
<1>9. CASE r.mem.kind = "data" /\ r.mem.seq = e /\ r.mem.len = len
  <2>1. UpEnd(r.mem) = f
    BY <1>2, <1>9 DEF UpEnd
  <2>2. InPlace(r.mem, a, s, f)
    BY <1>4, <1>6, <1>9, <2>1 DEF InPlace
  <2>3. ASSUME NEW x \in MemType, InPlace(x, a, s, e) PROVE NotBehind(x, r.mem, a)
    <3> SUFFICES ASSUME x.kind = "data" PROVE D(UpEnd(x)) <= D(f)
      BY <2>1 DEF NotBehind
    <3>1. InPlace(x, a, s, f)
      BY <1>7, <2>3
    <3> QED BY <3>1 DEF InPlace
  <2> QED BY <1>1, <1>4, <1>6, <1>7, <2>2, <2>3 DEF Ordered, r
<1>10. CASE r.mem.kind # "data"
  <2>1. InPlace(r.mem, a, s, f) /\ \A x : NotBehind(x, r.mem, a)
    BY <1>10 DEF InPlace, NotBehind
  <2> QED BY <1>1, <1>4, <1>6, <1>7, <2>1 DEF Ordered, r
<1> QED BY <1>2, <1>8, <1>9, <1>10

\* Seen from a number that was acknowledged, the order is the same.
LEMMA OrderedFrom ==
  ASSUME NEW a \in Int, NEW b \in Int, NEW e \in Int, NEW s \in Int,
         NEW ps \in Seq(UpPacketType), NEW qs, NEW m \in MemType,
         Ordered(a, e, s, qs, m), InTurn(ps, a, s), SeqSub(b, a) <= SeqSub(s, a),
         \A i \in 1 .. Len(ps) : ps[i].type = "ack" => SeqSub(b, a) <= SeqSub(ps[i].val, a)
  PROVE  Ordered(b, e, s, ps, m)
<1> DEFINE D(x) == SeqSub(x, a)
<1>1. D(b) \in Nat /\ D(s) \in Nat /\ D(e) \in Nat /\ D(UpEnd(m)) \in Nat
  <2>1. UpEnd(m) \in Int
    BY UpEndType
  <2>2. /\ D(b) \in 0 .. SeqSpace - 1 /\ D(s) \in 0 .. SeqSpace - 1
        /\ D(e) \in 0 .. SeqSpace - 1 /\ D(UpEnd(m)) \in 0 .. SeqSpace - 1
    BY <2>1, Distances
  <2> QED BY <2>2, SeqSpaceSize
<1>2. D(s) <= D(e) /\ D(e) <= Window /\ D(b) <= D(s) /\ D(b) <= D(e)
  BY <1>1 DEF Ordered
<1>3. SeqSub(s, b) = D(s) - D(b) /\ SeqSub(e, b) = D(e) - D(b)
  BY <1>1, <1>2, RestOfTheWay
<1>4. InTurn(ps, b, s)
  BY InTurnFrom
<1>5. InPlace(m, b, s, e)
  <2> SUFFICES ASSUME m.kind = "data" PROVE InPlace(m, b, s, e)
    BY DEF InPlace
  <2>1. m.len <= Window /\ D(s) <= D(UpEnd(m)) /\ D(UpEnd(m)) <= D(e)
    BY DEF Ordered, InPlace
  <2>2. SeqSub(UpEnd(m), b) = D(UpEnd(m)) - D(b)
    <3>1. D(b) <= D(UpEnd(m)) /\ UpEnd(m) \in Int
      BY <1>1, <1>2, <2>1, UpEndType
    <3> QED BY <3>1, RestOfTheWay
  <2> QED BY <1>1, <1>2, <1>3, <2>1, <2>2 DEF InPlace
<1> QED BY <1>1, <1>2, <1>3, <1>4, <1>5, SeqSpaceSize DEF Ordered

\* The order before a packet that the server takes, and after it.
LEMMA ReceivedOrdered ==
  ASSUME NEW a \in Int, NEW e \in Int, NEW s \in Int, NEW ps \in Seq(UpPacketType),
         NEW m \in MemType, Ordered(a, e, s, ps, m),
         NEW x \in MemType, x.kind = "data", InPlace(x, a, s, e), NotBehind(x, m, a),
         x.seq = s, NEW k \in 0 .. x.len
  PROVE  LET t == SeqAdd(s, k)
         IN Ordered(a, e, t, ps, m) /\ SeqSub(s, a) <= SeqSub(t, a)
<1> DEFINE D(y) == SeqSub(y, a)
           t == SeqAdd(s, k)
           z == UpEnd(x)
<1>1. /\ z \in Int /\ x.len \in Nat /\ k \in Nat /\ UpEnd(m) \in Int /\ t \in Int
      /\ x.len <= Window /\ D(s) <= D(z) /\ D(z) <= D(e) /\ D(e) <= Window
  <2>1. t \in 0 .. SeqSpace - 1
    <3>1. k \in Int
      OBVIOUS
    <3> QED BY <3>1, Distances
  <2> QED BY <2>1, UpEndType, SeqSpaceSize DEF InPlace, Ordered
<1>2. D(z) \in Nat /\ D(s) \in Nat /\ D(e) \in Nat /\ D(UpEnd(m)) \in Nat
  <2>1. /\ D(z) \in 0 .. SeqSpace - 1 /\ D(s) \in 0 .. SeqSpace - 1
        /\ D(e) \in 0 .. SeqSpace - 1 /\ D(UpEnd(m)) \in 0 .. SeqSpace - 1
    BY <1>1, Distances
  <2> QED BY <2>1, SeqSpaceSize
<1>3. x.len = D(z) - D(s)
  <2>1. SeqSub(z, s) = D(z) - D(s)
    BY <1>1, RestOfTheWay
  <2>2. SeqSub(s, s) = 0
    BY SeqSpaceSize DEF SeqSub
  <2>3. SeqSub(s, s) + x.len < SeqSpace
    BY <1>1, <2>2, SeqSpaceSize
  <2>4. SeqSub(SeqAdd(s, x.len), s) = x.len
    <3>1. SeqSub(SeqAdd(s, x.len), s) = SeqSub(s, s) + x.len
      BY <1>1, <2>3, OneStepOn
    <3> QED BY <1>1, <2>2, <3>1
  <2>5. z = SeqAdd(s, x.len)
    BY DEF UpEnd
  <2> QED BY <2>1, <2>4, <2>5
<1>4. D(t) = D(s) + k /\ D(s) <= D(t) /\ D(t) <= D(z)
  <2>1. D(s) + k < SeqSpace
    BY SMTT(30), <1>1, <1>2, <1>3, SeqSpaceSize
  <2>2. D(t) = D(s) + k
    BY <1>1, <2>1, OneStepOn
  <2> QED BY <1>1, <1>2, <1>3, <2>2
<1> HIDE DEF t, z
<1>5. InTurn(ps, a, t)
  BY <1>1, <1>4, LaterTop DEF Ordered
<1>6. InPlace(m, a, t, e)
  <2> SUFFICES ASSUME m.kind = "data" PROVE InPlace(m, a, t, e)
    BY DEF InPlace
  <2>1. m.len <= Window /\ D(UpEnd(m)) <= D(e)
    BY DEF Ordered, InPlace
  <2>2. D(z) <= D(UpEnd(m))
    BY DEF NotBehind, z
  <2>3. D(t) <= D(UpEnd(m))
    BY <1>2, <1>4, <2>2
  <2> QED BY <2>1, <2>3 DEF InPlace
<1>7. D(t) <= D(e)
  BY <1>1, <1>2, <1>4
<1> QED BY <1>1, <1>4, <1>5, <1>6, <1>7 DEF Ordered, t

-----------------------------------------------------------------------------
(* The steps of the server's connection.                                    *)

\* Sizes stay in their range, one off at either end, where a Read has room for a header
\* and a byte.
LEMMA SizesInRange ==
  ASSUME ConnSound, NEW ok, NEW actual
  PROVE  /\ NewWriteSize(ok, actual) \in WriteMin - 1 .. WriteMax + 1
         /\ NewReadSize(ok, actual) \in WriteMin - 1 .. WriteMax + 1
         /\ NewWriteSize(ok, actual) \in Nat
         /\ NewReadSize(ok, actual) \in Nat /\ NewReadSize(ok, actual) > 6
         /\ writeSize \in Nat
<1>1. /\ writeSize \in WriteMin - 1 .. WriteMax + 1
      /\ readSize \in WriteMin - 1 .. WriteMax + 1
      /\ WriteMin \in Nat \ {0} /\ WriteMax \in Nat /\ WriteMin > 7
  BY WriteSizeAssumption, UpConstants DEF ConnSound
<1>2. \/ NewWriteSize(ok, actual) = writeSize + 2 /\ writeSize < WriteMax
      \/ NewWriteSize(ok, actual) = writeSize - 2 /\ writeSize > WriteMin
      \/ NewWriteSize(ok, actual) = writeSize
  BY DEF NewWriteSize
<1>3. \/ NewReadSize(ok, actual) = readSize + 2 /\ readSize < WriteMax
      \/ NewReadSize(ok, actual) = readSize - 2 /\ readSize > WriteMin
      \/ NewReadSize(ok, actual) = readSize
  BY DEF NewReadSize
<1> QED BY <1>1, <1>2, <1>3

\* A request keeps the connection, and the ACKs that wait in turn.
LEMMA RequestStep ==
  ASSUME ConnSound, NEW ps \in Seq(UpPacketType), NEW r \in Seq(Nat), NEW busy \in BOOLEAN,
         NEW q, UpRequested(q, ps, r, busy),
         tx' = q.tx, reads' = q.reads, ongoing' = q.ongoing, opspec' = q.opspec,
         asked' \in 0 .. MaxReads, Len(r) <= asked',
         writeSize' \in WriteMin - 1 .. WriteMax + 1,
         readSize' \in WriteMin - 1 .. WriteMax + 1,
         UNCHANGED <<sent, sendDeferreds, resolved>>
  PROVE  /\ ConnSound'
         /\ opspec' = opspec \/ ~opspec'.done
         /\ \A a, s : InTurn(IF busy THEN Waiting(opspec, ps) ELSE ps, a, s) =>
                        InTurn(Waiting(opspec', tx'.packets), a, s)
<1>1. /\ q.tx = CtrlTx(q.tx.packets) /\ q.tx.packets \in Seq(UpPacketType)
      /\ q.reads \in Seq(Nat) /\ Len(q.reads) <= Len(r) /\ q.ongoing \in BOOLEAN
      /\ IF busy THEN q.opspec = opspec /\ q.tx.packets = ps
         ELSE /\ q.opspec \in UpOpSpec /\ ~q.opspec.done
              /\ SubList(Waiting(q.opspec, q.tx.packets), ps)
  BY DEF UpRequested
<1>2. opspec' \in UpOpSpec /\ (opspec' = opspec \/ ~opspec'.done)
  <2>1. opspec \in UpOpSpec
    BY DEF ConnSound
  <2> QED BY <1>1, <2>1
<1>3. Len(reads') <= asked'
  <2>1. Len(q.reads) \in Nat /\ Len(r) \in Nat /\ asked' \in Int
    BY <1>1, BoundAssumption
  <2> QED BY <1>1, <2>1
<1>4. ConnSound'
  <2>1. sent' = 0 /\ sendDeferreds' = <<>> /\ resolved' = <<>>
    BY DEF ConnSound
  <2>2. /\ tx' = CtrlTx(tx'.packets) /\ tx'.packets \in Seq(UpPacketType)
        /\ reads' \in Seq(Nat) /\ ongoing' \in BOOLEAN
    BY <1>1
  <2> QED BY <1>2, <1>3, <2>1, <2>2 DEF ConnSound
<1>5. ASSUME NEW a, NEW s, InTurn(IF busy THEN Waiting(opspec, ps) ELSE ps, a, s)
      PROVE  InTurn(Waiting(opspec', tx'.packets), a, s)
  <2>1. CASE busy
    BY <1>1, <1>5, <2>1
  <2>2. CASE ~busy
    <3> DEFINE w == Waiting(opspec', tx'.packets)
    <3>1. w \in Seq(UpPacketType)
      BY <1>1, <1>2, WaitingType
    <3>2. SubList(w, ps) /\ InTurn(ps, a, s)
      BY <1>1, <1>5, <2>2
    <3> HIDE DEF w
    <3>3. Len(w) \in Nat /\ Len(ps) \in Nat
      BY <3>1
    <3>4. InTurn(w, a, s)
      BY <3>2, <3>3, PartInTurn
    <3> QED BY <3>4 DEF w
  <2> QED BY <2>1, <2>2
<1> QED BY <1>2, <1>4, <1>5

\* The packets of the transmit control are in turn with those before them.
LEMMA TailInTurn ==
  ASSUME ConnSound, NEW a, NEW s, InTurn(Waiting(opspec, tx.packets), a, s)
  PROVE  InTurn(tx.packets, a, s)
<1> DEFINE w == Waiting(opspec, tx.packets)
           ps == tx.packets
<1>1. ps \in Seq(UpPacketType) /\ w \in Seq(UpPacketType) /\ SubList(ps, w)
  BY WaitingType DEF ConnSound
<1> HIDE DEF w, ps
<1>2. Len(w) \in Nat /\ Len(ps) \in Nat
  BY <1>1
<1>3. InTurn(ps, a, s)
  <2>1. InTurn(w, a, s)
    BY DEF w, ps
  <2> QED BY <1>1, <1>2, <2>1, PartInTurn
<1> QED BY <1>3 DEF ps

\* Reads that the WISP asks for.
LEMMA ReqUplinkStep ==
  ASSUME ConnSound, NEW sizes \in Seq(Nat), ReqUplink(sizes)
  PROVE  /\ ConnSound'
         /\ opspec' = opspec \/ ~opspec'.done
         /\ \A a, s : InTurn(Waiting(opspec, tx.packets), a, s) =>
                        InTurn(Waiting(opspec', tx'.packets), a, s)
<1> DEFINE ps == tx.packets
           r == reads \o sizes
           q == RequestAccessSpec(tx, r, ongoing, writeSize)
<1>1. /\ asked + Len(sizes) <= MaxReads /\ asked' = asked + Len(sizes)
      /\ tx' = q.tx /\ reads' = q.reads /\ ongoing' = q.ongoing /\ opspec' = q.opspec
      /\ UNCHANGED <<sent, writeSize, readSize, sendDeferreds, resolved>>
  BY DEF ReqUplink, Become
<1>2. /\ ps \in Seq(UpPacketType) /\ tx = CtrlTx(ps) /\ ongoing \in BOOLEAN
      /\ writeSize \in WriteMin - 1 .. WriteMax + 1 /\ writeSize \in Nat
      /\ readSize \in WriteMin - 1 .. WriteMax + 1
      /\ reads \in Seq(Nat) /\ asked \in 0 .. MaxReads /\ Len(reads) <= asked
  BY SizesInRange DEF ConnSound
<1>3. r \in Seq(Nat) /\ Len(r) = Len(reads) + Len(sizes) /\ Len(reads) \in Nat
      /\ Len(sizes) \in Nat
  BY <1>2, ConcatProperties
<1> HIDE DEF ps, r
<1>4. UpRequested(q, ps, r, ongoing)
  BY <1>2, <1>3, RequestUp
<1>5. asked' \in 0 .. MaxReads /\ Len(r) <= asked'
  BY <1>1, <1>2, <1>3, BoundAssumption
<1> HIDE DEF q
<1>6. /\ ConnSound'
      /\ opspec' = opspec \/ ~opspec'.done
      /\ \A a, s : InTurn(IF ongoing THEN Waiting(opspec, ps) ELSE ps, a, s) =>
                     InTurn(Waiting(opspec', tx'.packets), a, s)
  BY <1>1, <1>2, <1>3, <1>4, <1>5, RequestStep
<1>7. ASSUME NEW a, NEW s, InTurn(Waiting(opspec, tx.packets), a, s)
      PROVE  InTurn(Waiting(opspec', tx'.packets), a, s)
  <2>1. InTurn(ps, a, s) /\ InTurn(Waiting(opspec, ps), a, s)
    BY <1>7, TailInTurn DEF ps
  <2> QED BY <1>6, <2>1
<1> QED BY <1>6, <1>7

\* The report of a BlockWrite.
LEMMA WriteReportStep ==
  ASSUME ConnSound, NEW ok \in BOOLEAN, WriteReport(ok)
  PROVE  /\ ConnSound' /\ ~opspec'.done
         /\ \A a, s : InTurn(Waiting(opspec, tx.packets), a, s) =>
                        InTurn(Waiting(opspec', tx'.packets), a, s)
<1> DEFINE ps == tx.packets
           size == NewWriteSize(ok, WrittenSize(opspec.data))
           q == RequestAccessSpec(tx, reads, FALSE, size)
<1>1. /\ writeSize' = size
      /\ tx' = q.tx /\ reads' = q.reads /\ ongoing' = q.ongoing /\ opspec' = q.opspec
      /\ UNCHANGED <<sent, readSize, asked, sendDeferreds, resolved>>
  BY DEF WriteReport, Become
<1>2. /\ ps \in Seq(UpPacketType) /\ tx = CtrlTx(ps)
      /\ size \in WriteMin - 1 .. WriteMax + 1 /\ size \in Nat
      /\ readSize \in WriteMin - 1 .. WriteMax + 1
      /\ reads \in Seq(Nat) /\ asked \in 0 .. MaxReads /\ Len(reads) <= asked
  BY SizesInRange DEF ConnSound
<1> HIDE DEF ps, size
<1>3. UpRequested(q, ps, reads, FALSE)
  BY <1>2, FALSE \in BOOLEAN, RequestUp
<1> HIDE DEF q
<1>4. /\ ConnSound'
      /\ \A a, s : InTurn(ps, a, s) => InTurn(Waiting(opspec', tx'.packets), a, s)
  BY <1>1, <1>2, <1>3, FALSE \in BOOLEAN, RequestStep
<1>5. ~opspec'.done
  BY <1>1, <1>3 DEF UpRequested
<1>6. ASSUME NEW a, NEW s, InTurn(Waiting(opspec, tx.packets), a, s)
      PROVE  InTurn(Waiting(opspec', tx'.packets), a, s)
  <2>1. InTurn(ps, a, s)
    BY <1>6, TailInTurn DEF ps
  <2> QED BY <1>4, <2>1
<1> QED BY <1>4, <1>5, <1>6

\* What waits, with more packets behind.
LEMMA WaitingMore ==
  ASSUME NEW o \in UpOpSpec, NEW ps \in Seq(UpPacketType), NEW p \in UpPacketType
  PROVE  Waiting(o, Append(ps, p)) = Append(Waiting(o, ps), p)
<1>1. CASE o.kind = "write" /\ ~o.done
  <2> DEFINE d == o.data
             T == UpPacketType
             u == d \o Append(ps, p)
             v == Append(d \o ps, p)
  <2>1. d \in Seq(T)
    <3>1. o \in UpWrite
      BY <1>1 DEF UpOpSpec, UpRead, NoOpSpec
    <3> QED BY <3>1 DEF UpWrite
  <2>2. ps \in Seq(T) /\ p \in T
    OBVIOUS
  <2> HIDE DEF T, d
  <2>3. u = v
    BY <2>1, <2>2
  <2> QED BY <1>1, <2>3 DEF Waiting, d
<1>2. CASE ~(o.kind = "write" /\ ~o.done)
  BY <1>2 DEF Waiting
<1> QED BY <1>1, <1>2

\* The report of a Read, which may be answered with an ACK of number s.
LEMMA ReadReportStep ==
  ASSUME ConnSound, NEW ok \in BOOLEAN, NEW answer, ReadReport(ok, answer), NEW s \in 0 .. SeqSpace - 1,
         answer = <<>> \/ answer = <<CtrlPacket("ack", CtrlSize, s)>>
  PROVE  /\ ConnSound' /\ ~opspec'.done
         /\ \A a \in Int : InTurn(Waiting(opspec, tx.packets), a, s) =>
                             InTurn(Waiting(opspec', tx'.packets), a, s)
<1> DEFINE size == NewReadSize(ok, WordBytes(opspec.size))
           param == CtrlPacket("setParam", CtrlSize, size)
           ack == CtrlPacket("ack", CtrlSize, s)
           c == tx.packets
           d == Append(c, param)
           q == RequestAccessSpec(AddPacket(tx, param), reads, FALSE, writeSize)
           all == q.tx.packets \o answer
           u == [q EXCEPT !.tx.packets = @ \o answer]
<1>1. /\ readSize' = size
      /\ tx' = u.tx /\ reads' = u.reads /\ ongoing' = u.ongoing /\ opspec' = u.opspec
      /\ UNCHANGED <<sent, writeSize, asked, sendDeferreds, resolved>>
  BY DEF ReadReport, Become
<1>2. /\ size \in WriteMin - 1 .. WriteMax + 1 /\ size \in Nat /\ size > 6 /\ writeSize \in Nat
      /\ writeSize \in WriteMin - 1 .. WriteMax + 1
      /\ reads \in Seq(Nat) /\ asked \in 0 .. MaxReads /\ Len(reads) <= asked
      /\ c \in Seq(UpPacketType) /\ tx = CtrlTx(c)
  BY SizesInRange DEF ConnSound
<1> HIDE DEF size
<1>3. param \in UpPacketType /\ ack \in UpPacketType /\ param.type = "setParam" /\ ack.val = s
  <2>1. CtrlSize \in Nat /\ s \in Int
    BY BoundAssumption, SeqSpaceSize
  <2>2. param.type = "setParam" /\ param.val = size /\ ack.type = "ack" /\ ack.val = s
    BY DEF CtrlPacket
  <2>3. param \in CtrlPacketType /\ ack \in CtrlPacketType
    BY <1>2, <2>1 DEF CtrlPacket, CtrlPacketType
  <2> HIDE DEF param, ack
  <2> QED BY <1>2, <2>2, <2>3 DEF UpPacketType
<1> HIDE DEF param, ack, c
<1>4. AddPacket(tx, param) = CtrlTx(d)
  <2>1. c \in Seq(CtrlPacketType)
    BY <1>2, UpPacketsAreCtrl
  <2> QED BY <1>2, <2>1, CtrlTxFields
<1>5. d \in Seq(UpPacketType)
  <2> HIDE DEF UpPacketType
  <2> QED BY <1>2, <1>3
<1> HIDE DEF d
<1>6. UpRequested(q, d, reads, FALSE)
  BY <1>2, <1>4, <1>5, FALSE \in BOOLEAN, RequestUp
<1> HIDE DEF q
<1>7. /\ q = [tx |-> q.tx, reads |-> q.reads, ongoing |-> q.ongoing,
              opspec |-> q.opspec, raised |-> q.raised]
      /\ q.tx = CtrlTx(q.tx.packets) /\ q.tx.packets \in Seq(UpPacketType)
      /\ q.reads \in Seq(Nat) /\ Len(q.reads) <= Len(reads) /\ q.ongoing \in BOOLEAN
      /\ q.opspec \in UpOpSpec /\ ~q.opspec.done
      /\ SubList(Waiting(q.opspec, q.tx.packets), d)
  BY <1>6 DEF UpRequested
<1> DEFINE ps == q.tx.packets
<1>8. tx' = CtrlTx(all) /\ reads' = q.reads /\ ongoing' = q.ongoing /\ opspec' = q.opspec
  <2>1. u.tx = [q.tx EXCEPT !.packets = all] /\ u.reads = q.reads /\ u.ongoing = q.ongoing
        /\ u.opspec = q.opspec
    BY <1>7
  <2>2. [CtrlTx(q.tx.packets) EXCEPT !.packets = all] = CtrlTx(all)
    <3>1. q.tx.packets \in Seq(CtrlPacketType)
      BY <1>7, UpPacketsAreCtrl
    <3> QED BY <3>1, CtrlTxFields
  <2> HIDE DEF u, all
  <2> QED BY <1>1, <1>7, <2>1, <2>2
<1>9. all = ps \/ all = Append(ps, ack)
  <2>1. ps \in Seq(UpPacketType)
    BY <1>7
  <2> HIDE DEF ps, UpPacketType
  <2>2. all = ps \o answer
    BY DEF ps
  <2> HIDE DEF all
  <2>3. answer = <<>> \/ answer = <<ack>>
    BY DEF ack
  <2>4. ps \o <<>> = ps /\ ps \o <<ack>> = Append(ps, ack)
    BY <1>3, <2>1
  <2> QED BY <2>2, <2>3, <2>4
<1>10. all \in Seq(UpPacketType)
  <2> HIDE DEF UpPacketType, all
  <2>1. ps \in Seq(UpPacketType)
    BY <1>7
  <2>2. Append(ps, ack) \in Seq(UpPacketType)
    BY <1>3, <2>1
  <2> QED BY <1>9, <2>1, <2>2
<1>11. tx'.packets = all
  <2>1. all \in Seq(CtrlPacketType)
    BY <1>10, UpPacketsAreCtrl
  <2> QED BY <1>8, <2>1, CtrlTxFields
<1> HIDE DEF all
<1>12. ConnSound'
  <2>1. sent' = 0 /\ sendDeferreds' = <<>> /\ resolved' = <<>>
    BY <1>1 DEF ConnSound
  <2>2. tx' = CtrlTx(tx'.packets) /\ tx'.packets \in Seq(UpPacketType)
    BY <1>8, <1>10, <1>11
  <2>3. /\ writeSize' \in WriteMin - 1 .. WriteMax + 1
        /\ readSize' \in WriteMin - 1 .. WriteMax + 1
    BY <1>1, <1>2
  <2>4. opspec' \in UpOpSpec /\ ongoing' \in BOOLEAN /\ reads' \in Seq(Nat)
        /\ asked' \in 0 .. MaxReads
    BY <1>1, <1>2, <1>7, <1>8
  <2>5. Len(reads') <= asked'
    <3>1. Len(q.reads) \in Nat /\ Len(reads) \in Nat /\ asked \in Nat
      BY <1>2, <1>7, BoundAssumption
    <3> QED BY <1>1, <1>2, <1>7, <1>8, <3>1
  <2> QED BY <2>1, <2>2, <2>3, <2>4, <2>5 DEF ConnSound
<1>13. ASSUME NEW a \in Int, InTurn(Waiting(opspec, tx.packets), a, s)
       PROVE  InTurn(Waiting(opspec', tx'.packets), a, s)
  <2>1. s \in Int
    BY SeqSpaceSize
  <2>2. InTurn(c, a, s)
    BY <1>13, TailInTurn DEF c
  <2>3. InTurn(d, a, s)
    BY <1>2, <1>3, <2>1, <2>2, OneMoreInTurn DEF d
  <2> DEFINE w == Waiting(q.opspec, ps)
  <2>4. w \in Seq(UpPacketType)
    BY <1>7, WaitingType
  <2>5. SubList(w, d)
    BY <1>7
  <2> HIDE DEF w
  <2>6. InTurn(w, a, s)
    <3>1. Len(w) \in Nat /\ Len(d) \in Nat
      BY <1>5, <2>4
    <3> QED BY <2>3, <2>5, <3>1, PartInTurn
  <2>7. CASE all = ps
    BY <1>8, <1>11, <2>6, <2>7 DEF w
  <2>8. CASE all = Append(ps, ack)
    <3>1. Waiting(q.opspec, Append(ps, ack)) = Append(w, ack)
      BY <1>3, <1>7, WaitingMore DEF w
    <3>2. InTurn(Append(w, ack), a, s)
      BY <1>3, <2>1, <2>4, <2>6, OneMoreInTurn
    <3> QED BY <1>8, <1>11, <2>8, <3>1, <3>2
  <2> QED BY <1>9, <2>7, <2>8
<1> QED BY <1>7, <1>8, <1>12, <1>13

-----------------------------------------------------------------------------
(* The steps of the uplink.                                                 *)

\* The uplink starts in order.
LEMMA UplinkInit == Init => UplinkInv
<1> SUFFICES ASSUME Init PROVE UplinkInv
  OBVIOUS
<1>1. ConnSound
  <2>1. <<>> \in Seq(UpPacketType) /\ <<>> \in Seq(CtrlPacketType) /\ <<>> \in Seq(Nat)
    OBVIOUS
  <2>2. tx = CtrlTx(<<>>) /\ CtrlTx(<<>>).packets = <<>>
    BY <2>1, CtrlTxFields DEF Init, ConnInit
  <2>3. opspec \in UpOpSpec
    BY NewOpSpecs DEF Init, ConnInit
  <2>4. WriteInit \in WriteMin - 1 .. WriteMax + 1
    BY WriteSizeAssumption
  <2>5. asked \in 0 .. MaxReads /\ Len(reads) <= asked
    BY BoundAssumption DEF Init, ConnInit
  <2> QED BY <2>1, <2>2, <2>3, <2>4, <2>5 DEF ConnSound, Init, ConnInit
<1>2. WispSound
  <2>1. ctx \in CtxType /\ mem \in MemType
    BY NewUpTxTyped, EndMemTyped DEF Init
  <2>2. csent \in 0 .. Len(UpSize) /\ sendCbs \in Seq(UpMessage) /\ Len(sendCbs) <= MsgCap
    BY UpConstants DEF Init
  <2>3. pkt \in BufType(PktBufSize, Nat)
    <3>1. BufInit(PktBufSize, 0) \in BufType(PktBufSize, {0, 1})
      BY EpcPumpAssumption, NewBuf
    <3> QED BY <3>1 DEF Init, NewPktBuf, BufType
  <2>4. epc \in BufType(EpcSize, Nat)
    <3>1. EpcSize \in Nat \ {0} /\ EpcSize >= 4
      BY EpcPumpAssumption, RoomAssumption
    <3>2. epc = [BufInit(EpcSize, 0) EXCEPT !.mem[0] = 3, !.posB = 4]
      BY DEF Init, PktAck
    <3>3. epc = [size |-> EpcSize, posA |-> 0, posB |-> 4,
                 mem |-> [[i \in 0 .. EpcSize - 1 |-> 0] EXCEPT ![0] = 3]]
      BY <3>2 DEF BufInit
    <3> DEFINE m == [[i \in 0 .. EpcSize - 1 |-> 0] EXCEPT ![0] = 3]
    <3>4. m \in [0 .. EpcSize - 1 -> Nat]
      OBVIOUS
    <3> HIDE DEF m
    <3> QED BY <3>1, <3>3, <3>4 DEF BufType, m
  <2> QED BY <2>1, <2>2, <2>3, <2>4 DEF WispSound
<1>3. RecvSound
  BY SeqSpaceSize, UpConstants DEF RecvSound, Init, NewRxCtrl
<1>4. OrderInv
  <2>1. /\ ctx.seq = 0 /\ ctx.beginSeq = 0 /\ ctx.fragmented = 0 /\ ctx.beginPos = 0
        /\ ctx.buf.posB = 0 /\ csent = 0 /\ srx.seq = 0
    BY DEF Init, NewUpTx, BufInit, NewRxCtrl
  <2>2. ArenaSound(ctx, csent)
    <3> DEFINE at == [j \in 1 .. 1 |-> 0]
    <3>1. at \in [1 .. csent + 1 -> 0 .. TxBufSize] /\ at[csent + 1] = 0 /\ at[1] = 0
      BY <2>1, UpConstants
    <3>2. \A j \in 1 .. csent : FALSE
      BY <2>1
    <3>3. 1 \in 1 .. csent + 1 /\ ctx.beginPos = at[1] /\ ~(1 <= csent) /\ ctx.fragmented <= 0
      BY <2>1, <3>1
    <3> HIDE DEF at
    <3>4. \E k \in 1 .. csent + 1 :
            ctx.beginPos = at[k] /\ ctx.fragmented <= IF k <= csent THEN UpSize[k] ELSE 0
      BY <3>3
    <3> QED BY <2>1, <3>1, <3>2, <3>4 DEF ArenaSound
  <2>3. CutEnd(ctx) = 0 /\ SeqSub(0, 0) = 0
    BY <2>1, SeqSpaceSize DEF CutEnd, SeqAdd, SeqSub
  <2>4. opspec = NoOpSpec /\ opspec.kind = "none" /\ tx.packets = <<>>
    <3>1. <<>> \in Seq(CtrlPacketType)
      OBVIOUS
    <3> QED BY <3>1, CtrlTxFields DEF Init, ConnInit, NoOpSpec
  <2>5. InTurn(Waiting(opspec, tx.packets), 0, 0)
    BY <2>4 DEF Waiting, InTurn
  <2>6. mem.kind = "end"
    BY EndMemTyped DEF Init
  <2>7. Ordered(ctx.seq, CutEnd(ctx), srx.seq, Waiting(opspec, tx.packets), mem)
    BY <2>1, <2>3, <2>5, <2>6, SeqSpaceSize DEF Ordered, InPlace
  <2>8. OnItsWay(opspec, mem, ctx.seq, CutEnd(ctx), srx.seq)
    BY <2>4 DEF OnItsWay
  <2> QED BY <2>2, <2>7, <2>8 DEF OrderInv
<1> QED BY <1>1, <1>2, <1>3, <1>4 DEF UplinkInv

\* The connection stays in order when a step leaves it alone.
LEMMA SameConn == ASSUME ConnSound, UNCHANGED connVars PROVE ConnSound'
BY DEF ConnSound, connVars

\* So does the WISP ...
LEMMA SameWisp == ASSUME WispSound, UNCHANGED wispVars PROVE WispSound'
BY DEF WispSound, wispVars

\* ... and so does what was received.
LEMMA SameRecv == ASSUME RecvSound, UNCHANGED recvVars PROVE RecvSound'
BY DEF RecvSound, recvVars

\* The order with a step of the connection that takes up no Read.
LEMMA ConnOrder ==
  ASSUME OrderInv, UNCHANGED <<csent, ctx, mem>>, srx'.seq = srx.seq,
         opspec' = opspec \/ ~opspec'.done,
         InTurn(Waiting(opspec, tx.packets), ctx.seq, srx.seq) =>
           InTurn(Waiting(opspec', tx'.packets), ctx.seq, srx.seq)
  PROVE  OrderInv'
<1>1. ArenaSound(ctx', csent')
  BY DEF OrderInv
<1>2. Ordered(ctx'.seq, CutEnd(ctx'), srx'.seq, Waiting(opspec', tx'.packets), mem')
  BY DEF OrderInv, Ordered
<1>3. OnItsWay(opspec', mem', ctx'.seq, CutEnd(ctx'), srx'.seq)
  BY DEF OrderInv, OnItsWay
<1> QED BY <1>1, <1>2, <1>3 DEF OrderInv

\* The fragment in a Read that the WISP has answered.
LEMMA DoneRead ==
  ASSUME ConnSound, opspec.kind = "read", opspec.done
  PROVE  /\ opspec \in UpRead /\ Len(opspec.data) = 1 /\ opspec.data \in Seq(MemType)
         /\ Head(opspec.data) \in MemType
<1>1. opspec \in UpOpSpec
  BY DEF ConnSound
<1>2. opspec \in UpRead /\ Len(opspec.data) = 1
  BY <1>1 DEF UpOpSpec, UpWrite, NoOpSpec
<1> DEFINE d == opspec.data
<1>3. d \in Seq(MemType) /\ Len(d) = 1
  BY <1>2 DEF UpRead
<1> HIDE DEF d, MemType
<1>4. Head(d) = d[1] /\ d[1] \in MemType
  BY <1>3, ElementOfSeq
<1> QED BY <1>2, <1>3, <1>4 DEF d

\* One message more in the arena.
LEMMA ArenaExtended ==
  ASSUME NEW c \in CtxType, NEW n \in 0 .. Len(UpSize) - 1, ArenaSound(c, n), NEW t \in CtxType,
         t.beginPos = c.beginPos, t.fragmented = c.fragmented,
         t.buf.posB = c.buf.posB + 2 + UpSize[n + 1],
         t.buf.mem[c.buf.posB][2] = UpSize[n + 1],
         \A k \in 0 .. c.buf.posB - 1 : t.buf.mem[k] = c.buf.mem[k]
  PROVE  ArenaSound(t, n + 1)
<1> DEFINE p == c.buf.posB
           q == t.buf.posB
<1>1. PICK at \in [1 .. n + 1 -> 0 .. TxBufSize] :
        /\ at[n + 1] = p
        /\ \A j \in 1 .. n : /\ at[j] < p /\ at[j + 1] = at[j] + 2 + UpSize[j]
                             /\ c.buf.mem[at[j]][2] = UpSize[j]
        /\ \E k \in 1 .. n + 1 : /\ c.beginPos = at[k]
                                 /\ c.fragmented <= IF k <= n THEN UpSize[k] ELSE 0
  BY DEF ArenaSound
<1>2. /\ n \in Nat /\ n + 1 \in UpMessage /\ UpSize[n + 1] \in Nat \ {0} /\ TxBufSize \in Nat
      /\ p \in 0 .. TxBufSize /\ q \in 0 .. TxBufSize /\ p < q /\ q = p + 2 + UpSize[n + 1]
      /\ \A j \in 1 .. n : j \in UpMessage
  <2>1. Len(UpSize) \in Nat
    BY UpConstants
  <2>2. n \in Nat /\ n + 1 \in UpMessage /\ \A j \in 1 .. n : j \in UpMessage
    BY <2>1 DEF UpMessage
  <2>3. UpSize[n + 1] \in Nat \ {0} /\ TxBufSize \in Nat
    BY <2>2, UpConstants
  <2>4. p \in 0 .. TxBufSize /\ q \in 0 .. TxBufSize
    BY CtxFields
  <2>5. p < q /\ q = p + 2 + UpSize[n + 1]
    BY SMTT(30), <2>3, <2>4
  <2> QED BY <2>2, <2>3, <2>4, <2>5
<1> DEFINE new == [j \in 1 .. n + 2 |-> IF j = n + 2 THEN q ELSE at[j]]
<1>3. /\ new \in [1 .. (n + 1) + 1 -> 0 .. TxBufSize] /\ new[(n + 1) + 1] = q
      /\ \A j \in 1 .. n + 1 : new[j] = at[j] /\ at[j] \in 0 .. TxBufSize
  BY <1>2
<1>4. ASSUME NEW j \in 1 .. n + 1
      PROVE  /\ new[j] < q /\ new[j + 1] = new[j] + 2 + UpSize[j]
             /\ t.buf.mem[new[j]][2] = UpSize[j]
  <2>1. CASE j = n + 1
    <3>1. new[j] = p /\ new[j + 1] = q
      BY <1>1, <1>2, <1>3, <2>1
    <3> HIDE DEF new
    <3> QED BY <1>2, <2>1, <3>1
  <2>2. CASE j # n + 1
    <3>1. j \in 1 .. n /\ j + 1 \in 1 .. n + 1
      BY <1>2, <2>2
    <3>2. new[j] = at[j] /\ new[j + 1] = at[j + 1] /\ at[j] \in 0 .. TxBufSize
      BY <1>3, <3>1
    <3> HIDE DEF new
    <3>3. at[j] < p /\ at[j + 1] = at[j] + 2 + UpSize[j] /\ c.buf.mem[at[j]][2] = UpSize[j]
      BY <1>1, <3>1
    <3>4. at[j] \in 0 .. p - 1
      BY <1>2, <3>2, <3>3
    <3>5. t.buf.mem[at[j]] = c.buf.mem[at[j]]
      BY <3>4
    <3> QED BY <1>2, <3>2, <3>3, <3>5
  <2> QED BY <2>1, <2>2
<1>5. \E k \in 1 .. (n + 1) + 1 :
        t.beginPos = new[k] /\ t.fragmented <= IF k <= n + 1 THEN UpSize[k] ELSE 0
  <2>1. PICK k \in 1 .. n + 1 : /\ c.beginPos = at[k]
                                /\ c.fragmented <= IF k <= n THEN UpSize[k] ELSE 0
    BY <1>1
  <2>2. k \in 1 .. (n + 1) + 1 /\ k <= n + 1 /\ t.beginPos = new[k]
    BY <1>2, <1>3, <2>1
  <2>3. t.fragmented <= UpSize[k]
    <3>1. CASE k <= n
      BY <2>1, <3>1
    <3>2. CASE ~(k <= n)
      <4>1. k = n + 1
        BY <1>2, <3>2
      <4>2. t.fragmented \in Nat
        BY CtxFields
      <4> QED BY <1>2, <2>1, <3>2, <4>1, <4>2
    <3> QED BY <3>1, <3>2
  <2> HIDE DEF new
  <2> QED BY <2>2, <2>3
<1> HIDE DEF new
<1> QED BY <1>3, <1>4, <1>5 DEF ArenaSound

\* wtp_send.
LEMMA WispSendKeeps == UplinkInv /\ WispSend => UplinkInv'
<1> SUFFICES ASSUME UplinkInv, WispSend PROVE UplinkInv'
  OBVIOUS
<1> DEFINE i    == csent + 1
           add  == TxAddMsg(ctx, i)
           t    == add.tx
           info == Last(t.readInfos)
           req  == QueuePacket(pkt, ReqFields(info.n, info.size))
           load == LoadReadMem(t, mem)
           sound == add.ok /\ req.ok
<1>1. /\ csent < Len(UpSize) /\ Len(sendCbs) < MsgCap
      /\ csent' = i /\ sendCbs' = Append(sendCbs, i)
      /\ pkt' = IF add.ok THEN req.buf ELSE pkt
      /\ IF sound /\ ~loaded
         THEN ctx' = load.tx /\ mem' = load.mem /\ loaded' = load.loaded
         ELSE ctx' = t /\ UNCHANGED <<mem, loaded>>
      /\ trouble \subseteq trouble'
      /\ ~sound => "sendFailed" \in trouble'
      /\ add.ok /\ Straddles(ctx, i) => "wrap" \in trouble'
      /\ UNCHANGED <<connVars, called, epc, seenVars, recvVars>>
  BY DEF WispSend
<1>2. /\ ConnSound /\ WispSound /\ RecvSound /\ (Intact => OrderInv)
      /\ csent \in 0 .. Len(UpSize) /\ ctx \in CtxType /\ mem \in MemType
      /\ sendCbs \in Seq(UpMessage) /\ Len(sendCbs) <= MsgCap
      /\ pkt \in BufType(PktBufSize, Nat) /\ epc \in BufType(EpcSize, Nat)
      /\ csent \in 0 .. Len(UpSize) - 1 /\ i \in UpMessage /\ i \in 0 .. Len(UpSize)
      /\ MsgCap \in Nat
  BY <1>1, UpConstants DEF UplinkInv, WispSound, UpMessage
<1>3. /\ t \in CtxType
      /\ add.ok => info \in ReadInfoType
      /\ t.seq = ctx.seq /\ t.beginSeq = ctx.beginSeq
      /\ t.beginPos = ctx.beginPos /\ t.fragmented = ctx.fragmented
      /\ add.ok /\ ~Straddles(ctx, i) =>
           /\ t.buf.posB = ctx.buf.posB + 2 + UpSize[i]
           /\ t.buf.mem[ctx.buf.posB][2] = UpSize[i]
           /\ \A k \in 0 .. ctx.buf.posB - 1 : t.buf.mem[k] = ctx.buf.mem[k]
  BY <1>2, AddMsgTyped
<1>4. ConnSound' /\ RecvSound'
  BY <1>1, <1>2, SameConn, SameRecv
<1> HIDE DEF add
<1>5. WispSound'
  <2>1. ctx' \in CtxType /\ mem' \in MemType
    <3>1. load.tx \in CtxType /\ load.mem \in MemType
      BY <1>2, <1>3, LoadSound
    <3> HIDE DEF load, t
    <3> QED BY <1>1, <1>2, <1>3, <3>1
  <2>2. pkt' \in BufType(PktBufSize, Nat)
    <3>1. CASE add.ok
      <4>1. info.n \in Nat /\ info.size \in Nat
        BY <1>3, <3>1 DEF ReadInfoType
      <4> DEFINE n == info.n
                 z == info.size
      <4> HIDE DEF n, z
      <4>2. << <<PktReqUplink>>, <<n>>, <<z>> >> \in Seq(Seq(Nat))
        BY <4>1 DEF n, z, PktReqUplink
      <4>3. ReqFields(n, z) \in Seq(Seq(Nat))
        BY <4>2 DEF ReqFields
      <4> HIDE DEF info
      <4>4. req.buf \in BufType(PktBufSize, Nat)
        BY <1>2, <4>3, EpcPumpAssumption, QueuePacketType DEF n, z
      <4> QED BY <1>1, <3>1, <4>4
    <3>2. CASE ~add.ok
      BY <1>1, <1>2, <3>2
    <3> QED BY <3>1, <3>2
  <2>3. sendCbs' \in Seq(UpMessage) /\ Len(sendCbs') <= MsgCap
    <3>1. Len(sendCbs) \in Nat
      BY <1>2
    <3> QED BY <1>1, <1>2, <3>1
  <2> QED BY <1>1, <1>2, <2>1, <2>2, <2>3 DEF WispSound
<1>6. ASSUME Intact' PROVE OrderInv'
  <2>1. Intact /\ sound /\ add.ok /\ ~Straddles(ctx, i)
    BY <1>1, <1>6 DEF Intact
  <2>2. OrderInv
    BY <1>2, <2>1
  <2>3. ArenaSound(t, i)
    BY <1>2, <1>3, <2>1, <2>2, ArenaExtended DEF OrderInv
  <2>4. CutEnd(t) = CutEnd(ctx) /\ t.seq = ctx.seq
    BY <1>3 DEF CutEnd
  <2> HIDE DEF t, i, load
  <2> DEFINE ps == Waiting(opspec, tx.packets)
             s == srx.seq
             a == ctx.seq
  <2>5. Ordered(a, CutEnd(t), s, ps, mem) /\ OnItsWay(opspec, mem, a, CutEnd(t), s)
    BY <2>2, <2>4 DEF OrderInv
  <2>6. srx' = srx /\ opspec' = opspec /\ tx' = tx /\ csent' = i
    BY <1>1 DEF connVars, recvVars
  <2>7. CASE loaded
    <3>1. ctx' = t /\ mem' = mem
      BY <1>1, <2>7
    <3> QED BY <2>3, <2>4, <2>5, <2>6, <3>1 DEF OrderInv
  <2>8. CASE ~loaded
    <3>1. ctx' = load.tx /\ mem' = load.mem
      BY <1>1, <2>1, <2>8
    <3>2. s \in Int
      BY <1>2, SeqSpaceSize DEF RecvSound
    <3>3. load.tx.seq = a
      BY <1>2, <1>3, <2>4, LoadSound DEF load
    <3> HIDE DEF ps, s
    <3>4. /\ ArenaSound(load.tx, i)
          /\ Ordered(a, CutEnd(load.tx), s, ps, load.mem)
          /\ \A x \in MemType : InPlace(x, a, s, CutEnd(t)) /\ NotBehind(x, mem, a) =>
               InPlace(x, a, s, CutEnd(load.tx)) /\ NotBehind(x, load.mem, a)
      <4>1. Ordered(t.seq, CutEnd(t), s, ps, mem)
        BY <2>4, <2>5 DEF s, ps
      <4>2. LET r == LoadReadMem(t, mem)
            IN /\ ArenaSound(r.tx, i)
               /\ Ordered(t.seq, CutEnd(r.tx), s, ps, r.mem)
               /\ \A x \in MemType : InPlace(x, t.seq, s, CutEnd(t)) /\ NotBehind(x, mem, t.seq) =>
                    InPlace(x, t.seq, s, CutEnd(r.tx)) /\ NotBehind(x, r.mem, t.seq)
        BY <1>2, <1>3, <2>3, <3>2, <4>1, LoadOrdered
      <4> QED BY <2>4, <4>2 DEF load
    <3>5. OnItsWay(opspec, load.mem, a, CutEnd(load.tx), s)
      <4> SUFFICES ASSUME opspec.kind = "read", opspec.done
                   PROVE  OnItsWay(opspec, load.mem, a, CutEnd(load.tx), s)
        BY DEF OnItsWay
      <4>1. Head(opspec.data) \in MemType
        BY <1>2, DoneRead
      <4>2. InPlace(Head(opspec.data), a, s, CutEnd(t)) /\ NotBehind(Head(opspec.data), mem, a)
        BY <2>5 DEF OnItsWay, s
      <4> QED BY <3>4, <4>1, <4>2 DEF OnItsWay
    <3> QED BY <2>6, <3>1, <3>3, <3>4, <3>5 DEF OrderInv, s, ps
  <2> QED BY <2>7, <2>8
<1> QED BY <1>4, <1>5, <1>6 DEF UplinkInv

\* wtp_send with a full queue is trouble.
LEMMA WispSendRefusedKeeps == UplinkInv /\ WispSendRefused => UplinkInv'
<1> SUFFICES ASSUME UplinkInv, WispSendRefused PROVE UplinkInv'
  OBVIOUS
<1>1. ConnSound' /\ RecvSound'
  BY SameConn, SameRecv DEF WispSendRefused, UplinkInv
<1>2. csent' \in 0 .. Len(UpSize)
  <2>1. csent \in 0 .. Len(UpSize) /\ csent < Len(UpSize) /\ csent' = csent + 1
    BY DEF UplinkInv, WispSound, WispSendRefused
  <2> QED BY <2>1, UpConstants
<1>3. WispSound'
  BY <1>2 DEF UplinkInv, WispSound, WispSendRefused
<1>4. ~Intact'
  BY DEF WispSendRefused, Intact
<1> QED BY <1>1, <1>3, <1>4 DEF UplinkInv

\* The loop of runtime.c that fills the EPC.
LEMMA UpdateEpcKeeps == UplinkInv /\ UpdateEpc => UplinkInv'
<1> SUFFICES ASSUME UplinkInv, UpdateEpc PROVE UplinkInv'
  OBVIOUS
<1>1. /\ ConnSound /\ WispSound /\ RecvSound /\ (Intact => OrderInv)
      /\ pkt \in BufType(PktBufSize, Nat) /\ epc \in BufType(EpcSize, Nat)
  BY DEF UplinkInv, WispSound
<1>2. /\ pkt' = Pump(pkt, epc).pkt /\ epc' = Pump(pkt, epc).epc
      /\ trouble \subseteq trouble'
      /\ UNCHANGED <<connVars, csent, ctx, sendCbs, called, mem, loaded, prevEpcs, recvVars>>
  BY DEF UpdateEpc
<1>3. pkt' \in BufType(PktBufSize, Nat) /\ epc' \in BufType(EpcSize, Nat)
  <2>1. PktBufSize \in Nat /\ EpcSize \in Nat /\ 0 \in Nat
    BY EpcPumpAssumption
  <2> QED BY <1>1, <1>2, <2>1, PumpTypes
<1>4. ConnSound' /\ RecvSound'
  BY <1>1, <1>2, SameConn, SameRecv
<1>5. WispSound'
  BY <1>1, <1>2, <1>3 DEF WispSound
<1>6. ASSUME Intact' PROVE OrderInv'
  <2>1. Intact
    BY <1>2, <1>6 DEF Intact
  <2> QED BY <1>1, <1>2, <2>1, ConnOrder DEF connVars, recvVars
<1> QED BY <1>4, <1>5, <1>6 DEF UplinkInv

\* A tag report with the EPC.
LEMMA SeeEpcKeeps == UplinkInv /\ SeeEpc => UplinkInv'
<1> SUFFICES ASSUME UplinkInv, SeeEpc PROVE UplinkInv'
  OBVIOUS
<1> DEFINE bytes == EpcBytes(epc)
           asks == ReadsAskedFor(bytes)
<1>1. ConnSound /\ WispSound /\ RecvSound /\ (Intact => OrderInv)
  BY DEF UplinkInv
<1>2. /\ trouble \subseteq trouble'
      /\ UNCHANGED <<wispVars, recvVars>>
      /\ UNCHANGED connVars \/ ReqUplink(asks)
  BY DEF SeeEpc
<1>3. asks \in Seq(Nat)
  <2>1. bytes \in Seq(Nat)
    <3>1. epc.mem \in [0 .. EpcSize - 1 -> Nat] /\ EpcSize \in Nat
      BY <1>1, EpcPumpAssumption, BufFields DEF WispSound
    <3>2. \A i \in 1 .. EpcSize : epc.mem[i - 1] \in Nat
      BY <3>1
    <3>3. bytes = [i \in 1 .. EpcSize |-> epc.mem[i - 1]]
      BY DEF EpcBytes
    <3> HIDE DEF bytes
    <3> QED BY SMTT(30), <3>1, <3>2, <3>3
  <2> HIDE DEF bytes
  <2>2. PacketsOfEpc(bytes, TRUE) \in Seq(EpcPacketType)
    BY <2>1, TRUE \in BOOLEAN, PacketsOfEpcSound
  <2> QED BY <2>2, ReadsOfType DEF ReadsAskedFor
<1> HIDE DEF asks
<1>4. WispSound' /\ RecvSound'
  BY <1>1, <1>2, SameWisp, SameRecv
<1>5. /\ ConnSound'
      /\ opspec' = opspec \/ ~opspec'.done
      /\ \A a, s : InTurn(Waiting(opspec, tx.packets), a, s) =>
                     InTurn(Waiting(opspec', tx'.packets), a, s)
  <2>1. CASE UNCHANGED connVars
    <3>1. tx' = tx /\ opspec' = opspec
      BY <2>1 DEF connVars
    <3> QED BY <1>1, <2>1, <3>1, SameConn
  <2>2. CASE ReqUplink(asks)
    BY <1>1, <1>3, <2>2, ReqUplinkStep
  <2> QED BY <1>2, <2>1, <2>2
<1>6. ASSUME Intact' PROVE OrderInv'
  <2>1. Intact
    BY <1>2, <1>6 DEF Intact
  <2> QED BY <1>1, <1>2, <1>5, <2>1, ConnOrder DEF wispVars, recvVars
<1> QED BY <1>4, <1>5, <1>6 DEF UplinkInv

\* The Read and the BlockWrite that the WISP has carried out.
LEMMA CarriedOut ==
  ASSUME ConnSound
  PROVE  /\ opspec.kind = "read" => \A x \in MemType :
              LET o == [opspec EXCEPT !.done = TRUE, !.data = <<x>>]
              IN o \in UpOpSpec /\ o.kind = "read" /\ o.done /\ o.data = <<x>>
         /\ opspec.kind = "write" =>
              LET o == [opspec EXCEPT !.done = TRUE]
              IN /\ o \in UpOpSpec /\ o.kind = "write" /\ o.done
                 /\ opspec.data \in Seq(UpPacketType)
<1>1. opspec \in UpOpSpec
  BY DEF ConnSound
<1>2. ASSUME opspec.kind = "read", NEW x \in MemType
      PROVE  LET o == [opspec EXCEPT !.done = TRUE, !.data = <<x>>]
             IN o \in UpOpSpec /\ o.kind = "read" /\ o.done /\ o.data = <<x>>
  <2> DEFINE d == <<x>>
             o == [opspec EXCEPT !.done = TRUE, !.data = d]
  <2>1. opspec \in UpRead
    BY <1>1, <1>2 DEF UpOpSpec, UpWrite, NoOpSpec
  <2>2. d \in Seq(MemType) /\ Len(d) = 1
    <3> HIDE DEF MemType
    <3> QED OBVIOUS
  <2> HIDE DEF d
  <2>3. o \in UpRead /\ o.kind = "read" /\ o.done /\ o.data = d
    BY <1>2, <2>1, <2>2 DEF UpRead
  <2> HIDE DEF o
  <2>4. o \in UpOpSpec
    BY <2>2, <2>3 DEF UpOpSpec
  <2> QED BY <2>3, <2>4 DEF o, d
<1>3. ASSUME opspec.kind = "write"
      PROVE  LET o == [opspec EXCEPT !.done = TRUE]
             IN /\ o \in UpOpSpec /\ o.kind = "write" /\ o.done
                /\ opspec.data \in Seq(UpPacketType)
  <2> DEFINE o == [opspec EXCEPT !.done = TRUE]
  <2>1. opspec \in UpWrite
    BY <1>1, <1>3 DEF UpOpSpec, UpRead, NoOpSpec
  <2>2. o \in UpWrite /\ o.kind = "write" /\ o.done /\ opspec.data \in Seq(UpPacketType)
    BY <1>3, <2>1 DEF UpWrite
  <2> HIDE DEF o
  <2>3. o \in UpOpSpec
    BY <2>2 DEF UpOpSpec
  <2> QED BY <2>2, <2>3 DEF o
<1> QED BY <1>2, <1>3

\* The connection with it.
LEMMA CarriedOutConn ==
  ASSUME ConnSound, opspec' \in UpOpSpec,
         UNCHANGED <<sent, tx, writeSize, readSize, ongoing, reads, asked, sendDeferreds,
                     resolved>>
  PROVE  ConnSound'
BY DEF ConnSound

\* The WISP answers a Read and loads the next fragment.
LEMMA CarryOutReadKeeps == UplinkInv /\ CarryOutRead => UplinkInv'
<1> SUFFICES ASSUME UplinkInv, CarryOutRead PROVE UplinkInv'
  OBVIOUS
<1> DEFINE load == LoadReadMem(ctx, mem)
           o == [opspec EXCEPT !.done = TRUE, !.data = <<mem>>]
<1>1. /\ opspec.kind = "read" /\ ~opspec.done /\ opspec' = o
      /\ ctx' = load.tx /\ mem' = load.mem
      /\ trouble \subseteq trouble'
      /\ UNCHANGED <<sent, tx, writeSize, readSize, ongoing, reads, asked, sendDeferreds,
                     resolved, csent, sendCbs, called, pkt, epc, seenVars, recvVars>>
  BY DEF CarryOutRead
<1>2. /\ ConnSound /\ WispSound /\ RecvSound /\ (Intact => OrderInv)
      /\ ctx \in CtxType /\ mem \in MemType
  BY DEF UplinkInv, WispSound
<1>3. o \in UpOpSpec /\ o.kind = "read" /\ o.done /\ o.data = <<mem>>
  BY <1>1, <1>2, CarriedOut
<1>4. load.tx \in CtxType /\ load.mem \in MemType /\ load.tx.seq = ctx.seq
  BY <1>2, LoadSound
<1> HIDE DEF load, o
<1>5. ConnSound' /\ RecvSound'
  BY <1>1, <1>2, <1>3, CarriedOutConn, SameRecv
<1>6. WispSound'
  BY <1>1, <1>2, <1>4 DEF WispSound
<1>7. ASSUME Intact' PROVE OrderInv'
  <2>1. OrderInv
    BY <1>1, <1>2, <1>7 DEF Intact
  <2> DEFINE ps == Waiting(opspec, tx.packets)
             s == srx.seq
             a == ctx.seq
             e == CutEnd(ctx)
  <2>2. ArenaSound(ctx, csent) /\ Ordered(a, e, s, ps, mem) /\ csent \in 0 .. Len(UpSize)
        /\ s \in Int
    BY <1>2, <2>1, SeqSpaceSize DEF OrderInv, WispSound, RecvSound
  <2>3. Waiting(opspec', tx'.packets) = ps
    BY <1>1, <1>3 DEF Waiting
  <2>4. InPlace(mem, a, s, e) /\ NotBehind(mem, mem, a)
    <3>1. SeqSub(UpEnd(mem), a) \in Int
      <4>1. UpEnd(mem) \in Int /\ a \in Int
        BY <1>2, UpEndType, CutEndType
      <4>2. SeqSub(UpEnd(mem), a) \in 0 .. SeqSpace - 1
        BY <4>1, Distances
      <4> QED BY <4>2, SeqSpaceSize
    <3> QED BY <2>2, <3>1 DEF Ordered, NotBehind
  <2> HIDE DEF ps, s
  <2>5. LET r == LoadReadMem(ctx, mem)
        IN /\ ArenaSound(r.tx, csent)
           /\ Ordered(ctx.seq, CutEnd(r.tx), s, ps, r.mem)
           /\ \A x \in MemType : InPlace(x, ctx.seq, s, CutEnd(ctx)) /\ NotBehind(x, mem, ctx.seq) =>
                InPlace(x, ctx.seq, s, CutEnd(r.tx)) /\ NotBehind(x, r.mem, ctx.seq)
    BY <1>2, <2>2, LoadOrdered
  <2>6. /\ ArenaSound(load.tx, csent) /\ Ordered(a, CutEnd(load.tx), s, ps, load.mem)
        /\ InPlace(mem, a, s, CutEnd(load.tx)) /\ NotBehind(mem, load.mem, a)
    BY <1>2, <2>4, <2>5 DEF load
  <2>7. Head(opspec'.data) = mem
    BY <1>1, <1>3
  <2>8. srx' = srx /\ ctx' = load.tx /\ mem' = load.mem /\ csent' = csent /\ ctx'.seq = a
    BY <1>1, <1>4 DEF recvVars
  <2>9. OnItsWay(opspec', mem', ctx'.seq, CutEnd(ctx'), srx'.seq)
    BY <2>6, <2>7, <2>8 DEF OnItsWay, s
  <2> QED BY <2>3, <2>6, <2>8, <2>9 DEF OrderInv, s
<1> QED BY <1>5, <1>6, <1>7 DEF UplinkInv

\* The WISP carries out a BlockWrite.
LEMMA CarryOutWriteKeeps == UplinkInv /\ CarryOutWrite => UplinkInv'
<1> SUFFICES ASSUME UplinkInv, CarryOutWrite PROVE UplinkInv'
  OBVIOUS
<1> DEFINE data == opspec.data
           start == [ctx |-> ctx, sendCbs |-> sendCbs, called |-> called,
                     ok |-> TRUE, stray |-> FALSE]
           w == Fold(HandleCtrl, start, data)
           o == [opspec EXCEPT !.done = TRUE]
           b == w.ctx.seq
<1>1. /\ opspec.kind = "write" /\ ~opspec.done /\ opspec' = o
      /\ ctx' = w.ctx /\ sendCbs' = w.sendCbs /\ called' = w.called
      /\ trouble \subseteq trouble'
      /\ UNCHANGED <<sent, tx, writeSize, readSize, ongoing, reads, asked, sendDeferreds,
                     resolved, csent, mem, loaded, pkt, epc, seenVars, recvVars>>
  BY DEF CarryOutWrite
<1>2. /\ ConnSound /\ WispSound /\ RecvSound /\ (Intact => OrderInv)
      /\ ctx \in CtxType /\ mem \in MemType
      /\ sendCbs \in Seq(UpMessage) /\ Len(sendCbs) <= MsgCap
  BY DEF UplinkInv, WispSound
<1>3. o \in UpOpSpec /\ o.kind = "write" /\ o.done /\ data \in Seq(UpPacketType)
  BY <1>1, <1>2, CarriedOut
<1>4. /\ CtrlState(w, ctx)
      /\ b = ctx.seq \/ \E j \in 1 .. Len(data) : data[j].type = "ack" /\ b = data[j].val
  <2>1. CtrlState(start, ctx) /\ start.ctx = ctx
    BY <1>2 DEF CtrlState, SameArena
  <2> HIDE DEF start, data
  <2> QED BY <1>2, <1>3, <2>1, BlockWriteSound
<1> HIDE DEF w, o, data
<1>5. /\ w.ctx \in CtxType /\ w.sendCbs \in Seq(UpMessage) /\ Len(w.sendCbs) <= MsgCap
      /\ SameArena(w.ctx, ctx)
  BY <1>4 DEF CtrlState
<1>6. ConnSound' /\ RecvSound'
  BY <1>1, <1>2, <1>3, CarriedOutConn, SameRecv
<1>7. WispSound'
  BY <1>1, <1>2, <1>5 DEF WispSound
<1>8. ASSUME Intact' PROVE OrderInv'
  <2>1. OrderInv
    BY <1>1, <1>2, <1>8 DEF Intact
  <2> DEFINE ps == tx.packets
             qs == data \o ps
             s == srx.seq
             a == ctx.seq
             e == CutEnd(ctx)
  <2>2. ps \in Seq(UpPacketType) /\ s \in Int /\ a \in Int /\ e \in Int /\ b \in Int
    <3>1. w.ctx.seq \in Int /\ a \in Int /\ e \in Int
      BY <1>2, <1>5, CutEndType
    <3> QED BY SMTT(30), <1>2, <3>1, SeqSpaceSize DEF ConnSound, RecvSound
  <2>3. Ordered(a, e, s, qs, mem)
    BY <1>1, <2>1 DEF OrderInv, Waiting, data
  <2>4. InTurn(ps, a, s)
    BY <1>2, <2>1, TailInTurn DEF OrderInv, Ordered
  <2>5. ArenaSound(ctx', csent') /\ CutEnd(ctx') = e
    BY <1>1, <1>5, <2>1, SameArenaSound DEF OrderInv
  <2>6. /\ Len(data) \in Nat /\ Len(ps) \in Nat /\ Len(qs) = Len(data) + Len(ps)
        /\ \A i \in 1 .. Len(data) : qs[i] = data[i]
        /\ \A i \in 1 .. Len(ps) : qs[Len(data) + i] = ps[i]
    <3> DEFINE T == UpPacketType
    <3>1. data \in Seq(T) /\ ps \in Seq(T)
      BY <1>3, <2>2
    <3> HIDE DEF T, ps
    <3>2. Len(data) \in Nat /\ Len(ps) \in Nat
      BY <3>1
    <3>3. /\ Len(qs) = Len(data) + Len(ps)
          /\ \A i \in 1 .. Len(data) + Len(ps) :
               qs[i] = IF i <= Len(data) THEN data[i] ELSE ps[i - Len(data)]
      BY <3>1, ConcatProperties
    <3> HIDE DEF qs
    <3>4. ASSUME NEW i \in 1 .. Len(data) PROVE qs[i] = data[i]
      BY <3>2, <3>3
    <3>5. ASSUME NEW i \in 1 .. Len(ps) PROVE qs[Len(data) + i] = ps[i]
      <4>1. /\ Len(data) + i \in 1 .. Len(data) + Len(ps)
            /\ ~(Len(data) + i <= Len(data)) /\ Len(data) + i - Len(data) = i
        BY <3>2
      <4> QED BY <3>3, <4>1
    <3> QED BY <3>2, <3>3, <3>4, <3>5
  <2>7. /\ SeqSub(b, a) <= SeqSub(s, a)
        /\ \A i \in 1 .. Len(ps) : ps[i].type = "ack" => SeqSub(b, a) <= SeqSub(ps[i].val, a)
    <3>1. CASE b = a
      <4>1. SeqSub(b, a) = 0
        BY <2>2, <3>1, SeqSpaceSize DEF SeqSub
      <4>2. SeqSub(s, a) >= 0
        <5>1. SeqSub(s, a) \in 0 .. SeqSpace - 1
          BY <2>2, Distances
        <5> QED BY <5>1, SeqSpaceSize
      <4>3. ASSUME NEW i \in 1 .. Len(ps), ps[i].type = "ack" PROVE SeqSub(ps[i].val, a) >= 0
        <5>1. SeqSub(ps[i].val, a) \in 0 .. SeqSpace - 1
          BY <2>2, <4>3, AckDistance
        <5> QED BY <5>1, SeqSpaceSize
      <4> QED BY <4>1, <4>2, <4>3
    <3>2. ASSUME NEW j \in 1 .. Len(data), data[j].type = "ack", b = data[j].val
          PROVE  /\ SeqSub(b, a) <= SeqSub(s, a)
                 /\ \A i \in 1 .. Len(ps) :
                      ps[i].type = "ack" => SeqSub(b, a) <= SeqSub(ps[i].val, a)
      <4>1. InTurn(qs, a, s)
        BY <2>3 DEF Ordered
      <4>2. j \in 1 .. Len(qs) /\ qs[j].type = "ack" /\ qs[j].val = b
        BY <2>6, <3>2
      <4> HIDE DEF qs
      <4>3. SeqSub(b, a) <= SeqSub(s, a)
        BY <4>1, <4>2 DEF InTurn
      <4>4. ASSUME NEW i \in 1 .. Len(ps), ps[i].type = "ack"
            PROVE  SeqSub(b, a) <= SeqSub(ps[i].val, a)
        <5>1. /\ Len(data) + i \in 1 .. Len(qs) /\ j \in 1 .. Len(data) + i
              /\ qs[Len(data) + i] = ps[i]
          BY <2>6
        <5> QED BY <4>1, <4>2, <4>4, <5>1 DEF InTurn
      <4> QED BY <4>3, <4>4
    <3> QED BY <1>4, <3>1, <3>2
  <2>8. Ordered(b, e, s, ps, mem)
    <3> HIDE DEF b, e, s, ps, qs, a
    <3> QED BY <1>2, <2>2, <2>3, <2>4, <2>7, OrderedFrom
  <2>9. Waiting(opspec', tx'.packets) = ps /\ opspec'.kind = "write"
    BY <1>1, <1>3 DEF Waiting
  <2>10. srx' = srx /\ ctx'.seq = b /\ mem' = mem
    BY <1>1 DEF recvVars
  <2>11. OnItsWay(opspec', mem', ctx'.seq, CutEnd(ctx'), srx'.seq)
    BY <2>9 DEF OnItsWay
  <2> QED BY <2>5, <2>8, <2>9, <2>10, <2>11 DEF OrderInv
<1> QED BY <1>6, <1>7, <1>8 DEF UplinkInv

\* A tag report of a Read that failed.
LEMMA ReadFailsKeeps == UplinkInv /\ ReadFails => UplinkInv'
<1> SUFFICES ASSUME UplinkInv, ReadFails PROVE UplinkInv'
  OBVIOUS
<1>1. ConnSound /\ WispSound /\ RecvSound /\ (Intact => OrderInv) /\ ctx \in CtxType
      /\ srx.seq \in 0 .. SeqSpace - 1
  BY DEF UplinkInv, WispSound, RecvSound
<1>2. /\ ReadReport(FALSE, <<>>) /\ trouble \subseteq trouble'
      /\ UNCHANGED <<wispVars, recvVars>>
  BY DEF ReadFails
<1>3. /\ ConnSound' /\ ~opspec'.done
      /\ \A a \in Int : InTurn(Waiting(opspec, tx.packets), a, srx.seq) =>
                          InTurn(Waiting(opspec', tx'.packets), a, srx.seq)
  <2>1. FALSE \in BOOLEAN
    OBVIOUS
  <2> DEFINE s == srx.seq
             answer == <<>>
  <2>2. s \in 0 .. SeqSpace - 1 /\ ReadReport(FALSE, answer)
        /\ (answer = <<>> \/ answer = <<CtrlPacket("ack", CtrlSize, s)>>)
    BY <1>1, <1>2
  <2> HIDE DEF s, answer
  <2>3. /\ ConnSound' /\ ~opspec'.done
        /\ \A a \in Int : InTurn(Waiting(opspec, tx.packets), a, s) =>
                            InTurn(Waiting(opspec', tx'.packets), a, s)
    BY <1>1, <2>1, <2>2, ReadReportStep
  <2> QED BY <2>3 DEF s
<1>4. WispSound' /\ RecvSound'
  BY <1>1, <1>2, SameWisp, SameRecv
<1>5. ASSUME Intact' PROVE OrderInv'
  <2>1. Intact /\ ctx.seq \in Int
    BY <1>1, <1>2, <1>5, CutEndType DEF Intact
  <2> QED BY <1>1, <1>2, <1>3, <2>1, ConnOrder DEF wispVars, recvVars
<1> QED BY <1>3, <1>4, <1>5 DEF UplinkInv

\* A tag report of a BlockWrite.
LEMMA WriteEndsKeeps == ASSUME NEW ok \in BOOLEAN PROVE UplinkInv /\ WriteEnds(ok) => UplinkInv'
<1> SUFFICES ASSUME UplinkInv, WriteEnds(ok) PROVE UplinkInv'
  OBVIOUS
<1>1. ConnSound /\ WispSound /\ RecvSound /\ (Intact => OrderInv)
  BY DEF UplinkInv
<1>2. /\ WriteReport(ok) /\ trouble \subseteq trouble'
      /\ UNCHANGED <<wispVars, recvVars>>
  BY DEF WriteEnds
<1>3. /\ ConnSound' /\ ~opspec'.done
      /\ \A a, s : InTurn(Waiting(opspec, tx.packets), a, s) =>
                     InTurn(Waiting(opspec', tx'.packets), a, s)
  BY <1>1, <1>2, WriteReportStep
<1>4. WispSound' /\ RecvSound'
  BY <1>1, <1>2, SameWisp, SameRecv
<1>5. ASSUME Intact' PROVE OrderInv'
  <2>1. Intact
    BY <1>2, <1>5 DEF Intact
  <2> QED BY <1>1, <1>2, <1>3, <2>1, ConnOrder DEF wispVars, recvVars
<1> QED BY <1>3, <1>4, <1>5 DEF UplinkInv

\* recv().
LEMMA RecvKeeps == UplinkInv /\ Recv => UplinkInv'
<1> SUFFICES ASSUME UplinkInv, Recv PROVE UplinkInv'
  OBVIOUS
<1>1. ConnSound /\ WispSound /\ RecvSound /\ (Intact => OrderInv)
  BY DEF UplinkInv
<1>2. ConnSound' /\ WispSound'
  BY <1>1, SameConn, SameWisp DEF Recv
<1>3. RecvSound'
  <2>1. /\ delivered \in Seq(Given) /\ recvMsgs \in Seq(Given)
        /\ waiting \in 0 .. Len(UpSize) /\ Len(UpSize) \in Nat
        /\ waiting + Len(delivered) < Len(UpSize)
    BY <1>1, UpConstants DEF RecvSound, Recv
  <2>2. Len(delivered) \in Nat
    BY <2>1
  <2>3. delivered' \in Seq(Given) /\ recvMsgs' \in Seq(Given) /\ waiting' \in 0 .. Len(UpSize)
    <3>1. CASE recvMsgs # <<>>
      <4>1. Head(recvMsgs) \in Given /\ Tail(recvMsgs) \in Seq(Given)
        <5> HIDE DEF Given
        <5> QED BY <2>1, <3>1
      <4>2. delivered' = Append(delivered, Head(recvMsgs)) /\ recvMsgs' = Tail(recvMsgs)
            /\ waiting' = waiting
        BY <3>1 DEF Recv
      <4> HIDE DEF Given
      <4> QED BY <2>1, <4>1, <4>2
    <3>2. CASE recvMsgs = <<>>
      BY <2>1, <2>2, <3>2 DEF Recv
    <3> QED BY <3>1, <3>2
  <2>4. srx' = srx
    BY DEF Recv
  <2> QED BY <1>1, <2>3, <2>4 DEF RecvSound
<1>4. ASSUME Intact' PROVE OrderInv'
  <2>1. Intact
    BY <1>4 DEF Intact, Recv
  <2> QED BY <1>1, <2>1, ConnOrder DEF Recv, connVars, wispVars
<1> QED BY <1>2, <1>3, <1>4 DEF UplinkInv

\* A tag report with what a Read gave.
LEMMA ReadArrivesKeeps ==
  ASSUME NEW again \in BOOLEAN PROVE UplinkInv /\ ReadArrives(again) => UplinkInv'
<1> SUFFICES ASSUME UplinkInv, ReadArrives(again) PROVE UplinkInv'
  OBVIOUS
<1> DEFINE m == Head(opspec.data)
           got == ReadPayload(m, WordBytes(opspec.size))
           r == RxCtrlHandlePacket(srx, m.seq, got, m.msgSize)
           w == HandOutAll(r.msgs, again)
           s == srx.seq
           t == srx'.seq
           ps == Waiting(opspec, tx.packets)
<1>1. /\ ConnSound /\ WispSound /\ RecvSound /\ (Intact => OrderInv)
      /\ ctx \in CtxType /\ mem \in MemType /\ s \in 0 .. SeqSpace - 1 /\ srx.fragments = <<>>
  BY DEF UplinkInv, WispSound, RecvSound
<1>2. /\ opspec.kind = "read" /\ opspec.done
      /\ UNCHANGED <<wispVars, seenVars, trouble>>
      /\ \/ m.kind = "end" /\ ReadReport(TRUE, <<>>) /\ UNCHANGED recvVars
         \/ /\ m.kind = "data"
            /\ ReadReport(TRUE, <<CtrlPacket("ack", CtrlSize, r.rx.seq)>>)
            /\ srx' = r.rx
            /\ recvMsgs' = w.msgs /\ waiting' = w.waiting /\ delivered' = w.given
  BY DEF ReadArrives, AckOf
<1>3. m \in MemType
  BY <1>1, <1>2, DoneRead
<1>4. Len(got) \in 0 .. m.len
  <2>1. WordBytes(opspec.size) \in Int
    <3>1. opspec.size \in Nat
      BY <1>1, <1>2, DoneRead DEF UpRead
    <3> QED BY <3>1 DEF WordBytes
  <2> HIDE DEF m
  <2> QED BY <1>3, <2>1, PayloadLength
<1> HIDE DEF got, m
\* What the server has after it.
<1>5. /\ RecvSound'
      /\ t \in 0 .. SeqSpace - 1
      /\ t = s \/ (m.kind = "data" /\ m.seq = s /\ t = SeqAdd(s, Len(got)))
  <2>1. CASE UNCHANGED recvVars
    <3>1. srx' = srx
      BY <2>1 DEF recvVars
    <3> QED BY <1>1, <2>1, <3>1, SameRecv
  <2>2. CASE /\ m.kind = "data" /\ srx' = r.rx
             /\ recvMsgs' = w.msgs /\ waiting' = w.waiting /\ delivered' = w.given
    <3>1. /\ r.rx.fragments = <<>>
          /\ r.rx.seq = s \/ (m.seq = s /\ r.rx.seq = SeqAdd(s, Len(got)))
          /\ r.msgs = <<>> \/ \E x : r.msgs = <<x>>
      BY <1>1, ReceiveSound
    <3> HIDE DEF r
    <3>2. w.msgs \in Seq(Given) /\ w.given \in Seq(Given) /\ w.waiting \in 0 .. Len(UpSize)
      BY <1>1, <3>1, HandOutAllTyped DEF RecvSound
    <3> HIDE DEF w
    <3>3. t \in 0 .. SeqSpace - 1
      <4>1. s \in Int /\ Len(got) \in Int
        BY <1>1, <1>3, <1>4, SeqSpaceSize DEF MemType
      <4>2. SeqAdd(s, Len(got)) \in 0 .. SeqSpace - 1
        BY <4>1, Distances
      <4> QED BY <1>1, <2>2, <3>1, <4>2
    <3> QED BY <2>2, <3>1, <3>2, <3>3 DEF RecvSound
  <2> QED BY <1>2, <2>1, <2>2
<1>6. /\ ConnSound' /\ ~opspec'.done
      /\ \A a \in Int : InTurn(Waiting(opspec, tx.packets), a, t) =>
                          InTurn(Waiting(opspec', tx'.packets), a, t)
  <2>1. \E answer : /\ ReadReport(TRUE, answer)
                    /\ answer = <<>> \/ answer = <<CtrlPacket("ack", CtrlSize, t)>>
    BY <1>2
  <2>2. PICK answer : /\ ReadReport(TRUE, answer)
                      /\ answer = <<>> \/ answer = <<CtrlPacket("ack", CtrlSize, t)>>
    BY <2>1
  <2> DEFINE n == t
  <2>3. TRUE \in BOOLEAN /\ n \in 0 .. SeqSpace - 1
        /\ (answer = <<>> \/ answer = <<CtrlPacket("ack", CtrlSize, n)>>)
    BY <1>5, <2>2
  <2> HIDE DEF n
  <2>4. /\ ConnSound' /\ ~opspec'.done
        /\ \A a \in Int : InTurn(Waiting(opspec, tx.packets), a, n) =>
                            InTurn(Waiting(opspec', tx'.packets), a, n)
    BY <1>1, <2>2, <2>3, ReadReportStep
  <2> QED BY <2>4 DEF n
<1>7. WispSound'
  BY <1>1, <1>2, SameWisp
<1>8. ASSUME Intact' PROVE OrderInv'
  <2> DEFINE a == ctx.seq
             e == CutEnd(ctx)
  <2>1. OrderInv
    BY <1>1, <1>2, <1>8 DEF Intact
  <2>2. a \in Int /\ e \in Int /\ s \in Int /\ ps \in Seq(UpPacketType)
    <3>1. ps \in Seq(UpPacketType)
      BY <1>1, WaitingType DEF ConnSound
    <3>2. s \in Int
      BY <1>1, SeqSpaceSize
    <3> QED BY <1>1, <3>1, <3>2, CutEndType
  <2>3. Ordered(a, e, s, ps, mem) /\ ArenaSound(ctx, csent)
    BY <2>1 DEF OrderInv
  <2>4. InPlace(m, a, s, e) /\ NotBehind(m, mem, a)
    BY <1>2, <2>1 DEF OrderInv, OnItsWay, m
  <2> HIDE DEF a, e, s, ps, t
  <2>5. Ordered(a, e, t, ps, mem)
    <3>1. CASE t = s
      BY <2>3, <3>1
    <3>2. CASE m.kind = "data" /\ m.seq = s /\ t = SeqAdd(s, Len(got))
      <4> DEFINE k == Len(got)
      <4>1. k \in 0 .. m.len
        BY <1>4
      <4> HIDE DEF k
      <4>2. Ordered(a, e, SeqAdd(s, k), ps, mem)
        BY <1>1, <1>3, <2>2, <2>3, <2>4, <3>2, <4>1, ReceivedOrdered
      <4> QED BY <3>2, <4>2 DEF k
    <3> QED BY <1>5, <3>1, <3>2
  <2>6. InTurn(Waiting(opspec', tx'.packets), a, t)
    BY <1>6, <2>2, <2>5 DEF Ordered, ps
  <2>7. ctx' = ctx /\ csent' = csent /\ mem' = mem
    BY <1>2 DEF wispVars
  <2>8. Ordered(ctx'.seq, CutEnd(ctx'), srx'.seq, Waiting(opspec', tx'.packets), mem')
    <3>1. Ordered(a, e, t, Waiting(opspec', tx'.packets), mem)
      BY <2>5, <2>6 DEF Ordered
    <3> QED BY <2>7, <3>1 DEF a, e, t
  <2>9. OnItsWay(opspec', mem', ctx'.seq, CutEnd(ctx'), srx'.seq)
    BY <1>6 DEF OnItsWay
  <2> QED BY <2>3, <2>7, <2>8, <2>9 DEF OrderInv
<1> QED BY <1>5, <1>6, <1>7, <1>8 DEF UplinkInv

\* A step that changes nothing.
LEMMA UplinkStutters == UplinkInv /\ UNCHANGED vars => UplinkInv'
<1> SUFFICES ASSUME UplinkInv, UNCHANGED vars PROVE UplinkInv'
  OBVIOUS
<1>1. UNCHANGED <<connVars, wispVars, recvVars>> /\ trouble' = trouble
  BY DEF vars
<1>2. ConnSound' /\ WispSound' /\ RecvSound'
  BY <1>1, SameConn, SameWisp, SameRecv DEF UplinkInv
<1>3. ASSUME Intact' PROVE OrderInv'
  <2>1. OrderInv
    BY <1>1, <1>3 DEF UplinkInv, Intact
  <2> QED BY <1>1, <2>1, ConnOrder DEF connVars, wispVars, recvVars
<1> QED BY <1>2, <1>3 DEF UplinkInv

-----------------------------------------------------------------------------
\* The uplink's two ends and what is between them stay in order: as long as neither a
\* call of wtp_send failed nor a message went round the end of the arena, what is
\* acknowledged, the ACKs that wait, what the server has, the fragments on their way and
\* what is cut follow each other (wtp_tx_make_fragment, wtp_load_read_mem,
\* wtp_tx_handle_ack, handle_packet, _handle_data_packet).
THEOREM UplinkInvariant == Spec => []UplinkInv
<1>1. UplinkInv /\ [Next]_vars => UplinkInv'
  <2> SUFFICES ASSUME UplinkInv, [Next]_vars PROVE UplinkInv'
    OBVIOUS
  <2>1. CASE WispSend
    BY <2>1, WispSendKeeps
  <2>2. CASE WispSendRefused
    BY <2>2, WispSendRefusedKeeps
  <2>3. CASE UpdateEpc
    BY <2>3, UpdateEpcKeeps
  <2>4. CASE SeeEpc
    BY <2>4, SeeEpcKeeps
  <2>5. CASE CarryOutRead
    BY <2>5, CarryOutReadKeeps
  <2>6. CASE CarryOutWrite
    BY <2>6, CarryOutWriteKeeps
  <2>7. ASSUME NEW again \in BOOLEAN, ReadArrives(again) PROVE UplinkInv'
    BY <2>7, ReadArrivesKeeps
  <2>8. CASE ReadFails
    BY <2>8, ReadFailsKeeps
  <2>9. ASSUME NEW ok \in BOOLEAN, WriteEnds(ok) PROVE UplinkInv'
    BY <2>9, WriteEndsKeeps
  <2>10. CASE Recv
    BY <2>10, RecvKeeps
  <2>11. CASE UNCHANGED vars
    BY <2>11, UplinkStutters
  <2> QED BY <2>1, <2>2, <2>3, <2>4, <2>5, <2>6, <2>7, <2>8, <2>9, <2>10, <2>11 DEF Next
<1> QED BY <1>1, UplinkInit, PTL DEF Spec

\* Everything keeps its type.
THEOREM UplinkTyped == Spec => []TypeOK
<1>1. UplinkInv => TypeOK
  <2> SUFFICES ASSUME UplinkInv PROVE TypeOK
    OBVIOUS
  <2>1. ConnSound /\ WispSound /\ RecvSound
    BY DEF UplinkInv
  <2>2. ConnTypeOK
    <3>1. tx \in TxType
      <4>1. tx.packets \in Seq(CtrlPacketType) /\ tx = CtrlTx(tx.packets)
        BY <2>1, UpPacketsAreCtrl DEF ConnSound
      <4> QED BY <4>1, CtrlTxFields
    <3>2. opspec.kind \in {"none", "read", "write"} /\ opspec.done \in BOOLEAN
      <4>1. opspec \in UpWrite \cup UpRead \cup {NoOpSpec}
        BY <2>1 DEF ConnSound, UpOpSpec
      <4>2. CASE opspec \in UpWrite
        BY <4>2, Zenon DEF UpWrite
      <4>3. CASE opspec \in UpRead
        BY <4>3, Zenon DEF UpRead
      <4>4. CASE opspec = NoOpSpec
        BY <4>4 DEF NoOpSpec
      <4> QED BY <4>1, <4>2, <4>3, <4>4
    <3>3. /\ sent \in 0 .. Len(MsgSize)
          /\ sendDeferreds \in Seq(Message) /\ resolved \in Seq(Message)
      BY <2>1, UpConstants DEF ConnSound
    <3> QED BY <2>1, <3>1, <3>2, <3>3 DEF ConnTypeOK, ConnSound
  <2>3. ctx \in UpTxType /\ Len(ctx.readInfos) <= MsgCap /\ Len(ctx.msgEnds) <= MsgCap
    BY <2>1, CtxIsTyped, CtxFields DEF WispSound
  <2> QED BY <2>1, <2>2, <2>3 DEF TypeOK, WispSound, RecvSound, Given
<1> QED BY <1>1, UplinkInvariant, PTL

\* What the WISP takes as acknowledged the server has assembled, and the server has
\* assembled nothing that the WISP has not cut, whatever the reader loses, as long as no
\* call of wtp_send failed and no message's data went to the beginning of the arena.
THEOREM AckedAlwaysReceived == Spec => []AckedWithinReceived
<1>1. UplinkInv => AckedWithinReceived
  <2> SUFFICES ASSUME UplinkInv, Intact PROVE AckedWithinReceived
    BY DEF AckedWithinReceived
  <2>1. ctx \in CtxType /\ SeqSub(srx.seq, ctx.seq) <= SeqSub(CutEnd(ctx), ctx.seq)
    BY DEF UplinkInv, OrderInv, Ordered, WispSound
  <2>2. ctx.beginSeq \in Int /\ ctx.fragmented \in Int /\ ctx.seq \in Int
    BY <2>1, CtxFields, SeqSpaceSize
  <2>3. SeqSub(CutEnd(ctx), ctx.seq) = SeqSub(ctx.beginSeq + ctx.fragmented, ctx.seq)
    BY <2>2, SumOrNumber DEF CutEnd
  <2> QED BY <2>1, <2>3 DEF AckedWithinReceived
<1> QED BY <1>1, UplinkInvariant, PTL

\* A BlockWrite moves the WISP's number to that of an ACK in it, or not at all.
LEMMA WispNumberAdvances ==
  ASSUME UplinkInv, Intact, CarryOutWrite
  PROVE  SeqSub(ctx'.seq, ctx.seq) <= SeqSub(srx.seq, ctx.seq)
<1> DEFINE data == opspec.data
           ps == tx.packets
           qs == data \o ps
           start == [ctx |-> ctx, sendCbs |-> sendCbs, called |-> called,
                     ok |-> TRUE, stray |-> FALSE]
           w == Fold(HandleCtrl, start, data)
           a == ctx.seq
           b == w.ctx.seq
           s == srx.seq
<1>1. opspec.kind = "write" /\ ~opspec.done /\ ctx'.seq = b
  BY DEF CarryOutWrite
<1>2. /\ ConnSound /\ ctx \in CtxType /\ s \in 0 .. SeqSpace - 1 /\ OrderInv
      /\ sendCbs \in Seq(UpMessage) /\ Len(sendCbs) <= MsgCap
  BY DEF UplinkInv, WispSound, RecvSound
<1>3. data \in Seq(UpPacketType) /\ ps \in Seq(UpPacketType)
  BY <1>1, <1>2, CarriedOut DEF ConnSound
<1>4. b = a \/ \E j \in 1 .. Len(data) : data[j].type = "ack" /\ b = data[j].val
  <2>1. CtrlState(start, ctx) /\ start.ctx = ctx
    BY <1>2 DEF CtrlState, SameArena
  <2> HIDE DEF start, data
  <2> QED BY <1>2, <1>3, <2>1, BlockWriteSound
<1>5. InTurn(qs, a, s)
  BY <1>1, <1>2 DEF OrderInv, Ordered, Waiting
<1>6. a \in Int /\ s \in Int
  BY <1>2, CutEndType, SeqSpaceSize
<1> HIDE DEF w, data, ps, s, a, b
<1>7. CASE b = a
  <2>1. SeqSub(b, a) = 0
    BY <1>6, <1>7, SeqSpaceSize DEF SeqSub
  <2>2. SeqSub(s, a) \in 0 .. SeqSpace - 1
    BY <1>6, Distances
  <2> QED BY <1>1, <2>1, <2>2, SeqSpaceSize DEF a, s
<1>8. ASSUME NEW j \in 1 .. Len(data), data[j].type = "ack", b = data[j].val
      PROVE  SeqSub(b, a) <= SeqSub(s, a)
  <2>1. Len(qs) = Len(data) + Len(ps) /\ Len(data) \in Nat /\ Len(ps) \in Nat
        /\ \A i \in 1 .. Len(data) + Len(ps) :
             qs[i] = IF i <= Len(data) THEN data[i] ELSE ps[i - Len(data)]
    BY <1>3, ConcatProperties
  <2> HIDE DEF qs
  <2>2. j \in 1 .. Len(qs) /\ qs[j] = data[j]
    BY <2>1
  <2> QED BY <1>5, <1>8, <2>2 DEF InTurn
<1> QED BY <1>1, <1>4, <1>7, <1>8 DEF a, s

\* Data that is read moves the server's number on, to where the data ends at most.
LEMMA ServerNumberAdvances ==
  ASSUME UplinkInv, Intact, NEW again \in BOOLEAN, ReadArrives(again)
  PROVE  SeqSub(srx'.seq, srx.seq) <= SeqSub(ctx.beginSeq + ctx.fragmented, srx.seq)
<1> DEFINE m == Head(opspec.data)
           got == ReadPayload(m, WordBytes(opspec.size))
           r == RxCtrlHandlePacket(srx, m.seq, got, m.msgSize)
           s == srx.seq
           t == srx'.seq
           a == ctx.seq
           e == CutEnd(ctx)
           ps == Waiting(opspec, tx.packets)
           D(x) == SeqSub(x, a)
<1>1. /\ ConnSound /\ OrderInv /\ ctx \in CtxType /\ mem \in MemType
      /\ s \in 0 .. SeqSpace - 1 /\ srx.fragments = <<>>
  BY DEF UplinkInv, WispSound, RecvSound
<1>2. /\ opspec.kind = "read" /\ opspec.done
      /\ UNCHANGED recvVars \/ (m.kind = "data" /\ srx' = r.rx)
  BY DEF ReadArrives
<1>3. m \in MemType /\ opspec.size \in Nat
  BY <1>1, <1>2, DoneRead DEF UpRead
<1>4. Len(got) \in 0 .. m.len
  <2>1. WordBytes(opspec.size) \in Int
    BY <1>3 DEF WordBytes
  <2> HIDE DEF m
  <2> QED BY <1>3, <2>1, PayloadLength
<1> HIDE DEF got, m
<1>5. t = s \/ (m.kind = "data" /\ m.seq = s /\ t = SeqAdd(s, Len(got)))
  <2>1. CASE UNCHANGED recvVars
    BY <2>1 DEF recvVars
  <2>2. CASE m.kind = "data" /\ srx' = r.rx
    <3>1. r.rx.seq = s \/ (m.seq = s /\ r.rx.seq = SeqAdd(s, Len(got)))
      BY <1>1, ReceiveSound
    <3> HIDE DEF r
    <3> QED BY <2>2, <3>1
  <2> QED BY <1>2, <2>1, <2>2
<1>6. a \in Int /\ e \in Int /\ s \in Int /\ ps \in Seq(UpPacketType)
      /\ ctx.beginSeq \in Int /\ ctx.fragmented \in Int
  <2>1. ps \in Seq(UpPacketType)
    BY <1>1, WaitingType DEF ConnSound
  <2>2. ctx.beginSeq \in Int /\ ctx.fragmented \in Int
    BY <1>1, CtxFields, SeqSpaceSize
  <2> QED BY <1>1, <2>1, <2>2, SeqSpaceSize, CutEndType
<1>7. Ordered(a, e, s, ps, mem)
  BY <1>1 DEF OrderInv
<1>8. InPlace(m, a, s, e) /\ NotBehind(m, mem, a)
  BY <1>1, <1>2 DEF OrderInv, OnItsWay, m
<1>9. SeqSub(ctx.beginSeq + ctx.fragmented, s) = SeqSub(e, s)
  BY <1>6, SumOrNumber DEF CutEnd
<1> HIDE DEF a, e, s, ps, t
<1>10. D(s) <= D(t) /\ D(t) <= D(e) /\ t \in Int
  <2>1. CASE t = s
    BY <1>6, <1>7, <2>1, Distances, SeqSpaceSize DEF Ordered
  <2>2. CASE m.kind = "data" /\ m.seq = s /\ t = SeqAdd(s, Len(got))
    <3> DEFINE k == Len(got)
    <3>1. k \in 0 .. m.len /\ m.len \in Nat
      BY <1>3, <1>4, UpEndType
    <3> HIDE DEF k
    <3>2. Ordered(a, e, SeqAdd(s, k), ps, mem) /\ D(s) <= D(SeqAdd(s, k))
      BY <1>1, <1>3, <1>6, <1>7, <1>8, <2>2, <3>1, ReceivedOrdered
    <3>3. SeqAdd(s, k) \in 0 .. SeqSpace - 1
      <4>1. k \in Int
        BY <3>1
      <4> QED BY <1>6, <4>1, Distances
    <3> QED BY SMTT(30), <2>2, <3>2, <3>3, SeqSpaceSize DEF Ordered, k
  <2> QED BY <1>5, <2>1, <2>2
<1>11. D(s) \in 0 .. SeqSpace - 1 /\ D(t) \in 0 .. SeqSpace - 1 /\ D(e) \in 0 .. SeqSpace - 1
  BY <1>6, <1>10, Distances
<1>12. SeqSub(t, s) = D(t) - D(s)
  BY <1>6, <1>10, RestOfTheWay
<1>13. SeqSub(e, s) = D(e) - D(s)
  <2>1. D(s) <= D(e)
    BY <1>7 DEF Ordered
  <2> QED BY <1>6, <2>1, RestOfTheWay
<1>14. SeqSub(t, s) <= SeqSub(e, s)
  BY <1>10, <1>11, <1>12, <1>13, SeqSpaceSize
<1> QED BY <1>9, <1>14 DEF s, t

\* wtp_send changes nothing about the numbers of the WISP.
LEMMA SendKeepsNumber ==
  ASSUME UplinkInv, WispSend
  PROVE  ctx'.seq = ctx.seq
<1> DEFINE i    == csent + 1
           add  == TxAddMsg(ctx, i)
           t    == add.tx
           load == LoadReadMem(t, mem)
<1>1. csent < Len(UpSize) /\ (ctx' = load.tx \/ ctx' = t)
  BY DEF WispSend
<1>2. ctx \in CtxType /\ mem \in MemType /\ i \in UpMessage
  BY <1>1, UpConstants DEF UplinkInv, WispSound, UpMessage
<1>3. t \in CtxType /\ t.seq = ctx.seq
  BY <1>2, AddMsgTyped
<1> HIDE DEF t
<1>4. load.tx.seq = t.seq
  BY <1>2, <1>3, LoadSound
<1> HIDE DEF load
<1> QED BY <1>1, <1>3, <1>4

\* Neither does the fragment made after a Read.
LEMMA LoadKeepsNumber ==
  ASSUME UplinkInv, CarryOutRead
  PROVE  ctx'.seq = ctx.seq
<1> DEFINE load == LoadReadMem(ctx, mem)
<1>1. ctx' = load.tx
  BY DEF CarryOutRead
<1>2. load.tx.seq = ctx.seq
  BY LoadSound DEF UplinkInv, WispSound
<1> HIDE DEF load
<1> QED BY <1>1, <1>2

\* No handler of either end moves a number of the uplink back, and none moves it past
\* what the other end has: the WISP's not past what the server has assembled, the server's
\* not past what the WISP has cut, through any number of wraps.
THEOREM UplinkNumbersAlwaysAdvance == Spec => UplinkNumbersAdvance
<1> DEFINE Forward ==
             /\ SeqSub(ctx'.seq, ctx.seq) <= SeqSub(srx.seq, ctx.seq)
             /\ SeqSub(srx'.seq, srx.seq) <= SeqSub(ctx.beginSeq + ctx.fragmented, srx.seq)
<1>1. UplinkInv /\ [Next]_vars => [Intact' => Forward]_vars
  <2> SUFFICES ASSUME UplinkInv, Next, Intact' PROVE Forward
    OBVIOUS
  <2>1. srx.seq \in Int /\ ctx.seq \in Int /\ ctx.beginSeq + ctx.fragmented \in Int
    BY CtxFields, SeqSpaceSize DEF UplinkInv, WispSound, RecvSound
  <2>2. ASSUME ctx'.seq = ctx.seq
        PROVE  SeqSub(ctx'.seq, ctx.seq) <= SeqSub(srx.seq, ctx.seq)
    <3>1. SeqSub(ctx'.seq, ctx.seq) = 0
      BY <2>1, <2>2, SeqSpaceSize DEF SeqSub
    <3>2. SeqSub(srx.seq, ctx.seq) \in 0 .. SeqSpace - 1
      BY <2>1, Distances
    <3> QED BY <3>1, <3>2, SeqSpaceSize
  <2>3. ASSUME srx' = srx
        PROVE  SeqSub(srx'.seq, srx.seq) <= SeqSub(ctx.beginSeq + ctx.fragmented, srx.seq)
    <3>1. SeqSub(srx'.seq, srx.seq) = 0
      BY <2>1, <2>3, SeqSpaceSize DEF SeqSub
    <3>2. SeqSub(ctx.beginSeq + ctx.fragmented, srx.seq) \in 0 .. SeqSpace - 1
      BY <2>1, Distances
    <3> QED BY <3>1, <3>2, SeqSpaceSize
  <2>4. ASSUME Intact, CarryOutWrite PROVE Forward
    BY <2>3, <2>4, WispNumberAdvances DEF CarryOutWrite, recvVars
  <2>5. ASSUME Intact, NEW again \in BOOLEAN, ReadArrives(again) PROVE Forward
    BY <2>2, <2>5, ServerNumberAdvances DEF ReadArrives, wispVars
  <2>6. CASE WispSend
    <3>1. ctx'.seq = ctx.seq
      BY <2>6, SendKeepsNumber
    <3> QED BY <2>2, <2>3, <2>6, <3>1 DEF WispSend, recvVars
  <2>7. CASE CarryOutRead
    <3>1. ctx'.seq = ctx.seq
      BY <2>7, LoadKeepsNumber
    <3> QED BY <2>2, <2>3, <2>7, <3>1 DEF CarryOutRead, recvVars
  <2>8. CASE WispSendRefused \/ UpdateEpc \/ SeeEpc \/ ReadFails \/ Recv
             \/ \E ok \in BOOLEAN : WriteEnds(ok)
    <3>1. ctx' = ctx /\ srx' = srx
      BY <2>8 DEF WispSendRefused, UpdateEpc, SeeEpc, ReadFails, Recv, WriteEnds,
                  wispVars, recvVars
    <3> QED BY <2>2, <2>3, <3>1
  <2>9. Intact \/ WispSend \/ WispSendRefused
    BY DEF Next, Intact, UpdateEpc, SeeEpc, CarryOutRead, CarryOutWrite, ReadArrives,
           ReadFails, WriteEnds, Recv
  <2> QED BY <2>4, <2>5, <2>6, <2>7, <2>8, <2>9 DEF Next
<1> QED BY <1>1, UplinkInvariant, PTL DEF Spec, UplinkNumbersAdvance

\* The server's list for fragments that came early is empty after every packet, so a
\* fragment behind a lost one is never kept: the loop of SlidingWindowRxControl.handle_packet
\* that removes the assembled ones removes the one it stopped at too
\* (transmission.py:341).  This is not what the repository says of the list:
\* by wiki/WTP:-Design.md:24-26 an early fragment is inserted and fetched later, and by
\* transmission.py:340 only acknowledged fragments are removed.
THEOREM NothingEverBuffered == Spec => [](srx.fragments = <<>>)
<1>1. UplinkInv => srx.fragments = <<>>
  BY DEF UplinkInv, RecvSound
<1> QED BY <1>1, UplinkInvariant, PTL
=============================================================================
