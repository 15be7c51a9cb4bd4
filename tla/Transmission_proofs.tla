------------------------- MODULE Transmission_proofs -------------------------
(***************************************************************************)
(* The two ends of the downlink, each by itself.                           *)
(*                                                                         *)
(* First the server's transmit control: it keeps its fragments, its queue  *)
(* and its message ends consistent through every operation.  TxSound(t, n, *)
(* a, j) says that t has been given n messages, of which a bytes and j     *)
(* whole messages are acknowledged.                                        *)
(*                                                                         *)
(* The argument is by positions in the stream that all messages make up.   *)
(* Sequence numbers are positions modulo SeqSpace, and as the window is at *)
(* most half of it, the distances the code compares are those of the       *)
(* positions.                                                              *)
(*                                                                         *)
(* Then what the WISP's receive control does with the stream, for all      *)
(* sizes, windows and messages, and whatever order the pieces of the       *)
(* stream come in, however often: it holds the stream up to a position     *)
(* and puts the messages together (RxHandlePacketSound).  Two hypotheses   *)
(* are needed there, as the code does otherwise without them.  NoWrap: the *)
(* sequence numbers do not wrap, as the lists are sorted by raw numbers.   *)
(* BufferSuffices: the buffer holds what a window touches, as a full       *)
(* buffer ends the assembly in the middle.                                 *)
(***************************************************************************)
EXTENDS ServerTx, ClientRx, SequenceTheorems, FiniteSetTheorems, TLAPS

-----------------------------------------------------------------------------
(* Sequence numbers.                                                        *)

\* The sequence number of position x in the stream.
At(x) == x % SeqSpace

\* The window is smaller than the space of sequence numbers.
LEMMA SeqSpaceSize == SeqSpace \in Nat \ {0} /\ Window \in Nat \ {0} /\ Window < SeqSpace
BY WindowAssumption

\* At gives sequence numbers ...
LEMMA AtType == ASSUME NEW x \in Int PROVE At(x) \in 0 .. SeqSpace - 1
BY SeqSpaceSize DEF At

\* ... which are the positions themselves before the first wrap ...
LEMMA AtSmall == ASSUME NEW x \in 0 .. SeqSpace - 1 PROVE At(x) = x
BY SeqSpaceSize DEF At

\* ... and are the same after any number of wraps.
LEMMA AtMultiple ==
  ASSUME NEW x \in Int, NEW q \in Int PROVE At(SeqSpace * q + x) = At(x)
<1> DEFINE r == x % SeqSpace
           p == x \div SeqSpace
<1>1. r \in 0 .. SeqSpace - 1 /\ p \in Int /\ x = SeqSpace * p + r
  BY SeqSpaceSize
<1> HIDE DEF r, p
<1>2. SeqSpace * q + x = SeqSpace * (q + p) + r
  BY <1>1, SeqSpaceSize
<1>3. (SeqSpace * (q + p) + r) % SeqSpace = r
  BY <1>1, SeqSpaceSize
<1> QED BY <1>2, <1>3 DEF At, r

\* Numbers that are counted on from numbers.
LEMMA AtShift ==
  ASSUME NEW x \in Int, NEW y \in Int
  PROVE  SeqAdd(At(x), y) = At(x + y) /\ SeqSub(At(x), At(y)) = At(x - y)
<1> DEFINE r == At(x)
           p == x \div SeqSpace
           s == At(y)
           q == y \div SeqSpace
<1>1. r \in 0 .. SeqSpace - 1 /\ p \in Int /\ x = SeqSpace * p + r
  BY SeqSpaceSize DEF At
<1>2. s \in 0 .. SeqSpace - 1 /\ q \in Int /\ y = SeqSpace * q + s
  BY SeqSpaceSize DEF At
<1> HIDE DEF r, p, s, q
<1>3. x + y = SeqSpace * p + (r + y)
  BY <1>1, SeqSpaceSize
<1>4. x - y = SeqSpace * (p - q) + (r - s)
  BY <1>1, <1>2, SeqSpaceSize
<1>5. At(x + y) = At(r + y) /\ At(x - y) = At(r - s)
  BY <1>1, <1>2, <1>3, <1>4, AtMultiple
<1> QED BY <1>5 DEF At, SeqAdd, SeqSub, r, s

\* The distance of two positions less than a wrap apart.
LEMMA SubAt ==
  ASSUME NEW x \in Int, NEW y \in Int, x - y \in 0 .. SeqSpace - 1
  PROVE  SeqSub(At(x), At(y)) = x - y
BY AtShift, AtSmall

\* Every sequence number is less than SeqSpace ahead of any position.
LEMMA AheadOf ==
  ASSUME NEW a \in Int, NEW s \in 0 .. SeqSpace - 1
  PROVE  /\ SeqSub(s, At(a)) \in 0 .. SeqSpace - 1
         /\ s = At(a + SeqSub(s, At(a)))
<1> DEFINE d == SeqSub(s, At(a))
<1>1. s = At(s) /\ s \in Int
  BY AtSmall
<1>2. d = At(s - a)
  BY <1>1, AtShift
<1>3. d \in 0 .. SeqSpace - 1
  BY <1>2, AtType, <1>1
<1>4. At(a + d) = At(s)
  <2> DEFINE p == (s - a) \div SeqSpace
  <2>1. p \in Int /\ s - a = SeqSpace * p + d
    BY <1>1, <1>2, SeqSpaceSize DEF At
  <2> HIDE DEF p, d
  <2>2. s = SeqSpace * p + (a + d)
    BY <1>1, <1>3, <2>1, SeqSpaceSize
  <2> QED BY <2>1, <2>2, <1>3, AtMultiple
<1> QED BY <1>1, <1>3, <1>4

-----------------------------------------------------------------------------
(* Positions in the stream.                                                 *)

Plus(m, n) == m + n
Adding == INSTANCE FoldFacts WITH Op <- Plus

\* There is a natural number of messages, and none of them is empty.
LEMMA MessageSizes ==
  Len(MsgSize) \in Nat /\ \A i \in 1 .. Len(MsgSize) : MsgSize[i] \in Nat \ {0}
BY MsgSizeAssumption

\* The positions of the messages, each the size of the one before further on.
LEMMA BytesBeforeStep ==
  /\ BytesBefore(0) = 0
  /\ \A i \in 1 .. Len(MsgSize) : BytesBefore(i) = BytesBefore(i - 1) + MsgSize[i]
<1> DEFINE n == Len(MsgSize)
           E(g) == g = [k \in 0 .. n |-> IF k = 0 THEN 0 ELSE g[k - 1] + MsgSize[k]]
           upTo == CHOOSE g : E(g)
<1>1. PICK g : g[0] = 0 /\ \A k \in 1 .. n : g[k] = Plus(g[k - 1], MsgSize[k])
  <2>1. Len(MsgSize) \in Nat
    BY MessageSizes
  <2> HIDE DEF n, upTo
  <2>2. \E g : /\ g[0] = 0
               /\ \A k \in 1 .. Len(MsgSize) : g[k] = Plus(g[k - 1], MsgSize[k])
               /\ Adding!Folded(0, MsgSize) = g[Len(MsgSize)]
    BY <2>1, Adding!FoldSteps
  <2> QED BY <2>2 DEF n
<1> DEFINE h == [k \in 0 .. n |-> g[k]]
<1>2. n \in Nat
  BY MessageSizes
<1> HIDE DEF n
<1>3. E(h)
  <2>1. ASSUME NEW k \in 0 .. n PROVE h[k] = IF k = 0 THEN 0 ELSE h[k - 1] + MsgSize[k]
    <3>1. CASE k = 0
      BY <3>1, <1>1
    <3>2. CASE k # 0
      <4>1. k \in 1 .. n /\ k - 1 \in 0 .. n
        BY <3>2, <1>2
      <4> QED BY <4>1, <1>1 DEF Plus
    <3> QED BY <3>1, <3>2
  <2>2. h = [k \in 0 .. n |-> h[k]]
    OBVIOUS
  <2> HIDE DEF h
  <2> QED BY <2>1, <2>2
<1>4. E(upTo)
  BY <1>3
<1>5. \A i : BytesBefore(i) = upTo[i]
  BY DEF BytesBefore, n
<1> HIDE DEF upTo
<1>6. upTo[0] = 0
  BY <1>4, <1>2
<1>7. ASSUME NEW i \in 1 .. n PROVE upTo[i] = upTo[i - 1] + MsgSize[i]
  <2>1. i \in 0 .. n /\ i # 0
    OBVIOUS
  <2> QED BY <2>1, <1>4
<1> QED BY <1>5, <1>6, <1>7 DEF n

\* BytesBefore counts bytes.
LEMMA BytesBeforeType == \A i \in 0 .. Len(MsgSize) : BytesBefore(i) \in Nat
<1> DEFINE T == {i \in 0 .. Len(MsgSize) : BytesBefore(i) \in Nat}
<1>1. 0 \in T
  BY BytesBeforeStep, MessageSizes
<1>2. ASSUME NEW i \in 1 .. Len(MsgSize), i - 1 \in T PROVE i \in T
  <2>1. MsgSize[i] \in Nat
    BY MessageSizes
  <2> QED BY <1>2, <2>1, BytesBeforeStep, MessageSizes
<1> HIDE DEF T
<1>3. \A i \in 0 .. Len(MsgSize) : i \in T
  BY <1>1, <1>2, Adding!HoldsToTheEnd, MessageSizes
<1> QED BY <1>3 DEF T

\* A later message begins further on.
LEMMA BytesBeforeGrows ==
  ASSUME NEW i \in 0 .. Len(MsgSize), NEW k \in 0 .. Len(MsgSize), i < k
  PROVE  BytesBefore(i) < BytesBefore(k)
<1> DEFINE T == {d \in Nat : d = 0 \/ (i + d <= Len(MsgSize)
                                         => BytesBefore(i) < BytesBefore(i + d))}
<1>1. 0 \in T
  OBVIOUS
<1>2. ASSUME NEW d \in 1 .. k - i, d - 1 \in T PROVE d \in T
  <2>1. i + d \in 1 .. Len(MsgSize) /\ i + d - 1 \in 0 .. Len(MsgSize)
    BY MessageSizes
  <2>2. MsgSize[i + d] \in Nat \ {0}
    BY <2>1, MessageSizes
  <2>3. BytesBefore(i + d) = BytesBefore(i + d - 1) + MsgSize[i + d]
    BY <2>1, BytesBeforeStep
  <2>4. BytesBefore(i + d - 1) \in Nat /\ BytesBefore(i) \in Nat
    BY <2>1, BytesBeforeType
  <2>5. BytesBefore(i) <= BytesBefore(i + d - 1)
    <3>1. CASE d = 1
      <4>1. i + d - 1 = i
        BY <3>1
      <4> QED BY <4>1, <2>4
    <3>2. CASE d # 1
      <4>1. i + (d - 1) = i + d - 1 /\ d - 1 # 0
        BY <3>2
      <4> QED BY <4>1, <1>2, <2>1, <2>4
    <3> QED BY <3>1, <3>2
  <2> QED BY <2>2, <2>3, <2>4, <2>5
<1>3. k - i \in T
  <2>1. k - i \in Nat /\ k - i \in 0 .. k - i
    OBVIOUS
  <2> HIDE DEF T
  <2> QED BY <2>1, <1>1, <1>2, Adding!HoldsToTheEnd
<1>4. k - i # 0 /\ i + (k - i) = k /\ k <= Len(MsgSize)
  OBVIOUS
<1> QED BY <1>3, <1>4

-----------------------------------------------------------------------------
(* The transmit control between the calls of its methods.                   *)

\* Where fragment f begins in the stream.
PositionOf(f) == BytesBefore(f.msg - 1) + f.off

\* A fragment is a piece of its message, numbered by its position; only the first
\* one tells the size of the message.
FragmentSound(f) ==
  /\ f.msg \in Message /\ f.len >= 1 /\ f.off + f.len <= MsgSize[f.msg]
  /\ f.seq = At(PositionOf(f))
  /\ f.msgSize = IF f.off = 0 THEN MsgSize[f.msg] ELSE 0

\* The fragments lie end to end from position a to position c.
TileFrom(fs, a, c) ==
  /\ \A i \in 1 .. Len(fs) : FragmentSound(fs[i])
  /\ \A i \in 1 .. Len(fs) :
       PositionOf(fs[i]) = IF i = 1 THEN a ELSE PositionOf(fs[i - 1]) + fs[i - 1].len
  /\ c = IF fs = <<>> THEN a ELSE PositionOf(fs[Len(fs)]) + fs[Len(fs)].len

\* Of n messages added, those that are cut completely and left the queue.
Loaded(t, n) == n - Len(t.messages)

\* The position where the messages are cut.
CutAt(t, n) == BytesBefore(Loaded(t, n)) + t.fragmented

\* The messages in the queue are the last of the n that were added, and the first
\* of them is cut up to _msg_fragmented.
QueueSound(t, n) ==
  /\ n \in 0 .. Len(MsgSize) /\ Loaded(t, n) \in 0 .. n
  /\ \A i \in 1 .. Len(t.messages) : t.messages[i] = Loaded(t, n) + i
  /\ t.msgBegin = At(BytesBefore(Loaded(t, n)))
  /\ t.fragmented <= IF t.messages = <<>> THEN 0 ELSE MsgSize[Loaded(t, n) + 1]

\* The ends of the messages that are loaded but not resolved, of which there are j.
EndsSound(t, n, a, j) ==
  /\ j \in 0 .. Loaded(t, n)
  /\ Len(t.msgEnds) = Loaded(t, n) - j
  /\ \A i \in 1 .. Len(t.msgEnds) : t.msgEnds[i] = At(BytesBefore(j + i))
  /\ BytesBefore(j) <= a
  /\ j < n => a < BytesBefore(j + 1)

\* Transmit control t has been given n messages, of which a bytes and j whole
\* messages are acknowledged.
TxSound(t, n, a, j) ==
  /\ t \in TxType
  /\ QueueSound(t, n)
  /\ a \in Nat /\ a <= CutAt(t, n) /\ CutAt(t, n) <= a + Window /\ t.seq = At(a)
  /\ TileFrom(t.fragments, a, CutAt(t, n))
  /\ EndsSound(t, n, a, j)

\* The first message in the queue is not cut completely: true between handlers, and
\* not between two passes of get_write_data.
HeadUncut(t, n) == t.messages # <<>> => t.fragmented < MsgSize[Loaded(t, n) + 1]

\* A new WTPTXCtrl is sound.
LEMMA NewTxSound == TxSound(NewTx, 0, 0, 0) /\ HeadUncut(NewTx, 0)
<1>1. 0 \in 0 .. SeqSpace - 1
  BY SeqSpaceSize
<1>2. NewTx \in TxType
  BY <1>1 DEF NewTx, TxType
<1>3. Loaded(NewTx, 0) = 0 /\ BytesBefore(0) = 0 /\ At(0) = 0 /\ CutAt(NewTx, 0) = 0
  <2>1. NewTx.messages = <<>> /\ NewTx.fragmented = 0
    BY DEF NewTx
  <2>2. Loaded(NewTx, 0) = 0
    <3>1. Len(<<>>) = 0
      OBVIOUS
    <3>2. Loaded(NewTx, 0) = 0 - Len(NewTx.messages)
      BY DEF Loaded
    <3> QED BY <2>1, <3>1, <3>2
  <2> QED BY <1>1, <2>1, <2>2, BytesBeforeStep, AtSmall DEF CutAt
<1>4. QueueSound(NewTx, 0) /\ EndsSound(NewTx, 0, 0, 0) /\ TileFrom(<<>>, 0, 0)
  BY <1>3, MessageSizes DEF NewTx, QueueSound, EndsSound, TileFrom
<1> QED BY <1>2, <1>3, <1>4, SeqSpaceSize DEF TxSound, HeadUncut, NewTx

\* Where things are, as numbers.
LEMMA SoundNumbers ==
  ASSUME NEW t, NEW n, NEW a, NEW j, TxSound(t, n, a, j)
  PROVE  /\ n \in Nat /\ a \in Nat /\ j \in Nat
         /\ Loaded(t, n) \in Nat /\ Loaded(t, n) <= n /\ n <= Len(MsgSize)
         /\ Len(MsgSize) \in Nat
         /\ Loaded(t, n) = n - Len(t.messages) /\ Len(t.messages) \in Nat
         /\ BytesBefore(Loaded(t, n)) \in Nat /\ CutAt(t, n) \in Nat
         /\ t.fragmented \in Nat /\ t.messages \in Seq(Message)
         /\ t.fragments \in Seq(TxFragmentType)
         /\ t.msgEnds \in Seq(0 .. SeqSpace - 1)
<1>1. t.fragmented \in Nat /\ t.messages \in Seq(Message) /\ t \in TxType
      /\ t.fragments \in Seq(TxFragmentType) /\ t.msgEnds \in Seq(0 .. SeqSpace - 1)
  BY DEF TxSound, TxType
<1>2. n \in 0 .. Len(MsgSize) /\ Loaded(t, n) \in 0 .. n /\ a \in Nat
      /\ j \in 0 .. Loaded(t, n)
  BY DEF TxSound, QueueSound, EndsSound
<1>3. BytesBefore(Loaded(t, n)) \in Nat
  BY <1>2, BytesBeforeType, MessageSizes
<1>4. Loaded(t, n) = n - Len(t.messages) /\ CutAt(t, n) = BytesBefore(Loaded(t, n)) + t.fragmented
  BY DEF Loaded, CutAt
<1> HIDE DEF Loaded, CutAt
<1> QED BY SMTT(20), <1>1, <1>2, <1>3, <1>4, MessageSizes

\* How many bytes are acknowledged can be read off the numbers.
LEMMA SoundAcked ==
  ASSUME NEW t, NEW n, NEW a, NEW j, TxSound(t, n, a, j)
  PROVE  /\ FragmentedEnd(t) = At(CutAt(t, n))
         /\ Rel(t, FragmentedEnd(t)) = CutAt(t, n) - a
<1>1. FragmentedEnd(t) = At(CutAt(t, n))
  <2>1. t.msgBegin = At(BytesBefore(Loaded(t, n)))
    BY DEF TxSound, QueueSound
  <2>2. BytesBefore(Loaded(t, n)) \in Int /\ t.fragmented \in Int
    BY SoundNumbers
  <2> QED BY <2>1, <2>2, AtShift DEF FragmentedEnd, CutAt
<1>2. t.seq = At(a) /\ a <= CutAt(t, n) /\ CutAt(t, n) <= a + Window
  BY DEF TxSound
<1>3. CutAt(t, n) - a \in 0 .. SeqSpace - 1
  BY <1>2, SoundNumbers, SeqSpaceSize
<1> QED BY <1>1, <1>2, <1>3, SoundNumbers, SubAt DEF Rel

-----------------------------------------------------------------------------
(* add_msg, and what changes only flags, timers and control packets.        *)

\* add_msg puts the message after all that were added before.
LEMMA AddMsgSound ==
  ASSUME NEW t, NEW n, NEW a, NEW j, TxSound(t, n, a, j), n < Len(MsgSize)
  PROVE  /\ TxSound(AddMsg(t, n + 1), n + 1, a, j)
         /\ HeadUncut(t, n) => HeadUncut(AddMsg(t, n + 1), n + 1)
<1> DEFINE u == AddMsg(t, n + 1)
           h == Loaded(t, n)
<1>1. n + 1 \in Message /\ n + 1 \in 0 .. Len(MsgSize)
  BY SoundNumbers DEF Message
<1>2. /\ u \in TxType /\ u.messages = Append(t.messages, n + 1)
      /\ u.seq = t.seq /\ u.msgBegin = t.msgBegin /\ u.fragmented = t.fragmented
      /\ u.msgEnds = t.msgEnds /\ u.fragments = t.fragments
  <2>1. t \in TxType
    BY DEF TxSound
  <2>2. Append(t.messages, n + 1) \in Seq(Message)
    BY <1>1, SoundNumbers
  <2> QED BY <2>1, <2>2 DEF TxType, AddMsg
<1>3. Len(u.messages) = Len(t.messages) + 1 /\ Loaded(u, n + 1) = h
      /\ CutAt(u, n + 1) = CutAt(t, n) /\ u.messages # <<>>
  <2> HIDE DEF u
  <2>1. Len(u.messages) = Len(t.messages) + 1 /\ u.messages # <<>>
    <3>1. t.messages \in Seq(Message)
      BY SoundNumbers
    <3> QED BY <1>1, <1>2, <3>1
  <2>2. Loaded(u, n + 1) = h
    BY SMTT(20), <2>1, SoundNumbers DEF Loaded
  <2> QED BY <1>2, <2>1, <2>2 DEF CutAt
<1> HIDE DEF u
<1>4. QueueSound(u, n + 1)
  <2>1. \A i \in 1 .. Len(u.messages) : u.messages[i] = h + i
    <3>1. \A i \in 1 .. Len(t.messages) : t.messages[i] = h + i
      BY DEF TxSound, QueueSound
    <3>2. h = n - Len(t.messages) /\ t.messages \in Seq(Message) /\ n \in Nat
      BY SoundNumbers
    <3> HIDE DEF h
    <3>3. ASSUME NEW i \in 1 .. Len(u.messages) PROVE u.messages[i] = h + i
      <4>1. CASE i \in 1 .. Len(t.messages)
        <5>1. Append(t.messages, n + 1)[i] = t.messages[i]
          BY <4>1, <1>1, <3>2
        <5> QED BY <4>1, <5>1, <1>2, <3>1
      <4>2. CASE i = Len(t.messages) + 1
        <5>1. Append(t.messages, n + 1)[Len(t.messages) + 1] = n + 1
          BY <1>1, <3>2
        <5> QED BY <4>2, <5>1, <1>2, <3>2
      <4>3. Len(t.messages) \in Nat
        BY <3>2
      <4> QED BY <4>1, <4>2, <4>3, <1>3
    <3> QED BY <3>3
  <2>2. u.fragmented <= MsgSize[h + 1]
    <3>1. h + 1 \in 1 .. Len(MsgSize)
      BY SoundNumbers
    <3>2. MsgSize[h + 1] \in Nat
      BY <3>1, MessageSizes
    <3>3. t.fragmented <= IF t.messages = <<>> THEN 0 ELSE MsgSize[h + 1]
      BY DEF TxSound, QueueSound
    <3>4. t.fragmented \in Nat
      BY SoundNumbers
    <3> QED BY <1>2, <3>2, <3>3, <3>4
  <2>3. u.msgBegin = At(BytesBefore(h)) /\ h \in 0 .. n + 1
    <3>1. h \in Nat /\ h <= n /\ n \in Nat
      BY SoundNumbers
    <3> HIDE DEF h
    <3>2. h \in 0 .. n + 1
      BY <3>1
    <3> QED BY <1>2, <3>2 DEF TxSound, QueueSound, h
  <2> QED BY <1>1, <1>3, <2>1, <2>2, <2>3 DEF QueueSound
<1>5. EndsSound(u, n + 1, a, j)
  <2>1. j = n => a < BytesBefore(j + 1)
    <3> SUFFICES ASSUME j = n PROVE a < BytesBefore(j + 1)
      OBVIOUS
    <3>1. h = n
      BY SoundNumbers DEF TxSound, EndsSound
    <3>2. t.messages = <<>> /\ CutAt(t, n) = BytesBefore(n)
      BY <3>1, SoundNumbers DEF TxSound, QueueSound, CutAt
    <3>3. BytesBefore(n) < BytesBefore(n + 1)
      BY SoundNumbers, BytesBeforeGrows, <1>1
    <3>4. BytesBefore(n) \in Nat /\ BytesBefore(n + 1) \in Nat
      BY SoundNumbers, BytesBeforeType, <1>1
    <3> QED BY <3>2, <3>3, <3>4, SoundNumbers DEF TxSound
  <2> QED BY SMTT(20), <1>2, <1>3, <2>1, SoundNumbers DEF TxSound, EndsSound
<1>6. TxSound(u, n + 1, a, j)
  BY <1>2, <1>3, <1>4, <1>5 DEF TxSound
<1>7. HeadUncut(t, n) => HeadUncut(u, n + 1)
  <2> SUFFICES ASSUME HeadUncut(t, n) PROVE u.fragmented < MsgSize[h + 1]
    BY <1>3 DEF HeadUncut
  <2>1. CASE t.messages # <<>>
    BY <2>1, <1>2 DEF HeadUncut
  <2>2. CASE t.messages = <<>>
    <3>1. h + 1 \in 1 .. Len(MsgSize)
      BY SoundNumbers
    <3>2. MsgSize[h + 1] \in Nat \ {0}
      BY <3>1, MessageSizes
    <3> QED BY SMTT(20), <2>2, <3>2, <1>2, SoundNumbers DEF TxSound, QueueSound
  <2> QED BY <2>1, <2>2
<1> QED BY <1>6, <1>7 DEF u

\* t and u differ only in control packets, flags, timers and the type of
\* _msg_fragmented.
SamePlaces(t, u) ==
  /\ u \in TxType
  /\ u.seq = t.seq /\ u.messages = t.messages /\ u.msgBegin = t.msgBegin
  /\ u.fragmented = t.fragmented /\ u.msgEnds = t.msgEnds
  /\ Len(u.fragments) = Len(t.fragments)
  /\ \A i \in 1 .. Len(t.fragments) :
       /\ u.fragments[i].seq = t.fragments[i].seq
       /\ u.fragments[i].msgSize = t.fragments[i].msgSize
       /\ u.fragments[i].msg = t.fragments[i].msg
       /\ u.fragments[i].off = t.fragments[i].off
       /\ u.fragments[i].len = t.fragments[i].len

\* A transmit control that differs only in flags and timers is as sound.
LEMMA SamePlacesSound ==
  ASSUME NEW t, NEW n, NEW a, NEW j, TxSound(t, n, a, j), NEW u, SamePlaces(t, u)
  PROVE  TxSound(u, n, a, j) /\ (HeadUncut(t, n) => HeadUncut(u, n))
<1>1. Loaded(u, n) = Loaded(t, n) /\ CutAt(u, n) = CutAt(t, n)
  BY DEF SamePlaces, Loaded, CutAt
<1>2. QueueSound(u, n) /\ EndsSound(u, n, a, j)
  BY <1>1 DEF TxSound, QueueSound, EndsSound, SamePlaces
<1>3. TileFrom(u.fragments, a, CutAt(t, n))
  <2> DEFINE fs == t.fragments
             gs == u.fragments
  <2>1. /\ fs \in Seq(TxFragmentType) /\ gs \in Seq(TxFragmentType)
        /\ Len(gs) = Len(fs) /\ Len(fs) \in Nat
    BY SMTT(20), SoundNumbers DEF SamePlaces, TxType
  <2>2. ASSUME NEW i \in 1 .. Len(fs)
        PROVE  /\ PositionOf(gs[i]) = PositionOf(fs[i]) /\ gs[i].len = fs[i].len
               /\ FragmentSound(gs[i])
    BY <2>2 DEF SamePlaces, PositionOf, TxSound, TileFrom, FragmentSound
  <2>3. fs = <<>> <=> gs = <<>>
    BY <2>1
  <2>4. TileFrom(fs, a, CutAt(t, n))
    BY DEF TxSound
  <2> HIDE DEF fs, gs
  <2>5. ASSUME NEW i \in 1 .. Len(gs)
        PROVE  PositionOf(gs[i]) = IF i = 1 THEN a
                                   ELSE PositionOf(gs[i - 1]) + gs[i - 1].len
    <3>1. CASE i = 1
      BY <3>1, <2>1, <2>2, <2>4 DEF TileFrom
    <3>2. CASE i # 1
      <4>1. i - 1 \in 1 .. Len(fs) /\ i \in 1 .. Len(fs)
        BY <3>2, <2>1
      <4> QED BY <3>2, <4>1, <2>2, <2>4 DEF TileFrom
    <3> QED BY <3>1, <3>2
  <2>6. fs # <<>> => Len(fs) \in 1 .. Len(fs)
    BY <2>1
  <2>7. CutAt(t, n) = IF gs = <<>> THEN a ELSE PositionOf(gs[Len(gs)]) + gs[Len(gs)].len
    BY <2>1, <2>2, <2>3, <2>4, <2>6 DEF TileFrom
  <2> QED BY <2>1, <2>2, <2>5, <2>7 DEF TileFrom, gs
<1> QED BY <1>1, <1>2, <1>3 DEF TxSound, SamePlaces, HeadUncut

\* add_packet, and any number of packets more.
LEMMA PacketsSound ==
  ASSUME NEW t, NEW n, NEW a, NEW j, TxSound(t, n, a, j), NEW ps \in Seq(CtrlPacketType)
  PROVE  SamePlaces(t, [t EXCEPT !.packets = ps])
<1>1. t \in TxType
  BY DEF TxSound
<1> QED BY <1>1 DEF SamePlaces, TxType

\* A fragment gets another flag or timer.
LEMMA ReplacedFragment ==
  ASSUME NEW t, NEW n, NEW a, NEW j, TxSound(t, n, a, j), NEW i \in DOMAIN t.fragments,
         NEW f \in TxFragmentType,
         LET e == t.fragments[i]
         IN f.seq = e.seq /\ f.msgSize = e.msgSize /\ f.msg = e.msg /\ f.off = e.off
              /\ f.len = e.len
  PROVE  LET u == [t EXCEPT !.fragments = [t.fragments EXCEPT ![i] = f]]
         IN /\ SamePlaces(t, u)
            /\ u.fragments = [t.fragments EXCEPT ![i] = f]
<1> DEFINE fs == t.fragments
           gs == [fs EXCEPT ![i] = f]
           u  == [t EXCEPT !.fragments = gs]
<1>1. t \in TxType /\ fs \in Seq(TxFragmentType) /\ i \in 1 .. Len(fs)
  BY SoundNumbers DEF TxSound
<1>2. gs \in Seq(TxFragmentType) /\ Len(gs) = Len(fs)
      /\ \A k \in 1 .. Len(fs) : gs[k] = IF k = i THEN f ELSE fs[k]
  BY <1>1
<1> HIDE DEF gs
<1>3. u \in TxType /\ u.fragments = gs /\ u.seq = t.seq /\ u.messages = t.messages
      /\ u.msgBegin = t.msgBegin /\ u.fragmented = t.fragmented /\ u.msgEnds = t.msgEnds
  BY <1>1, <1>2 DEF TxType
<1> HIDE DEF u
<1>4. SamePlaces(t, u)
  BY <1>2, <1>3 DEF SamePlaces, fs
<1> QED BY <1>3, <1>4 DEF u, gs, fs

\* _handle_packet_timeout.
LEMMA PacketTimeoutSound ==
  ASSUME NEW t, NEW n, NEW a, NEW j, TxSound(t, n, a, j), NEW i \in DOMAIN t.fragments
  PROVE  SamePlaces(t, PacketTimeout(t, i))
<1> DEFINE f == [t.fragments[i] EXCEPT !.needSend = TRUE, !.timer = "fired"]
<1>1. t.fragments[i] \in TxFragmentType /\ t \in TxType
      /\ t.fragments \in Seq(TxFragmentType)
  BY SoundNumbers DEF TxSound
<1>2. /\ f \in TxFragmentType
      /\ LET e == t.fragments[i]
         IN f.seq = e.seq /\ f.msgSize = e.msgSize /\ f.msg = e.msg /\ f.off = e.off
              /\ f.len = e.len
  BY <1>1 DEF TxFragmentType
<1>3. PacketTimeout(t, i) = [t EXCEPT !.fragments = [t.fragments EXCEPT ![i] = f]]
  BY <1>1 DEF PacketTimeout, TxType
<1> HIDE DEF f
<1> QED BY <1>2, <1>3, ReplacedFragment

-----------------------------------------------------------------------------
(* _make_fragment.                                                          *)

\* A fragment is as long as the smallest of three bounds.
LEMMA MinOfThree ==
  ASSUME NEW x \in Int, NEW y \in Int, NEW z \in Int
  PROVE  LET m == Min({x, y, z})
         IN m \in {x, y, z} /\ m <= x /\ m <= y /\ m <= z
<1> DEFINE T == {x, y, z}
<1>1. \E m \in T : \A k \in T : m <= k
  <2>1. CASE x <= y /\ x <= z
    BY <2>1
  <2>2. CASE y <= x /\ y <= z
    BY <2>2
  <2>3. CASE z <= x /\ z <= y
    BY <2>3
  <2> QED BY <2>1, <2>2, <2>3
<1> HIDE DEF T
<1>2. Min(T) \in T /\ \A k \in T : Min(T) <= k
  BY <1>1 DEF Min
<1> QED BY <1>2 DEF T

\* The queue's head becomes a message that is not cut completely.
LEMMA LoadNextSound ==
  ASSUME NEW t, NEW n, NEW a, NEW j, TxSound(t, n, a, j), t.messages # <<>>
  PROVE  LET u == LoadNextMessage(t)
         IN TxSound(u, n, a, j) /\ HeadUncut(u, n) /\ u.fragments = t.fragments
<1> DEFINE h == Loaded(t, n)
           u == LoadNextMessage(t)
<1>1. h + 1 \in 1 .. n /\ h + 1 \in 1 .. Len(MsgSize) /\ h \in 0 .. Len(MsgSize)
      /\ Len(t.messages) \in Nat \ {0}
  BY SoundNumbers
<1>2. Head(t.messages) = h + 1
  BY <1>1, SoundNumbers DEF TxSound, QueueSound
<1>3. MsgSize[h + 1] \in Nat \ {0} /\ t.fragmented <= MsgSize[h + 1]
  BY <1>1, MessageSizes DEF TxSound, QueueSound
<1>4. CASE t.fragmented < MsgSize[h + 1]
  <2>1. u = t
    BY <1>2, <1>4 DEF LoadNextMessage
  <2> HIDE DEF u
  <2>2. HeadUncut(t, n)
    BY <1>4 DEF HeadUncut
  <2> QED BY <2>1, <2>2 DEF u
<1>5. CASE t.fragmented = MsgSize[h + 1]
  <2> DEFINE end == SeqAdd(t.msgBegin, MsgSize[h + 1])
  <2>1. BytesBefore(h + 1) = BytesBefore(h) + MsgSize[h + 1]
    <3>1. h + 1 - 1 = h
      BY <1>1
    <3> QED BY <1>1, <3>1, BytesBeforeStep
  <2>2. end = At(BytesBefore(h + 1)) /\ end \in 0 .. SeqSpace - 1
    <3>1. BytesBefore(h) \in Int /\ MsgSize[h + 1] \in Int
      BY <1>1, <1>3, BytesBeforeType
    <3>2. t.msgBegin = At(BytesBefore(h))
      BY DEF TxSound, QueueSound
    <3>3. BytesBefore(h + 1) \in Int
      BY <2>1, <3>1
    <3> QED BY <2>1, <3>1, <3>2, <3>3, AtShift, AtType
  <2>3. t \in TxType /\ ~(t.fragmented < MsgSize[Head(t.messages)])
    BY <1>2, <1>3, <1>5 DEF TxSound
  <2>4. Tail(t.messages) \in Seq(Message) /\ Append(t.msgEnds, end) \in Seq(0 .. SeqSpace - 1)
    BY <1>1, <2>2, SoundNumbers
  <2> HIDE DEF end
  <2>5. u = [t EXCEPT !.msgBegin = end, !.fragmented = 0, !.cyclic = FALSE,
                      !.msgEnds = Append(@, end), !.messages = Tail(@)]
    BY <1>2, <2>3 DEF LoadNextMessage, end
  <2>6. /\ u \in TxType /\ u.seq = t.seq /\ u.fragments = t.fragments
        /\ u.msgBegin = end /\ u.fragmented = 0
        /\ u.msgEnds = Append(t.msgEnds, end) /\ u.messages = Tail(t.messages)
    <3>1. /\ u.seq = t.seq /\ u.fragments = t.fragments
          /\ u.msgBegin = end /\ u.fragmented = 0
          /\ u.msgEnds = Append(t.msgEnds, end) /\ u.messages = Tail(t.messages)
      BY <2>3, <2>5 DEF TxType
    <3>2. u = [seq |-> t.seq, packets |-> t.packets, messages |-> Tail(t.messages),
               msgBegin |-> end, fragmented |-> 0, cyclic |-> FALSE,
               msgEnds |-> Append(t.msgEnds, end), fragments |-> t.fragments]
      BY <2>3, <2>5 DEF TxType
    <3>3. u \in TxType
      BY <2>2, <2>3, <2>4, <3>2 DEF TxType
    <3> QED BY <3>1, <3>3
  <2> HIDE DEF u
  <2>7. Len(u.messages) = Len(t.messages) - 1
        /\ \A i \in 1 .. Len(u.messages) : u.messages[i] = t.messages[i + 1]
    BY <1>1, <2>6, SoundNumbers
  <2>8. Loaded(u, n) = h + 1
    BY <2>7, SoundNumbers DEF Loaded
  <2>9. CutAt(u, n) = CutAt(t, n)
    <3>1. BytesBefore(h + 1) \in Int
      BY <1>1, BytesBeforeType
    <3> QED BY <1>5, <2>1, <2>6, <2>8, <3>1 DEF CutAt
  <2>10. QueueSound(u, n)
    <3>1. \A i \in 1 .. Len(t.messages) : t.messages[i] = h + i
      BY DEF TxSound, QueueSound
    <3>2. h \in Nat /\ n \in 0 .. Len(MsgSize)
      BY SoundNumbers
    <3> HIDE DEF h
    <3>3. ASSUME NEW i \in 1 .. Len(u.messages) PROVE u.messages[i] = h + 1 + i
      <4>1. i + 1 \in 1 .. Len(t.messages)
        BY <1>1, <2>7
      <4> QED BY <2>7, <3>1, <3>2, <4>1
    <3>4. 0 <= IF u.messages = <<>> THEN 0 ELSE MsgSize[h + 1 + 1]
      <4> SUFFICES ASSUME u.messages # <<>> PROVE 0 <= MsgSize[h + 1 + 1]
        OBVIOUS
      <4>1. h + 1 + 1 \in 1 .. Len(MsgSize)
        <5>1. Len(u.messages) # 0
          <6>1. u.messages \in Seq(Message)
            BY <2>4, <2>6
          <6> QED BY <6>1, EmptySeq
        <5>2. h = n - Len(t.messages) /\ n <= Len(MsgSize) /\ n \in Nat
          BY SoundNumbers DEF h
        <5> QED BY <1>1, <2>7, <3>2, <5>1, <5>2, MessageSizes
      <4> QED BY <4>1, MessageSizes
    <3>5. h + 1 \in 0 .. n
      BY <1>1
    <3> QED BY <2>2, <2>6, <2>8, <3>2, <3>3, <3>4, <3>5 DEF QueueSound
  <2>11. EndsSound(u, n, a, j)
    <3>1. /\ j \in 0 .. h /\ Len(t.msgEnds) = h - j
          /\ \A i \in 1 .. Len(t.msgEnds) : t.msgEnds[i] = At(BytesBefore(j + i))
          /\ BytesBefore(j) <= a /\ (j < n => a < BytesBefore(j + 1))
      BY DEF TxSound, EndsSound
    <3>2. h \in Nat /\ t.msgEnds \in Seq(0 .. SeqSpace - 1)
      BY SoundNumbers
    <3> HIDE DEF h
    <3>3. Len(u.msgEnds) = h + 1 - j /\ j \in 0 .. h + 1
      <4>1. Len(Append(t.msgEnds, end)) = Len(t.msgEnds) + 1
        BY <2>2, <3>2
      <4> QED BY <2>6, <3>1, <3>2, <4>1
    <3>4. ASSUME NEW i \in 1 .. Len(u.msgEnds) PROVE u.msgEnds[i] = At(BytesBefore(j + i))
      <4>1. CASE i \in 1 .. Len(t.msgEnds)
        <5>1. Append(t.msgEnds, end)[i] = t.msgEnds[i]
          BY <2>2, <3>2, <4>1
        <5> QED BY <2>6, <3>1, <4>1, <5>1
      <4>2. CASE i = Len(t.msgEnds) + 1
        <5>1. Append(t.msgEnds, end)[i] = end /\ j + i = h + 1
          BY <2>2, <3>1, <3>2, <4>2
        <5> QED BY <2>2, <2>6, <5>1
      <4> QED BY <3>1, <3>2, <3>3, <4>1, <4>2
    <3>5. \A i \in 1 .. Len(u.msgEnds) : u.msgEnds[i] = At(BytesBefore(j + i))
      BY <3>4
    <3>6. Len(u.msgEnds) = Loaded(u, n) - j /\ j \in 0 .. Loaded(u, n)
      BY <2>8, <3>1, <3>2, <3>3
    <3> QED BY <3>1, <3>5, <3>6, Zenon DEF EndsSound
  <2>12. TxSound(u, n, a, j)
    BY <2>6, <2>9, <2>10, <2>11 DEF TxSound
  <2>13. HeadUncut(u, n)
    <3> SUFFICES ASSUME u.messages # <<>> PROVE 0 < MsgSize[h + 1 + 1]
      BY <2>6, <2>8 DEF HeadUncut
    <3>1. Len(u.messages) # 0
      <4>1. u.messages \in Seq(Message)
        BY <2>4, <2>6
      <4> QED BY <4>1, EmptySeq
    <3>2. h + 1 + 1 \in 1 .. Len(MsgSize)
      <4>1. h = n - Len(t.messages) /\ n <= Len(MsgSize) /\ n \in Nat /\ h \in Nat
        BY SoundNumbers
      <4> HIDE DEF h
      <4> QED BY <1>1, <2>7, <3>1, <4>1, MessageSizes
    <3> QED BY <3>2, MessageSizes
  <2> QED BY <2>6, <2>12, <2>13 DEF u
<1> QED BY <1>3, <1>4, <1>5, SoundNumbers

\* One more fragment at the end.
LEMMA TileOneMore ==
  ASSUME NEW fs \in Seq(TxFragmentType), NEW a, NEW c, TileFrom(fs, a, c),
         NEW f \in TxFragmentType, FragmentSound(f), PositionOf(f) = c
  PROVE  TileFrom(Append(fs, f), a, c + f.len)
<1> DEFINE gs == Append(fs, f)
<1>1. Len(gs) = Len(fs) + 1 /\ Len(fs) \in Nat /\ gs # <<>>
      /\ gs[Len(fs) + 1] = f /\ \A i \in 1 .. Len(fs) : gs[i] = fs[i]
  OBVIOUS
<1>2. fs = <<>> => Len(fs) = 0
  OBVIOUS
<1>3. fs # <<>> => Len(fs) # 0
  BY EmptySeq
<1> HIDE DEF gs
<1>4. ASSUME NEW i \in 1 .. Len(gs)
      PROVE  /\ FragmentSound(gs[i])
             /\ PositionOf(gs[i]) = IF i = 1 THEN a
                                    ELSE PositionOf(gs[i - 1]) + gs[i - 1].len
  <2>1. CASE i \in 1 .. Len(fs)
    <3>1. i # 1 => i - 1 \in 1 .. Len(fs)
      BY <2>1
    <3> QED BY <1>1, <2>1, <3>1 DEF TileFrom
  <2>2. CASE i = Len(fs) + 1
    <3>1. CASE fs = <<>>
      BY <1>1, <1>2, <2>2, <3>1 DEF TileFrom
    <3>2. CASE fs # <<>>
      <4>1. i # 1 /\ i - 1 = Len(fs) /\ Len(fs) \in 1 .. Len(fs)
        BY <1>1, <1>3, <2>2, <3>2
      <4> QED BY <1>1, <2>2, <3>2, <4>1 DEF TileFrom
    <3> QED BY <3>1, <3>2
  <2> QED BY <1>1, <2>1, <2>2
<1>5. c + f.len = IF gs = <<>> THEN a ELSE PositionOf(gs[Len(gs)]) + gs[Len(gs)].len
  BY <1>1
<1> QED BY <1>4, <1>5 DEF TileFrom, gs

\* _make_fragment cuts a fragment that fits in avail bytes with its header, right
\* where the messages are cut, and inside the window; or it cuts nothing, and the
\* head of the queue is not cut completely.
LEMMA MakeFragmentSound ==
  ASSUME NEW t, NEW n, NEW a, NEW j, TxSound(t, n, a, j), NEW avail \in Int
  PROVE  LET m == MakeFragment(t, avail)
             u == [m.tx EXCEPT !.fragments = Append(@, m.frag)]
         IN \/ /\ m.kind \in {"none", "raised"}
               /\ TxSound(m.tx, n, a, j) /\ HeadUncut(m.tx, n)
               /\ m.tx.fragments = t.fragments
               /\ m.kind = "raised" => m.tx.messages # <<>>
            \/ /\ m.kind = "frag"
               /\ TxSound(u, n, a, j) /\ m.tx.fragments = t.fragments
               /\ m.tx \in TxType /\ m.frag \in TxFragmentType
               /\ m.frag.needSend = FALSE
               /\ m.frag.len + 5 <= avail
<1> DEFINE m == MakeFragment(t, avail)
           v == LoadNextMessage(t)
<1>1. CASE t.messages = <<>>
  <2>1. m = [kind |-> "none", tx |-> t]
    BY <1>1 DEF MakeFragment
  <2>2. HeadUncut(t, n)
    BY <1>1 DEF HeadUncut
  <2> HIDE DEF m
  <2> QED BY <2>1, <2>2 DEF m
<1>2. CASE t.messages # <<>>
  <2>1. TxSound(v, n, a, j) /\ HeadUncut(v, n) /\ v.fragments = t.fragments
    BY <1>2, LoadNextSound
  <2> DEFINE msg       == Head(v.messages)
             seq       == FragmentedEnd(v)
             maxAvail  == avail - (IF v.fragmented = 0 THEN 6 ELSE 4) - 1
             maxMsg    == MsgSize[msg] - v.fragmented
             maxWindow == WindowLeft(v, seq)
             len       == Min({maxAvail, maxMsg, maxWindow})
             cyclic    == maxWindow < Min({maxAvail, maxMsg})
             f         == [seq      |-> seq,
                           msgSize  |-> IF v.fragmented = 0 THEN MsgSize[msg] ELSE 0,
                           msg      |-> msg,
                           off      |-> v.fragmented,
                           len      |-> len,
                           needSend |-> FALSE,
                           timer    |-> "none"]
             x         == [v EXCEPT !.fragmented = @ + len, !.cyclic = cyclic]
  <2>2. m = IF v.messages = <<>> THEN [kind |-> "none", tx |-> v]
            ELSE IF v.cyclic THEN [kind |-> "raised", tx |-> v]
            ELSE IF len <= 0 THEN [kind |-> "none", tx |-> v]
            ELSE [kind |-> "frag", tx |-> x, frag |-> f]
    BY <1>2 DEF MakeFragment
  <2> HIDE DEF m, v, f, x, len, cyclic
  <2>3. CASE v.messages = <<>> \/ v.cyclic \/ len <= 0
    <3>1. m.kind \in {"none", "raised"} /\ m.tx = v
          /\ (m.kind = "raised" => v.messages # <<>>)
      BY <2>2, <2>3
    <3> QED BY <2>1, <3>1 DEF m
  <2>4. CASE v.messages # <<>> /\ ~v.cyclic /\ ~(len <= 0)
    <3>1. m = [kind |-> "frag", tx |-> x, frag |-> f]
      BY <2>2, <2>4
    <3> DEFINE h == Loaded(v, n)
               c == CutAt(v, n)
    <3>2. /\ h \in Nat /\ h + 1 \in 1 .. n /\ n <= Len(MsgSize) /\ n \in Nat
          /\ Len(MsgSize) \in Nat
          /\ c \in Nat /\ a \in Nat /\ v.fragmented \in Nat
          /\ Len(v.messages) \in Nat \ {0}
          /\ BytesBefore(h) \in Nat
      <4>1. Len(v.messages) \in Nat \ {0}
        <5>1. v.messages \in Seq(Message)
          BY <2>1, SoundNumbers
        <5> QED BY <2>4, <5>1, EmptySeq
      <4>2. /\ h \in Nat /\ n <= Len(MsgSize) /\ n \in Nat /\ Len(MsgSize) \in Nat
            /\ c \in Nat /\ a \in Nat /\ v.fragmented \in Nat /\ BytesBefore(h) \in Nat
            /\ h = n - Len(v.messages)
        BY <2>1, SoundNumbers
      <4> HIDE DEF h, c
      <4>3. h + 1 \in 1 .. n
        BY <4>1, <4>2
      <4> QED BY <4>1, <4>2, <4>3
    <3>3. msg = h + 1 /\ msg \in Message
      <4>1. \A i \in 1 .. Len(v.messages) : v.messages[i] = h + i
        BY <2>1 DEF TxSound, QueueSound
      <4>2. 1 \in 1 .. Len(v.messages)
        BY <3>2
      <4>3. msg = v.messages[1]
        OBVIOUS
      <4> QED BY <3>2, <4>1, <4>2, <4>3 DEF Message
    <3>4. MsgSize[msg] \in Nat \ {0} /\ v.fragmented < MsgSize[msg]
      <4>1. v.fragmented < MsgSize[h + 1]
        BY <2>1, <2>4 DEF HeadUncut
      <4> QED BY <3>3, <4>1, MessageSizes DEF Message
    <3>5. seq = At(c) /\ c - a \in 0 .. Window /\ v.seq = At(a)
      <4>1. a <= c /\ c <= a + Window /\ v.seq = At(a)
        BY <2>1 DEF TxSound
      <4> QED BY <2>1, <3>2, <4>1, SoundAcked, SeqSpaceSize
    <3> HIDE DEF c, h
    <3>6. maxWindow = a + Window - c
      <4>1. SeqSub(At(a) + Window, At(c)) = SeqSub(At(a + Window), At(c))
        <5>1. At(a) \in Int /\ At(c) \in Int
          BY <3>2, AtType
        <5>2. SeqSub(At(a) + Window, At(c)) = At(At(a) + (Window - At(c)))
          BY <5>1, SeqSpaceSize DEF SeqSub, At
        <5>3. At(At(a) + (Window - At(c))) = At(a + (Window - At(c)))
          <6>1. Window - At(c) \in Int
            BY <5>1, SeqSpaceSize
          <6> QED BY <3>2, <6>1, AtShift DEF SeqAdd, At
        <5>4. At(a + (Window - At(c))) = SeqSub(a + Window, At(c))
          <6>1. a + (Window - At(c)) = (a + Window) - At(c)
            BY <3>2, <5>1, SeqSpaceSize
          <6> QED BY <6>1 DEF SeqSub, At
        <5>5. SeqSub(a + Window, At(c)) = At(a + Window - c)
          <6> DEFINE p == c \div SeqSpace
          <6>1. p \in Int /\ c = SeqSpace * p + At(c)
            BY <3>2, SeqSpaceSize DEF At
          <6> HIDE DEF p
          <6>2. (a + Window) - At(c) = SeqSpace * p + (a + Window - c)
            <7> DEFINE q == SeqSpace * p
            <7>1. q \in Int /\ c = q + At(c) /\ Window \in Int
              BY <6>1, SeqSpaceSize
            <7> HIDE DEF q
            <7>2. (a + Window) - At(c) = q + (a + Window - c)
              BY SMTT(20), <3>2, <5>1, <7>1
            <7> QED BY <7>2 DEF q
          <6>3. a + Window - c \in Int
            BY <3>2, SeqSpaceSize
          <6> QED BY <6>1, <6>2, <6>3, AtMultiple DEF SeqSub, At
        <5>6. SeqSub(At(a + Window), At(c)) = At(a + Window - c)
          BY <3>2, SeqSpaceSize, AtShift
        <5> QED BY <5>2, <5>3, <5>4, <5>5, <5>6
      <4>2. a + Window - c \in 0 .. SeqSpace - 1
        BY <3>2, <3>5, SeqSpaceSize
      <4>3. SeqSub(At(a + Window), At(c)) = a + Window - c
        BY <3>2, <4>2, SeqSpaceSize, SubAt
      <4> QED BY <3>5, <4>1, <4>3 DEF WindowLeft
    <3>7. len \in Int /\ len <= maxAvail /\ len <= maxMsg /\ len <= maxWindow /\ len >= 1
      <4>1. maxAvail \in Int /\ maxMsg \in Int /\ maxWindow \in Int
        BY <3>2, <3>4, <3>6, SeqSpaceSize
      <4> HIDE DEF maxAvail, maxMsg, maxWindow
      <4>2. len \in {maxAvail, maxMsg, maxWindow}
            /\ len <= maxAvail /\ len <= maxMsg /\ len <= maxWindow
        BY <4>1, MinOfThree DEF len
      <4> QED BY <2>4, <4>1, <4>2
    <3>8. maxAvail <= avail - 5 /\ maxAvail \in Int
      BY <3>2
    <3> HIDE DEF maxAvail, maxWindow
    <3>9. f.len + 5 <= avail /\ f.needSend = FALSE
      BY <3>7, <3>8 DEF f
    <3>10. f \in TxFragmentType
      <4>1. seq \in 0 .. SeqSpace - 1
        BY <3>2, <3>5, AtType
      <4>2. len \in Nat /\ msg \in Nat
        BY <3>2, <3>3, <3>7
      <4> HIDE DEF seq, msg
      <4> DEFINE size == IF v.fragmented = 0 THEN MsgSize[msg] ELSE 0
      <4>3. size \in Nat /\ v.fragmented \in Nat
        BY <3>2, <3>4
      <4>4. f = [seq |-> seq, msgSize |-> size, msg |-> msg, off |-> v.fragmented,
                 len |-> len, needSend |-> FALSE, timer |-> "none"]
        BY DEF f
      <4> HIDE DEF size, f
      <4> QED BY <3>3, <4>1, <4>2, <4>3, <4>4 DEF TxFragmentType
    <3>11. PositionOf(f) = c
      <4>1. f.msg - 1 = h /\ f.off = v.fragmented
        BY <3>2, <3>3 DEF f
      <4> QED BY <4>1 DEF PositionOf, c, CutAt, h
    <3>12. FragmentSound(f)
      <4>1. f.msg = msg /\ f.len = len /\ f.off = v.fragmented /\ f.seq = seq
            /\ f.msgSize = IF v.fragmented = 0 THEN MsgSize[msg] ELSE 0
        BY DEF f
      <4>2. v.fragmented + len <= MsgSize[msg]
        BY <3>2, <3>4, <3>7
      <4> HIDE DEF seq, msg
      <4> QED BY <3>3, <3>5, <3>7, <3>11, <4>1, <4>2 DEF FragmentSound
    <3> DEFINE u == [x EXCEPT !.fragments = Append(@, f)]
               ws == Append(v.fragments, f)
    <3>13. v \in TxType /\ v.fragments \in Seq(TxFragmentType)
      BY <2>1, SoundNumbers DEF TxSound
    <3>14. cyclic \in BOOLEAN
      BY DEF cyclic
    <3>15. ws \in Seq(TxFragmentType)
      BY <3>10, <3>13
    <3>16. v.fragmented + len \in Nat
      BY <3>2, <3>7
    <3>17. x \in TxType /\ x.fragments = v.fragments
      BY <3>13, <3>14, <3>16 DEF x, TxType
    <3> HIDE DEF ws
    <3>18. u \in TxType
      BY <3>15, <3>17 DEF TxType, ws
    <3>19. /\ u.seq = v.seq /\ u.messages = v.messages /\ u.msgBegin = v.msgBegin
           /\ u.fragmented = v.fragmented + len /\ u.msgEnds = v.msgEnds
           /\ u.fragments = ws
      BY <3>13, <3>17 DEF x, TxType, ws
    <3> HIDE DEF u
    <3>20. Loaded(u, n) = h /\ CutAt(u, n) = c + len
      <4>1. Loaded(u, n) = h
        BY <3>19 DEF Loaded, h
      <4>2. CutAt(u, n) = BytesBefore(h) + (v.fragmented + len)
        BY <3>19, <4>1 DEF CutAt
      <4>3. c = BytesBefore(h) + v.fragmented
        BY DEF c, CutAt, h
      <4> QED BY <3>2, <3>7, <4>1, <4>2, <4>3
    <3>21. QueueSound(u, n)
      <4>1. v.fragmented + len <= MsgSize[h + 1]
        BY <3>2, <3>3, <3>4, <3>7
      <4>2. QueueSound(v, n)
        BY <2>1 DEF TxSound
      <4> QED BY <2>4, <3>19, <3>20, <4>1, <4>2 DEF QueueSound, h
    <3>22. EndsSound(u, n, a, j)
      <4>1. EndsSound(v, n, a, j)
        BY <2>1 DEF TxSound
      <4> QED BY <3>19, <3>20, <4>1 DEF EndsSound, h
    <3>23. TileFrom(u.fragments, a, c + len)
      <4>1. TileFrom(v.fragments, a, c)
        BY <2>1 DEF TxSound, c
      <4>2. f.len = len
        BY DEF f
      <4> QED BY <3>10, <3>11, <3>12, <3>13, <3>19, <4>1, <4>2, TileOneMore DEF ws
    <3>24. a <= c + len /\ c + len <= a + Window
      BY <3>2, <3>5, <3>6, <3>7, SeqSpaceSize
    <3>25. TxSound(u, n, a, j)
      BY <3>2, <3>5, <3>18, <3>19, <3>20, <3>21, <3>22, <3>23, <3>24 DEF TxSound
    <3>26. m.kind = "frag" /\ m.tx = x /\ m.frag = f
      BY <3>1
    <3> HIDE DEF m
    <3> QED BY <2>1, <3>9, <3>10, <3>17, <3>25, <3>26 DEF m, u
  <2> QED BY <2>3, <2>4
<1> QED BY <1>1, <1>2

-----------------------------------------------------------------------------
(* get_write_data.                                                          *)

\* What a BlockWrite carries: control packets, and pieces of messages with the
\* numbers of their positions.
DataPacketType ==
  [type : {"data"}, seq : 0 .. SeqSpace - 1, msgSize : Nat, msg : Message,
   off : Nat, len : Nat]
SoundPacket == CtrlPacketType \cup {p \in DataPacketType : FragmentSound(p)}

\* The packet of a sound fragment is sound.
LEMMA DataPacketSound ==
  ASSUME NEW f \in TxFragmentType, FragmentSound(f)
  PROVE  DataPacket(f) \in SoundPacket
<1> DEFINE p == DataPacket(f)
<1>1. p \in DataPacketType
  BY DEF DataPacket, DataPacketType, TxFragmentType
<1>2. p.seq = f.seq /\ p.msgSize = f.msgSize /\ p.msg = f.msg /\ p.off = f.off
      /\ p.len = f.len
  BY DEF DataPacket
<1> HIDE DEF p
<1>3. FragmentSound(p)
  BY <1>2 DEF FragmentSound, PositionOf
<1> QED BY <1>1, <1>3 DEF SoundPacket, p

Sizing == INSTANCE FoldFacts WITH Op <- AddSize

\* Control packets have a size.
LEMMA PacketsSizeType ==
  ASSUME NEW ps \in Seq(CtrlPacketType)
  PROVE  PacketsSize(ps) \in Nat
<1>1. Len(ps) \in Nat
  OBVIOUS
<1>2. PICK g : /\ g[0] = 0
               /\ \A k \in 1 .. Len(ps) : g[k] = AddSize(g[k - 1], ps[k])
               /\ Sizing!Folded(0, ps) = g[Len(ps)]
  BY <1>1, Sizing!FoldSteps
<1>3. PacketsSize(ps) = Sizing!Folded(0, ps)
  BY DEF PacketsSize, Fold, Sizing!Folded
<1> DEFINE T == {k \in 0 .. Len(ps) : g[k] \in Nat}
<1>4. 0 \in T
  BY <1>1, <1>2
<1>5. ASSUME NEW k \in 1 .. Len(ps), k - 1 \in T PROVE k \in T
  <2>1. ps[k] \in CtrlPacketType
    OBVIOUS
  <2>2. ps[k].size \in Nat
    BY <2>1 DEF CtrlPacketType
  <2> QED BY <1>2, <1>5, <2>2 DEF AddSize
<1> HIDE DEF T
<1>6. \A k \in 0 .. Len(ps) : k \in T
  BY <1>1, <1>4, <1>5, Adding!HoldsToTheEnd
<1> QED BY <1>1, <1>2, <1>3, <1>6 DEF T

\* Min of natural numbers is the least of them.
LEMMA LeastOf ==
  ASSUME NEW T, T \subseteq Nat, T # {}
  PROVE  Min(T) \in T /\ \A k \in T : Min(T) <= k
<1>1. \E n \in T : \A k \in T : n <= k
  BY Adding!LeastExists
<1> QED BY <1>1 DEF Min

\* A prefix of the control packets fits.
LEMMA FittingPacketsType ==
  ASSUME NEW ps \in Seq(CtrlPacketType), NEW writeSize
  PROVE  FittingPackets(ps, writeSize) \in 0 .. Len(ps)
<1> DEFINE tooLong == {k \in 1 .. Len(ps) : PacketsSize(SubSeq(ps, 1, k)) > writeSize}
<1>1. FittingPackets(ps, writeSize) = IF tooLong = {} THEN Len(ps) ELSE Min(tooLong) - 1
  BY DEF FittingPackets
<1>2. tooLong \subseteq 1 .. Len(ps) /\ tooLong \subseteq Nat /\ Len(ps) \in Nat
  OBVIOUS
<1> HIDE DEF tooLong
<1>3. CASE tooLong = {}
  BY <1>1, <1>2, <1>3
<1>4. CASE tooLong # {}
  <2>1. Min(tooLong) \in 1 .. Len(ps)
    BY <1>2, <1>4, LeastOf
  <2> QED BY <1>1, <1>2, <1>4, <2>1
<1> QED BY <1>3, <1>4

\* The local state of the data loop.
PassType ==
  [tx : TxType, est : Nat, data : Seq(SoundPacket), status : {"building", "done", "raised"}]

\* The local state u after fragment i of t is written in state w.
Written(u, w, t, i, n, a, j) ==
  /\ u \in PassType /\ u.status = w.status
  /\ TxSound(u.tx, n, a, j) /\ (HeadUncut(t, n) => HeadUncut(u.tx, n))
  /\ u.est = w.est + 4 + t.fragments[i].len
  /\ u.tx.messages = t.messages
  /\ Len(u.tx.fragments) = Len(t.fragments)
  /\ \A k \in 1 .. Len(t.fragments) :
       u.tx.fragments[k].needSend = t.fragments[k].needSend

\* Writing a fragment leaves the places sound.
LEMMA WriteFragmentSound ==
  ASSUME NEW w \in PassType, NEW n, NEW a, NEW j, NEW t, TxSound(t, n, a, j),
         NEW i \in DOMAIN t.fragments
  PROVE  Written(WriteFragment(w, t, i), w, t, i, n, a, j)
<1> DEFINE u  == WriteFragment(w, t, i)
           fs == t.fragments
           f  == [fs[i] EXCEPT !.timer = "armed"]
           v  == [t EXCEPT !.fragments = [fs EXCEPT ![i] = f]]
<1>1. t \in TxType /\ fs \in Seq(TxFragmentType) /\ i \in 1 .. Len(fs)
  BY SoundNumbers DEF TxSound
<1>2. fs[i] \in TxFragmentType
  BY <1>1
<1>3. /\ f \in TxFragmentType /\ f.seq = fs[i].seq /\ f.msgSize = fs[i].msgSize
      /\ f.msg = fs[i].msg /\ f.off = fs[i].off /\ f.len = fs[i].len
      /\ f.needSend = fs[i].needSend
  BY <1>2 DEF TxFragmentType
<1>4. FragmentSound(fs[i])
  BY <1>1 DEF TxSound, TileFrom
<1>5. u = [w EXCEPT !.tx = v, !.est = @ + 4 + fs[i].len,
                    !.data = Append(@, DataPacket(fs[i]))]
  BY <1>1 DEF WriteFragment, TxType
<1> HIDE DEF f
<1>6. SamePlaces(t, v) /\ v.fragments = [fs EXCEPT ![i] = f]
  BY <1>3, ReplacedFragment
<1>7. TxSound(v, n, a, j) /\ (HeadUncut(t, n) => HeadUncut(v, n))
  BY <1>6, SamePlacesSound
<1>8. DataPacket(fs[i]) \in SoundPacket
  BY <1>2, <1>4, DataPacketSound
<1>9. fs[i].len \in Nat
  BY <1>2 DEF TxFragmentType
<1>10. v \in TxType /\ v.messages = t.messages
  BY <1>6 DEF SamePlaces
<1> HIDE DEF u, v
<1>11. u \in PassType /\ u.status = w.status /\ u.tx = v /\ u.est = w.est + 4 + fs[i].len
  <2>1. w.est + 4 + fs[i].len \in Nat /\ Append(w.data, DataPacket(fs[i])) \in Seq(SoundPacket)
    BY <1>8, <1>9 DEF PassType
  <2> HIDE DEF fs
  <2> QED BY <1>5, <1>10, <2>1 DEF PassType
<1>12. Len(v.fragments) = Len(fs)
       /\ \A k \in 1 .. Len(fs) : v.fragments[k].needSend = fs[k].needSend
  BY <1>1, <1>3, <1>6
<1> QED BY <1>7, <1>10, <1>11, <1>12 DEF u, Written

\* The fragments flagged for sending.
Flagged(t) == {i \in DOMAIN t.fragments : t.fragments[i].needSend}

\* The local state w of the data loop after k passes, when there were m fragments at
\* its begin.  Of the passes, x took a flag away, in order, and each other one
\* made a fragment and took five bytes or more of what may be written.
PassSound(w, k, m, n, a, j, writeSize) ==
  /\ w \in PassType
  /\ TxSound(w.tx, n, a, j)
  /\ w.status # "building" \/ Flagged(w.tx) # {} => HeadUncut(w.tx, n)
  /\ w.status = "raised" => w.tx.messages # <<>>
  /\ w.status = "building" =>
       \E x \in 0 .. m :
         /\ x <= k /\ 5 * (k - x) <= w.est /\ (x < k => w.est <= writeSize)
         /\ m <= Len(w.tx.fragments)
         /\ Flagged(w.tx) \subseteq x + 1 .. m

\* A pass ends the loop.
LEMMA PassEnds ==
  ASSUME NEW w \in PassType, NEW k, NEW m, NEW n, NEW a, NEW j, NEW writeSize,
         NEW t, TxSound(t, n, a, j), HeadUncut(t, n),
         NEW status \in {"done", "raised"}, status = "raised" => t.messages # <<>>
  PROVE  PassSound([w EXCEPT !.tx = t, !.status = status], k, m, n, a, j, writeSize)
<1> DEFINE u == [w EXCEPT !.tx = t, !.status = status]
<1>1. t \in TxType
  BY DEF TxSound
<1>2. u \in PassType /\ u.tx = t /\ u.status = status
  BY <1>1 DEF PassType
<1> HIDE DEF u
<1>3. u.status # "building"
  BY <1>2
<1>4. PassSound(u, k, m, n, a, j, writeSize)
  BY <1>2, <1>3 DEF PassSound
<1> QED BY <1>4 DEF u

\* A pass that finds nothing flagged.
LEMMA WriteNewSound ==
  ASSUME NEW w, NEW k \in Nat, NEW m \in Nat, NEW n, NEW a, NEW j, NEW writeSize \in Nat,
         PassSound(w, k, m, n, a, j, writeSize), w.status = "building",
         Flagged(w.tx) = {}
  PROVE  PassSound(WriteNew(w, writeSize), k + 1, m, n, a, j, writeSize)
<1> DEFINE avail == writeSize - w.est
           new   == MakeFragment(w.tx, avail)
           t     == [new.tx EXCEPT !.fragments = Append(@, new.frag)]
           Made(c) ==
             CASE c.kind = "none"   -> [w EXCEPT !.tx = c.tx, !.status = "done"]
               [] c.kind = "raised" -> [w EXCEPT !.tx = c.tx, !.status = "raised"]
               [] c.kind = "frag"   ->
                    WriteFragment(w, [c.tx EXCEPT !.fragments = Append(@, c.frag)],
                                  Len(c.tx.fragments) + 1)
           u     == WriteNew(w, writeSize)
<1>1. w \in PassType /\ TxSound(w.tx, n, a, j) /\ w.est \in Nat
  BY DEF PassSound, PassType
<1>2. avail \in Int
  BY <1>1
<1>3. u = Made(new)
  <2>1. u = CHOOSE r \in {Made(x) : x \in {new}} : TRUE
    BY DEF WriteNew, Strictly
  <2> HIDE DEF Made, u, new
  <2> QED BY <2>1
<1>4. \/ /\ new.kind \in {"none", "raised"}
         /\ TxSound(new.tx, n, a, j) /\ HeadUncut(new.tx, n)
         /\ new.kind = "raised" => new.tx.messages # <<>>
      \/ /\ new.kind = "frag"
         /\ TxSound(t, n, a, j) /\ new.tx.fragments = w.tx.fragments
         /\ new.tx \in TxType /\ new.frag \in TxFragmentType
         /\ new.frag.needSend = FALSE
         /\ new.frag.len + 5 <= avail
  <2> HIDE DEF avail
  <2> QED BY <1>1, <1>2, MakeFragmentSound
<1> HIDE DEF new, u
<1>5. CASE new.kind = "none"
  <2>1. u = [w EXCEPT !.tx = new.tx, !.status = "done"]
    BY <1>3, <1>5
  <2>2. TxSound(new.tx, n, a, j) /\ HeadUncut(new.tx, n) /\ "done" \in {"done", "raised"}
    BY <1>4, <1>5
  <2>3. PassSound([w EXCEPT !.tx = new.tx, !.status = "done"], k + 1, m, n, a, j, writeSize)
    BY <1>1, <2>2, PassEnds
  <2> QED BY <2>1, <2>3 DEF u
<1>6. CASE new.kind = "raised"
  <2>1. u = [w EXCEPT !.tx = new.tx, !.status = "raised"]
    BY <1>3, <1>6
  <2>2. TxSound(new.tx, n, a, j) /\ HeadUncut(new.tx, n) /\ "raised" \in {"done", "raised"}
        /\ new.tx.messages # <<>>
    BY <1>4, <1>6
  <2>3. PassSound([w EXCEPT !.tx = new.tx, !.status = "raised"], k + 1, m, n, a, j, writeSize)
    BY <1>1, <2>2, PassEnds
  <2> QED BY <2>1, <2>3 DEF u
<1>7. CASE new.kind = "frag"
  <2> DEFINE fs == w.tx.fragments
             i  == Len(fs) + 1
  <2>1. u = WriteFragment(w, t, i)
    BY <1>3, <1>4, <1>7
  <2>2. fs \in Seq(TxFragmentType) /\ Len(fs) \in Nat
    BY <1>1, SoundNumbers
  <2>3. t.fragments = Append(fs, new.frag)
    BY <1>4, <1>7 DEF TxType
  <2>4. TxSound(t, n, a, j) /\ new.frag \in TxFragmentType
        /\ new.frag.needSend = FALSE /\ new.frag.len + 5 <= writeSize - w.est
    BY <1>4, <1>7
  <2>5. new.frag.len \in Nat /\ new.frag.len >= 1
    <3>1. Len(t.fragments) = i /\ i \in 1 .. Len(t.fragments) /\ t.fragments[i] = new.frag
      BY <2>2, <2>3, <2>4
    <3>2. FragmentSound(new.frag)
      BY <2>4, <3>1 DEF TxSound, TileFrom
    <3> QED BY <2>4, <3>2 DEF TxFragmentType, FragmentSound
  <2> HIDE DEF t
  <2>6. /\ Len(t.fragments) = i /\ i \in DOMAIN t.fragments /\ t.fragments[i] = new.frag
        /\ \A l \in 1 .. Len(fs) : t.fragments[l] = fs[l]
    BY <2>2, <2>3, <2>4
  <2>7. /\ u \in PassType /\ u.status = w.status /\ TxSound(u.tx, n, a, j)
        /\ u.est = w.est + 4 + t.fragments[i].len
        /\ Len(u.tx.fragments) = Len(t.fragments)
        /\ \A l \in 1 .. Len(t.fragments) :
             u.tx.fragments[l].needSend = t.fragments[l].needSend
    <3> HIDE DEF i
    <3>1. Written(u, w, t, i, n, a, j)
      BY <1>1, <2>1, <2>4, <2>6, WriteFragmentSound
    <3> HIDE DEF u
    <3> QED BY <3>1 DEF Written
  <2>8. Flagged(u.tx) = {}
    <3> SUFFICES ASSUME NEW l \in Flagged(u.tx) PROVE FALSE
      OBVIOUS
    <3>1. u.tx.fragments \in Seq(TxFragmentType)
      BY <2>7, SoundNumbers
    <3>2. l \in 1 .. i /\ t.fragments[l].needSend
      <4>1. l \in DOMAIN u.tx.fragments /\ u.tx.fragments[l].needSend
        BY DEF Flagged
      <4>2. l \in 1 .. Len(u.tx.fragments)
        BY <3>1, <4>1
      <4>3. Len(u.tx.fragments) = i /\ Len(t.fragments) = i
        BY <2>6, <2>7
      <4> HIDE DEF i
      <4>4. l \in 1 .. Len(t.fragments)
        BY <4>2, <4>3
      <4> QED BY <2>7, <4>1, <4>3, <4>4
    <3>3. l \in 1 .. Len(fs)
      BY <2>2, <2>4, <2>6, <3>2
    <3>4. l \in Flagged(w.tx)
      <4>1. t.fragments[l] = fs[l] /\ l \in DOMAIN fs
        BY <2>2, <2>6, <3>3
      <4>2. fs[l].needSend
        BY <3>2, <4>1
      <4> QED BY <4>1, <4>2 DEF Flagged
    <3> QED BY <3>4
  <2>9. PICK x \in 0 .. m : /\ x <= k /\ 5 * (k - x) <= w.est
                            /\ m <= Len(fs)
    BY DEF PassSound
  <2>10. /\ x <= k + 1 /\ 5 * (k + 1 - x) <= u.est /\ u.est <= writeSize
         /\ m <= Len(u.tx.fragments)
    <3>1. u.est = w.est + 4 + new.frag.len /\ Len(u.tx.fragments) = Len(fs) + 1
      BY <2>6, <2>7
    <3>2. 5 * (k + 1 - x) = 5 * (k - x) + 5
      OBVIOUS
    <3>3. x <= k + 1
      BY <2>9
    <3> DEFINE len == new.frag.len
               d   == 5 * (k - x)
    <3>4. d \in Int /\ d <= w.est /\ len \in Nat /\ len >= 1 /\ len + 5 <= writeSize - w.est
      BY <2>4, <2>5, <2>9
    <3> HIDE DEF len, d
    <3>5. d + 5 <= w.est + 4 + len /\ w.est + 4 + len <= writeSize
      BY <1>1, <3>4
    <3> QED BY SMTT(20), <2>2, <2>9, <3>1, <3>2, <3>3, <3>5 DEF len, d
  <2> QED BY <2>7, <2>8, <2>9, <2>10 DEF PassSound, u
<1> QED BY <1>4, <1>5, <1>6, <1>7

\* A pass that finds fragments flagged.
LEMMA WriteFlaggedSound ==
  ASSUME NEW w, NEW k \in Nat, NEW m \in Nat, NEW n, NEW a, NEW j, NEW writeSize \in Nat,
         PassSound(w, k, m, n, a, j, writeSize), w.status = "building",
         Flagged(w.tx) # {}
  PROVE  PassSound(WriteFlagged(w, Min(Flagged(w.tx)), writeSize), k + 1, m, n, a, j, writeSize)
<1> DEFINE fs == w.tx.fragments
           i  == Min(Flagged(w.tx))
           f  == [fs[i] EXCEPT !.needSend = FALSE]
           t  == [w.tx EXCEPT !.fragments = [fs EXCEPT ![i] = f]]
           u  == WriteFlagged(w, i, writeSize)
<1>1. w \in PassType /\ TxSound(w.tx, n, a, j) /\ w.est \in Nat /\ HeadUncut(w.tx, n)
  BY DEF PassSound, PassType
<1>2. PICK x \in 0 .. m :
         /\ x <= k /\ 5 * (k - x) <= w.est /\ (x < k => w.est <= writeSize)
         /\ m <= Len(fs)
         /\ Flagged(w.tx) \subseteq x + 1 .. m
  BY DEF PassSound
<1>3. Flagged(w.tx) \subseteq Nat
  BY <1>2
<1>4. i \in Flagged(w.tx) /\ \A l \in Flagged(w.tx) : i <= l
  BY <1>3, LeastOf
<1> HIDE DEF i
<1>5. i \in DOMAIN fs /\ i \in x + 1 .. m /\ fs \in Seq(TxFragmentType) /\ w.tx \in TxType
  BY <1>1, <1>2, <1>4, SoundNumbers DEF Flagged, TxSound
<1>6. /\ f \in TxFragmentType /\ f.needSend = FALSE
      /\ LET e == fs[i]
         IN f.seq = e.seq /\ f.msgSize = e.msgSize /\ f.msg = e.msg /\ f.off = e.off
              /\ f.len = e.len
  <2>1. fs[i] \in TxFragmentType
    BY <1>5
  <2> QED BY <2>1 DEF TxFragmentType
<1>7. t = [w.tx EXCEPT !.fragments[i].needSend = FALSE]
  BY <1>5 DEF TxType
<1> HIDE DEF f
<1>8. SamePlaces(w.tx, t) /\ t.fragments = [fs EXCEPT ![i] = f]
  BY SMTT(20), <1>1, <1>5, <1>6, ReplacedFragment
<1>9. TxSound(t, n, a, j) /\ HeadUncut(t, n)
  BY <1>1, <1>8, SamePlacesSound
<1>10. Len(t.fragments) = Len(fs) /\ i \in DOMAIN t.fragments /\ Len(fs) \in Nat
       /\ \A l \in 1 .. Len(fs) : t.fragments[l] = IF l = i THEN f ELSE fs[l]
  BY <1>5, <1>6, <1>8
<1>11. t.fragments[i] \in TxFragmentType
  BY <1>6, <1>10
<1>12. u = IF w.est + 4 + t.fragments[i].len > writeSize
           THEN [w EXCEPT !.tx = t, !.status = "done"]
           ELSE WriteFragment(w, t, i)
  BY <1>7 DEF WriteFlagged
<1> HIDE DEF t, u
<1>13. CASE w.est + 4 + t.fragments[i].len > writeSize
  <2>1. PassSound([w EXCEPT !.tx = t, !.status = "done"], k + 1, m, n, a, j, writeSize)
    BY <1>1, <1>9, PassEnds
  <2> QED BY <1>12, <1>13, <2>1 DEF u, i
<1>14. CASE ~(w.est + 4 + t.fragments[i].len > writeSize)
  <2>1. u = WriteFragment(w, t, i)
    BY <1>12, <1>14
  <2>2. Written(u, w, t, i, n, a, j)
    <3>1. w \in PassType /\ TxSound(t, n, a, j) /\ i \in DOMAIN t.fragments
      BY <1>1, <1>9, <1>10
    <3> QED BY <2>1, <3>1, WriteFragmentSound
  <2>3. /\ u \in PassType /\ u.status = w.status
        /\ TxSound(u.tx, n, a, j) /\ HeadUncut(u.tx, n)
        /\ u.est = w.est + 4 + t.fragments[i].len
        /\ Len(u.tx.fragments) = Len(fs)
        /\ \A l \in 1 .. Len(fs) : u.tx.fragments[l].needSend = t.fragments[l].needSend
    BY <1>9, <1>10, <2>2 DEF Written
  <2>4. Flagged(u.tx) \subseteq (x + 1) + 1 .. m
    <3> SUFFICES ASSUME NEW l \in Flagged(u.tx) PROVE l \in (x + 1) + 1 .. m
      OBVIOUS
    <3>1. u.tx.fragments \in Seq(TxFragmentType)
      BY <2>3, SoundNumbers
    <3>2. l \in 1 .. Len(fs) /\ t.fragments[l].needSend
      <4>1. l \in 1 .. Len(u.tx.fragments) /\ u.tx.fragments[l].needSend
        BY <3>1 DEF Flagged
      <4> QED BY <2>3, <4>1
    <3>3. l # i
      BY <1>6, <1>10, <3>2
    <3>4. fs[l].needSend /\ l \in DOMAIN fs
      BY <1>5, <1>10, <3>2, <3>3
    <3>5. l \in Flagged(w.tx)
      BY <3>4 DEF Flagged
    <3>6. l \in x + 1 .. m /\ i <= l
      BY <1>2, <1>4, <3>5
    <3> QED BY <1>5, <3>3, <3>6
  <2>5. t.fragments[i].len \in Nat
    BY <1>11 DEF TxFragmentType
  <2>6. x + 1 \in 0 .. m /\ x + 1 <= k + 1 /\ (k + 1) - (x + 1) = k - x
    BY <1>2, <1>5
  <2>7. 5 * (k - x) <= u.est /\ u.est <= writeSize /\ m <= Len(u.tx.fragments)
    <3> DEFINE d == 5 * (k - x)
               len == t.fragments[i].len
    <3>1. d \in Int /\ d <= w.est /\ len \in Nat
      BY <1>2, <2>5
    <3> HIDE DEF d, len
    <3>2. d <= w.est + 4 + len /\ w.est + 4 + len <= writeSize
      BY <1>1, <1>14, <3>1 DEF len
    <3> QED BY <1>2, <2>3, <3>2 DEF d, len
  <2>8. \E y \in 0 .. m :
         /\ y <= k + 1 /\ 5 * ((k + 1) - y) <= u.est /\ (y < k + 1 => u.est <= writeSize)
         /\ m <= Len(u.tx.fragments)
         /\ Flagged(u.tx) \subseteq y + 1 .. m
    BY <2>4, <2>6, <2>7
  <2>9. u.status # "raised"
    BY <2>3
  <2>10. PassSound(u, k + 1, m, n, a, j, writeSize)
    BY <2>3, <2>8, <2>9 DEF PassSound
  <2> QED BY <2>10 DEF u, i
<1> QED BY <1>13, <1>14

\* Any pass.
LEMMA WriteStepSound ==
  ASSUME NEW w, NEW k \in Nat, NEW m \in Nat, NEW n, NEW a, NEW j, NEW writeSize \in Nat,
         PassSound(w, k, m, n, a, j, writeSize)
  PROVE  PassSound(WriteStep(w, writeSize), k + 1, m, n, a, j, writeSize)
<1> DEFINE u == WriteStep(w, writeSize)
<1>1. CASE w.status # "building"
  <2>1. u = w
    BY <1>1 DEF WriteStep
  <2>2. PassSound(w, k + 1, m, n, a, j, writeSize)
    BY <1>1 DEF PassSound
  <2> QED BY <2>1, <2>2
<1>2. CASE w.status = "building" /\ Flagged(w.tx) = {}
  <2>1. u = WriteNew(w, writeSize)
    BY <1>2 DEF WriteStep, Flagged
  <2> HIDE DEF u
  <2> QED BY <1>2, <2>1, WriteNewSound DEF u
<1>3. CASE w.status = "building" /\ Flagged(w.tx) # {}
  <2>1. u = WriteFlagged(w, Min(Flagged(w.tx)), writeSize)
    BY <1>3 DEF WriteStep, Flagged
  <2> HIDE DEF u
  <2> QED BY <1>3, <2>1, WriteFlaggedSound DEF u
<1> QED BY <1>1, <1>2, <1>3

-----------------------------------------------------------------------------
(* What becomes of a piece of a message once it is cut.                     *)

\* The piece of a message in a fragment or packet.
Piece(f) == [msg |-> f.msg, off |-> f.off, len |-> f.len]

\* The fragments gs go on from fs: what was cut stays as it is.
Extends(fs, gs) ==
  Len(fs) <= Len(gs) /\ \A i \in 1 .. Len(fs) : Piece(gs[i]) = Piece(fs[i])

\* The data packets are those of fragments.
Carries(data, fs) ==
  \A k \in 1 .. Len(data) : data[k].type = "data" =>
    \E i \in 1 .. Len(fs) : Piece(data[k]) = Piece(fs[i])

\* Extending keeps what packets carry, and can be repeated.
LEMMA ExtendsOn ==
  ASSUME NEW fs, NEW gs, NEW hs, Len(fs) \in Nat, Len(gs) \in Nat, Len(hs) \in Nat,
         Extends(fs, gs), NEW data
  PROVE  /\ Carries(data, fs) => Carries(data, gs)
         /\ Extends(gs, hs) => Extends(fs, hs)
<1>1. \A i \in 1 .. Len(fs) : i \in 1 .. Len(gs) /\ Piece(gs[i]) = Piece(fs[i])
  BY DEF Extends
<1>2. Carries(data, fs) => Carries(data, gs)
  <2> SUFFICES ASSUME Carries(data, fs), NEW k \in 1 .. Len(data), data[k].type = "data"
               PROVE  \E i \in 1 .. Len(gs) : Piece(data[k]) = Piece(gs[i])
    BY DEF Carries
  <2>1. PICK i \in 1 .. Len(fs) : Piece(data[k]) = Piece(fs[i])
    BY DEF Carries
  <2> QED BY <1>1, <2>1
<1>3. Extends(gs, hs) => Extends(fs, hs)
  BY <1>1 DEF Extends
<1> QED BY <1>2, <1>3

\* Fragments whose places are the same are the same pieces.
LEMMA SamePlacesExtends ==
  ASSUME NEW t, NEW u, SamePlaces(t, u), Len(t.fragments) \in Nat
  PROVE  Extends(t.fragments, u.fragments) /\ Extends(u.fragments, t.fragments)
BY DEF SamePlaces, Extends, Piece

\* A pass of the data loop that comes from w to u leaves what was cut and written.
Follows(w, u) ==
  /\ Extends(w.tx.fragments, u.tx.fragments)
  /\ Carries(w.data, w.tx.fragments) => Carries(u.data, u.tx.fragments)

\* So does the writing of a fragment ...
LEMMA WriteFragmentFollows ==
  ASSUME NEW w \in PassType, NEW n, NEW a, NEW j, NEW t, TxSound(t, n, a, j),
         NEW i \in DOMAIN t.fragments
  PROVE  LET u == WriteFragment(w, t, i)
         IN /\ Extends(t.fragments, u.tx.fragments)
            /\ Carries(w.data, t.fragments) => Carries(u.data, u.tx.fragments)
<1> DEFINE u  == WriteFragment(w, t, i)
           fs == t.fragments
           f  == [fs[i] EXCEPT !.timer = "armed"]
           v  == [t EXCEPT !.fragments = [fs EXCEPT ![i] = f]]
           p  == DataPacket(fs[i])
<1>1. t \in TxType /\ fs \in Seq(TxFragmentType) /\ i \in 1 .. Len(fs) /\ Len(fs) \in Nat
  BY SoundNumbers DEF TxSound
<1>2. fs[i] \in TxFragmentType
  BY <1>1
<1>3. /\ f \in TxFragmentType /\ f.seq = fs[i].seq /\ f.msgSize = fs[i].msgSize
      /\ f.msg = fs[i].msg /\ f.off = fs[i].off /\ f.len = fs[i].len
  BY <1>2 DEF TxFragmentType
<1>4. FragmentSound(fs[i])
  BY <1>1 DEF TxSound, TileFrom
<1>5. u = [w EXCEPT !.tx = v, !.est = @ + 4 + fs[i].len,
                    !.data = Append(@, DataPacket(fs[i]))]
  BY <1>1 DEF WriteFragment, TxType
<1>6. p \in SoundPacket /\ Piece(p) = Piece(fs[i])
  <2>1. p \in SoundPacket
    BY <1>2, <1>4, DataPacketSound
  <2>2. p.msg = fs[i].msg /\ p.off = fs[i].off /\ p.len = fs[i].len
    BY DEF DataPacket
  <2> QED BY <2>1, <2>2 DEF Piece
<1> HIDE DEF f, p
<1>7. SamePlaces(t, v)
  BY <1>3, ReplacedFragment
<1> HIDE DEF v
<1>8. Extends(fs, v.fragments) /\ Len(v.fragments) \in Nat
  BY <1>1, <1>7, SamePlacesExtends DEF SamePlaces
<1>9. u.tx = v /\ u.data = Append(w.data, p) /\ w.data \in Seq(SoundPacket)
  BY <1>5 DEF PassType, p
<1> HIDE DEF u, fs
<1>10. ASSUME Carries(w.data, fs) PROVE Carries(Append(w.data, p), fs)
  <2> SUFFICES ASSUME NEW k \in 1 .. Len(Append(w.data, p)), Append(w.data, p)[k].type = "data"
               PROVE  \E l \in 1 .. Len(fs) : Piece(Append(w.data, p)[k]) = Piece(fs[l])
    BY DEF Carries
  <2> DEFINE data == w.data
  <2>1. data \in Seq(SoundPacket) /\ Len(data) \in Nat
    BY <1>9
  <2> HIDE DEF data
  <2>2. Len(Append(data, p)) = Len(data) + 1 /\ k \in 1 .. Len(data) + 1
        /\ Append(data, p)[k] = IF k = Len(data) + 1 THEN p ELSE data[k]
    BY <1>6, <2>1 DEF data
  <2>3. CASE k = Len(data) + 1
    BY <1>1, <1>6, <2>2, <2>3 DEF data, fs
  <2>4. CASE k # Len(data) + 1
    <3>1. k \in 1 .. Len(data) /\ Append(data, p)[k] = data[k]
      BY <2>1, <2>2, <2>4
    <3> QED BY <1>10, <3>1 DEF Carries, data
  <2> QED BY <2>3, <2>4
<1>11. Carries(w.data, fs) => Carries(Append(w.data, p), v.fragments)
  BY <1>1, <1>8, <1>10, ExtendsOn DEF fs
<1> QED BY <1>8, <1>9, <1>11 DEF u, fs

\* ... a pass that makes one ...
LEMMA WriteNewFollows ==
  ASSUME NEW w, NEW k \in Nat, NEW m \in Nat, NEW n, NEW a, NEW j, NEW writeSize \in Nat,
         PassSound(w, k, m, n, a, j, writeSize)
  PROVE  Follows(w, WriteNew(w, writeSize))
<1> DEFINE avail == writeSize - w.est
           fs    == w.tx.fragments
           new   == MakeFragment(w.tx, avail)
           t     == [new.tx EXCEPT !.fragments = Append(@, new.frag)]
           Made(c) ==
             CASE c.kind = "none"   -> [w EXCEPT !.tx = c.tx, !.status = "done"]
               [] c.kind = "raised" -> [w EXCEPT !.tx = c.tx, !.status = "raised"]
               [] c.kind = "frag"   ->
                    WriteFragment(w, [c.tx EXCEPT !.fragments = Append(@, c.frag)],
                                  Len(c.tx.fragments) + 1)
           u     == WriteNew(w, writeSize)
<1>1. w \in PassType /\ TxSound(w.tx, n, a, j) /\ w.est \in Nat
      /\ fs \in Seq(TxFragmentType) /\ Len(fs) \in Nat
  BY SoundNumbers DEF PassSound, PassType
<1>2. avail \in Int
  BY <1>1
<1>3. u = Made(new)
  <2>1. u = CHOOSE r \in {Made(x) : x \in {new}} : TRUE
    BY DEF WriteNew, Strictly
  <2> HIDE DEF Made, u, new
  <2> QED BY <2>1
<1>4. \/ /\ new.kind \in {"none", "raised"} /\ new.tx.fragments = fs
      \/ /\ new.kind = "frag"
         /\ TxSound(t, n, a, j) /\ new.tx.fragments = fs
         /\ new.tx \in TxType /\ new.frag \in TxFragmentType
  <2> HIDE DEF avail
  <2> QED BY <1>1, <1>2, MakeFragmentSound
<1> HIDE DEF new, u
<1>5. CASE new.kind \in {"none", "raised"}
  <2>1. u = [w EXCEPT !.tx = new.tx, !.status = u.status]
    BY <1>1, <1>3, <1>5 DEF PassType
  <2>2. u.tx.fragments = fs /\ u.data = w.data
    BY <1>1, <1>4, <1>5, <2>1 DEF PassType
  <2> QED BY <1>1, <2>2 DEF Follows, Extends, u
<1>6. CASE new.kind = "frag"
  <2> DEFINE i == Len(fs) + 1
  <2>1. u = WriteFragment(w, t, i) /\ t.fragments = Append(fs, new.frag)
    BY <1>3, <1>4, <1>6 DEF TxType
  <2>2. TxSound(t, n, a, j) /\ new.frag \in TxFragmentType
    BY <1>4, <1>6
  <2> HIDE DEF t, fs
  <2>3. /\ Len(t.fragments) = i /\ i \in DOMAIN t.fragments
        /\ \A l \in 1 .. Len(fs) : t.fragments[l] = fs[l]
    BY <1>1, <2>1, <2>2
  <2>4. Extends(fs, t.fragments)
    BY <1>1, <2>3 DEF Extends
  <2>5. /\ Extends(t.fragments, u.tx.fragments)
        /\ Carries(w.data, t.fragments) => Carries(u.data, u.tx.fragments)
    <3> HIDE DEF i
    <3> QED BY <1>1, <2>1, <2>2, <2>3, WriteFragmentFollows
  <2>6. Len(u.tx.fragments) \in Nat
    <3> HIDE DEF i
    <3>1. Written(u, w, t, i, n, a, j)
      BY <1>1, <2>1, <2>2, <2>3, WriteFragmentSound
    <3>2. u.tx.fragments \in Seq(TxFragmentType)
      BY <3>1, SoundNumbers DEF Written
    <3> QED BY <3>2
  <2>7. Len(t.fragments) \in Nat
    BY <1>1, <2>3
  <2>8. /\ Carries(w.data, fs) => Carries(w.data, t.fragments)
        /\ Extends(fs, u.tx.fragments)
    BY <1>1, <2>4, <2>5, <2>6, <2>7, ExtendsOn
  <2> QED BY <2>5, <2>8 DEF Follows, u, fs
<1> QED BY <1>4, <1>5, <1>6

\* ... one that finds one flagged ...
LEMMA WriteFlaggedFollows ==
  ASSUME NEW w, NEW k \in Nat, NEW m \in Nat, NEW n, NEW a, NEW j, NEW writeSize \in Nat,
         PassSound(w, k, m, n, a, j, writeSize), NEW i \in DOMAIN w.tx.fragments
  PROVE  Follows(w, WriteFlagged(w, i, writeSize))
<1> DEFINE fs == w.tx.fragments
           f  == [fs[i] EXCEPT !.needSend = FALSE]
           t  == [w.tx EXCEPT !.fragments = [fs EXCEPT ![i] = f]]
           u  == WriteFlagged(w, i, writeSize)
<1>1. w \in PassType /\ TxSound(w.tx, n, a, j) /\ fs \in Seq(TxFragmentType)
      /\ Len(fs) \in Nat /\ w.tx \in TxType
  BY SoundNumbers DEF PassSound, TxSound
<1>2. /\ f \in TxFragmentType
      /\ LET e == fs[i]
         IN f.seq = e.seq /\ f.msgSize = e.msgSize /\ f.msg = e.msg /\ f.off = e.off
              /\ f.len = e.len
  <2>1. fs[i] \in TxFragmentType
    BY <1>1
  <2> QED BY <2>1 DEF TxFragmentType
<1>3. t = [w.tx EXCEPT !.fragments[i].needSend = FALSE]
  BY <1>1 DEF TxType
<1> HIDE DEF f
<1>4. SamePlaces(w.tx, t)
  BY <1>1, <1>2, ReplacedFragment
<1>5. TxSound(t, n, a, j) /\ Len(t.fragments) = Len(fs) /\ i \in DOMAIN t.fragments
  <2>1. TxSound(t, n, a, j) /\ Len(t.fragments) = Len(fs)
    BY <1>1, <1>4, SamePlacesSound DEF SamePlaces
  <2>2. t.fragments \in Seq(TxFragmentType)
    BY <2>1, SoundNumbers
  <2> HIDE DEF t
  <2> QED BY <1>1, <2>1, <2>2
<1>6. u = IF w.est + 4 + t.fragments[i].len > writeSize
          THEN [w EXCEPT !.tx = t, !.status = "done"]
          ELSE WriteFragment(w, t, i)
  BY <1>3 DEF WriteFlagged
<1> HIDE DEF t, u
<1>7. Extends(fs, t.fragments)
  BY <1>1, <1>4, SamePlacesExtends
<1>8. CASE w.est + 4 + t.fragments[i].len > writeSize
  <2>1. u.tx = t /\ u.data = w.data
    BY <1>1, <1>6, <1>8 DEF PassType
  <2>2. Carries(w.data, fs) => Carries(w.data, t.fragments)
    BY <1>1, <1>5, <1>7, ExtendsOn
  <2> QED BY <1>7, <2>1, <2>2 DEF Follows, u
<1>9. CASE ~(w.est + 4 + t.fragments[i].len > writeSize)
  <2>1. u = WriteFragment(w, t, i)
    BY <1>6, <1>9
  <2>2. /\ Extends(t.fragments, u.tx.fragments)
        /\ Carries(w.data, t.fragments) => Carries(u.data, u.tx.fragments)
    BY <1>1, <1>5, <2>1, WriteFragmentFollows
  <2>3. Len(u.tx.fragments) \in Nat
    <3>1. Written(u, w, t, i, n, a, j)
      BY <1>1, <1>5, <2>1, WriteFragmentSound
    <3>2. u.tx.fragments \in Seq(TxFragmentType)
      BY <3>1, SoundNumbers DEF Written
    <3> QED BY <3>2
  <2>4. /\ Carries(w.data, fs) => Carries(w.data, t.fragments)
        /\ Extends(fs, u.tx.fragments)
    BY <1>1, <1>5, <1>7, <2>2, <2>3, ExtendsOn
  <2> QED BY <2>2, <2>4 DEF Follows, u
<1> QED BY <1>8, <1>9

\* ... and so any pass.
LEMMA WriteStepFollows ==
  ASSUME NEW w, NEW k \in Nat, NEW m \in Nat, NEW n, NEW a, NEW j, NEW writeSize \in Nat,
         PassSound(w, k, m, n, a, j, writeSize)
  PROVE  Follows(w, WriteStep(w, writeSize))
<1> DEFINE u == WriteStep(w, writeSize)
<1>1. Len(w.tx.fragments) \in Nat
  BY SoundNumbers DEF PassSound
<1>2. CASE w.status # "building"
  <2>1. u = w
    BY <1>2 DEF WriteStep
  <2> QED BY <1>1, <2>1 DEF Follows, Extends
<1>3. CASE w.status = "building" /\ Flagged(w.tx) = {}
  <2>1. u = WriteNew(w, writeSize)
    BY <1>3 DEF WriteStep, Flagged
  <2> HIDE DEF u
  <2> QED BY <2>1, WriteNewFollows DEF u
<1>4. CASE w.status = "building" /\ Flagged(w.tx) # {}
  <2>1. u = WriteFlagged(w, Min(Flagged(w.tx)), writeSize)
    BY <1>4 DEF WriteStep, Flagged
  <2>2. Min(Flagged(w.tx)) \in DOMAIN w.tx.fragments
    <3>1. w.tx.fragments \in Seq(TxFragmentType)
      BY SoundNumbers DEF PassSound
    <3> DEFINE T == Flagged(w.tx)
    <3>2. T \subseteq Nat /\ T # {} /\ T \subseteq DOMAIN w.tx.fragments
      BY <1>4, <3>1 DEF Flagged
    <3> HIDE DEF T
    <3>3. Min(T) \in T
      BY <3>2, LeastOf
    <3> QED BY <3>2, <3>3 DEF T
  <2> HIDE DEF u
  <2> QED BY <2>1, <2>2, WriteFlaggedFollows DEF u
<1> QED BY <1>2, <1>3, <1>4

-----------------------------------------------------------------------------
Writing == INSTANCE FoldFacts WITH Op <- WriteStep

\* The whole of get_write_data ends, leaves the places sound and the fragments cut
\* as they were, and writes fragments.
LEMMA GetWriteDataSound ==
  ASSUME NEW t, NEW n, NEW a, NEW j, TxSound(t, n, a, j), HeadUncut(t, n),
         NEW writeSize \in Nat
  PROVE  LET w == GetWriteData(t, writeSize)
         IN /\ TxSound(w.tx, n, a, j) /\ HeadUncut(w.tx, n)
            /\ w.status \in {"done", "raised"}
            /\ w.status = "raised" => w.tx.messages # <<>>
            /\ w.data \in Seq(SoundPacket)
            /\ Extends(t.fragments, w.tx.fragments)
            /\ Carries(w.data, w.tx.fragments)
<1> DEFINE w     == GetWriteData(t, writeSize)
           ps    == t.packets
           fits  == FittingPackets(ps, writeSize)
           taken == IF fits < Len(ps) THEN fits + 1 ELSE fits
           rest  == SubSeq(ps, taken + 1, Len(ps))
           v     == [t EXCEPT !.packets = rest]
           start == [tx     |-> v,
                     est    |-> PacketsSize(SubSeq(ps, 1, fits)),
                     data   |-> SubSeq(ps, 1, fits),
                     status |-> IF taken > fits THEN "done" ELSE "building"]
           m     == Len(t.fragments)
           turns == m + writeSize \div 5 + 1
           sizes == [i \in 1 .. turns |-> writeSize]
<1>1. t \in TxType /\ ps \in Seq(CtrlPacketType) /\ Len(ps) \in Nat /\ m \in Nat
      /\ t.fragments \in Seq(TxFragmentType)
  BY SoundNumbers DEF TxSound, TxType
<1>2. fits \in 0 .. Len(ps)
  BY <1>1, FittingPacketsType
<1>3. w = Fold(WriteStep, start, sizes)
  BY <1>1 DEF GetWriteData, TxType
<1> HIDE DEF fits, w
<1>4. rest \in Seq(CtrlPacketType) /\ SubSeq(ps, 1, fits) \in Seq(CtrlPacketType)
  BY <1>1, <1>2
<1> HIDE DEF rest
<1>5. SamePlaces(t, v) /\ v.fragments = t.fragments
  <2>1. SamePlaces(t, v)
    BY <1>4, PacketsSound
  <2> QED BY <1>1, <2>1
<1>6. TxSound(v, n, a, j) /\ HeadUncut(v, n) /\ v \in TxType
  BY <1>5, SamePlacesSound DEF TxSound
<1> HIDE DEF v
<1>7. start \in PassType /\ start.tx = v /\ start.status # "raised"
  <2>1. SubSeq(ps, 1, fits) \in Seq(SoundPacket)
    BY <1>1, <1>2, <1>4 DEF SoundPacket
  <2>2. PacketsSize(SubSeq(ps, 1, fits)) \in Nat
    BY <1>4, PacketsSizeType
  <2> QED BY <1>6, <2>1, <2>2 DEF PassType
<1>8. start.est \in Nat
  BY <1>7 DEF PassType
<1>22. Carries(start.data, t.fragments)
  <2>1. start.data \in Seq(CtrlPacketType)
    BY <1>4
  <2> HIDE DEF start
  <2>2. \A k \in 1 .. Len(start.data) : start.data[k] \in CtrlPacketType
    BY <2>1
  <2> QED BY <2>2 DEF Carries, CtrlPacketType
<1> HIDE DEF start
<1>9. Flagged(start.tx) \subseteq 0 + 1 .. m
  BY <1>1, <1>5, <1>7 DEF Flagged
<1>10. PassSound(start, 0, m, n, a, j, writeSize)
  <2>1. 0 \in 0 .. m /\ 0 <= 0 /\ 5 * (0 - 0) <= start.est /\ ~(0 < 0)
        /\ m <= Len(start.tx.fragments)
    BY <1>1, <1>5, <1>7, <1>8
  <2> HIDE DEF m
  <2> QED BY <1>6, <1>7, <1>9, <2>1 DEF PassSound
<1>11. turns \in Nat /\ m < turns /\ 5 * (turns - m) > writeSize
  <2> DEFINE q == writeSize \div 5
  <2>1. q \in Nat /\ writeSize < 5 * q + 5
    OBVIOUS
  <2> HIDE DEF q, m
  <2>2. turns = m + q + 1
    BY DEF q
  <2> HIDE DEF turns
  <2> QED BY <1>1, <2>1, <2>2 DEF m
<1> HIDE DEF m, turns
<1>12. Len(sizes) = turns /\ \A k \in 1 .. turns : sizes[k] = writeSize
  BY <1>11
<1> HIDE DEF sizes
<1>13. Len(sizes) \in Nat
  BY <1>11, <1>12
<1>14. PICK g : /\ g[0] = start
                /\ \A k \in 1 .. Len(sizes) : g[k] = WriteStep(g[k - 1], sizes[k])
                /\ Writing!Folded(start, sizes) = g[Len(sizes)]
  BY <1>13, Writing!FoldSteps
<1>15. w = g[turns]
  BY <1>3, <1>12, <1>14 DEF Fold, Writing!Folded
<1> DEFINE T == {k \in 0 .. turns : /\ PassSound(g[k], k, m, n, a, j, writeSize)
                                    /\ Extends(t.fragments, g[k].tx.fragments)
                                    /\ Carries(g[k].data, g[k].tx.fragments)}
<1>16. 0 \in T
  <2>1. Len(t.fragments) \in Nat
    BY <1>1
  <2>2. Extends(t.fragments, t.fragments) /\ start.tx.fragments = t.fragments
    BY <1>5, <1>7, <2>1 DEF Extends
  <2> QED BY <1>10, <1>11, <1>14, <1>22, <2>2
<1>17. ASSUME NEW k \in 1 .. turns, k - 1 \in T PROVE k \in T
  <2>1. g[k] = WriteStep(g[k - 1], writeSize)
    BY <1>12, <1>14
  <2>2. PassSound(g[k - 1], k - 1, m, n, a, j, writeSize) /\ k - 1 \in Nat
    BY <1>17
  <2>3. PassSound(WriteStep(g[k - 1], writeSize), (k - 1) + 1, m, n, a, j, writeSize)
    BY <2>2, <1>1, WriteStepSound DEF m
  <2>4. (k - 1) + 1 = k
    OBVIOUS
  <2> DEFINE v0 == g[k - 1]
             v1 == g[k]
  <2>5. Follows(v0, v1) /\ m \in Nat
    BY <1>1, <2>1, <2>2, WriteStepFollows DEF m
  <2>6. PassSound(v1, k, m, n, a, j, writeSize)
    BY <2>1, <2>3, <2>4
  <2>7. Len(t.fragments) \in Nat /\ Len(v0.tx.fragments) \in Nat /\ Len(v1.tx.fragments) \in Nat
    <3>1. v0.tx.fragments \in Seq(TxFragmentType) /\ v1.tx.fragments \in Seq(TxFragmentType)
      BY <2>2, <2>6, SoundNumbers DEF PassSound
    <3> QED BY SMTT(20), <1>1, <3>1
  <2>8. Extends(t.fragments, v0.tx.fragments) /\ Carries(v0.data, v0.tx.fragments)
    BY <1>17
  <2> HIDE DEF v0, v1
  <2>9. Extends(t.fragments, v1.tx.fragments) /\ Carries(v1.data, v1.tx.fragments)
    BY <2>5, <2>7, <2>8, ExtendsOn DEF Follows
  <2> QED BY <2>6, <2>9 DEF v1
<1> HIDE DEF T
<1>18. turns \in T
  BY <1>11, <1>16, <1>17, Adding!HoldsToTheEnd
<1>19. PassSound(w, turns, m, n, a, j, writeSize) /\ Extends(t.fragments, w.tx.fragments)
       /\ Carries(w.data, w.tx.fragments)
  BY <1>15, <1>18 DEF T
<1>20. w.status # "building"
  <2> SUFFICES ASSUME w.status = "building" PROVE FALSE
    OBVIOUS
  <2>1. PICK x \in 0 .. m :
         x <= turns /\ 5 * (turns - x) <= w.est /\ (x < turns => w.est <= writeSize)
    BY <1>19 DEF PassSound
  <2>2. w.est \in Nat /\ m \in Nat
    BY <1>1, <1>19 DEF PassSound, PassType, m
  <2>3. w.est <= writeSize
    BY <1>11, <2>1, <2>2
  <2>4. 5 * (turns - m) <= 5 * (turns - x)
    BY <1>11, <2>1, <2>2
  <2> DEFINE p == 5 * (turns - m)
             q == 5 * (turns - x)
  <2>5. p \in Int /\ q \in Int
    BY <1>11, <2>1, <2>2
  <2>6. p <= q /\ q <= w.est /\ p > writeSize
    BY <1>11, <2>1, <2>4
  <2> HIDE DEF p, q
  <2> QED BY <2>2, <2>3, <2>5, <2>6
<1>21. w \in PassType
  BY <1>19 DEF PassSound
<1> QED BY <1>19, <1>20, <1>21 DEF PassSound, PassType, w

-----------------------------------------------------------------------------
(* handle_ack.                                                              *)

\* Where the first k fragments end.
Reached(fs, a, k) == IF k = 0 THEN a ELSE PositionOf(fs[k]) + fs[k].len

\* The ends of the fragments, one after the other, each inside one message.
LEMMA TileNumbers ==
  ASSUME NEW fs \in Seq(TxFragmentType), NEW a \in Nat, NEW c, TileFrom(fs, a, c)
  PROVE  /\ Len(fs) \in Nat /\ c = Reached(fs, a, Len(fs)) /\ Reached(fs, a, 0) = a
         /\ \A k \in 0 .. Len(fs) :
              Reached(fs, a, k) \in Nat /\ a <= Reached(fs, a, k) /\ Reached(fs, a, k) <= c
         /\ \A k \in 1 .. Len(fs) :
              /\ PositionOf(fs[k]) = Reached(fs, a, k - 1)
              /\ Reached(fs, a, k - 1) < Reached(fs, a, k)
              /\ FragEnd(fs[k]) = At(Reached(fs, a, k))
              /\ fs[k].msg \in Message
              /\ BytesBefore(fs[k].msg - 1) <= Reached(fs, a, k - 1)
              /\ Reached(fs, a, k) <= BytesBefore(fs[k].msg)
<1> DEFINE m == Len(fs)
           R(k) == Reached(fs, a, k)
<1>1. m \in Nat /\ R(0) = a /\ \A k \in 1 .. m : R(k) = PositionOf(fs[k]) + fs[k].len
  BY DEF Reached
<1>2. c = R(m)
  <2>1. CASE fs = <<>>
    BY <2>1 DEF TileFrom, Reached
  <2>2. CASE fs # <<>>
    <3>1. m # 0
      BY <2>2, EmptySeq
    <3> QED BY <2>2, <3>1 DEF TileFrom, Reached
  <2> QED BY <2>1, <2>2
<1>3. ASSUME NEW k \in 1 .. m
      PROVE  /\ PositionOf(fs[k]) = R(k - 1) /\ PositionOf(fs[k]) \in Nat
             /\ fs[k].len \in Nat \ {0} /\ R(k) = PositionOf(fs[k]) + fs[k].len
             /\ R(k) \in Nat /\ R(k - 1) < R(k)
             /\ FragEnd(fs[k]) = At(R(k)) /\ fs[k].msg \in Message
             /\ BytesBefore(fs[k].msg - 1) <= R(k - 1)
             /\ R(k) <= BytesBefore(fs[k].msg)
  <2> DEFINE f == fs[k]
             p == PositionOf(f)
  <2>1. f \in TxFragmentType /\ FragmentSound(f)
    BY DEF TileFrom
  <2>2. f.msg \in 1 .. Len(MsgSize) /\ f.off \in Nat /\ f.len \in Nat \ {0}
        /\ f.off + f.len <= MsgSize[f.msg] /\ f.seq = At(p)
    BY <2>1 DEF FragmentSound, TxFragmentType, Message
  <2>3. p = R(k - 1)
    <3>1. CASE k = 1
      BY <1>1, <3>1 DEF TileFrom
    <3>2. CASE k # 1
      <4>1. k - 1 \in 1 .. m
        BY <1>1, <3>2
      <4> QED BY <1>1, <3>2, <4>1 DEF TileFrom
    <3> QED BY <3>1, <3>2
  <2> DEFINE b == BytesBefore(f.msg - 1)
             z == MsgSize[f.msg]
             o == f.off
             l == f.len
  <2>4. b \in Nat /\ z \in Nat /\ BytesBefore(f.msg) = b + z
    <3> DEFINE q == f.msg
    <3>1. q \in 1 .. Len(MsgSize) /\ q - 1 \in 0 .. Len(MsgSize)
      BY <2>2, MessageSizes
    <3> HIDE DEF q
    <3>2. MsgSize[q] \in Nat /\ BytesBefore(q - 1) \in Nat
      BY <3>1, MessageSizes, BytesBeforeType
    <3>3. BytesBefore(q) = BytesBefore(q - 1) + MsgSize[q]
      BY <3>1, BytesBeforeStep
    <3> QED BY <3>2, <3>3 DEF q
  <2>5. p = b + o
    BY DEF PositionOf
  <2>6. FragEnd(f) = SeqAdd(At(p), l) /\ R(k) = p + l
    BY <1>1, <2>2 DEF FragEnd
  <2>7. f.msg \in Message
    BY <2>2 DEF Message
  <2>8. o \in Nat /\ l \in Nat \ {0} /\ o + l <= z
    BY <2>2
  <2> HIDE DEF R, b, z, o, l, p
  <2>9. p \in Nat /\ p + l \in Nat /\ p < p + l /\ b <= p /\ p + l <= b + z
    BY <2>4, <2>5, <2>8
  <2>10. SeqAdd(At(p), l) = At(p + l)
    BY <2>8, <2>9, AtShift
  <2> QED BY <2>3, <2>4, <2>6, <2>7, <2>8, <2>9, <2>10 DEF p, b, l
<1>4. \A k \in 0 .. m : R(k) \in Nat
  <2> SUFFICES ASSUME NEW k \in 0 .. m PROVE R(k) \in Nat
    OBVIOUS
  <2>1. k = 0 \/ k \in 1 .. m
    BY <1>1
  <2> QED BY <1>1, <1>3, <2>1
<1> HIDE DEF R
<1> DEFINE T == {k \in 0 .. m : \A l \in 0 .. k : R(l) <= R(k)}
<1>5. 0 \in T
  BY <1>1, <1>4
<1>6. ASSUME NEW k \in 1 .. m, k - 1 \in T PROVE k \in T
  <2> SUFFICES ASSUME NEW l \in 0 .. k PROVE R(l) <= R(k)
    BY <1>1
  <2>1. k \in 0 .. m /\ k - 1 \in 0 .. m
    BY <1>1
  <2>2. CASE l = k
    BY <2>1, <2>2, <1>4
  <2>3. CASE l \in 0 .. k - 1
    <3>1. R(l) <= R(k - 1) /\ R(k - 1) < R(k)
      BY <1>3, <1>6, <2>3
    <3>2. R(l) \in Nat /\ R(k - 1) \in Nat /\ R(k) \in Nat
      BY <1>4, <2>1
    <3> QED BY <3>1, <3>2
  <2> QED BY <2>2, <2>3
<1> HIDE DEF T, m
<1>7. \A k \in 0 .. m : k \in T
  BY <1>1, <1>5, <1>6, Adding!HoldsToTheEnd
<1>8. \A k \in 0 .. m : a <= R(k) /\ R(k) <= c
  <2> SUFFICES ASSUME NEW k \in 0 .. m PROVE a <= R(k) /\ R(k) <= R(m)
    BY <1>2
  <2>1. k \in T /\ m \in T /\ 0 \in 0 .. k /\ k \in 0 .. m
    BY <1>1, <1>7
  <2> QED BY <2>1, <1>1 DEF T
<1> QED BY <1>1, <1>2, <1>3, <1>4, <1>8 DEF R, m

Passing == INSTANCE FoldFacts WITH Op <- PassEnd

\* The first i fragments reach over the ends of whole messages: as many as
\* EndsPassed counts.
LEMMA EndsPassedSound ==
  ASSUME NEW t, NEW n, NEW a, NEW j, TxSound(t, n, a, j), NEW i \in 0 .. Len(t.fragments)
  PROVE  LET r == Reached(t.fragments, a, i)
             e == EndsPassed(t, i)
         IN /\ e \in 0 .. Loaded(t, n) - j
            /\ BytesBefore(j + e) <= r
            /\ j + e < Loaded(t, n) => r < BytesBefore(j + e + 1)
<1> DEFINE fs   == t.fragments
           h    == Loaded(t, n)
           c    == CutAt(t, n)
           R(k) == Reached(fs, a, k)
           ends == [k \in DOMAIN t.msgEnds |-> Rel(t, t.msgEnds[k])]
           tops == [k \in 1 .. i |-> Rel(t, FragEnd(fs[k]))]
           B(k) == BytesBefore(k)
<1>1. /\ fs \in Seq(TxFragmentType) /\ Len(fs) \in Nat /\ i \in Nat /\ i <= Len(fs)
      /\ h \in Nat /\ h <= Len(MsgSize) /\ Len(MsgSize) \in Nat
      /\ a \in Nat /\ c \in Nat /\ TileFrom(fs, a, c) /\ j \in 0 .. h
      /\ t.seq = At(a) /\ c - a <= SeqSpace - 1
  <2>1. /\ fs \in Seq(TxFragmentType) /\ h \in Nat /\ h <= n /\ n <= Len(MsgSize)
        /\ Len(MsgSize) \in Nat /\ n \in Nat
        /\ a \in Nat /\ c \in Nat /\ TileFrom(fs, a, c) /\ j \in 0 .. h
        /\ t.seq = At(a) /\ c <= a + Window
    <3>1. TileFrom(fs, a, c) /\ t.seq = At(a) /\ c <= a + Window /\ j \in 0 .. h
      BY DEF TxSound, EndsSound
    <3>2. /\ fs \in Seq(TxFragmentType) /\ h \in Nat /\ h <= n /\ n <= Len(MsgSize)
          /\ Len(MsgSize) \in Nat /\ n \in Nat /\ a \in Nat /\ c \in Nat
      BY SoundNumbers
    <3> QED BY <3>1, <3>2
  <2>2. Len(fs) \in Nat
    BY <2>1
  <2> HIDE DEF fs, h, c
  <2> QED BY <2>1, <2>2, SeqSpaceSize DEF fs
<1>2. /\ \A k \in 0 .. Len(fs) : R(k) \in Nat /\ a <= R(k) /\ R(k) <= c
      /\ \A k \in 1 .. Len(fs) :
           /\ R(k - 1) < R(k) /\ FragEnd(fs[k]) = At(R(k)) /\ fs[k].msg \in Message
           /\ B(fs[k].msg - 1) <= R(k - 1) /\ R(k) <= B(fs[k].msg)
  BY <1>1, TileNumbers
<1>3. R(0) = a
  BY DEF Reached
<1>4. \A k \in 0 .. h : B(k) \in Nat
  BY <1>1, BytesBeforeType
<1>5. \A k, l \in 0 .. h : k < l => B(k) < B(l)
  BY <1>1, BytesBeforeGrows
<1>6. B(h) <= c
  <2>1. c = B(h) + t.fragmented /\ t.fragmented \in Nat
    BY SoundNumbers DEF CutAt
  <2>2. h \in 0 .. h
    BY <1>1
  <2> HIDE DEF c, h, B
  <2> QED BY <1>4, <2>1, <2>2
<1>7. EndsSound(t, n, a, j)
  BY DEF TxSound
<1>8. Len(t.msgEnds) = h - j /\ DOMAIN t.msgEnds = 1 .. h - j
      /\ \A k \in 1 .. h - j : t.msgEnds[k] = At(B(j + k))
  <2>1. t.msgEnds \in Seq(0 .. SeqSpace - 1)
    BY SoundNumbers
  <2>2. DOMAIN t.msgEnds = 1 .. Len(t.msgEnds)
    BY <2>1
  <2> QED BY <1>7, <2>2 DEF EndsSound
<1>9. B(j) <= a /\ (j < h => a < B(j + 1))
  <2>1. h <= n /\ n \in Nat
    BY SoundNumbers
  <2>2. j < n => a < B(j + 1)
    BY <1>7 DEF EndsSound
  <2> HIDE DEF B, h
  <2>3. j < h => j < n
    BY <1>1, <2>1
  <2>4. B(j) <= a
    BY <1>7 DEF EndsSound, B
  <2> QED BY <2>2, <2>3, <2>4
<1>10. EndsPassed(t, i) = Len(ends) - Len(Fold(PassEnd, ends, tops))
  BY DEF EndsPassed
<1> HIDE DEF fs, h, c, R, B
<1>11. \A k \in 1 .. h - j : Rel(t, t.msgEnds[k]) = B(j + k) - a
  <2> SUFFICES ASSUME NEW k \in 1 .. h - j PROVE Rel(t, t.msgEnds[k]) = B(j + k) - a
    OBVIOUS
  <2>1. j + k \in 0 .. h /\ j + 1 \in 0 .. h /\ h \in 0 .. h /\ j < h
    BY <1>1
  <2>2. a < B(j + k)
    <3>1. k = 1 \/ j + 1 < j + k
      BY <1>1
    <3>2. B(j + 1) <= B(j + k)
      BY <1>4, <1>5, <2>1, <3>1
    <3> QED BY <1>1, <1>4, <1>9, <2>1, <3>2
  <2>3. B(j + k) <= c
    <3>1. j + k = h \/ j + k < h
      BY <2>1
    <3>2. B(j + k) <= B(h)
      BY <1>4, <1>5, <2>1, <3>1
    <3> QED BY <1>1, <1>4, <1>6, <2>1, <3>2
  <2>4. B(j + k) \in Nat /\ B(j + k) - a \in 0 .. SeqSpace - 1
    BY SMTT(20), <1>1, <1>4, <2>1, <2>2, <2>3, SeqSpaceSize
  <2>5. SeqSub(At(B(j + k)), At(a)) = B(j + k) - a
    BY <1>1, <2>4, SubAt
  <2> QED BY <1>1, <1>8, <2>5 DEF Rel
<1>12. \A k \in 1 .. Len(fs) : Rel(t, FragEnd(fs[k])) = R(k) - a
  <2> SUFFICES ASSUME NEW k \in 1 .. Len(fs) PROVE Rel(t, FragEnd(fs[k])) = R(k) - a
    OBVIOUS
  <2>1. R(k) \in Nat /\ a <= R(k) /\ R(k) <= c /\ FragEnd(fs[k]) = At(R(k))
    BY <1>1, <1>2
  <2>2. R(k) - a \in 0 .. SeqSpace - 1
    BY <1>1, <2>1, SeqSpaceSize
  <2>3. SeqSub(At(R(k)), At(a)) = R(k) - a
    BY <1>1, <2>1, <2>2, SubAt
  <2> QED BY <1>1, <2>1, <2>3 DEF Rel
<1>13. /\ Len(ends) = h - j /\ ends \in Seq(Int)
       /\ \A k \in 1 .. h - j : ends[k] = B(j + k) - a
  <2>1. ends = [k \in 1 .. h - j |-> B(j + k) - a]
    BY <1>8, <1>11
  <2>2. h - j \in Nat
    BY <1>1
  <2>3. \A k \in 1 .. h - j : B(j + k) - a \in Int
    <3> SUFFICES ASSUME NEW k \in 1 .. h - j PROVE B(j + k) - a \in Int
      OBVIOUS
    <3>1. j + k \in 0 .. h
      BY <1>1
    <3> QED BY <1>1, <1>4, <3>1
  <2> HIDE DEF ends
  <2> QED BY <2>1, <2>2, <2>3
<1>14. Len(tops) = i /\ \A k \in 1 .. i : tops[k] = R(k) - a
  BY <1>1, <1>12
<1> HIDE DEF ends, tops
<1>15. Len(tops) \in Nat
  BY <1>1, <1>14
<1>16. PICK g : /\ g[0] = ends
                /\ \A k \in 1 .. Len(tops) : g[k] = PassEnd(g[k - 1], tops[k])
                /\ Passing!Folded(ends, tops) = g[Len(tops)]
  BY <1>15, Passing!FoldSteps
<1>17. Fold(PassEnd, ends, tops) = g[i]
  BY <1>14, <1>16 DEF Fold, Passing!Folded
<1> DEFINE Left(l, k, e) ==
             /\ l \in Seq(Int) /\ Len(l) = h - j - e
             /\ \A x \in 1 .. h - j - e : l[x] = B(j + e + x) - a
             /\ B(j + e) <= R(k)
             /\ j + e < h => R(k) < B(j + e + 1)
           T == {k \in 0 .. i : \E e \in 0 .. h - j : Left(g[k], k, e)}
<1>18. 0 \in T
  <2>1. Left(g[0], 0, 0)
    BY <1>1, <1>3, <1>9, <1>13, <1>16
  <2>2. 0 \in 0 .. h - j /\ 0 \in 0 .. i
    BY <1>1
  <2> HIDE DEF Left
  <2> QED BY <2>1, <2>2
<1>19. ASSUME NEW k \in 1 .. i, k - 1 \in T PROVE k \in T
  <2> DEFINE l == g[k - 1]
             u == g[k]
  <2>1. PICK e \in 0 .. h - j : Left(l, k - 1, e)
    BY <1>19
  <2>2. u = IF l # <<>> /\ Head(l) <= R(k) - a THEN Tail(l) ELSE l
    BY <1>14, <1>16 DEF PassEnd
  <2> HIDE DEF l, u
  <2>3. k \in 1 .. Len(fs) /\ k \in 0 .. Len(fs) /\ k - 1 \in 0 .. Len(fs)
    BY <1>1
  <2>4. R(k) \in Nat /\ R(k - 1) \in Nat /\ R(k - 1) < R(k)
    BY <1>2, <2>3
  <2>5. e \in Nat /\ j + e \in 0 .. h /\ B(j + e) \in Nat /\ h - j - e \in Nat
    BY <1>1, <1>4
  <2>6. CASE l = <<>>
    <3>1. u = l /\ Len(l) = 0
      BY <2>2, <2>6
    <3>2. j + e = h
      BY <1>1, <2>1, <2>5, <3>1
    <3>3. Left(u, k, e)
      BY <1>1, <2>1, <2>4, <2>5, <3>1, <3>2
    <3> QED BY <3>3 DEF u
  <2>7. CASE l # <<>>
    <3>1. Len(l) # 0 /\ Head(l) = l[1] /\ l \in Seq(Int)
      BY <2>1, <2>7, EmptySeq
    <3>2. j + e < h /\ j + e + 1 \in 0 .. h /\ 1 \in 1 .. h - j - e
      BY <1>1, <2>1, <2>5, <3>1
    <3>3. B(j + e + 1) \in Nat /\ Head(l) = B(j + e + 1) - a /\ R(k - 1) < B(j + e + 1)
      BY <1>4, <2>1, <3>1, <3>2
    <3>4. CASE Head(l) <= R(k) - a
      <4>1. u = Tail(l)
        BY <2>2, <2>7, <3>4
      <4>2. B(j + e + 1) <= R(k)
        BY <1>1, <2>4, <3>3, <3>4
      <4>3. u \in Seq(Int) /\ Len(u) = h - j - (e + 1)
            /\ \A x \in 1 .. h - j - (e + 1) : u[x] = B(j + (e + 1) + x) - a
        <5>1. u \in Seq(Int) /\ Len(u) = Len(l) - 1
              /\ \A x \in 1 .. Len(l) - 1 : u[x] = l[x + 1]
          BY <2>7, <3>1, <4>1
        <5>2. Len(l) = h - j - e
          BY <2>1
        <5>3. h - j - (e + 1) = Len(l) - 1
          BY <1>1, <2>5, <5>2
        <5>4. ASSUME NEW x \in 1 .. h - j - (e + 1) PROVE u[x] = B(j + (e + 1) + x) - a
          <6>1. x \in 1 .. Len(l) - 1 /\ x + 1 \in 1 .. h - j - e
                /\ j + (e + 1) + x = j + e + (x + 1)
            BY <1>1, <2>5, <5>2, <5>3
          <6> QED BY <2>1, <5>1, <6>1
        <5> QED BY <5>1, <5>3, <5>4
      <4>4. j + (e + 1) < h => R(k) < B(j + (e + 1) + 1)
        <5> SUFFICES ASSUME j + (e + 1) < h PROVE R(k) < B(j + (e + 1) + 1)
          OBVIOUS
        <5> DEFINE m == fs[k].msg
        <5>1. m \in Message /\ B(m - 1) <= R(k - 1) /\ R(k) <= B(m)
          BY <1>2, <2>3
        <5>2. m \in 1 .. Len(MsgSize) /\ m - 1 \in 0 .. Len(MsgSize) /\ m \in 0 .. Len(MsgSize)
          BY SMTT(20), <1>1, <5>1 DEF Message
        <5> HIDE DEF m
        <5>3. j + e + 1 \in 0 .. Len(MsgSize) /\ j + (e + 1) + 1 \in 0 .. Len(MsgSize)
          BY <1>1, <2>5
        <5>4. B(m - 1) \in Nat /\ B(m) \in Nat /\ B(j + (e + 1) + 1) \in Nat
          BY <5>2, <5>3, BytesBeforeType DEF B
        <5>5. m - 1 < j + e + 1
          <6> SUFFICES ASSUME ~(m - 1 < j + e + 1) PROVE FALSE
            OBVIOUS
          <6>1. m - 1 = j + e + 1 \/ j + e + 1 < m - 1
            BY <5>2, <5>3
          <6>2. B(j + e + 1) <= B(m - 1)
            BY <3>3, <5>2, <5>3, <5>4, <6>1, BytesBeforeGrows DEF B
          <6> QED BY <2>4, <3>3, <5>1, <5>4, <6>2
        <5>6. m < j + (e + 1) + 1
          BY <1>1, <2>5, <5>2, <5>3, <5>5
        <5>7. B(m) < B(j + (e + 1) + 1)
          BY <5>2, <5>3, <5>6, BytesBeforeGrows DEF B
        <5> QED BY <2>4, <5>1, <5>4, <5>7
      <4>5. Left(u, k, e + 1)
        <5>1. j + (e + 1) = j + e + 1
          BY <1>1, <2>5
        <5> QED BY <4>2, <4>3, <4>4, <5>1
      <4>6. e + 1 \in 0 .. h - j
        BY <1>1, <2>5, <3>2
      <4> QED BY <4>5, <4>6 DEF u
    <3>5. CASE ~(Head(l) <= R(k) - a)
      <4>1. u = l
        BY <2>2, <3>5
      <4>2. R(k) < B(j + e + 1)
        BY <1>1, <2>4, <3>3, <3>5
      <4>3. B(j + e) <= R(k)
        BY <2>1, <2>4, <2>5
      <4>4. Left(u, k, e)
        BY <2>1, <4>1, <4>2, <4>3
      <4> QED BY <4>4 DEF u
    <3> QED BY <3>4, <3>5
  <2> QED BY <2>6, <2>7
<1>20. i \in T
  <2> HIDE DEF T
  <2>1. \A k \in 0 .. i : k \in T
    BY <1>1, <1>18, <1>19, Adding!HoldsToTheEnd
  <2> QED BY <1>1, <2>1
<1>21. PICK e \in 0 .. h - j : Left(g[i], i, e)
  BY <1>20
<1>22. EndsPassed(t, i) = e
  <2>1. Len(g[i]) = h - j - e
    BY <1>21
  <2> HIDE DEF Left
  <2> QED BY <1>1, <1>10, <1>13, <1>17, <2>1
<1> QED BY <1>21, <1>22 DEF h, R, B, fs

\* An ACK of any number, late or repeated ones included, is dropped or removes
\* whole fragments from the begin, up to the number it acknowledges.
LEMMA HandleAckSound ==
  ASSUME NEW t, NEW n, NEW a, NEW j, TxSound(t, n, a, j), HeadUncut(t, n),
         NEW s \in 0 .. SeqSpace - 1
  PROVE  LET u == HandleAck(t, s)
         IN /\ u.nSent \in Nat
            /\ \E b : TxSound(u.tx, n, b, j + u.nSent) /\ (b = a \/ (a <= b /\ s = At(b)))
            /\ HeadUncut(u.tx, n) /\ u.tx.messages = t.messages
            /\ CutAt(u.tx, n) = CutAt(t, n)
            /\ \A k \in 1 .. Len(u.tx.fragments) :
                 \E l \in 1 .. Len(t.fragments) : u.tx.fragments[k] = t.fragments[l]
<1> DEFINE fs   == t.fragments
           h    == Loaded(t, n)
           c    == CutAt(t, n)
           R(k) == Reached(fs, a, k)
           i    == FirstReaching(t, s)
           d    == SeqSub(s, At(a))
           u    == HandleAck(t, s)
<1>1. /\ fs \in Seq(TxFragmentType) /\ Len(fs) \in Nat /\ t \in TxType
      /\ a \in Nat /\ c \in Nat /\ TileFrom(fs, a, c) /\ t.seq = At(a)
      /\ a <= c /\ c <= a + Window /\ c - a <= SeqSpace - 1
  <2>1. /\ fs \in Seq(TxFragmentType) /\ a \in Nat /\ c \in Nat
    BY SoundNumbers
  <2>2. /\ TileFrom(fs, a, c) /\ t.seq = At(a) /\ a <= c /\ c <= a + Window /\ t \in TxType
    BY DEF TxSound
  <2>3. Len(fs) \in Nat
    BY <2>1
  <2> HIDE DEF fs, c
  <2> QED BY <2>1, <2>2, <2>3, SeqSpaceSize
<1>2. /\ c = R(Len(fs)) /\ R(0) = a
      /\ \A k \in 0 .. Len(fs) : R(k) \in Nat /\ a <= R(k) /\ R(k) <= c
      /\ \A k \in 1 .. Len(fs) :
           /\ R(k - 1) < R(k) /\ FragEnd(fs[k]) = At(R(k))
           /\ PositionOf(fs[k]) = R(k - 1)
  BY <1>1, TileNumbers
<1>3. d \in 0 .. SeqSpace - 1 /\ s = At(a + d) /\ Rel(t, s) = d
  BY <1>1, AheadOf DEF Rel
<1>4. Rel(t, FragmentedEnd(t)) = c - a
  BY SoundAcked
<1> HIDE DEF fs, h, c, R, d
<1>5. \A k \in 1 .. Len(fs) : Rel(t, FragEnd(fs[k])) = R(k) - a
  <2> SUFFICES ASSUME NEW k \in 1 .. Len(fs) PROVE Rel(t, FragEnd(fs[k])) = R(k) - a
    OBVIOUS
  <2>1. R(k) \in Nat /\ a <= R(k) /\ R(k) <= c /\ FragEnd(fs[k]) = At(R(k))
    BY <1>1, <1>2
  <2>2. R(k) - a \in 0 .. SeqSpace - 1
    BY <1>1, <2>1, SeqSpaceSize
  <2>3. SeqSub(At(R(k)), At(a)) = R(k) - a
    BY <1>1, <2>1, <2>2, SubAt
  <2> QED BY <1>1, <2>1, <2>3 DEF Rel
<1>6. CASE AckDropped(t, s)
  <2>1. u = [tx |-> t, nSent |-> 0]
    BY <1>6 DEF HandleAck
  <2> HIDE DEF u
  <2>2. u.nSent = 0 /\ u.tx = t
    BY <2>1
  <2>3. j + 0 = j
    BY SoundNumbers
  <2>4. TxSound(u.tx, n, a, j + u.nSent)
    BY <2>2, <2>3
  <2> QED BY <2>2, <2>4 DEF u
<1>7. CASE ~AckDropped(t, s)
  <2>1. d <= c - a /\ (i # 0 => FragEnd(fs[i]) = s)
    <3>1. ~(Rel(t, s) > Rel(t, FragmentedEnd(t))) /\ (i # 0 => FragEnd(fs[i]) = s)
      BY <1>7 DEF AckDropped, fs
    <3>2. ~(d > c - a)
      BY <1>3, <1>4, <3>1
    <3> QED BY <1>1, <1>3, <3>1, <3>2
  <2> DEFINE reaching == {k \in 1 .. Len(fs) : R(k) - a >= d}
  <2>2. i = IF reaching = {} THEN 0 ELSE Min(reaching)
    <3>1. {k \in DOMAIN fs : Rel(t, FragEnd(fs[k])) >= Rel(t, s)} = reaching
      BY <1>1, <1>3, <1>5
    <3> QED BY <3>1 DEF FirstReaching, fs
  <2>3. reaching = {} => Len(fs) = 0
    <3> SUFFICES ASSUME Len(fs) # 0 PROVE Len(fs) \in reaching
      OBVIOUS
    <3>1. Len(fs) \in 1 .. Len(fs)
      BY <1>1
    <3> QED BY <1>1, <1>2, <2>1, <3>1
  <2>4. reaching \subseteq Nat
    OBVIOUS
  <2>5. i \in 0 .. Len(fs) /\ (i = 0 => Len(fs) = 0)
    <3>1. CASE reaching = {}
      BY <1>1, <2>2, <2>3, <3>1
    <3>2. CASE reaching # {}
      <4>1. Min(reaching) \in reaching
        BY <2>4, <3>2, LeastOf
      <4> QED BY <1>1, <2>2, <3>2, <4>1
    <3> QED BY <3>1, <3>2
  <2> HIDE DEF reaching, i
  <2> DEFINE b == R(i)
             e == EndsPassed(t, i)
  <2>6. s = At(b) /\ b \in Nat /\ a <= b /\ b <= c
    <3>1. CASE i = 0
      <4>1. Len(fs) = 0 /\ c = a
        BY <1>2, <2>5, <3>1
      <4>2. d = 0
        BY <1>1, <1>3, <2>1, <4>1
      <4> QED BY <1>1, <1>2, <1>3, <3>1, <4>1, <4>2
    <3>2. CASE i # 0
      <4>1. i \in 1 .. Len(fs)
        BY <2>5, <3>2
      <4> QED BY <1>2, <2>1, <2>5, <3>2, <4>1
    <3> QED BY <3>1, <3>2
  <2>7. (IF i = 0 THEN Len(fs) ELSE i) = i
    BY <2>5
  <2>8. /\ e \in 0 .. h - j /\ BytesBefore(j + e) <= b
        /\ j + e < h => b < BytesBefore(j + e + 1)
    <3>1. i \in 0 .. Len(t.fragments)
      BY <2>5 DEF fs
    <3> QED BY <3>1, EndsPassedSound DEF R, fs, h
  <2> HIDE DEF b, e
  <2> DEFINE gs == SubSeq(fs, i + 1, Len(fs))
             es == SubSeq(t.msgEnds, e + 1, Len(t.msgEnds))
             v  == [t EXCEPT !.seq = s, !.fragments = gs, !.msgEnds = es]
  <2>9. u = [tx |-> v, nSent |-> e]
    <3>1. i = 0 => Len(fs) = 0
      BY <2>5
    <3> DEFINE k == IF FirstReaching(t, s) = 0 THEN Len(t.fragments) ELSE FirstReaching(t, s)
    <3>2. u = [tx    |-> [t EXCEPT !.seq = s,
                                !.fragments = SubSeq(@, k + 1, Len(@)),
                                !.msgEnds = SubSeq(@, EndsPassed(t, k) + 1, Len(@))],
           nSent |-> EndsPassed(t, k)]
      BY <1>7 DEF HandleAck
    <3>3. k = i
      BY <2>7 DEF i, fs
    <3> HIDE DEF k
    <3>4. u = [tx    |-> [t EXCEPT !.seq = s,
                                !.fragments = SubSeq(@, i + 1, Len(@)),
                                !.msgEnds = SubSeq(@, e + 1, Len(@))],
           nSent |-> e]
      BY <3>2, <3>3 DEF e
    <3> HIDE DEF u
    <3> QED BY <1>1, <3>4 DEF TxType, fs
  <2>10. EndsSound(t, n, a, j) /\ QueueSound(t, n)
    BY DEF TxSound
  <2>11. /\ n \in Nat /\ j \in 0 .. h /\ h \in Nat /\ h <= n /\ e \in Nat
         /\ Len(t.msgEnds) = h - j /\ t.msgEnds \in Seq(0 .. SeqSpace - 1)
         /\ \A k \in 1 .. h - j : t.msgEnds[k] = At(BytesBefore(j + k))
         /\ n <= Len(MsgSize) /\ Len(MsgSize) \in Nat
    <3>1. n \in Nat /\ h \in Nat /\ h <= n /\ t.msgEnds \in Seq(0 .. SeqSpace - 1)
          /\ n <= Len(MsgSize) /\ Len(MsgSize) \in Nat
      BY SoundNumbers DEF h
    <3>2. j \in 0 .. h /\ Len(t.msgEnds) = h - j
          /\ \A k \in 1 .. Len(t.msgEnds) : t.msgEnds[k] = At(BytesBefore(j + k))
      BY <2>10 DEF EndsSound, h
    <3> QED BY <2>8, <3>1, <3>2
  <2>12. gs \in Seq(TxFragmentType) /\ Len(gs) = Len(fs) - i
         /\ \A k \in 1 .. Len(fs) - i : gs[k] = fs[i + k]
    BY <1>1, <2>5
  <2>13. es \in Seq(0 .. SeqSpace - 1) /\ Len(es) = h - (j + e)
         /\ \A k \in 1 .. h - (j + e) : es[k] = t.msgEnds[e + k]
    <3> DEFINE xs == t.msgEnds
               D  == 0 .. SeqSpace - 1
    <3>1. xs \in Seq(D) /\ Len(xs) = h - j /\ e \in 0 .. Len(xs)
          /\ Len(xs) \in Nat
      BY <2>8, <2>11
    <3> HIDE DEF xs, D
    <3>2. /\ SubSeq(xs, e + 1, Len(xs)) \in Seq(D)
          /\ Len(SubSeq(xs, e + 1, Len(xs))) = Len(xs) - e
          /\ \A k \in 1 .. Len(xs) - e : SubSeq(xs, e + 1, Len(xs))[k] = xs[e + k]
      BY <3>1
    <3>3. Len(xs) - e = h - (j + e)
      BY <2>8, <2>11, <3>1
    <3> QED BY <3>2, <3>3 DEF xs, D
  <2> HIDE DEF gs, es
  <2>14. /\ v \in TxType /\ v.seq = s /\ v.messages = t.messages /\ v.msgBegin = t.msgBegin
         /\ v.fragmented = t.fragmented /\ v.fragments = gs /\ v.msgEnds = es
    BY <1>1, <2>12, <2>13 DEF TxType
  <2> HIDE DEF v, u
  <2>15. Loaded(v, n) = h /\ CutAt(v, n) = c
    BY <2>14 DEF Loaded, CutAt, h, c
  <2>16. QueueSound(v, n)
    BY <2>10, <2>14, <2>15 DEF QueueSound, h
  <2>17. c <= b + Window
    BY <1>1, <2>6, SeqSpaceSize
  <2>18. TileFrom(gs, b, c)
    <3>1. ASSUME NEW k \in 1 .. Len(gs)
          PROVE  /\ FragmentSound(gs[k])
                 /\ PositionOf(gs[k]) = IF k = 1 THEN b
                                        ELSE PositionOf(gs[k - 1]) + gs[k - 1].len
      <4>1. k \in 1 .. Len(fs) - i /\ i + k \in 1 .. Len(fs) /\ gs[k] = fs[i + k]
        BY <1>1, <2>5, <2>12
      <4>2. FragmentSound(gs[k]) /\ PositionOf(gs[k]) = R((i + k) - 1)
        BY <1>1, <1>2, <4>1 DEF TileFrom
      <4>3. CASE k = 1
        <5>1. (i + k) - 1 = i
          BY <2>5, <4>3
        <5> QED BY <4>2, <4>3, <5>1 DEF b
      <4>4. CASE k # 1
        <5>1. k - 1 \in 1 .. Len(fs) - i /\ i + (k - 1) = (i + k) - 1 /\ (i + k) - 1 # 0
          BY <1>1, <2>5, <4>1, <4>4
        <5>2. gs[k - 1] = fs[(i + k) - 1]
          BY <2>12, <5>1
        <5>3. R((i + k) - 1) = PositionOf(fs[(i + k) - 1]) + fs[(i + k) - 1].len
          BY <5>1 DEF R, Reached
        <5> QED BY <4>2, <4>4, <5>2, <5>3
      <4> QED BY <4>2, <4>3, <4>4
    <3>2. c = IF gs = <<>> THEN b ELSE PositionOf(gs[Len(gs)]) + gs[Len(gs)].len
      <4>1. CASE gs = <<>>
        <5>1. Len(gs) = 0
          BY <4>1
        <5>2. i = Len(fs)
          BY <1>1, <2>5, <2>12, <5>1
        <5> QED BY <1>2, <4>1, <5>2 DEF b
      <4>2. CASE gs # <<>>
        <5>1. Len(gs) # 0
          BY <2>12, <4>2, EmptySeq
        <5>2. Len(gs) \in 1 .. Len(fs) - i /\ i + Len(gs) = Len(fs) /\ Len(fs) # 0
          BY <1>1, <2>5, <2>12, <5>1
        <5>3. gs[Len(gs)] = fs[Len(fs)]
          BY <2>12, <5>2
        <5>4. R(Len(fs)) = PositionOf(fs[Len(fs)]) + fs[Len(fs)].len
          BY <5>2 DEF R, Reached
        <5> QED BY <1>2, <4>2, <5>3, <5>4
      <4> QED BY <4>1, <4>2
    <3> QED BY <3>1, <3>2 DEF TileFrom
  <2>19. EndsSound(v, n, b, j + e)
    <3>1. j + e \in 0 .. h
      BY <2>8, <2>11
    <3>2. \A k \in 1 .. h - (j + e) : es[k] = At(BytesBefore((j + e) + k))
      <4> SUFFICES ASSUME NEW k \in 1 .. h - (j + e)
                   PROVE  es[k] = At(BytesBefore((j + e) + k))
        OBVIOUS
      <4>1. e + k \in 1 .. h - j /\ j + (e + k) = (j + e) + k
        BY <2>8, <2>11
      <4> QED BY <2>11, <2>13, <4>1
    <3>3. j + e < n => b < BytesBefore(j + e + 1)
      <4>1. CASE j + e < h
        BY <2>8, <4>1
      <4>2. CASE j + e = h /\ h < n
        <5>1. h = n - Len(t.messages) /\ Len(t.messages) \in Nat
          BY SoundNumbers DEF h
        <5>2. t.messages # <<>>
          <6>1. Len(t.messages) # 0
            BY <2>11, <4>2, <5>1
          <6> QED BY <6>1
        <5>3. t.fragmented < MsgSize[h + 1]
          BY <5>2 DEF HeadUncut, h
        <5>4. h + 1 \in 1 .. Len(MsgSize)
          BY <2>11, <4>2
        <5>5. BytesBefore(h + 1) = BytesBefore(h) + MsgSize[h + 1] /\ MsgSize[h + 1] \in Nat
          <6>1. (h + 1) - 1 = h
            BY <2>11
          <6> QED BY <5>4, <6>1, BytesBeforeStep, MessageSizes
        <5>6. c = BytesBefore(h) + t.fragmented /\ BytesBefore(h) \in Nat
              /\ t.fragmented \in Nat
          BY SoundNumbers DEF c, h, CutAt
        <5>7. b < BytesBefore(h + 1)
          BY <1>1, <2>6, <5>3, <5>5, <5>6
        <5>8. j + e + 1 = h + 1
          BY <4>2
        <5> QED BY <5>7, <5>8
      <4> QED BY <2>11, <3>1, <4>1, <4>2
    <3> QED BY <2>8, <2>13, <2>14, <2>15, <3>1, <3>2, <3>3 DEF EndsSound
  <2>20. TxSound(v, n, b, j + e)
    BY <2>6, <2>14, <2>15, <2>16, <2>17, <2>18, <2>19 DEF TxSound
  <2>21. HeadUncut(v, n)
    BY <2>14, <2>15 DEF HeadUncut, h
  <2>22. u.tx = v /\ u.nSent = e
    BY <2>9
  <2>23. \A k \in 1 .. Len(v.fragments) : \E l \in 1 .. Len(fs) : v.fragments[k] = fs[l]
    <3> SUFFICES ASSUME NEW k \in 1 .. Len(v.fragments)
                 PROVE  \E l \in 1 .. Len(fs) : v.fragments[k] = fs[l]
      OBVIOUS
    <3>1. k \in 1 .. Len(fs) - i /\ v.fragments[k] = fs[i + k] /\ i + k \in 1 .. Len(fs)
      BY <1>1, <2>5, <2>12, <2>14
    <3> QED BY <3>1
  <2> QED BY <2>6, <2>11, <2>14, <2>15, <2>20, <2>21, <2>22, <2>23 DEF u, fs, c
<1> QED BY <1>6, <1>7

-----------------------------------------------------------------------------
(* The WISP's receive control, only so far as its numbers are numbers.      *)

\* What insert_at does to a list: the new item has its place, the later ones move up.
LEMMA InsertAtSound ==
  ASSUME NEW D, NEW s \in Seq(D), NEW e \in D, NEW i \in 1 .. Len(s) + 1
  PROVE  /\ InsertAt(s, i, e) \in Seq(D)
         /\ Len(InsertAt(s, i, e)) = Len(s) + 1
         /\ \A k \in 1 .. Len(s) + 1 :
              InsertAt(s, i, e)[k] = IF k < i THEN s[k] ELSE IF k = i THEN e ELSE s[k - 1]
<1> DEFINE p == SubSeq(s, 1, i - 1)
           q == SubSeq(s, i, Len(s))
           r == p \o <<e>>
<1>1. Len(s) \in Nat /\ i \in Nat
  OBVIOUS
<1>2. p \in Seq(D) /\ Len(p) = i - 1 /\ \A k \in 1 .. i - 1 : p[k] = s[k]
  BY <1>1
<1>3. q \in Seq(D) /\ Len(q) = Len(s) - i + 1 /\ \A k \in 1 .. Len(s) - i + 1 : q[k] = s[i + k - 1]
  BY <1>1
<1> HIDE DEF p, q
<1>4. /\ r \in Seq(D) /\ Len(r) = i
      /\ \A k \in 1 .. i : r[k] = IF k < i THEN s[k] ELSE e
  BY <1>1, <1>2
<1> HIDE DEF r
<1>5. /\ r \o q \in Seq(D) /\ Len(r \o q) = Len(s) + 1
      /\ \A k \in 1 .. Len(s) + 1 : (r \o q)[k] = IF k <= i THEN r[k] ELSE q[k - i]
  <2>1. Len(q) \in Nat /\ Len(r) + Len(q) = Len(s) + 1 /\ Len(r) \in Nat
    BY <1>1, <1>3, <1>4
  <2>2. /\ r \o q \in Seq(D) /\ Len(r \o q) = Len(r) + Len(q)
        /\ \A k \in 1 .. Len(r) + Len(q) :
             (r \o q)[k] = IF k <= Len(r) THEN r[k] ELSE q[k - Len(r)]
    BY <1>3, <1>4, ConcatProperties
  <2> QED BY <1>4, <2>1, <2>2
<1>6. InsertAt(s, i, e) = r \o q
  BY DEF InsertAt, p, q, r
<1>7. ASSUME NEW k \in 1 .. Len(s) + 1
      PROVE  (r \o q)[k] = IF k < i THEN s[k] ELSE IF k = i THEN e ELSE s[k - 1]
  <2>1. CASE k <= i
    BY <1>1, <1>4, <1>5, <2>1
  <2>2. CASE ~(k <= i)
    <3>1. k - i \in 1 .. Len(s) - i + 1 /\ i + (k - i) - 1 = k - 1
      BY <1>1, <2>2
    <3>2. q[k - i] = s[k - 1]
      BY <1>3, <3>1
    <3> QED BY <1>1, <1>5, <2>2, <3>2
  <2> QED BY <2>1, <2>2
<1> QED BY <1>5, <1>6, <1>7

\* A place to insert at is a place of the list, or just after it.
LEMMA PositionType ==
  ASSUME NEW nums, NEW m \in Nat, DOMAIN nums = 1 .. m, NEW n
  PROVE  Position(nums, n) \in 1 .. m + 1
<1> DEFINE T == {i \in DOMAIN nums : \A j \in 1 .. i : nums[j] < n}
<1>1. T \subseteq 1 .. m
  OBVIOUS
<1>2. IsFiniteSet(1 .. m) /\ Cardinality(1 .. m) = m
  BY FS_Interval
<1> HIDE DEF T
<1>3. Cardinality(T) \in Nat /\ Cardinality(T) <= m
  <2>1. IsFiniteSet(T) /\ Cardinality(T) <= Cardinality(1 .. m)
    BY <1>1, <1>2, FS_Subset
  <2> QED BY <1>2, <2>1, FS_CardinalityType
<1>4. Position(nums, n) = 1 + Cardinality(T)
  BY DEF Position, T
<1> QED BY <1>3, <1>4

\* A buffered fragment, wherever it is in memory.
BufferedType ==
  [seq : 0 .. SeqSpace - 1, msg : Message, off : Nat, len : Nat, at : Nat]

\* The receive control's numbers.
RxNumbers(r) ==
  r \in [seq : 0 .. SeqSpace - 1, infos : {r.infos}, fragments : Seq(BufferedType),
         posB : Nat, buf : {r.buf}]

\* wtp_rx_init.
LEMMA NewRxNumbers == RxNumbers(NewRx)
BY SeqSpaceSize DEF RxNumbers, NewRx

Assembling == INSTANCE FoldFacts WITH Op <- AssembleStep

\* Assembling keeps the numbers, as each turn of the loop does.
LEMMA AssembleNumbers ==
  ASSUME NEW r, RxNumbers(r)
  PROVE  RxNumbers(Assemble(r).rx)
<1> DEFINE fs    == r.fragments
           start == [seq |-> r.seq, infos |-> r.infos, buf |-> r.buf,
                     used |-> 0, nMsgs |-> 0, status |-> "going"]
           Outcome(w) ==
             LET failed == w.status = "error"
             IN [rx    |-> [r EXCEPT !.seq = w.seq, !.infos = w.infos, !.buf = w.buf,
                                     !.fragments = IF failed THEN @
                                                   ELSE SubSeq(@, w.used + 1, Len(@))],
                 nMsgs |-> IF failed THEN 0 ELSE w.nMsgs]
           last  == Fold(AssembleStep, start, fs)
<1>1. fs \in Seq(BufferedType) /\ Len(fs) \in Nat /\ r.seq \in 0 .. SeqSpace - 1
  BY DEF RxNumbers
<1>2. Assemble(r) = Outcome(last)
  <2>1. Assemble(r) = CHOOSE x \in {Outcome(w) : w \in {last}} : TRUE
    BY DEF Assemble, Strictly
  <2> HIDE DEF Outcome, last
  <2> QED BY <2>1
<1>3. Len(fs) \in Nat
  BY <1>1
<1> HIDE DEF fs, start
<1>4. PICK g : /\ g[0] = start
               /\ \A k \in 1 .. Len(fs) : g[k] = AssembleStep(g[k - 1], fs[k])
               /\ Assembling!Folded(start, fs) = g[Len(fs)]
  BY <1>3, Assembling!FoldSteps
<1>5. last = g[Len(fs)]
  BY <1>4 DEF Fold, Assembling!Folded
<1> HIDE DEF last
<1> DEFINE Typed(w, k) == w \in [seq : 0 .. SeqSpace - 1, infos : {w.infos}, buf : {w.buf},
                                 used : 0 .. k, nMsgs : {w.nMsgs}, status : {w.status}]
           T == {k \in 0 .. Len(fs) : Typed(g[k], k)}
<1>6. 0 \in T
  BY <1>1, <1>4 DEF start
<1>7. ASSUME NEW k \in 1 .. Len(fs), k - 1 \in T PROVE k \in T
  <2> DEFINE w == g[k - 1]
             f == fs[k]
             u == AssembleStep(w, f)
             begins == w.infos # <<>> /\ Head(w.infos).begin = w.seq
             room   == IF begins THEN 2 ELSE 0
             headed == IF begins THEN w.buf \o SizeHeader(Head(w.infos).size) ELSE w.buf
             seq    == SeqAdd(w.seq, f.len)
             ends   == MessageEnds(w.infos, seq)
             infos  == IF ends THEN Tail(w.infos) ELSE w.infos
             nMsgs  == IF ends THEN w.nMsgs + 1 ELSE w.nMsgs
  <2>1. Typed(w, k - 1) /\ g[k] = u
    BY <1>4, <1>7
  <2>2. f \in BufferedType
    BY <1>1
  <2>3. f.len \in Nat /\ w.seq \in 0 .. SeqSpace - 1 /\ w.used \in 0 .. k - 1
    BY <2>1, <2>2 DEF BufferedType
  <2>4. seq \in 0 .. SeqSpace - 1
    BY <2>3, SeqSpaceSize DEF SeqAdd
  <2>5. \/ u = w
        \/ u = [w EXCEPT !.status = "error"]
        \/ u = [w EXCEPT !.buf = headed, !.status = "gap"]
        \/ u = [w EXCEPT !.buf = headed, !.status = "error"]
        \/ u = [w EXCEPT !.buf = headed \o Payload(f), !.seq = seq, !.used = w.used + 1,
                         !.infos = infos, !.nMsgs = nMsgs]
    <3>1. u = IF w.status # "going" THEN w
              ELSE IF Len(w.buf) + room > MsgBufSize THEN [w EXCEPT !.status = "error"]
              ELSE IF ~Consecutive(w.seq, f) THEN [w EXCEPT !.buf = headed, !.status = "gap"]
              ELSE IF Len(headed) + f.len > MsgBufSize
                THEN [w EXCEPT !.buf = headed, !.status = "error"]
              ELSE [w EXCEPT !.buf = headed \o Payload(f), !.seq = seq,
                             !.used = w.used + 1, !.infos = infos, !.nMsgs = nMsgs]
      BY <2>1 DEF AssembleStep
    <3> DEFINE e1 == [w EXCEPT !.status = "error"]
               e2 == [w EXCEPT !.buf = headed, !.status = "gap"]
               e3 == [w EXCEPT !.buf = headed, !.status = "error"]
               e4 == [w EXCEPT !.buf = headed \o Payload(f), !.seq = seq,
                               !.used = w.used + 1, !.infos = infos, !.nMsgs = nMsgs]
               c1 == w.status # "going"
               c2 == Len(w.buf) + room > MsgBufSize
               c3 == ~Consecutive(w.seq, f)
               c4 == Len(headed) + f.len > MsgBufSize
    <3>2. u = IF c1 THEN w ELSE IF c2 THEN e1 ELSE IF c3 THEN e2 ELSE IF c4 THEN e3 ELSE e4
      BY <3>1
    <3> HIDE DEF u, w, c1, c2, c3, c4, e1, e2, e3, e4
    <3>3. u = w \/ u = e1 \/ u = e2 \/ u = e3 \/ u = e4
      BY <3>2
    <3> QED BY <3>3 DEF e1, e2, e3, e4
  <2> HIDE DEF w, f, headed, seq, infos, nMsgs, u
  <2>6. Typed(u, k)
    <3>1. w.used \in 0 .. k /\ w.used + 1 \in 0 .. k
      BY <2>3
    <3> QED BY <2>1, <2>4, <2>5, <3>1
  <2> QED BY <2>1, <2>6
<1> HIDE DEF T
<1>8. Len(fs) \in T
  <2>1. \A k \in 0 .. Len(fs) : k \in T
    BY <1>3, <1>6, <1>7, Assembling!HoldsToTheEnd
  <2> QED BY <1>3, <2>1
<1>9. Typed(last, Len(fs))
  BY <1>5, <1>8 DEF T
<1> DEFINE rest == IF last.status = "error" THEN fs ELSE SubSeq(fs, last.used + 1, Len(fs))
<1>10. rest \in Seq(BufferedType)
  BY <1>1, <1>9
<1>11. Outcome(last).rx = [r EXCEPT !.seq = last.seq, !.infos = last.infos, !.buf = last.buf,
                                    !.fragments = rest]
  BY DEF RxNumbers, fs
<1>12. last.seq \in 0 .. SeqSpace - 1
  BY <1>9
<1> HIDE DEF Outcome, rest
<1> QED BY <1>2, <1>10, <1>11, <1>12 DEF RxNumbers

\* wtp_rx_handle_packet keeps the numbers.
LEMMA RxHandlePacketNumbers ==
  ASSUME NEW r, RxNumbers(r), NEW p \in DataPacketType
  PROVE  RxNumbers(RxHandlePacket(r, p).rx)
<1> DEFINE infoAt == Position(Begins(r.infos), p.seq)
           noted  == IF p.msgSize = 0 THEN r
                     ELSE [r EXCEPT !.infos = InsertAt(r.infos, infoAt,
                                                       [begin |-> p.seq, size |-> p.msgSize])]
           at     == AllocAt(r.posB, FragHeader + p.len)
           frag   == [seq |-> p.seq, msg |-> p.msg, off |-> p.off, len |-> p.len, at |-> at]
           fragAt == Position(SeqNums(r.fragments), p.seq)
           fs     == InsertAt(r.fragments, fragAt, frag)
           next   == [noted EXCEPT !.fragments = fs, !.posB = at + FragHeader + p.len]
           u      == RxHandlePacket(r, p).rx
<1>1. RxNumbers(noted) /\ noted.fragments = r.fragments
  BY DEF RxNumbers
<1>2. r.fragments \in Seq(BufferedType) /\ r.posB \in Nat /\ FragHeader \in Nat
  BY FragBufAssumption DEF RxNumbers
<1>3. at \in Nat
  BY <1>2 DEF AllocAt
<1>4. frag \in BufferedType /\ at + FragHeader + p.len \in Nat
  BY <1>2, <1>3 DEF BufferedType, DataPacketType
<1>5. fragAt \in 1 .. Len(r.fragments) + 1
  <2>1. DOMAIN SeqNums(r.fragments) = 1 .. Len(r.fragments) /\ Len(r.fragments) \in Nat
    BY <1>2 DEF SeqNums
  <2> QED BY <2>1, PositionType
<1> HIDE DEF frag, fragAt, at, noted
<1>6. fs \in Seq(BufferedType)
  BY <1>2, <1>4, <1>5, InsertAtSound
<1> HIDE DEF fs
<1>7. RxNumbers(next)
  BY <1>1, <1>4, <1>6 DEF RxNumbers
<1> HIDE DEF next
<1>8. u = r \/ u = noted \/ u = Assemble(next).rx
  <2> DEFINE badInfo == p.msgSize > 0
                   /\ \/ Overlaps(Begins(r.infos), p.seq, p.msgSize, infoAt)
                      \/ Len(r.infos) >= MsgInfoSize
             over == Overlaps(SeqNums(r.fragments), p.seq, p.len, fragAt)
  <2>1. RxHandlePacket(r, p) =
          IF ~InWindow(r, p) \/ badInfo THEN [rx |-> r, nMsgs |-> 0]
          ELSE IF over THEN [rx |-> noted, nMsgs |-> 0]
          ELSE CHOOSE x \in {Assemble(y) : y \in {next}} : TRUE
    <3>1. noted = IF p.msgSize = 0 THEN r
                  ELSE [r EXCEPT !.infos = InsertAt(@, infoAt,
                                                    [begin |-> p.seq, size |-> p.msgSize])]
      BY DEF noted, RxNumbers
    <3>2. next = [noted EXCEPT !.fragments = InsertAt(@, fragAt, frag),
                               !.posB = at + FragHeader + p.len]
      BY <1>1 DEF next, fs, RxNumbers
    <3> QED BY <3>1, <3>2 DEF RxHandlePacket, Strictly, frag, at, fragAt
  <2> HIDE DEF badInfo, over
  <2>2. (CHOOSE x \in {Assemble(y) : y \in {next}} : TRUE) = Assemble(next)
    OBVIOUS
  <2> QED BY <2>1, <2>2
<1>9. RxNumbers(Assemble(next).rx)
  BY <1>7, AssembleNumbers
<1> QED BY <1>1, <1>8, <1>9

-----------------------------------------------------------------------------
(* The stream and its pieces, in numbers that do not wrap.                  *)

\* Positions are their own sequence numbers.
LEMMA StreamNumbers ==
  ASSUME NoWrap
  PROVE  /\ Len(MsgSize) \in Nat
         /\ \A i \in 0 .. Len(MsgSize) :
              BytesBefore(i) \in Nat /\ BytesBefore(i) < SeqSpace
         /\ \A i, k \in 0 .. Len(MsgSize) :
              /\ i < k => BytesBefore(i) < BytesBefore(k)
              /\ i <= k => BytesBefore(i) <= BytesBefore(k)
         /\ \A m \in Message :
              /\ m \in Nat /\ m - 1 \in 0 .. Len(MsgSize) /\ m \in 0 .. Len(MsgSize)
              /\ MsgSize[m] \in Nat \ {0}
              /\ BytesBefore(m) = BytesBefore(m - 1) + MsgSize[m]
<1> DEFINE N == Len(MsgSize)
<1>1. N \in Nat
  BY MessageSizes
<1>2. \A i \in 0 .. N : BytesBefore(i) \in Nat
  BY BytesBeforeType
<1>3. \A i, k \in 0 .. N : i < k => BytesBefore(i) < BytesBefore(k)
  BY BytesBeforeGrows
<1>4. \A m \in Message : /\ m \in Nat /\ m - 1 \in 0 .. N /\ m \in 0 .. N
                         /\ MsgSize[m] \in Nat \ {0}
                         /\ BytesBefore(m) = BytesBefore(m - 1) + MsgSize[m]
  BY <1>1, MessageSizes, BytesBeforeStep DEF Message
<1>5. BytesBefore(N) < SeqSpace /\ N \in 0 .. N /\ SeqSpace \in Nat
  BY <1>1, SeqSpaceSize DEF NoWrap
<1> HIDE DEF N
<1>6. ASSUME NEW i \in 0 .. N, NEW k \in 0 .. N, i <= k
      PROVE  BytesBefore(i) <= BytesBefore(k)
  <2>1. BytesBefore(i) \in Nat /\ BytesBefore(k) \in Nat
    BY <1>2
  <2>2. i = k \/ i < k
    BY <1>1, <1>6
  <2> QED BY <1>3, <2>1, <2>2
<1>7. ASSUME NEW i \in 0 .. N PROVE BytesBefore(i) < SeqSpace
  <2>1. i <= N /\ BytesBefore(i) \in Nat /\ BytesBefore(N) \in Nat
    BY <1>1, <1>2, <1>5
  <2>2. BytesBefore(i) <= BytesBefore(N)
    BY <1>5, <1>6, <2>1
  <2> QED BY <1>5, <2>1, <2>2
<1> QED BY <1>1, <1>2, <1>3, <1>4, <1>6, <1>7 DEF N

\* The first position after a piece.
EndOf(q) == PositionOf(q) + q.len

\* Pieces that were cut, up to position c: parts of messages that do not overlap.
PieceSound(q, c) ==
  /\ q.msg \in Message /\ q.off \in Nat /\ q.len \in Nat \ {0}
  /\ q.off + q.len <= MsgSize[q.msg] /\ EndOf(q) <= c
Apart(q, s) ==
  /\ PositionOf(q) = PositionOf(s) => q = s
  /\ PositionOf(q) < PositionOf(s) => EndOf(q) <= PositionOf(s)
PiecesSound(P, c) ==
  /\ \A q \in P : PieceSound(q, c)
  /\ \A q, s \in P : Apart(q, s)

\* The WISP has a fragment, or a packet, of one of the pieces.
Placed(f, P) == Piece(f) \in P /\ f.seq = PositionOf(f)

\* No piece reaches over position r.
Between(P, r) == \A q \in P : PositionOf(q) < r => EndOf(q) <= r

\* What is known of one of them.
LEMMA PlacedNumbers ==
  ASSUME NoWrap, NEW P, NEW c \in Nat, PiecesSound(P, c), NEW f, Placed(f, P)
  PROVE  /\ f.msg \in Message /\ f.off \in Nat /\ f.len \in Nat \ {0}
         /\ f.seq = BytesBefore(f.msg - 1) + f.off /\ f.off + f.len <= MsgSize[f.msg]
         /\ f.seq \in Nat /\ f.seq < SeqSpace /\ f.seq + f.len <= c
         /\ BytesBefore(f.msg - 1) <= f.seq /\ f.seq + f.len <= BytesBefore(f.msg)
         /\ f.seq < BytesBefore(f.msg)
         /\ f.off = 0 <=> f.seq = BytesBefore(f.msg - 1)
<1> DEFINE q == Piece(f)
<1>1. q.msg = f.msg /\ q.off = f.off /\ q.len = f.len
  BY DEF Piece
<1>2. PieceSound(q, c) /\ f.seq = PositionOf(f)
  BY DEF Placed, PiecesSound
<1> HIDE DEF q
<1>3. /\ f.msg \in Message /\ f.off \in Nat /\ f.len \in Nat \ {0}
      /\ f.off + f.len <= MsgSize[f.msg]
      /\ f.seq = BytesBefore(f.msg - 1) + f.off /\ f.seq + f.len <= c
  BY <1>1, <1>2 DEF PieceSound, EndOf, PositionOf
<1> DEFINE b == BytesBefore(f.msg - 1)
           e == BytesBefore(f.msg)
           z == MsgSize[f.msg]
<1>4. b \in Nat /\ e \in Nat /\ e = b + z /\ e < SeqSpace /\ z \in Nat
  BY <1>3, StreamNumbers
<1>5. f.off + f.len <= z /\ f.seq = b + f.off
  BY <1>3
<1> HIDE DEF b, e, z
<1>6. f.seq \in Nat /\ f.seq < SeqSpace /\ b <= f.seq /\ f.seq + f.len <= e /\ f.seq < e
      /\ (f.off = 0 <=> f.seq = b)
  BY <1>3, <1>4, <1>5, SeqSpaceSize
<1> QED BY <1>3, <1>6 DEF b, e

\* What is known of two of them.
LEMMA PlacedApart ==
  ASSUME NEW P, NEW c, PiecesSound(P, c), NEW f, Placed(f, P), NEW g, Placed(g, P)
  PROVE  /\ f.seq = g.seq => f.msg = g.msg /\ f.off = g.off /\ f.len = g.len
         /\ f.seq < g.seq => f.seq + f.len <= g.seq
<1>1. Apart(Piece(f), Piece(g)) /\ f.seq = PositionOf(f) /\ g.seq = PositionOf(g)
  BY DEF Placed, PiecesSound
<1>2. /\ PositionOf(Piece(f)) = PositionOf(f) /\ PositionOf(Piece(g)) = PositionOf(g)
      /\ EndOf(Piece(f)) = PositionOf(f) + f.len
      /\ Piece(f) = Piece(g) => f.msg = g.msg /\ f.off = g.off /\ f.len = g.len
  BY DEF Piece, PositionOf, EndOf
<1> QED BY <1>1, <1>2 DEF Apart

\* What lies before a border ends before it.
LEMMA PlacedBefore ==
  ASSUME NEW P, NEW r, Between(P, r), NEW f, Placed(f, P), f.seq < r
  PROVE  f.seq + f.len <= r
<1>1. PositionOf(Piece(f)) = PositionOf(f) /\ EndOf(Piece(f)) = PositionOf(f) + f.len
  BY DEF Piece, PositionOf, EndOf
<1> QED BY <1>1 DEF Between, Placed

-----------------------------------------------------------------------------
(* The two lists.                                                           *)

\* Position finds the first number that is not below n.
LEMMA PositionSound ==
  ASSUME NEW nums, NEW m \in Nat, DOMAIN nums = 1 .. m, NEW n
  PROVE  LET i == Position(nums, n)
         IN /\ i \in 1 .. m + 1
            /\ \A j \in 1 .. m : j < i => nums[j] < n
            /\ i <= m => ~(nums[i] < n)
<1> DEFINE T   == {k \in DOMAIN nums : \A j \in 1 .. k : nums[j] < n}
           out == (1 .. m) \ T
           i   == Position(nums, n)
<1>1. i = 1 + Cardinality(T)
  BY DEF Position
<1> HIDE DEF i
<1>2. CASE out = {}
  <2>1. T = 1 .. m
    BY <1>2
  <2> HIDE DEF T
  <2>2. i = m + 1
    BY <1>1, <2>1, FS_Interval
  <2>3. \A j \in 1 .. m : nums[j] < n
    BY <2>1 DEF T
  <2> QED BY <2>2, <2>3 DEF i
<1>3. CASE out # {}
  <2> HIDE DEF T
  <2>1. out \subseteq Nat
    OBVIOUS
  <2> HIDE DEF out
  <2>2. PICK k \in out : \A l \in out : k <= l
    BY <1>3, <2>1, Assembling!LeastExists
  <2>3. k \in 1 .. m /\ k \notin T
    BY <2>2 DEF out
  <2>4. \A l \in 1 .. k - 1 : l \in T
    BY <2>2, <2>3 DEF out
  <2>5. \A l \in 1 .. k - 1 : nums[l] < n
    BY <2>4 DEF T
  <2>6. ~(nums[k] < n)
    <3> SUFFICES ASSUME nums[k] < n PROVE FALSE
      OBVIOUS
    <3>1. \A l \in 1 .. k : nums[l] < n
      BY <2>3, <2>5
    <3> QED BY <2>3, <3>1 DEF T
  <2>7. T = 1 .. k - 1
    <3>1. ASSUME NEW l \in T PROVE l \in 1 .. k - 1
      <4>1. l \in 1 .. m /\ \A j \in 1 .. l : nums[j] < n
        BY DEF T
      <4>2. ~(k \in 1 .. l)
        BY <2>6, <4>1
      <4> QED BY <2>3, <4>1, <4>2
    <3> QED BY <2>4, <3>1
  <2>8. i = k
    <3>1. Cardinality(1 .. k - 1) = k - 1
      BY <2>3, FS_Interval
    <3> QED BY <1>1, <2>3, <2>7, <3>1
  <2> QED BY <2>3, <2>5, <2>6, <2>8 DEF i
<1> QED BY <1>2, <1>3

\* What the WISP knows of an announced message.
InfoOf(m) == [begin |-> BytesBefore(m - 1), size |-> MsgSize[m]]

\* The fragments after the first u are pieces from position r on, in order.
WaitingSound(P, r, fs, u) ==
  /\ \A l \in u + 1 .. Len(fs) : Placed(fs[l], P) /\ r <= fs[l].seq
  /\ \A k, l \in u + 1 .. Len(fs) : k < l => fs[k].seq < fs[l].seq

\* Announced are, in order, the message that position r is inside, and the messages
\* after it whose first fragments wait.
Announced(r, infos, fs, u) ==
  \A k \in 1 .. Len(infos) :
    \E m \in Message :
      /\ infos[k] = InfoOf(m) /\ r < BytesBefore(m)
      /\ BytesBefore(m - 1) < r \/ \E l \in u + 1 .. Len(fs) : fs[l].seq = BytesBefore(m - 1)
InOrder(infos) ==
  \A k, l \in 1 .. Len(infos) : k < l => infos[k].begin < infos[l].begin
FirstsAnnounced(infos, fs, u) ==
  \A l \in u + 1 .. Len(fs) : fs[l].off = 0 =>
    \E k \in 1 .. Len(infos) : infos[k] = InfoOf(fs[l].msg)
CurrentAnnounced(r, infos) ==
  \A m \in Message : BytesBefore(m - 1) < r /\ r < BytesBefore(m) =>
    \E k \in 1 .. Len(infos) : infos[k] = InfoOf(m)
InfosSound(r, infos, fs, u) ==
  /\ Announced(r, infos, fs, u) /\ InOrder(infos)
  /\ FirstsAnnounced(infos, fs, u) /\ CurrentAnnounced(r, infos)

\* The message that position r is in is the first one announced.
LEMMA HeadInfo ==
  ASSUME NoWrap, NEW r \in Nat, NEW infos \in Seq(MsgInfoType), NEW fs, NEW u,
         InfosSound(r, infos, fs, u), NEW m \in Message,
         BytesBefore(m - 1) <= r, r < BytesBefore(m),
         NEW k \in 1 .. Len(infos), infos[k] = InfoOf(m)
  PROVE  k = 1 /\ infos # <<>> /\ Head(infos) = InfoOf(m)
<1>1. Len(infos) \in Nat /\ 1 \in 1 .. Len(infos)
  OBVIOUS
<1>2. PICK h \in Message : infos[1] = InfoOf(h) /\ r < BytesBefore(h)
  BY <1>1 DEF InfosSound, Announced
<1>3. k = 1
  <2> SUFFICES ASSUME k # 1 PROVE FALSE
    OBVIOUS
  <2>1. infos[1].begin < infos[k].begin
    BY <1>1 DEF InfosSound, InOrder
  <2>2. BytesBefore(h - 1) < BytesBefore(m - 1)
    BY <1>2, <2>1 DEF InfoOf
  <2>3. /\ h \in Nat /\ m \in Nat /\ h - 1 \in 0 .. Len(MsgSize) /\ m - 1 \in 0 .. Len(MsgSize)
        /\ h \in 0 .. Len(MsgSize) /\ Len(MsgSize) \in Nat
    BY StreamNumbers
  <2>4. /\ BytesBefore(h - 1) \in Nat /\ BytesBefore(m - 1) \in Nat /\ BytesBefore(h) \in Nat
        /\ m - 1 <= h - 1 => BytesBefore(m - 1) <= BytesBefore(h - 1)
        /\ h <= m - 1 => BytesBefore(h) <= BytesBefore(m - 1)
    BY <2>3, StreamNumbers
  <2>5. h <= m - 1
    BY <2>2, <2>3, <2>4
  <2> QED BY <1>2, <2>4, <2>5
<1>4. infos # <<>> /\ Head(infos) = infos[1]
  BY <1>1
<1> QED BY <1>3, <1>4

-----------------------------------------------------------------------------
(* The message data buffer.                                                 *)

\* After message i, each message has its size in two bytes and then its own bytes:
\* where message h starts.
Start(i, h) == BytesBefore(h - 1) - BytesBefore(i) + 2 * (h - 1 - i)

\* The buffer holds the messages after the i-th up to the k-th, which position r is
\* inside or at the end of.
Held(buf, i, k, r) ==
  /\ i \in 0 .. Len(MsgSize) /\ k \in i .. Len(MsgSize)
  /\ r <= BytesBefore(k) /\ (k = i => r = BytesBefore(i))
  /\ k > i => BytesBefore(k - 1) < r
  /\ buf \in Seq((0 .. Len(MsgSize)) \X Nat)
  /\ Len(buf) = r - BytesBefore(i) + 2 * (k - i)
  /\ \A h \in i + 1 .. k : buf[Start(i, h) + 1] = <<0, MsgSize[h]>>
  /\ \A h \in i + 1 .. k : \A x \in 1 .. MsgSize[h] :
       BytesBefore(h - 1) + x <= r => buf[Start(i, h) + 2 + x] = <<h, x - 1>>

\* How many messages are whole when position r is in or at the end of the k-th.
Whole(k, r) == IF r = BytesBefore(k) THEN k ELSE k - 1

\* A buffer that suffices is large enough for what it holds, as nothing is sent beyond the
\* window of the message that is assembled.
LEMMA HeldFits ==
  ASSUME NoWrap, BufferSuffices, NEW buf, NEW i, NEW k, NEW r \in Nat, Held(buf, i, k, r),
         NEW b \in Nat, i < Len(MsgSize) => b < BytesBefore(i + 1), r <= b + Window
  PROVE  Len(buf) \in Nat /\ Len(buf) <= MsgBufSize
<1> DEFINE N == Len(MsgSize)
<1>1. /\ i \in 0 .. N /\ k \in i .. N /\ N \in Nat /\ r <= BytesBefore(k)
      /\ k = i => r = BytesBefore(i)
      /\ k > i => BytesBefore(k - 1) < r
      /\ Len(buf) = r - BytesBefore(i) + 2 * (k - i) /\ Len(buf) \in Nat
  <2>1. Len(buf) \in Nat
    BY DEF Held
  <2> QED BY <2>1, StreamNumbers DEF Held
<1> HIDE DEF N
<1>2. k \in Nat /\ i \in Nat /\ i <= k /\ k \in 0 .. N
  BY <1>1
<1>3. CASE k = i
  <2>1. BytesBefore(i) \in Nat
    BY <1>1, BytesBeforeType DEF N
  <2> QED BY <1>1, <1>2, <1>3, <2>1, MsgBufAssumption
<1>4. CASE k # i
  <2>1. i < k /\ i + 1 \in 0 .. N /\ k - 1 \in 0 .. N /\ i < N
    BY <1>1, <1>2, <1>4
  <2>2. /\ BytesBefore(i) \in Nat /\ BytesBefore(k) \in Nat /\ BytesBefore(k - 1) \in Nat
        /\ BytesBefore(i + 1) \in Nat
    BY <1>1, <1>2, <2>1, BytesBeforeType DEF N
  <2>3. b < BytesBefore(i + 1) /\ BytesBefore(k - 1) < r
    BY <1>1, <2>1 DEF N
  <2>4. BytesBefore(k - 1) < BytesBefore(i + 1) + Window
    BY <2>2, <2>3, SeqSpaceSize
  <2>5. BytesBefore(k) - BytesBefore(i) + 2 * (k - i) <= MsgBufSize
    BY <1>1, <1>2, <2>1, <2>4 DEF BufferSuffices, N
  <2> QED BY SMTT(20), <1>1, <1>2, <2>2, <2>5, MsgBufAssumption
<1> QED BY <1>3, <1>4

\* Which message the next byte is of.
LEMMA HeldAt ==
  ASSUME NoWrap, NEW buf, NEW i, NEW k, NEW r \in Nat, Held(buf, i, k, r),
         NEW m \in Message, BytesBefore(m - 1) <= r, r < BytesBefore(m)
  PROVE  /\ i <= m - 1 /\ i \in Nat /\ k \in Nat
         /\ r = BytesBefore(m - 1) => k = m - 1
         /\ r # BytesBefore(m - 1) => k = m
         /\ Whole(k, r) = m - 1
<1> DEFINE N == Len(MsgSize)
<1>1. /\ i \in 0 .. N /\ k \in i .. N /\ N \in Nat /\ r <= BytesBefore(k)
      /\ k = i => r = BytesBefore(i)
      /\ k > i => BytesBefore(k - 1) < r
  BY StreamNumbers DEF Held
<1>2. m \in Nat /\ m - 1 \in 0 .. N /\ m \in 0 .. N
  BY StreamNumbers
<1> HIDE DEF N
<1>3. k \in 0 .. N /\ i \in Nat /\ k \in Nat /\ i <= k
  BY <1>1
<1>4. /\ BytesBefore(k) \in Nat /\ BytesBefore(m - 1) \in Nat /\ BytesBefore(m) \in Nat
      /\ BytesBefore(i) \in Nat
      /\ k < m - 1 => BytesBefore(k) < BytesBefore(m - 1)
      /\ m <= i => BytesBefore(m) <= BytesBefore(i)
      /\ m <= k => BytesBefore(m) <= BytesBefore(k)
  BY <1>1, <1>2, <1>3, StreamNumbers DEF N
<1>5. m - 1 <= k
  BY <1>1, <1>2, <1>3, <1>4
<1>6. CASE k = i
  <2>1. r = BytesBefore(k)
    BY <1>1, <1>6
  <2>2. k <= m - 1
    BY <1>2, <1>3, <1>4, <2>1
  <2>3. k = m - 1
    BY <1>2, <1>3, <1>5, <2>2
  <2> QED BY <1>3, <1>6, <2>1, <2>3 DEF Whole
<1>7. CASE k # i
  <2>1. k > i /\ k - 1 \in 0 .. N
    BY <1>1, <1>3, <1>7
  <2>2. BytesBefore(k - 1) < r /\ BytesBefore(k - 1) \in Nat
    BY <1>1, <2>1, StreamNumbers DEF N
  <2>3. m <= k - 1 => BytesBefore(m) <= BytesBefore(k - 1)
    BY <1>2, <2>1, StreamNumbers DEF N
  <2>4. k <= m
    BY <1>2, <1>3, <1>4, <2>2, <2>3
  <2>5. k = m - 1 \/ k = m
    BY <1>2, <1>3, <1>5, <2>4
  <2>6. CASE k = m - 1
    <3>1. r = BytesBefore(m - 1)
      BY <1>1, <1>4, <2>6
    <3> QED BY <1>2, <1>3, <2>1, <2>6, <3>1 DEF Whole
  <2>7. CASE k = m
    <3>1. r # BytesBefore(m - 1) /\ r # BytesBefore(k)
      BY <1>4, <2>2, <2>7
    <3>2. i <= m - 1
      BY <1>2, <1>3, <2>1, <2>7
    <3> QED BY <1>3, <2>7, <3>1, <3>2 DEF Whole
  <2> QED BY <2>5, <2>6, <2>7
<1> QED BY <1>6, <1>7

\* Messages start one after the other.
LEMMA StartNumbers ==
  ASSUME NoWrap, NEW i \in 0 .. Len(MsgSize), NEW h \in Message, i < h
  PROVE  /\ Start(i, h) \in Nat
         /\ Start(i, h) + 2 + MsgSize[h] = BytesBefore(h) - BytesBefore(i) + 2 * (h - i)
         /\ \A m \in Message : h < m => Start(i, h) + 2 + MsgSize[h] <= Start(i, m)
<1> DEFINE N == Len(MsgSize)
<1>1. /\ N \in Nat /\ h \in Nat /\ h \in 0 .. N /\ h - 1 \in 0 .. N
      /\ MsgSize[h] \in Nat /\ BytesBefore(h) = BytesBefore(h - 1) + MsgSize[h]
  BY StreamNumbers
<1> HIDE DEF N
<1>2. i \in Nat /\ i <= h - 1
  BY <1>1 DEF N
<1>3. /\ BytesBefore(i) \in Nat /\ BytesBefore(h) \in Nat /\ BytesBefore(h - 1) \in Nat
      /\ BytesBefore(i) <= BytesBefore(h - 1)
  BY <1>1, <1>2, StreamNumbers DEF N
<1>4. Start(i, h) \in Nat
  BY <1>1, <1>2, <1>3 DEF Start
<1>5. Start(i, h) + 2 + MsgSize[h] = BytesBefore(h) - BytesBefore(i) + 2 * (h - i)
  <2> DEFINE b == BytesBefore(i)
             c == BytesBefore(h - 1)
             e == BytesBefore(h)
             z == MsgSize[h]
  <2>1. Start(i, h) = c - b + 2 * (h - 1 - i) /\ e = c + z
    BY <1>1 DEF Start
  <2>2. b \in Nat /\ c \in Nat /\ e \in Nat /\ z \in Nat
    BY <1>1, <1>3
  <2> HIDE DEF b, c, e, z
  <2>3. Start(i, h) + 2 + z = e - b + 2 * (h - i)
    BY <1>1, <1>2, <2>1, <2>2
  <2> QED BY <2>3 DEF b, e, z
<1>6. ASSUME NEW m \in Message, h < m
      PROVE  Start(i, h) + 2 + MsgSize[h] <= Start(i, m)
  <2>1. m \in Nat /\ m - 1 \in 0 .. N /\ h <= m - 1
    BY <1>1, <1>6, StreamNumbers DEF N
  <2>2. BytesBefore(m - 1) \in Nat /\ BytesBefore(h) <= BytesBefore(m - 1)
    BY <1>1, <2>1, StreamNumbers DEF N
  <2> DEFINE x == BytesBefore(h)
             y == BytesBefore(m - 1)
             w == BytesBefore(i)
             l == Start(i, h) + 2 + MsgSize[h]
  <2>3. l = x - w + 2 * (h - i) /\ Start(i, m) = y - w + 2 * (m - 1 - i)
    BY <1>5 DEF Start
  <2>4. x \in Nat /\ y \in Nat /\ w \in Nat /\ x <= y
    BY <1>3, <2>2
  <2> HIDE DEF x, y, w, l
  <2>5. l <= Start(i, m)
    BY <1>1, <1>2, <2>1, <2>3, <2>4
  <2> QED BY <2>5 DEF l
<1> QED BY <1>4, <1>5, <1>6

\* The buffer goes on with the size of the message, before fragment f that begins it.
Headed(buf, f) == IF f.off = 0 THEN buf \o SizeHeader(MsgSize[f.msg]) ELSE buf

\* Fragment f is a piece of its message, from position r on.
PieceFrom(f, r) ==
  /\ f.msg \in Message /\ f.off \in Nat /\ f.len \in Nat \ {0}
  /\ r = BytesBefore(f.msg - 1) + f.off /\ f.off + f.len <= MsgSize[f.msg]

\* The next bytes of a message, which the buffer goes on with, after the message's size
\* if they are the first.
LEMMA HeldGrows ==
  ASSUME NoWrap, NEW buf, NEW i, NEW k, NEW r \in Nat, Held(buf, i, k, r),
         NEW f, PieceFrom(f, r)
  PROVE  /\ Len(Headed(buf, f)) = Len(buf) + (IF f.off = 0 THEN 2 ELSE 0)
         /\ Len(Headed(buf, f) \o Payload(f)) = Len(Headed(buf, f)) + f.len
         /\ Held(Headed(buf, f) \o Payload(f), i, f.msg, r + f.len)
<1> DEFINE headed == Headed(buf, f)
<1>0. headed = IF f.off = 0 THEN buf \o SizeHeader(MsgSize[f.msg]) ELSE buf
  BY DEF Headed
<1> HIDE DEF headed
<1> DEFINE N == Len(MsgSize)
           D == (0 .. N) \X Nat
           m == f.msg
           b == BytesBefore(m - 1)
           z == MsgSize[m]
           s == Start(i, m)
           o == f.off
           n == f.len
           pay == Payload(f)
           new == headed \o pay
<1>1. /\ i \in 0 .. N /\ k \in i .. N /\ N \in Nat /\ i \in Nat /\ k \in Nat
      /\ buf \in Seq(D) /\ Len(buf) = r - BytesBefore(i) + 2 * (k - i)
  <2>1. N \in Nat
    BY StreamNumbers
  <2> QED BY <2>1 DEF Held
<1>2. /\ m \in Message /\ m \in Nat /\ m - 1 \in 0 .. N /\ m \in 0 .. N /\ z \in Nat
      /\ b \in Nat /\ BytesBefore(m) = b + z /\ BytesBefore(m) \in Nat
  <2>1. m \in Message
    BY DEF PieceFrom
  <2> QED BY <2>1, StreamNumbers
<1>3. o \in Nat /\ n \in Nat \ {0} /\ r = b + o /\ o + n <= z
  BY DEF PieceFrom
<1> HIDE DEF N, m, b, z, o, n
<1>4. b <= r /\ r < BytesBefore(m)
  BY <1>2, <1>3
<1>5. /\ i <= m - 1
      /\ o = 0 => k = m - 1
      /\ o # 0 => k = m
  <2>1. /\ i <= m - 1
        /\ r = BytesBefore(m - 1) => k = m - 1
        /\ r # BytesBefore(m - 1) => k = m
    <3>1. b = BytesBefore(m - 1)
      BY DEF b
    <3> QED BY <1>2, <1>4, <3>1, HeldAt
  <2> QED BY <1>2, <1>3, <2>1 DEF b
<1>6. /\ s \in Nat /\ s + 2 + z = BytesBefore(m) - BytesBefore(i) + 2 * (m - i)
      /\ BytesBefore(i) \in Nat
  <2>1. i < m
    BY <1>1, <1>2, <1>5
  <2> QED BY <1>1, <1>2, <2>1, StartNumbers, StreamNumbers DEF N, z
<1> HIDE DEF s
<1>7. Len(buf) = IF o = 0 THEN s ELSE s + 2 + o
  <2> DEFINE l == Len(buf)
             w == BytesBefore(i)
             e == BytesBefore(m)
  <2>3. l = r - w + 2 * (k - i) /\ w \in Nat /\ e = b + z /\ s + 2 + z = e - w + 2 * (m - i)
    BY <1>1, <1>2, <1>6
  <2> HIDE DEF l, w, e
  <2>1. CASE o = 0
    <3>1. k = m - 1
      BY <1>5, <2>1
    <3>2. l = s
      BY <1>1, <1>2, <1>3, <1>6, <2>1, <2>3, <3>1
    <3> QED BY <2>1, <3>2 DEF l
  <2>2. CASE o # 0
    <3>1. k = m
      BY <1>5, <2>2
    <3>2. l = s + 2 + o
      BY <1>1, <1>2, <1>3, <1>6, <2>3, <3>1
    <3> QED BY <2>2, <3>2 DEF l
  <2> QED BY <2>1, <2>2
<1>8. /\ headed \in Seq(D) /\ Len(headed) = s + 2 + o
      /\ \A x \in 1 .. Len(buf) : headed[x] = buf[x]
      /\ o = 0 => headed[s + 1] = <<0, z>>
  <2>1. CASE o = 0
    <3> DEFINE sh == << <<0, z>>, <<0, z>> >>
    <3>1. headed = buf \o sh
      BY <1>0, <2>1 DEF SizeHeader, o, z, m
    <3>2. <<0, z>> \in D
      BY <1>1, <1>2
    <3>20. sh[1] = <<0, z>>
      OBVIOUS
    <3> HIDE DEF D
    <3>3. sh \in Seq(D) /\ Len(sh) = 2 /\ sh[1] = <<0, z>>
      BY <3>2
    <3> HIDE DEF sh
    <3>4. /\ buf \o sh \in Seq(D) /\ Len(buf \o sh) = Len(buf) + Len(sh)
          /\ \A x \in 1 .. Len(buf) + Len(sh) :
               (buf \o sh)[x] = IF x <= Len(buf) THEN buf[x] ELSE sh[x - Len(buf)]
      BY <1>1, <3>3, ConcatProperties
    <3>5. Len(buf) = s
      BY <1>7, <2>1
    <3>6. \A x \in 1 .. Len(buf) : headed[x] = buf[x]
      BY <1>6, <3>1, <3>3, <3>4, <3>5
    <3>7. headed[s + 1] = <<0, z>>
      BY <1>6, <3>1, <3>3, <3>4, <3>5
    <3>8. headed \in Seq(D)
      BY <3>1, <3>4
    <3>9. Len(headed) = s + 2
      BY <3>1, <3>3, <3>4, <3>5
    <3>10. s + 2 = s + 2 + o
      BY <1>6, <2>1
    <3> QED BY <3>6, <3>7, <3>8, <3>9, <3>10
  <2>2. CASE o # 0
    <3>1. headed = buf
      BY <1>0, <2>2 DEF o
    <3> QED BY <1>1, <1>7, <2>2, <3>1
  <2> QED BY <2>1, <2>2
<1>9. /\ pay \in Seq(D) /\ Len(pay) = n /\ \A y \in 1 .. n : pay[y] = <<m, o + y - 1>>
  <2>1. pay = [y \in 1 .. n |-> <<m, o + y - 1>>]
    BY DEF Payload, m, o, n
  <2>2. \A y \in 1 .. n : <<m, o + y - 1>> \in D
    <3> SUFFICES ASSUME NEW y \in 1 .. n PROVE o + y - 1 \in Nat
      BY <1>2
    <3> QED BY <1>3
  <2> HIDE DEF D, pay
  <2>3. pay \in [1 .. n -> D]
    BY <2>1, <2>2
  <2>4. \A y \in 1 .. n : pay[y] = <<m, o + y - 1>>
    BY <2>1
  <2>5. pay \in Seq(D) /\ Len(pay) = n
    BY <1>3, <2>3
  <2> QED BY <2>4, <2>5
<1> HIDE DEF D, pay
<1>10. /\ new \in Seq(D) /\ Len(new) = s + 2 + o + n
       /\ \A x \in 1 .. s + 2 + o : new[x] = headed[x]
       /\ \A y \in 1 .. n : new[s + 2 + o + y] = <<m, o + y - 1>>
  <2>1. /\ new \in Seq(D) /\ Len(new) = Len(headed) + Len(pay)
        /\ \A x \in 1 .. Len(headed) + Len(pay) :
             new[x] = IF x <= Len(headed) THEN headed[x] ELSE pay[x - Len(headed)]
    <3>1. headed \in Seq(D) /\ pay \in Seq(D)
      BY <1>8, <1>9
    <3> QED BY <3>1, ConcatProperties
  <2> HIDE DEF new
  <2> DEFINE l == s + 2 + o
  <2>2. Len(headed) = l /\ Len(pay) = n /\ l \in Nat
    BY <1>3, <1>6, <1>8, <1>9
  <2> HIDE DEF l
  <2>5. /\ Len(new) = l + n
        /\ \A x \in 1 .. l + n : new[x] = IF x <= l THEN headed[x] ELSE pay[x - l]
    <3>1. Len(new) = l + n
      BY <2>1, <2>2
    <3> QED BY <2>1, <2>2, <3>1
  <2>3. \A x \in 1 .. l : new[x] = headed[x]
    <3>1. \A x \in 1 .. l : x \in 1 .. l + n /\ x <= l
      BY <1>3, <2>2
    <3> QED BY <2>5, <3>1
  <2>4. ASSUME NEW y \in 1 .. n PROVE new[l + y] = <<m, o + y - 1>>
    <3> DEFINE x == l + y
    <3>1. x \in 1 .. l + n /\ ~(x <= l) /\ x - l = y /\ l + y = x
      BY <1>3, <2>2
    <3> HIDE DEF x
    <3>2. new[l + y] = pay[y]
      BY <2>5, <3>1
    <3> QED BY <1>9, <3>2
  <2> QED BY <2>1, <2>3, <2>4, <2>5 DEF l
<1> HIDE DEF new
<1>11. \A x \in 1 .. Len(buf) : new[x] = buf[x]
  <2>1. Len(buf) <= s + 2 + o /\ Len(buf) \in Nat /\ s + 2 + o \in Nat
    BY <1>3, <1>6, <1>7
  <2> QED BY <1>8, <1>10, <2>1
<1>12. ASSUME NEW h \in i + 1 .. m
       PROVE  /\ new[Start(i, h) + 1] = <<0, MsgSize[h]>>
              /\ \A x \in 1 .. MsgSize[h] : BytesBefore(h - 1) + x <= r + n
                   => new[Start(i, h) + 2 + x] = <<h, x - 1>>
  <2>1. h \in Nat /\ h \in Message /\ i < h /\ h <= m
    BY <1>1, <1>2 DEF Message, N
  <2>2. CASE h < m
    <3> DEFINE v == Start(i, h)
               zh == MsgSize[h]
    <3>1. v \in Nat /\ v + 2 + zh <= s /\ zh \in Nat
      BY <1>1, <1>2, <2>1, <2>2, StartNumbers, StreamNumbers DEF N, s
    <3>2. s <= Len(buf) /\ Len(buf) \in Nat
      BY <1>3, <1>6, <1>7
    <3>3. h \in i + 1 .. k
      BY <1>1, <1>2, <1>5, <2>1, <2>2
    <3>4. buf[v + 1] = <<0, zh>>
      BY <3>3 DEF Held
    <3>5. BytesBefore(h) <= b /\ BytesBefore(h) = BytesBefore(h - 1) + zh
          /\ BytesBefore(h - 1) \in Nat
      <4>1. h <= m - 1 /\ h \in 0 .. N /\ h - 1 \in 0 .. N
        BY <1>2, <2>1, <2>2, StreamNumbers DEF N
      <4> QED BY <1>2, <2>1, <4>1, StreamNumbers DEF N, b
    <3>6. ASSUME NEW x \in 1 .. zh PROVE buf[v + 2 + x] = <<h, x - 1>>
      <4>1. BytesBefore(h - 1) + x <= r
        BY <1>2, <1>4, <3>1, <3>5
      <4> QED BY <3>3, <4>1 DEF Held
    <3> HIDE DEF v, zh
    <3>7. v + 1 \in 1 .. Len(buf) /\ \A x \in 1 .. zh : v + 2 + x \in 1 .. Len(buf)
      BY <1>6, <3>1, <3>2
    <3>8. new[v + 1] = <<0, zh>> /\ \A x \in 1 .. zh : new[v + 2 + x] = <<h, x - 1>>
      BY <1>11, <3>4, <3>6, <3>7
    <3> QED BY <3>8 DEF v, zh
  <2>3. CASE h = m
    <3>1. new[s + 1] = <<0, z>>
      <4>1. CASE o = 0
        <5>1. s + 1 \in 1 .. s + 2 + o
          BY <1>6, <4>1
        <5> QED BY <1>8, <1>10, <4>1, <5>1
      <4>2. CASE o # 0
        <5>1. k = m /\ s + 1 \in 1 .. Len(buf)
          BY <1>3, <1>5, <1>6, <1>7, <4>2
        <5>2. buf[s + 1] = <<0, z>>
          BY <1>2, <2>3, <5>1 DEF Held, s, z
        <5> QED BY <1>11, <5>1, <5>2
      <4> QED BY <4>1, <4>2
    <3>2. ASSUME NEW x \in 1 .. z, b + x <= r + n PROVE new[s + 2 + x] = <<m, x - 1>>
      <4>1. CASE x <= o
        <5>1. k = m /\ s + 2 + x \in 1 .. Len(buf) /\ b + x <= r
          BY <1>2, <1>3, <1>5, <1>6, <1>7, <4>1
        <5>2. buf[s + 2 + x] = <<m, x - 1>>
          BY <1>2, <2>3, <5>1 DEF Held, s, z, b
        <5> QED BY <1>11, <5>1, <5>2
      <4>2. CASE ~(x <= o)
        <5> DEFINE y == x - o
        <5>1. y \in 1 .. n /\ s + 2 + o + y = s + 2 + x /\ o + y - 1 = x - 1
          BY <1>2, <1>3, <1>6, <3>2, <4>2
        <5> HIDE DEF y
        <5>2. new[s + 2 + o + y] = <<m, o + y - 1>>
          BY <1>10, <5>1
        <5> QED BY <5>1, <5>2
      <4> QED BY <1>3, <4>1, <4>2
    <3> QED BY <2>3, <3>1, <3>2 DEF s, z, b
  <2> QED BY <2>1, <2>2, <2>3, <1>2
<1>13. /\ m \in i .. N /\ r + n <= BytesBefore(m) /\ (m = i => r + n = BytesBefore(i))
       /\ m > i => BytesBefore(m - 1) < r + n
  BY <1>1, <1>2, <1>3, <1>5 DEF b
<1>14. Len(new) = r + n - BytesBefore(i) + 2 * (m - i)
  <2> DEFINE l == Len(new)
             w == BytesBefore(i)
             e == BytesBefore(m)
  <2>1. l = s + 2 + o + n /\ w \in Nat /\ e = b + z /\ s + 2 + z = e - w + 2 * (m - i)
    BY <1>2, <1>6, <1>10
  <2> HIDE DEF l, w, e
  <2>2. l = r + n - w + 2 * (m - i)
    <3>1. s + 2 = b - w + 2 * (m - i)
      BY <1>1, <1>2, <1>3, <1>6, <2>1
    <3>2. l = b + o + n - w + 2 * (m - i)
      BY <1>1, <1>2, <1>3, <1>6, <2>1, <3>1
    <3> QED BY <1>3, <3>2
  <2> QED BY <2>2 DEF l, w
<1>15. Held(new, i, m, r + n)
  <2>1. \A h \in i + 1 .. m : new[Start(i, h) + 1] = <<0, MsgSize[h]>>
    BY <1>12
  <2>2. \A h \in i + 1 .. m : \A x \in 1 .. MsgSize[h] :
          BytesBefore(h - 1) + x <= r + n => new[Start(i, h) + 2 + x] = <<h, x - 1>>
    BY <1>12
  <2>3. new \in Seq((0 .. Len(MsgSize)) \X Nat)
    BY <1>10 DEF D, N
  <2>4. i \in 0 .. Len(MsgSize) /\ m \in i .. Len(MsgSize)
    BY <1>1, <1>13 DEF N
  <2> DEFINE e == r + n
  <2> HIDE DEF e
  <2>5. /\ e <= BytesBefore(m) /\ (m = i => e = BytesBefore(i))
        /\ m > i => BytesBefore(m - 1) < e
    BY <1>13 DEF e
  <2>6. Len(new) = e - BytesBefore(i) + 2 * (m - i)
    <3>1. e = r + n
      BY DEF e
    <3> QED BY <1>1, <1>2, <1>3, <1>6, <1>14, <3>1
  <2>7. \A h \in i + 1 .. m : \A x \in 1 .. MsgSize[h] :
          BytesBefore(h - 1) + x <= e => new[Start(i, h) + 2 + x] = <<h, x - 1>>
    BY <2>2 DEF e
  <2>8. Held(new, i, m, e)
    BY <2>1, <2>3, <2>4, <2>5, <2>6, <2>7 DEF Held
  <2> QED BY <2>8 DEF e
<1>16. Len(headed) = Len(buf) + (IF o = 0 THEN 2 ELSE 0)
  BY <1>3, <1>6, <1>7, <1>8
<1>17. Len(new) = Len(headed) + n
  BY <1>3, <1>6, <1>8, <1>10
<1> QED BY <1>15, <1>16, <1>17 DEF new, m, n, o, pay, headed

\* Bytes tell which message they are.
LEMMA IdentifySound ==
  ASSUME NEW m \in Message
  PROVE  Identify(BytesOf(m)) = m
<1>1. ASSUME NEW h \in Message, BytesOf(h) = BytesOf(m) PROVE h = m
  <2>1. 1 \in 1 .. MsgSize[h] /\ 1 \in 1 .. MsgSize[m]
    BY MessageSizes DEF Message
  <2>2. BytesOf(h)[1] = <<h, 1 - 1>> /\ BytesOf(m)[1] = <<m, 1 - 1>>
    BY <2>1 DEF BytesOf
  <2>3. <<h, 1 - 1>> = <<m, 1 - 1>>
    BY <1>1, <2>2
  <2> QED BY <2>3
<1>2. Identify(BytesOf(m)) = CHOOSE h \in Message : BytesOf(h) = BytesOf(m)
  BY DEF Identify
<1> DEFINE c == CHOOSE h \in Message : BytesOf(h) = BytesOf(m)
<1>3. c \in Message /\ BytesOf(c) = BytesOf(m)
  OBVIOUS
<1> HIDE DEF c
<1>4. c = m
  BY <1>1, <1>3
<1> QED BY <1>2, <1>4 DEF c

\* The first message is taken from the buffer whole.
LEMMA TakeOneSound ==
  ASSUME NoWrap, NEW w, NEW i, NEW k, NEW r \in Nat, Held(w.buf, i, k, r),
         i < Whole(k, r), NEW x
  PROVE  /\ Held(TakeOne(w, x).buf, i + 1, k, r)
         /\ TakeOne(w, x).msgs = Append(w.msgs, i + 1)
<1> DEFINE N == Len(MsgSize)
           D == (0 .. N) \X Nat
           m == i + 1
           z == MsgSize[m]
           buf == w.buf
           new == SubSeq(buf, z + 3, Len(buf))
<1>1. /\ i \in 0 .. N /\ k \in i .. N /\ N \in Nat
      /\ buf \in Seq(D) /\ Len(buf) = r - BytesBefore(i) + 2 * (k - i)
      /\ r <= BytesBefore(k)
      /\ k > i => BytesBefore(k - 1) < r
  BY StreamNumbers DEF Held
<1>2. \A h \in i + 1 .. k : buf[Start(i, h) + 1] = <<0, MsgSize[h]>>
  BY DEF Held
<1>3. \A h \in i + 1 .. k : \A y \in 1 .. MsgSize[h] :
        BytesBefore(h - 1) + y <= r => buf[Start(i, h) + 2 + y] = <<h, y - 1>>
  BY DEF Held
<1>4. k \in Nat /\ i \in Nat /\ m <= k /\ k \in 0 .. N /\ (k = m => r = BytesBefore(m))
  BY <1>1 DEF Whole
<1> HIDE DEF N
<1>5. m \in Message /\ m \in 0 .. N /\ m - 1 = i /\ m \in Nat
  BY <1>1, <1>4 DEF Message, N
<1>6. BytesBefore(i) \in Nat /\ BytesBefore(m) \in Nat /\ BytesBefore(m) = BytesBefore(i) + z
      /\ z \in Nat \ {0}
  BY <1>1, <1>5, StreamNumbers DEF N
<1> HIDE DEF m, z
<1>7. BytesBefore(m) <= r
  <2>1. CASE k = m
    BY <1>4, <1>6, <2>1
  <2>2. CASE k # m
    <3>1. k > i /\ k - 1 \in 0 .. N /\ m <= k - 1
      BY <1>1, <1>4, <1>5, <2>2
    <3>2. BytesBefore(k - 1) \in Nat /\ BytesBefore(m) <= BytesBefore(k - 1)
          /\ BytesBefore(k - 1) < r
      BY <1>1, <1>5, <3>1, StreamNumbers DEF N
    <3> QED BY <1>6, <3>2
  <2> QED BY <2>1, <2>2
<1>8. Start(i, m) = 0
  <2>1. Start(i, m) = BytesBefore(i) - BytesBefore(i) + 2 * (i - i)
    BY <1>5 DEF Start
  <2> QED BY <1>4, <1>6, <2>1
<1> DEFINE l == Len(buf)
           b == BytesBefore(i)
           e == BytesBefore(m)
<1>9. l \in Nat /\ l = r - e + 2 * (k - m) + z + 2 /\ z + 2 <= l
  <2>1. l = r - b + 2 * (k - i) /\ e = b + z /\ e <= r /\ b \in Nat /\ e \in Nat
        /\ m = i + 1
    BY <1>1, <1>6, <1>7 DEF m
  <2> HIDE DEF l, b, e
  <2>2. z + 2 <= l
    BY <1>4, <1>5, <1>6, <2>1
  <2> QED BY <1>4, <1>5, <1>6, <2>1, <2>2
<1>10. buf[1] = <<0, z>>
  <2>1. m \in i + 1 .. k
    BY <1>4, <1>5 DEF m
  <2> QED BY <1>2, <1>8, <2>1 DEF z
<1>11. \A y \in 1 .. z : buf[2 + y] = <<m, y - 1>>
  <2> SUFFICES ASSUME NEW y \in 1 .. z PROVE buf[2 + y] = <<m, y - 1>>
    OBVIOUS
  <2>1. m \in i + 1 .. k
    BY <1>4, <1>5 DEF m
  <2>2. BytesBefore(m - 1) + y <= r
    BY <1>5, <1>6, <1>7
  <2>3. buf[0 + 2 + y] = <<m, y - 1>>
    BY <1>3, <1>8, <2>1, <2>2 DEF z
  <2> QED BY <1>6, <2>3
<1>12. SubSeq(buf, 3, z + 2) = BytesOf(m)
  <2> DEFINE q == SubSeq(buf, 3, z + 2)
  <2>1. q = [y \in 1 .. z |-> buf[3 + y - 1]]
    <3>1. buf \in Seq(D) /\ Len(buf) = l
      BY <1>1
    <3> HIDE DEF D, buf, l
    <3>2. \A y \in 3 .. z + 2 : buf[y] \in D
      BY <1>6, <1>9, <3>1, ElementOfSeq
    <3>3. /\ q \in Seq(D) /\ Len(q) = IF 3 <= z + 2 THEN z + 2 - 3 + 1 ELSE 0
          /\ \A y \in 1 .. z + 2 - 3 + 1 : q[y] = buf[3 + y - 1]
      BY <1>6, <3>2, SubSeqProperties
    <3>4. Len(q) = z /\ z + 2 - 3 + 1 = z
      BY <1>6, <3>3
    <3> HIDE DEF q
    <3> QED BY <3>3, <3>4
  <2>2. \A y \in 1 .. z : buf[3 + y - 1] = <<m, y - 1>>
    <3> SUFFICES ASSUME NEW y \in 1 .. z PROVE buf[3 + y - 1] = <<m, y - 1>>
      OBVIOUS
    <3>1. 3 + y - 1 = 2 + y
      BY <1>6
    <3> QED BY <1>11, <3>1
  <2> HIDE DEF q
  <2>3. q = [y \in 1 .. z |-> <<m, y - 1>>]
    BY <2>1, <2>2
  <2> QED BY <2>3 DEF q, BytesOf, z
<1>13. new \in Seq(D) /\ Len(new) = l - z - 2
       /\ \A y \in 1 .. l - z - 2 : new[y] = buf[z + 2 + y]
  <2> HIDE DEF D, buf
  <2>1. buf \in Seq(D) /\ Len(buf) = l
    BY <1>1
  <2> HIDE DEF l
  <2>2. /\ SubSeq(buf, z + 3, l) \in Seq(D)
        /\ Len(SubSeq(buf, z + 3, l)) = l - (z + 3) + 1
        /\ \A y \in 1 .. l - (z + 3) + 1 : SubSeq(buf, z + 3, l)[y] = buf[(z + 3) + y - 1]
    BY <1>6, <1>9, <2>1
  <2>3. l - (z + 3) + 1 = l - z - 2 /\ \A y \in 1 .. l - z - 2 : (z + 3) + y - 1 = z + 2 + y
    BY <1>6, <1>9
  <2>4. new = SubSeq(buf, z + 3, l)
    BY <2>1
  <2> QED BY <2>2, <2>3, <2>4
<1>14. TakeOne(w, x).buf = new /\ TakeOne(w, x).msgs = Append(w.msgs, m)
  <2>1. buf[1][2] = z
    BY <1>10
  <2>2. TakeOne(w, x).msgs = Append(w.msgs, Identify(SubSeq(buf, 3, z + 2)))
        /\ TakeOne(w, x).buf = new
    BY <2>1 DEF TakeOne
  <2> QED BY <1>5, <1>12, <2>2, IdentifySound
<1>15. \A h \in m + 1 .. k :
         /\ Start(m, h) \in Nat /\ z + 2 + Start(m, h) = Start(i, h)
         /\ Start(m, h) + 2 + MsgSize[h] <= Start(i, h) - z + MsgSize[h]
         /\ h \in i + 1 .. k /\ h \in Message
  <2> SUFFICES ASSUME NEW h \in m + 1 .. k
               PROVE  /\ Start(m, h) \in Nat /\ z + 2 + Start(m, h) = Start(i, h)
                      /\ Start(m, h) + 2 + MsgSize[h] <= Start(i, h) - z + MsgSize[h]
                      /\ h \in i + 1 .. k /\ h \in Message
    OBVIOUS
  <2>1. h \in Nat /\ h \in Message /\ m < h /\ h \in i + 1 .. k
    BY <1>1, <1>4, <1>5 DEF Message, N, m
  <2>2. Start(m, h) \in Nat /\ MsgSize[h] \in Nat
    BY <1>5, <2>1, StartNumbers, StreamNumbers DEF N
  <2> DEFINE v == BytesBefore(h - 1)
  <2>3. v \in Nat /\ Start(m, h) = v - e + 2 * (h - 1 - m) /\ Start(i, h) = v - b + 2 * (h - 1 - i)
    BY <2>1, StreamNumbers DEF Start
  <2>4. e = b + z /\ b \in Nat /\ e \in Nat /\ m = i + 1
    BY <1>6 DEF m
  <2> HIDE DEF v, e, b
  <2>5. z + 2 + Start(m, h) = Start(i, h)
    BY <1>4, <1>6, <2>1, <2>2, <2>3, <2>4
  <2> QED BY <1>6, <2>1, <2>2, <2>5
<1>16. ASSUME NEW h \in m + 1 .. k
       PROVE  /\ new[Start(m, h) + 1] = <<0, MsgSize[h]>>
              /\ \A y \in 1 .. MsgSize[h] : BytesBefore(h - 1) + y <= r
                   => new[Start(m, h) + 2 + y] = <<h, y - 1>>
  <2> DEFINE s == Start(m, h)
             t == Start(i, h)
             v == BytesBefore(h - 1)
             c == BytesBefore(k)
  <2>1. s \in Nat /\ z + 2 + s = t /\ h \in i + 1 .. k /\ h \in Nat /\ h <= k
        /\ v = t + b - 2 * (h - 1 - i) /\ v \in Nat /\ b \in Nat
    <3>1. t = v - b + 2 * (h - 1 - i) /\ v \in Nat /\ b \in Nat
      BY <1>6, <1>15, StreamNumbers DEF Start
    <3>2. s \in Nat /\ z + 2 + s = t /\ h \in i + 1 .. k /\ h \in Nat /\ h <= k
      BY <1>4, <1>5, <1>15
    <3> HIDE DEF s, t, v, b
    <3> QED BY <1>4, <1>6, <3>1, <3>2
  <2>2. l = r - b + 2 * (k - i)
    BY <1>1
  <2>3. v < r
    <3>1. k > i /\ k - 1 \in 0 .. N /\ h - 1 \in 0 .. N /\ h - 1 <= k - 1
      BY SMTT(20), <1>1, <1>4, <1>5, <2>1 DEF N
    <3>2. BytesBefore(k - 1) \in Nat /\ v <= BytesBefore(k - 1) /\ BytesBefore(k - 1) < r
      BY <1>1, <3>1, StreamNumbers DEF N
    <3> QED BY <2>1, <3>2
  <2>4. buf[t + 1] = <<0, MsgSize[h]>>
    BY <1>2, <2>1
  <2>5. \A y \in 1 .. MsgSize[h] : v + y <= r => buf[t + 2 + y] = <<h, y - 1>>
    BY <1>3, <2>1
  <2> HIDE DEF s, t, v, b, l
  <2>6. s + 1 \in 1 .. l - z - 2 /\ z + 2 + (s + 1) = t + 1
    BY <1>4, <1>6, <1>9, <2>1, <2>2, <2>3
  <2>7. new[s + 1] = <<0, MsgSize[h]>>
    BY <1>13, <2>4, <2>6
  <2>8. ASSUME NEW y \in 1 .. MsgSize[h], v + y <= r PROVE new[s + 2 + y] = <<h, y - 1>>
    <3>0. y \in Nat /\ 1 <= y
      OBVIOUS
    <3>1. s + 2 + y \in 1 .. l - z - 2 /\ z + 2 + (s + 2 + y) = t + 2 + y
      BY <1>4, <1>6, <1>9, <2>1, <2>2, <2>8, <3>0
    <3>2. buf[t + 2 + y] = <<h, y - 1>>
      BY <2>5, <2>8
    <3> QED BY <1>13, <3>1, <3>2
  <2> QED BY <2>7, <2>8 DEF s, v
<1>17. Len(new) = r - BytesBefore(m) + 2 * (k - m)
  <2>1. l \in Nat /\ l = r - e + 2 * (k - m) + z + 2 /\ Len(new) = l - z - 2 /\ e \in Nat
    BY <1>6, <1>9, <1>13
  <2> HIDE DEF l, e, new
  <2>2. Len(new) = r - e + 2 * (k - m)
    BY <1>4, <1>5, <1>6, <2>1
  <2> QED BY <2>2 DEF e
<1> HIDE DEF new
<1>18. Held(new, m, k, r)
  <2>1. m \in 0 .. N /\ k \in m .. N /\ r <= BytesBefore(k) /\ (k = m => r = BytesBefore(m))
        /\ (k > m => BytesBefore(k - 1) < r)
    BY <1>1, <1>4, <1>5
  <2>2. new \in Seq((0 .. Len(MsgSize)) \X Nat)
    BY <1>13 DEF D, N
  <2>3. \A h \in m + 1 .. k : new[Start(m, h) + 1] = <<0, MsgSize[h]>>
    BY <1>16
  <2>4. \A h \in m + 1 .. k : \A y \in 1 .. MsgSize[h] :
          BytesBefore(h - 1) + y <= r => new[Start(m, h) + 2 + y] = <<h, y - 1>>
    BY <1>16
  <2> QED BY <1>17, <2>1, <2>2, <2>3, <2>4 DEF Held, N
<1> QED BY <1>14, <1>18 DEF m

Taking == INSTANCE FoldFacts WITH Op <- TakeOne

\* The messages that are whole are taken, in their order.
LEMMA TakeMessagesSound ==
  ASSUME NoWrap, NEW buf, NEW i, NEW k, NEW r \in Nat, Held(buf, i, k, r),
         NEW n \in Nat, i + n = Whole(k, r)
  PROVE  /\ Held(TakeMessages(buf, n).buf, i + n, k, r)
         /\ TakeMessages(buf, n).msgs \in Seq(Nat) /\ Len(TakeMessages(buf, n).msgs) = n
         /\ \A x \in 1 .. n : TakeMessages(buf, n).msgs[x] = i + x
<1> DEFINE s == [x \in 1 .. n |-> x]
           start == [buf |-> buf, msgs |-> <<>>]
           t == TakeMessages(buf, n)
<1>1. Len(s) = n /\ Len(s) \in Nat
  OBVIOUS
<1>2. i \in Nat
  BY StreamNumbers DEF Held
<1>3. PICK g : /\ g[0] = start
               /\ \A x \in 1 .. Len(s) : g[x] = TakeOne(g[x - 1], s[x])
               /\ Taking!Folded(start, s) = g[Len(s)]
  BY <1>1, Taking!FoldSteps
<1>4. t = g[n]
  BY <1>1, <1>3 DEF TakeMessages, Fold, Taking!Folded
<1> HIDE DEF t, s
<1> DEFINE Taken(w, x) == /\ Held(w.buf, i + x, k, r) /\ w.msgs \in Seq(Nat) /\ Len(w.msgs) = x
                          /\ \A y \in 1 .. x : w.msgs[y] = i + y
           T == {x \in 0 .. n : Taken(g[x], x)}
<1>5. 0 \in T
  <2>1. g[0].buf = buf /\ g[0].msgs = <<>>
    BY <1>3
  <2>2. i + 0 = i
    BY <1>2
  <2>3. Len(<<>>) = 0 /\ <<>> \in Seq(Nat) /\ \A y \in 1 .. 0 : FALSE
    OBVIOUS
  <2>4. Taken(g[0], 0)
    BY <2>1, <2>2, <2>3
  <2> QED BY <2>4
<1>6. ASSUME NEW x \in 1 .. n, x - 1 \in T PROVE x \in T
  <2> DEFINE w == g[x - 1]
             u == g[x]
  <2>1. Taken(w, x - 1)
    BY <1>6
  <2>2. u = TakeOne(w, s[x])
    BY <1>1, <1>3
  <2> HIDE DEF w, u
  <2>3. i + (x - 1) < Whole(k, r) /\ i + (x - 1) + 1 = i + x /\ x - 1 \in Nat
    BY <1>2
  <2>4. Held(u.buf, i + x, k, r) /\ u.msgs = Append(w.msgs, i + x)
    <3> DEFINE h == i + (x - 1)
    <3>1. Held(w.buf, h, k, r) /\ h < Whole(k, r) /\ h + 1 = i + x
      BY <2>1, <2>3
    <3> HIDE DEF h
    <3>2. Held(u.buf, h + 1, k, r) /\ u.msgs = Append(w.msgs, h + 1)
      BY <2>2, <3>1, TakeOneSound
    <3> QED BY <3>1, <3>2
  <2>5. w.msgs \in Seq(Nat) /\ Len(w.msgs) = x - 1 /\ i + x \in Nat
    BY <1>2, <2>1
  <2>6. u.msgs \in Seq(Nat) /\ Len(u.msgs) = x
        /\ \A y \in 1 .. x : u.msgs[y] = IF y = x THEN i + x ELSE w.msgs[y]
    BY <2>4, <2>5
  <2>7. \A y \in 1 .. x : u.msgs[y] = i + y
    <3> SUFFICES ASSUME NEW y \in 1 .. x PROVE u.msgs[y] = i + y
      OBVIOUS
    <3>1. CASE y = x
      BY <2>6, <3>1
    <3>2. CASE y # x
      <4>1. y \in 1 .. x - 1
        BY <3>2
      <4> QED BY <2>1, <2>6, <3>2, <4>1
    <3> QED BY <3>1, <3>2
  <2>8. Taken(u, x)
    BY <2>4, <2>6, <2>7
  <2> QED BY <2>8 DEF u
<1> HIDE DEF T
<1>7. \A x \in 0 .. n : x \in T
  BY <1>5, <1>6, Assembling!HoldsToTheEnd
<1>8. Taken(g[n], n)
  BY <1>7 DEF T
<1> QED BY <1>4, <1>8 DEF t

-----------------------------------------------------------------------------
(* The assembly loop of wtp_rx_handle_packet.                               *)

\* When the next fragment goes on where position r is, the border moves to its end.
LEMMA BorderAdvances ==
  ASSUME NoWrap, NEW P, NEW c \in Nat, PiecesSound(P, c), NEW r \in Nat, NEW fs,
         Len(fs) \in Nat, NEW u \in 0 .. Len(fs) - 1,
         Between(P, r), WaitingSound(P, r, fs, u), fs[u + 1].seq = r
  PROVE  /\ Between(P, r + fs[u + 1].len)
         /\ WaitingSound(P, r + fs[u + 1].len, fs, u + 1)
<1> DEFINE f == fs[u + 1]
           n == f.len
<1>1. u + 1 \in u + 1 .. Len(fs) /\ u \in Nat
  OBVIOUS
<1>2. Placed(f, P) /\ f.seq = r
  BY <1>1 DEF WaitingSound
<1> HIDE DEF f
<1>3. n \in Nat \ {0}
  BY <1>2, PlacedNumbers
<1>4. /\ PositionOf(Piece(f)) = r /\ EndOf(Piece(f)) = r + n /\ Piece(f) \in P
  BY <1>2 DEF Placed, Piece, PositionOf, EndOf
<1> HIDE DEF n
<1>5. ASSUME NEW q \in P, PositionOf(q) < r + n PROVE EndOf(q) <= r + n
  <2>1. PositionOf(q) \in Nat /\ EndOf(q) \in Nat
    <3>1. q.msg \in Message /\ q.off \in Nat /\ q.len \in Nat
      BY DEF PiecesSound, PieceSound
    <3>2. BytesBefore(q.msg - 1) \in Nat
      BY <3>1, StreamNumbers
    <3> QED BY SMTT(20), <3>1, <3>2 DEF PositionOf, EndOf
  <2>2. CASE PositionOf(q) < r
    <3>1. EndOf(q) <= r
      BY <2>2 DEF Between
    <3> QED BY <1>3, <2>1, <3>1
  <2>3. CASE PositionOf(q) = r
    <3>1. q = Piece(f)
      BY <1>4, <2>3 DEF PiecesSound, Apart
    <3> QED BY <1>3, <1>4, <3>1
  <2>4. CASE r < PositionOf(q)
    <3>1. r + n <= PositionOf(q)
      BY <1>4, <2>4 DEF PiecesSound, Apart
    <3> QED BY <1>3, <1>5, <2>1, <3>1
  <2> QED BY <2>1, <2>2, <2>3, <2>4
<1>6. ASSUME NEW l \in u + 1 + 1 .. Len(fs) PROVE Placed(fs[l], P) /\ r + n <= fs[l].seq
  <2>1. l \in u + 1 .. Len(fs) /\ u + 1 < l
    BY <1>1
  <2>2. Placed(fs[l], P) /\ r < fs[l].seq
    BY <1>1, <1>2, <2>1 DEF WaitingSound, f
  <2>3. r + n <= fs[l].seq
    BY <1>2, <2>2, PlacedApart DEF n
  <2> QED BY <2>2, <2>3
<1>7. \A k, l \in u + 1 + 1 .. Len(fs) : k < l => fs[k].seq < fs[l].seq
  <2>1. \A k \in u + 1 + 1 .. Len(fs) : k \in u + 1 .. Len(fs)
    BY <1>1
  <2> QED BY <2>1 DEF WaitingSound
<1>8. Between(P, r + n)
  BY <1>5 DEF Between
<1>9. WaitingSound(P, r + n, fs, u + 1)
  BY <1>6, <1>7 DEF WaitingSound
<1> QED BY <1>8, <1>9 DEF n, f

\* What is announced still when fragment f is taken, up to position e.
StillAnnounced(infos, f, e) == IF e = BytesBefore(f.msg) THEN Tail(infos) ELSE infos

\* The message it is of is then the first one announced; if it ends there, the others
\* stay announced.
LEMMA InfosAdvance ==
  ASSUME NoWrap, NEW P, NEW c \in Nat, PiecesSound(P, c), NEW r \in Nat, NEW fs,
         Len(fs) \in Nat, NEW u \in 0 .. Len(fs) - 1,
         WaitingSound(P, r, fs, u), fs[u + 1].seq = r,
         NEW infos \in Seq(MsgInfoType), InfosSound(r, infos, fs, u)
  PROVE  /\ infos # <<>> /\ Head(infos) = InfoOf(fs[u + 1].msg)
         /\ InfosSound(r + fs[u + 1].len,
                       StillAnnounced(infos, fs[u + 1], r + fs[u + 1].len), fs, u + 1)
<1> DEFINE e == r + fs[u + 1].len
           left == StillAnnounced(infos, fs[u + 1], e)
<1>0. e = r + fs[u + 1].len
      /\ left = IF e = BytesBefore(fs[u + 1].msg) THEN Tail(infos) ELSE infos
  BY DEF StillAnnounced
<1> HIDE DEF e, left
<1> DEFINE f == fs[u + 1]
           m == f.msg
           N == Len(MsgSize)
           ends == e = BytesBefore(m)
<1>1. u + 1 \in u + 1 .. Len(fs) /\ u \in Nat
  OBVIOUS
<1>2. Placed(f, P) /\ f.seq = r
  BY <1>1 DEF WaitingSound
<1> HIDE DEF f
<1>3. /\ m \in Message /\ f.off \in Nat /\ f.len \in Nat \ {0}
      /\ BytesBefore(m - 1) <= r /\ e <= BytesBefore(m)
      /\ r < BytesBefore(m) /\ (f.off = 0 <=> r = BytesBefore(m - 1))
      /\ e = r + f.len
  <2>1. e = r + f.len
    BY <1>0 DEF f
  <2> QED BY <1>2, <2>1, PlacedNumbers
<1> HIDE DEF m, ends
<1>4. m \in Nat /\ m \in 0 .. N /\ m - 1 \in 0 .. N /\ BytesBefore(m) \in Nat
      /\ BytesBefore(m - 1) \in Nat /\ N \in Nat /\ e \in Nat /\ r < e
  <2>1. e \in Nat /\ r < e
    BY <1>3
  <2> QED BY <1>3, <2>1, StreamNumbers
<1> HIDE DEF N
<1>5. infos # <<>> /\ Head(infos) = InfoOf(m) /\ Len(infos) \in Nat /\ 1 <= Len(infos)
      /\ infos[1] = InfoOf(m)
  <2>1. \E k \in 1 .. Len(infos) : infos[k] = InfoOf(m)
    <3>1. CASE f.off = 0
      <4>1. fs[u + 1].off = 0 /\ fs[u + 1].msg = m
        BY <3>1 DEF f, m
      <4> QED BY <1>1, <4>1 DEF InfosSound, FirstsAnnounced
    <3>2. CASE f.off # 0
      <4>1. BytesBefore(m - 1) < r /\ r < BytesBefore(m)
        BY <1>3, <1>4, <3>2
      <4> QED BY <1>3, <4>1 DEF InfosSound, CurrentAnnounced
    <3> QED BY <3>1, <3>2
  <2>2. PICK k \in 1 .. Len(infos) : infos[k] = InfoOf(m)
    BY <2>1
  <2>3. k = 1 /\ infos # <<>> /\ Head(infos) = InfoOf(m)
    BY <1>3, <2>2, HeadInfo
  <2> QED BY <2>2, <2>3
\* Another message that is announced is a later one.
<1>6. ASSUME NEW h \in Message, BytesBefore(m - 1) < BytesBefore(h - 1)
      PROVE  /\ m < h /\ BytesBefore(m) <= BytesBefore(h - 1)
             /\ BytesBefore(h - 1) < BytesBefore(h) /\ BytesBefore(h) \in Nat
             /\ BytesBefore(h - 1) \in Nat
  <2>1. h \in Nat /\ h \in 0 .. N /\ h - 1 \in 0 .. N
    BY StreamNumbers DEF N
  <2>2. BytesBefore(h) \in Nat /\ BytesBefore(h - 1) \in Nat
        /\ BytesBefore(h - 1) < BytesBefore(h)
    BY <2>1, StreamNumbers DEF N
  <2>3. ~(h - 1 <= m - 1)
    <3>1. h - 1 <= m - 1 => BytesBefore(h - 1) <= BytesBefore(m - 1)
      BY <1>4, <2>1, StreamNumbers DEF N
    <3> QED BY <1>4, <1>6, <2>2, <3>1
  <2>4. m <= h - 1 /\ m < h
    BY <1>4, <2>1, <2>3
  <2>5. BytesBefore(m) <= BytesBefore(h - 1)
    BY <1>4, <2>1, <2>4, StreamNumbers DEF N
  <2> QED BY <2>2, <2>4, <2>5
<1> DEFINE s == IF ends THEN 1 ELSE 0
<1>7. /\ s \in {0, 1} /\ Len(left) = Len(infos) - s
      /\ \A k \in 1 .. Len(infos) - s : left[k] = infos[k + s]
      /\ s = 0 <=> ~ends
  <2>1. CASE ends
    <3>1. left = Tail(infos)
      BY <1>0, <2>1 DEF ends, m, f
    <3> QED BY <1>5, <2>1, <3>1
  <2>2. CASE ~ends
    <3>1. left = infos
      BY <1>0, <2>2 DEF ends, m, f
    <3> QED BY <1>5, <2>2, <3>1
  <2> QED BY <2>1, <2>2
<1> HIDE DEF s
<1>8. \A k \in 1 .. Len(left) : k + s \in 1 .. Len(infos) /\ left[k] = infos[k + s]
  <2> SUFFICES ASSUME NEW k \in 1 .. Len(left)
               PROVE  k + s \in 1 .. Len(infos) /\ left[k] = infos[k + s]
    OBVIOUS
  <2>1. k \in 1 .. Len(infos) - s /\ s \in Nat
    BY <1>7
  <2>2. k + s \in 1 .. Len(infos)
    BY <1>5, <2>1
  <2> QED BY <1>7, <2>1, <2>2
<1>9. \A k \in 1 .. Len(infos) : k # 1 \/ ~ends
        => \E l \in 1 .. Len(left) : left[l] = infos[k]
  <2> SUFFICES ASSUME NEW k \in 1 .. Len(infos), k # 1 \/ ~ends
               PROVE  \E l \in 1 .. Len(left) : left[l] = infos[k]
    OBVIOUS
  <2>1. k - s \in 1 .. Len(left) /\ (k - s) + s = k
    <3> DEFINE n == Len(infos)
               d == Len(left)
    <3>1. d = n - s /\ n \in Nat /\ k \in 1 .. n /\ (s = 0 \/ (s = 1 /\ k # 1))
      BY <1>5, <1>7
    <3> HIDE DEF n, d
    <3>2. k - s \in 1 .. d /\ (k - s) + s = k
      BY <3>1
    <3> QED BY <3>2 DEF d
  <2> QED BY <1>8, <2>1
<1>10. ends <=> ~(e < BytesBefore(m))
  BY SMTT(20), <1>3, <1>4 DEF ends
<1>11. Announced(e, left, fs, u + 1)
  <2> SUFFICES ASSUME NEW k \in 1 .. Len(left)
               PROVE  \E h \in Message :
                        /\ left[k] = InfoOf(h) /\ e < BytesBefore(h)
                        /\ \/ BytesBefore(h - 1) < e
                           \/ \E l \in u + 1 + 1 .. Len(fs) : fs[l].seq = BytesBefore(h - 1)
    BY DEF Announced
  <2> DEFINE j == k + s
  <2>1. j \in 1 .. Len(infos) /\ left[k] = infos[j]
    BY <1>8
  <2>2. PICK h \in Message :
          /\ infos[j] = InfoOf(h) /\ r < BytesBefore(h)
          /\ \/ BytesBefore(h - 1) < r
             \/ \E l \in u + 1 .. Len(fs) : fs[l].seq = BytesBefore(h - 1)
    BY <2>1 DEF InfosSound, Announced
  <2>3. CASE j = 1
    <3>1. ~ends
      <4>1. k \in Nat /\ k >= 1
        OBVIOUS
      <4>2. s = 0
        BY <1>7, <2>3, <4>1
      <4> QED BY <1>7, <4>2
    <3>2. e < BytesBefore(m) /\ BytesBefore(m - 1) < e
      BY <1>3, <1>4, <1>10, <3>1
    <3>3. left[k] = InfoOf(m)
      BY <1>5, <2>1, <2>3
    <3> QED BY <1>3, <3>2, <3>3
  <2>4. CASE j # 1
    <3>1. infos[1].begin < infos[j].begin
      <4>1. 1 \in 1 .. Len(infos) /\ 1 < j
        BY <1>5, <2>1, <2>4
      <4> QED BY <2>1, <4>1 DEF InfosSound, InOrder
    <3>2. BytesBefore(m - 1) < BytesBefore(h - 1)
      BY <1>5, <2>2, <3>1 DEF InfoOf
    <3>3. BytesBefore(m) <= BytesBefore(h - 1) /\ BytesBefore(h - 1) < BytesBefore(h)
          /\ BytesBefore(h) \in Nat /\ BytesBefore(h - 1) \in Nat
      BY <1>6, <3>2
    <3>4. e < BytesBefore(h) /\ ~(BytesBefore(h - 1) < r) /\ r # BytesBefore(h - 1)
      <4> DEFINE x == BytesBefore(m)
                 y == BytesBefore(h - 1)
                 z == BytesBefore(h)
      <4>1. x <= y /\ y < z /\ z \in Nat /\ y \in Nat /\ x \in Nat /\ e <= x /\ r < x
            /\ e \in Nat
        BY <1>3, <1>4, <3>3
      <4> HIDE DEF x, y, z
      <4>2. e < z /\ ~(y < r) /\ r # y
        BY <4>1
      <4> QED BY <4>2 DEF y, z
    <3>5. PICK l \in u + 1 .. Len(fs) : fs[l].seq = BytesBefore(h - 1)
      BY <2>2, <3>4
    <3>6. l # u + 1
      BY <1>2, <3>4, <3>5 DEF f
    <3>7. l \in u + 1 + 1 .. Len(fs)
      BY <1>1, <3>5, <3>6
    <3>8. left[k] = InfoOf(h)
      BY <2>1, <2>2
    <3> QED BY <3>4, <3>5, <3>7, <3>8
  <2> QED BY <2>3, <2>4
<1>12. InOrder(left)
  <2> SUFFICES ASSUME NEW k \in 1 .. Len(left), NEW l \in 1 .. Len(left), k < l
               PROVE  left[k].begin < left[l].begin
    BY DEF InOrder
  <2>1. k + s \in 1 .. Len(infos) /\ l + s \in 1 .. Len(infos)
    BY <1>8
  <2>3. k + s < l + s
    BY <1>7
  <2> QED BY <1>8, <2>1, <2>3 DEF InfosSound, InOrder
<1>13. FirstsAnnounced(left, fs, u + 1)
  <2> SUFFICES ASSUME NEW l \in u + 1 + 1 .. Len(fs), fs[l].off = 0
               PROVE  \E k \in 1 .. Len(left) : left[k] = InfoOf(fs[l].msg)
    BY DEF FirstsAnnounced
  <2>1. l \in u + 1 .. Len(fs) /\ u + 1 < l
    BY <1>1
  <2>2. PICK k \in 1 .. Len(infos) : infos[k] = InfoOf(fs[l].msg)
    BY <2>1 DEF InfosSound, FirstsAnnounced
  <2>3. r < fs[l].seq /\ Placed(fs[l], P)
    BY <1>1, <1>2, <2>1 DEF WaitingSound, f
  <2>4. fs[l].seq = BytesBefore(fs[l].msg - 1)
    BY <2>3, PlacedNumbers
  <2>5. k # 1
    <3> SUFFICES ASSUME k = 1 PROVE FALSE
      OBVIOUS
    <3>1. BytesBefore(fs[l].msg - 1) = BytesBefore(m - 1)
      BY <1>5, <2>2 DEF InfoOf
    <3> QED BY <1>3, <1>4, <2>3, <2>4, <3>1
  <2>6. \E x \in 1 .. Len(left) : left[x] = infos[k]
    BY <1>9, <2>2, <2>5
  <2> QED BY <2>2, <2>6
<1>14. CurrentAnnounced(e, left)
  <2> SUFFICES ASSUME NEW h \in Message, BytesBefore(h - 1) < e, e < BytesBefore(h)
               PROVE  \E k \in 1 .. Len(left) : left[k] = InfoOf(h)
    BY DEF CurrentAnnounced
  <2>1. h = m
    <3>1. h \in Nat /\ h \in 0 .. N /\ h - 1 \in 0 .. N /\ BytesBefore(h) \in Nat
          /\ BytesBefore(h - 1) \in Nat
      BY StreamNumbers DEF N
    <3>2. ~(m <= h - 1)
      <4>1. m <= h - 1 => BytesBefore(m) <= BytesBefore(h - 1)
        BY <1>4, <3>1, StreamNumbers DEF N
      <4> QED BY <1>3, <1>4, <3>1, <4>1
    <3>3. ~(h <= m - 1)
      <4>1. h <= m - 1 => BytesBefore(h) <= BytesBefore(m - 1)
        BY <1>4, <3>1, StreamNumbers DEF N
      <4>2. BytesBefore(m - 1) < BytesBefore(h)
        BY SMTT(20), <1>3, <1>4, <3>1
      <4> QED BY <1>4, <3>1, <4>1, <4>2
    <3> QED BY <1>4, <3>1, <3>2, <3>3
  <2>2. ~ends
    BY <1>10, <2>1
  <2>3. 1 \in 1 .. Len(infos) /\ infos[1] = InfoOf(h)
    BY <1>5, <2>1
  <2> QED BY <1>9, <2>2, <2>3
<1>15. InfosSound(e, left, fs, u + 1)
  BY <1>11, <1>12, <1>13, <1>14 DEF InfosSound
<1> QED BY <1>5, <1>15 DEF m, f, e, left

\* What the loop has so far: it started with position b when i messages had been taken
\* from the buffer, and c is the end of what was cut.
AssemblyType(w, n) ==
  [seq : Nat, infos : Seq(MsgInfoType), buf : {w.buf}, used : 0 .. n, nMsgs : Nat,
   status : {"going", "gap"}]
AssemblySound(w, P, fs, i, b, c) ==
  /\ w \in AssemblyType(w, Len(fs)) /\ Len(w.infos) <= MsgInfoSize
  /\ b <= w.seq /\ w.seq <= c
  /\ Between(P, w.seq) /\ WaitingSound(P, w.seq, fs, w.used)
  /\ InfosSound(w.seq, w.infos, fs, w.used)
  /\ \E k : Held(w.buf, i, k, w.seq) /\ i + w.nMsgs = Whole(k, w.seq)

\* The loop is about to look at fragment t.
AtTurn(w, t) == w.status = "going" /\ w.used = t - 1

\* A fragment that goes on with the stream is taken, with nothing missing in the buffer.
LEMMA FragmentTaken ==
  ASSUME NoWrap, BufferSuffices, NEW P, NEW c \in 0 .. SeqSpace - 1, PiecesSound(P, c),
         NEW fs, Len(fs) \in Nat, NEW i, NEW b \in Nat, i < Len(MsgSize) => b < BytesBefore(i + 1),
         c <= b + Window, NEW t \in 1 .. Len(fs),
         NEW w, AssemblySound(w, P, fs, i, b, c), AtTurn(w, t),
         Consecutive(w.seq, fs[t])
  PROVE  LET u == AssembleStep(w, fs[t])
         IN AssemblySound(u, P, fs, i, b, c) /\ AtTurn(u, t + 1)
<1> DEFINE f == fs[t]
           m == f.msg
           u == AssembleStep(w, f)
           r == w.seq
           e == r + f.len
           headed == Headed(w.buf, f)
           new == headed \o Payload(f)
           left == StillAnnounced(w.infos, f, e)
           nMsgs == IF e = BytesBefore(m) THEN w.nMsgs + 1 ELSE w.nMsgs
<1>0. w.status = "going" /\ w.used = t - 1
  BY DEF AtTurn
<1> USE <1>0
<1>1. /\ r \in Nat /\ w.infos \in Seq(MsgInfoType) /\ w.nMsgs \in Nat
      /\ w = [seq |-> w.seq, infos |-> w.infos, buf |-> w.buf, used |-> w.used,
              nMsgs |-> w.nMsgs, status |-> w.status]
      /\ Len(w.infos) <= MsgInfoSize /\ b <= r /\ r <= c
      /\ Between(P, r) /\ WaitingSound(P, r, fs, t - 1) /\ InfosSound(r, w.infos, fs, t - 1)
  BY DEF AssemblySound, AssemblyType
<1>2. PICK k : Held(w.buf, i, k, r) /\ i + w.nMsgs = Whole(k, r)
  BY DEF AssemblySound
<1>3. c \in Nat /\ c < SeqSpace /\ SeqSpace \in Nat /\ t - 1 \in 0 .. Len(fs) - 1
      /\ t - 1 + 1 = t /\ t \in t - 1 + 1 .. Len(fs)
  BY SeqSpaceSize
<1>4. Placed(f, P) /\ f.seq = r
  BY <1>1, <1>3 DEF WaitingSound, Consecutive
<1> HIDE DEF f
<1>5. /\ m \in Message /\ f.off \in Nat /\ f.len \in Nat \ {0}
      /\ r = BytesBefore(m - 1) + f.off /\ f.off + f.len <= MsgSize[m]
      /\ r + f.len <= c /\ BytesBefore(m - 1) <= r /\ r + f.len <= BytesBefore(m)
      /\ r < BytesBefore(m)
      /\ f.off = 0 <=> r = BytesBefore(m - 1)
  BY <1>3, <1>4, PlacedNumbers
<1>6. /\ BytesBefore(m) \in Nat /\ BytesBefore(m - 1) \in Nat /\ MsgSize[m] \in Nat
      /\ BytesBefore(m) = BytesBefore(m - 1) + MsgSize[m] /\ BytesBefore(m) < SeqSpace
      /\ m \in Nat
  BY <1>5, StreamNumbers
<1>7. e \in Nat /\ r < e /\ e <= c /\ b <= e /\ e < SeqSpace
  <2> DEFINE n == f.len
  <2>1. n \in Nat \ {0} /\ r + n <= c /\ r \in Nat /\ b <= r
    BY <1>1, <1>5
  <2> HIDE DEF r, n
  <2>2. r + n \in Nat /\ r < r + n /\ r + n <= c /\ b <= r + n /\ r + n < SeqSpace
    BY <1>3, <2>1
  <2> QED BY <2>2 DEF n
<1>8. SeqAdd(r, f.len) = e
  <2>1. At(e) = e
    BY <1>3, <1>7, AtSmall
  <2> QED BY <2>1 DEF SeqAdd, At
<1> HIDE DEF m
<1>9. Between(P, e) /\ WaitingSound(P, e, fs, t)
  BY <1>1, <1>3, <1>4, BorderAdvances DEF f
<1>10. w.infos # <<>> /\ Head(w.infos) = InfoOf(m) /\ InfosSound(e, left, fs, t)
  <2> DEFINE v == t - 1
  <2>0. v \in 0 .. Len(fs) - 1 /\ v + 1 = t /\ WaitingSound(P, r, fs, v)
        /\ InfosSound(r, w.infos, fs, v)
    BY <1>1, <1>3
  <2> HIDE DEF v
  <2>1. fs[v + 1] = f
    BY <2>0 DEF f
  <2>2. r \in Nat /\ w.infos \in Seq(MsgInfoType) /\ fs[v + 1].seq = r /\ c \in Nat
    BY <1>1, <1>3, <1>4, <2>1
  <2> HIDE DEF r
  <2>4. w.infos # <<>> /\ Head(w.infos) = InfoOf(fs[v + 1].msg)
        /\ InfosSound(r + fs[v + 1].len,
                      StillAnnounced(w.infos, fs[v + 1], r + fs[v + 1].len), fs, v + 1)
    BY <2>0, <2>2, InfosAdvance
  <2> QED BY <2>0, <2>1, <2>4 DEF m
<1>11. Head(w.infos).begin = BytesBefore(m - 1) /\ Head(w.infos).size = MsgSize[m]
  BY <1>10 DEF InfoOf
<1> DEFINE begins == w.infos # <<>> /\ Head(w.infos).begin = w.seq
           room   == IF begins THEN 2 ELSE 0
           ends   == MessageEnds(w.infos, SeqAdd(w.seq, f.len))
<1>12. begins <=> f.off = 0
  BY <1>5, <1>10, <1>11
<1>13. ends <=> e = BytesBefore(m)
  <2>1. SeqAdd(BytesBefore(m - 1), MsgSize[m]) = BytesBefore(m)
    <3>1. At(BytesBefore(m)) = BytesBefore(m)
      BY <1>3, <1>6, AtSmall
    <3> QED BY <1>6, <3>1 DEF SeqAdd, At
  <2> QED BY <1>8, <1>10, <1>11, <2>1 DEF MessageEnds
<1>14. /\ Len(headed) = Len(w.buf) + room /\ Len(new) = Len(headed) + f.len
       /\ Held(new, i, m, e)
  <2> HIDE DEF begins
  <2>2. PieceFrom(f, r)
    BY <1>5 DEF m, PieceFrom
  <2> HIDE DEF r
  <2>4. r \in Nat /\ Held(w.buf, i, k, r)
    BY <1>1, <1>2
  <2> HIDE DEF new, headed
  <2>5. /\ Len(Headed(w.buf, f)) = Len(w.buf) + (IF f.off = 0 THEN 2 ELSE 0)
        /\ Len(Headed(w.buf, f) \o Payload(f)) = Len(Headed(w.buf, f)) + f.len
        /\ Held(Headed(w.buf, f) \o Payload(f), i, f.msg, r + f.len)
    BY <2>2, <2>4, HeldGrows
  <2>3. /\ Len(headed) = Len(w.buf) + (IF f.off = 0 THEN 2 ELSE 0)
        /\ Len(new) = Len(headed) + f.len
        /\ Held(new, i, f.msg, r + f.len)
    BY <2>5 DEF headed, new
  <2> QED BY <1>12, <2>3 DEF m
<1>15. Len(w.buf) \in Nat /\ Len(w.buf) <= MsgBufSize /\ Len(new) \in Nat /\ Len(new) <= MsgBufSize
  <2>1. r <= b + Window /\ e <= b + Window
    BY SMTT(20), <1>1, <1>3, <1>7, SeqSpaceSize
  <2> HIDE DEF r, e, new
  <2> QED BY <1>1, <1>2, <1>7, <1>14, <2>1, HeldFits
<1>16. ~(Len(w.buf) + room > MsgBufSize) /\ ~(Len(headed) + f.len > MsgBufSize)
  <2> DEFINE x == Len(w.buf)
             y == Len(headed)
             z == Len(new)
  <2>1. x \in Nat /\ z \in Nat /\ z <= MsgBufSize /\ y = x + room /\ z = y + f.len
        /\ room \in Nat
    BY <1>14, <1>15
  <2> HIDE DEF x, y, z, room
  <2>2. ~(x + room > MsgBufSize) /\ ~(y + f.len > MsgBufSize)
    BY <1>5, <2>1, MsgBufAssumption
  <2> QED BY <2>2 DEF x, y
<1>17. u = [w EXCEPT !.buf = new, !.seq = e, !.used = w.used + 1, !.infos = left, !.nMsgs = nMsgs]
  <2> DEFINE hd == IF begins THEN w.buf \o SizeHeader(Head(w.infos).size) ELSE w.buf
  <2>1. hd = headed
    BY <1>11, <1>12 DEF Headed, m
  <2> DEFINE in == IF ends THEN Tail(w.infos) ELSE w.infos
             nm == IF ends THEN w.nMsgs + 1 ELSE w.nMsgs
             go == [w EXCEPT !.buf = hd \o Payload(f), !.seq = SeqAdd(w.seq, f.len),
                             !.used = w.used + 1, !.infos = in, !.nMsgs = nm]
             e1 == [w EXCEPT !.status = "error"]
             e2 == [w EXCEPT !.buf = hd, !.status = "gap"]
             e3 == [w EXCEPT !.buf = hd, !.status = "error"]
             c1 == w.status # "going"
             c2 == Len(w.buf) + room > MsgBufSize
             c3 == ~Consecutive(w.seq, f)
             c4 == Len(hd) + f.len > MsgBufSize
  <2>2. in = left /\ nm = nMsgs
    BY <1>13 DEF StillAnnounced, m
  <2>3. u = IF c1 THEN w ELSE IF c2 THEN e1 ELSE IF c3 THEN e2 ELSE IF c4 THEN e3 ELSE go
    BY <1>1 DEF AssembleStep
  <2>4. ~c1 /\ ~c3
    BY <1>4 DEF Consecutive
  <2>5. ~c2 /\ ~c4
    BY <1>16, <2>1
  <2> HIDE DEF u, c1, c2, c3, c4, e1, e2, e3, go
  <2>6. u = go
    BY <2>3, <2>4, <2>5
  <2> HIDE DEF hd, headed, in, nm, left, nMsgs
  <2> QED BY <1>8, <2>1, <2>2, <2>6 DEF go
<1> HIDE DEF u, ends, begins, room, headed
<1>18. left \in Seq(MsgInfoType) /\ Len(left) <= MsgInfoSize
  <2>1. Len(w.infos) \in Nat /\ Tail(w.infos) \in Seq(MsgInfoType)
        /\ Len(Tail(w.infos)) <= Len(w.infos)
    BY <1>1, <1>10
  <2> QED BY <1>1, <2>1, MsgInfoAssumption DEF StillAnnounced
<1>19. nMsgs \in Nat /\ i + nMsgs = Whole(m, e)
  <2>1. Whole(k, r) = m - 1
    <3> HIDE DEF r
    <3> QED BY <1>1, <1>2, <1>5, HeldAt
  <2>2. i \in Nat
    <3>1. i \in 0 .. Len(MsgSize)
      BY <1>2 DEF Held
    <3> QED BY <3>1, StreamNumbers
  <2>3. i + w.nMsgs = m - 1
    BY <1>2, <2>1
  <2> DEFINE n == w.nMsgs
  <2>6. n \in Nat /\ i + n = m - 1
    BY <1>1, <2>3
  <2>4. CASE e = BytesBefore(m)
    <3>1. nMsgs = n + 1 /\ Whole(m, e) = m
      BY <2>4 DEF Whole
    <3> HIDE DEF n, nMsgs, e
    <3>2. n + 1 \in Nat /\ i + (n + 1) = m
      BY <1>6, <2>2, <2>6
    <3> QED BY <3>1, <3>2
  <2>5. CASE e # BytesBefore(m)
    <3>1. nMsgs = n /\ Whole(m, e) = m - 1
      BY <2>5 DEF Whole
    <3> HIDE DEF n, nMsgs, e
    <3>2. nMsgs \in Nat /\ i + nMsgs = m - 1
      BY <2>6, <3>1
    <3> QED BY <3>1, <3>2
  <2> QED BY <2>4, <2>5
<1> HIDE DEF new, left, nMsgs, e
<1>20. /\ u.seq = e /\ u.infos = left /\ u.buf = new /\ u.used = t /\ u.nMsgs = nMsgs
       /\ u.status = "going"
       /\ u = [seq |-> e, infos |-> left, buf |-> new, used |-> t, nMsgs |-> nMsgs,
               status |-> "going"]
  <2>1. w.used + 1 = t
    BY <1>3
  <2> QED BY <1>1, <1>17, <2>1
<1>21. u \in AssemblyType(u, Len(fs))
  BY <1>3, <1>7, <1>18, <1>19, <1>20 DEF AssemblyType
<1>22. AssemblySound(u, P, fs, i, b, c)
  BY <1>7, <1>9, <1>10, <1>14, <1>18, <1>19, <1>20, <1>21 DEF AssemblySound
<1>23. AtTurn(u, t + 1)
  BY <1>20 DEF AtTurn
<1> QED BY <1>22, <1>23 DEF u, f

\* At a gap the loop stops, and has put nothing into the buffer.
LEMMA GapFound ==
  ASSUME NoWrap, BufferSuffices, NEW P, NEW c \in 0 .. SeqSpace - 1, PiecesSound(P, c),
         NEW fs, Len(fs) \in Nat, NEW i, NEW b \in Nat, i < Len(MsgSize) => b < BytesBefore(i + 1),
         c <= b + Window, NEW t \in 1 .. Len(fs),
         NEW w, AssemblySound(w, P, fs, i, b, c), AtTurn(w, t),
         fs[t].seq # w.seq
  PROVE  LET u == AssembleStep(w, fs[t])
         IN /\ AssemblySound(u, P, fs, i, b, c) /\ u.status = "gap" /\ u.used = t - 1
            /\ u.seq < fs[t].seq
<1> DEFINE f == fs[t]
           u == AssembleStep(w, f)
           r == w.seq
<1>0. w.status = "going" /\ w.used = t - 1
  BY DEF AtTurn
<1> USE <1>0
<1>1. /\ r \in Nat /\ w.infos \in Seq(MsgInfoType) /\ w.nMsgs \in Nat
      /\ w.used \in 0 .. Len(fs)
      /\ w = [seq |-> w.seq, infos |-> w.infos, buf |-> w.buf, used |-> w.used,
              nMsgs |-> w.nMsgs, status |-> w.status]
      /\ Len(w.infos) <= MsgInfoSize /\ b <= r /\ r <= c
      /\ Between(P, r) /\ WaitingSound(P, r, fs, t - 1) /\ InfosSound(r, w.infos, fs, t - 1)
  BY DEF AssemblySound, AssemblyType
<1>2. PICK k : Held(w.buf, i, k, r) /\ i + w.nMsgs = Whole(k, r)
  BY DEF AssemblySound
<1>3. c \in Nat /\ t \in t - 1 + 1 .. Len(fs)
  BY SeqSpaceSize
<1>4. r < f.seq
  <2>1. Placed(f, P) /\ r <= f.seq
    BY <1>1, <1>3 DEF WaitingSound
  <2>2. f.seq \in Nat
    BY <1>3, <2>1, PlacedNumbers
  <2> QED BY <1>1, <2>1, <2>2
<1> DEFINE begins == w.infos # <<>> /\ Head(w.infos).begin = w.seq
           room   == IF begins THEN 2 ELSE 0
<1>5. ~begins
  <2> SUFFICES ASSUME begins PROVE FALSE
    OBVIOUS
  <2>1. 1 \in 1 .. Len(w.infos) /\ w.infos[1].begin = r
    BY <1>1
  <2>2. PICK h \in Message :
          /\ w.infos[1] = InfoOf(h)
          /\ BytesBefore(h - 1) < r \/ \E l \in t - 1 + 1 .. Len(fs) : fs[l].seq = BytesBefore(h - 1)
    BY <1>1, <2>1 DEF InfosSound, Announced
  <2>3. BytesBefore(h - 1) = r
    BY <2>1, <2>2 DEF InfoOf
  <2>4. PICK l \in t - 1 + 1 .. Len(fs) : fs[l].seq = r
    BY <1>1, <2>2, <2>3
  <2>5. l = t \/ t < l
    BY <2>4
  <2>6. t < l => fs[t].seq < fs[l].seq
    BY <1>1, <1>3 DEF WaitingSound
  <2>7. Placed(f, P) /\ f.seq \in Nat
    <3>1. Placed(f, P)
      BY <1>1, <1>3 DEF WaitingSound
    <3> QED BY <1>3, <3>1, PlacedNumbers
  <2>8. f.seq < r \/ f.seq = r
    BY <2>4, <2>5, <2>6
  <2> QED BY <1>1, <1>4, <2>7, <2>8
<1>6. Len(w.buf) \in Nat /\ Len(w.buf) <= MsgBufSize
  <2>1. r <= b + Window
    BY <1>1, <1>3, SeqSpaceSize
  <2> HIDE DEF r
  <2> QED BY <1>1, <1>2, <2>1, HeldFits
<1>7. u = [w EXCEPT !.buf = w.buf, !.status = "gap"]
  <2> DEFINE ends == MessageEnds(w.infos, SeqAdd(w.seq, f.len))
             hd == IF begins THEN w.buf \o SizeHeader(Head(w.infos).size) ELSE w.buf
             in == IF ends THEN Tail(w.infos) ELSE w.infos
             nm == IF ends THEN w.nMsgs + 1 ELSE w.nMsgs
             go == [w EXCEPT !.buf = hd \o Payload(f), !.seq = SeqAdd(w.seq, f.len),
                             !.used = w.used + 1, !.infos = in, !.nMsgs = nm]
             e1 == [w EXCEPT !.status = "error"]
             e2 == [w EXCEPT !.buf = hd, !.status = "gap"]
             e3 == [w EXCEPT !.buf = hd, !.status = "error"]
             c1 == w.status # "going"
             c2 == Len(w.buf) + room > MsgBufSize
             c3 == ~Consecutive(w.seq, f)
             c4 == Len(hd) + f.len > MsgBufSize
  <2>1. u = IF c1 THEN w ELSE IF c2 THEN e1 ELSE IF c3 THEN e2 ELSE IF c4 THEN e3 ELSE go
    BY <1>1 DEF AssembleStep
  <2>2. ~c1 /\ c3
    BY DEF Consecutive
  <2>3. ~c2
    <3>1. room = 0
      BY <1>5
    <3> HIDE DEF room
    <3>2. ~(Len(w.buf) + room > MsgBufSize)
      BY <1>6, <3>1, MsgBufAssumption
    <3> QED BY <3>2
  <2>4. hd = w.buf
    BY <1>5
  <2> HIDE DEF u, c1, c2, c3, c4, e1, e2, e3, go
  <2>5. u = e2
    BY <2>1, <2>2, <2>3
  <2> HIDE DEF hd
  <2> QED BY <2>4, <2>5 DEF e2
<1> HIDE DEF u, begins, room
<1>8. /\ u.seq = r /\ u.infos = w.infos /\ u.buf = w.buf /\ u.used = t - 1
      /\ u.nMsgs = w.nMsgs /\ u.status = "gap"
      /\ u = [seq |-> w.seq, infos |-> w.infos, buf |-> w.buf, used |-> w.used,
              nMsgs |-> w.nMsgs, status |-> "gap"]
  BY <1>1, <1>7
<1> HIDE DEF r
<1>9. u \in AssemblyType(u, Len(fs))
  BY <1>1, <1>8 DEF AssemblyType, r
<1>10. AssemblySound(u, P, fs, i, b, c)
  BY <1>1, <1>2, <1>8, <1>9 DEF AssemblySound
<1> QED BY <1>4, <1>8, <1>10 DEF u, f, r

\* The structure when n messages after the i-th are whole and not yet taken.
RxShape(r) ==
  [seq : 0 .. SeqSpace - 1, infos : Seq(MsgInfoType), fragments : Seq(RxFragmentType),
   posB : Nat, buf : {r.buf}]
Receiving(r, P, i, n, c) ==
  /\ r \in RxShape(r) /\ Len(r.infos) <= MsgInfoSize /\ r.seq <= c
  /\ Between(P, r.seq) /\ WaitingSound(P, r.seq, r.fragments, 0)
  /\ InfosSound(r.seq, r.infos, r.fragments, 0)
  /\ \E k : Held(r.buf, i, k, r.seq) /\ i + n = Whole(k, r.seq)

\* What is buffered lies beyond a gap.
Ahead(r) == \A l \in 1 .. Len(r.fragments) : r.seq < r.fragments[l].seq

\* The message after the last whole one does not end before the position.
LEMMA HeldBelow ==
  ASSUME NoWrap, NEW buf, NEW i, NEW k, NEW r \in Nat, Held(buf, i, k, r), i = Whole(k, r)
  PROVE  i < Len(MsgSize) => r < BytesBefore(i + 1)
<1> DEFINE N == Len(MsgSize)
<1>1. /\ i \in 0 .. N /\ k \in i .. N /\ N \in Nat /\ r <= BytesBefore(k)
      /\ k = i => r = BytesBefore(i)
  BY StreamNumbers DEF Held
<1> HIDE DEF N
<1> SUFFICES ASSUME i < N PROVE r < BytesBefore(i + 1)
  BY DEF N
<1>2. i + 1 \in 0 .. N /\ i \in Nat /\ k \in Nat
  BY <1>1
<1>3. BytesBefore(i) \in Nat /\ BytesBefore(i + 1) \in Nat
      /\ BytesBefore(i) < BytesBefore(i + 1)
  BY <1>1, <1>2, StreamNumbers DEF N
<1>4. CASE r = BytesBefore(k)
  <2>1. k = i
    BY <1>4 DEF Whole
  <2> QED BY <1>1, <1>3, <2>1
<1>5. CASE r # BytesBefore(k)
  <2>1. k = i + 1
    BY <1>2, <1>5 DEF Whole
  <2> QED BY <1>1, <1>3, <1>5, <2>1
<1> QED BY <1>4, <1>5

\* The fragments that are left are what waits.
LEMMA RestWaits ==
  ASSUME NEW D, NEW fs \in Seq(D), NEW u \in 0 .. Len(fs), NEW P, NEW r, NEW infos,
         WaitingSound(P, r, fs, u), InfosSound(r, infos, fs, u)
  PROVE  LET rest == SubSeq(fs, u + 1, Len(fs))
         IN /\ rest \in Seq(D) /\ Len(rest) = Len(fs) - u
            /\ \A l \in 1 .. Len(fs) - u : rest[l] = fs[u + l]
            /\ WaitingSound(P, r, rest, 0) /\ InfosSound(r, infos, rest, 0)
<1> DEFINE n == Len(fs)
           rest == SubSeq(fs, u + 1, n)
<1>1. n \in Nat
  OBVIOUS
<1>2. /\ rest \in Seq(D) /\ Len(rest) = n - u
      /\ \A l \in 1 .. n - u : rest[l] = fs[u + l]
  OBVIOUS
<1> HIDE DEF rest, n
<1>3. u \in 0 .. n
  BY DEF n
<1>4. \A l \in 0 + 1 .. Len(rest) : u + l \in u + 1 .. n /\ rest[l] = fs[u + l]
  BY <1>1, <1>2, <1>3
<1>5. \A l \in u + 1 .. n : l - u \in 0 + 1 .. Len(rest) /\ rest[l - u] = fs[l]
  <2> SUFFICES ASSUME NEW l \in u + 1 .. n
               PROVE  l - u \in 0 + 1 .. Len(rest) /\ rest[l - u] = fs[l]
    OBVIOUS
  <2> DEFINE x == l - u
  <2>1. x \in 0 + 1 .. Len(rest) /\ x \in 1 .. n - u /\ u + x = l
    BY <1>1, <1>2, <1>3
  <2> HIDE DEF x
  <2>2. rest[x] = fs[l]
    BY <1>2, <2>1
  <2> QED BY <2>1, <2>2 DEF x
<1>6. WaitingSound(P, r, rest, 0)
  <2>1. \A l \in 0 + 1 .. Len(rest) : Placed(rest[l], P) /\ r <= rest[l].seq
    BY <1>4 DEF WaitingSound, n
  <2>2. ASSUME NEW k \in 0 + 1 .. Len(rest), NEW l \in 0 + 1 .. Len(rest), k < l
        PROVE  rest[k].seq < rest[l].seq
    <3>1. u + k < u + l
      BY <1>1, <1>3, <2>2
    <3> QED BY <1>4, <3>1 DEF WaitingSound, n
  <2> QED BY <2>1, <2>2 DEF WaitingSound
<1>7. Announced(r, infos, rest, 0)
  <2>1. ASSUME NEW m, \E l \in u + 1 .. n : fs[l].seq = BytesBefore(m - 1)
        PROVE  \E l \in 0 + 1 .. Len(rest) : rest[l].seq = BytesBefore(m - 1)
    BY <1>5, <2>1
  <2>2. Announced(r, infos, fs, u)
    BY DEF InfosSound
  <2> QED BY <2>1, <2>2 DEF Announced, n
<1>8. FirstsAnnounced(infos, rest, 0)
  <2>1. FirstsAnnounced(infos, fs, u)
    BY DEF InfosSound
  <2> QED BY <1>4, <2>1 DEF FirstsAnnounced, n
<1>9. InfosSound(r, infos, rest, 0)
  BY <1>7, <1>8 DEF InfosSound
<1> QED BY <1>2, <1>6, <1>9 DEF rest, n

\* The structure with new lists and a new position.
LEMMA RxWith ==
  ASSUME NEW r, r \in RxShape(r), NEW s \in 0 .. SeqSpace - 1, NEW a \in Seq(MsgInfoType),
         NEW e, NEW d \in Seq(RxFragmentType)
  PROVE  LET z == [r EXCEPT !.seq = s, !.infos = a, !.buf = e, !.fragments = d]
         IN z.seq = s /\ z.infos = a /\ z.buf = e /\ z.fragments = d /\ z \in RxShape(z)
<1> DEFINE z == [r EXCEPT !.seq = s, !.infos = a, !.buf = e, !.fragments = d]
<1>1. z.seq = s /\ z.infos = a /\ z.buf = e /\ z.fragments = d
  BY DEF RxShape
<1>2. z \in [seq : 0 .. SeqSpace - 1, infos : Seq(MsgInfoType),
            fragments : Seq(RxFragmentType), posB : Nat, buf : {e}]
  BY DEF RxShape
<1> HIDE DEF z
<1>3. z \in RxShape(z)
  BY <1>1, <1>2 DEF RxShape
<1> QED BY <1>1, <1>3 DEF z

\* The loop runs, or has stopped before a fragment beyond a gap.
Stopped(w, fs) ==
  w.status = "gap" /\ w.used < Len(fs) /\ w.seq < fs[w.used + 1].seq
Running(w, P, fs, i, b, c, t) ==
  /\ AssemblySound(w, P, fs, i, b, c)
  /\ (w.status = "going" /\ w.used = t) \/ Stopped(w, fs)

\* One turn of the assembly loop.
LEMMA TurnSound ==
  ASSUME NoWrap, BufferSuffices, NEW P, NEW c \in 0 .. SeqSpace - 1, PiecesSound(P, c),
         NEW fs, Len(fs) \in Nat, NEW i, NEW b \in Nat, i < Len(MsgSize) => b < BytesBefore(i + 1),
         c <= b + Window, NEW t \in 1 .. Len(fs),
         NEW w, Running(w, P, fs, i, b, c, t - 1)
  PROVE  Running(AssembleStep(w, fs[t]), P, fs, i, b, c, t)
<1> DEFINE u == AssembleStep(w, fs[t])
<1>1. AssemblySound(w, P, fs, i, b, c)
  BY DEF Running
<1>2. CASE w.status = "going"
  <2>1. AtTurn(w, t)
    BY <1>2 DEF Running, Stopped, AtTurn
  <2>2. CASE fs[t].seq = w.seq
    <3>1. Consecutive(w.seq, fs[t])
      BY <2>2 DEF Consecutive
    <3>2. AssemblySound(u, P, fs, i, b, c) /\ AtTurn(u, t + 1)
      BY <1>1, <2>1, <3>1, FragmentTaken
    <3> HIDE DEF u
    <3> QED BY <3>2 DEF Running, AtTurn, u
  <2>3. CASE fs[t].seq # w.seq
    <3>1. /\ AssemblySound(u, P, fs, i, b, c) /\ u.status = "gap" /\ u.used = t - 1
          /\ u.seq < fs[t].seq
      BY <1>1, <2>1, <2>3, GapFound
    <3> HIDE DEF u
    <3>2. u.used < Len(fs) /\ u.used + 1 = t
      BY <3>1
    <3>3. Stopped(u, fs)
      BY <3>1, <3>2 DEF Stopped
    <3> QED BY <3>1, <3>3 DEF Running, u
  <2> QED BY <2>2, <2>3
<1>3. CASE w.status # "going"
  <2>1. u = w
    BY <1>3 DEF AssembleStep
  <2>2. Stopped(w, fs)
    BY <1>3 DEF Running
  <2> HIDE DEF u
  <2>3. Running(u, P, fs, i, b, c, t)
    BY <1>1, <2>1, <2>2 DEF Running
  <2> QED BY <2>3 DEF u
<1> QED BY <1>2, <1>3

\* The assembly loop.
LEMMA AssembleSound ==
  ASSUME NoWrap, BufferSuffices, NEW P, NEW c \in 0 .. SeqSpace - 1, PiecesSound(P, c),
         NEW i, NEW r, Receiving(r, P, i, 0, c), c <= r.seq + Window
  PROVE  LET q == Assemble(r)
         IN /\ q.nMsgs \in Nat /\ r.seq <= q.rx.seq
            /\ Receiving(q.rx, P, i, q.nMsgs, c) /\ Ahead(q.rx)
<1> DEFINE fs    == r.fragments
           start == [seq |-> r.seq, infos |-> r.infos, buf |-> r.buf,
                     used |-> 0, nMsgs |-> 0, status |-> "going"]
           Outcome(w) ==
             LET failed == w.status = "error"
             IN [rx    |-> [r EXCEPT !.seq = w.seq, !.infos = w.infos, !.buf = w.buf,
                                     !.fragments = IF failed THEN @
                                                   ELSE SubSeq(@, w.used + 1, Len(@))],
                 nMsgs |-> IF failed THEN 0 ELSE w.nMsgs]
           last  == Fold(AssembleStep, start, fs)
           b     == r.seq
<1>1. /\ fs \in Seq(RxFragmentType) /\ Len(fs) \in Nat /\ b \in 0 .. SeqSpace - 1
      /\ r.infos \in Seq(MsgInfoType) /\ Len(r.infos) <= MsgInfoSize /\ b <= c
      /\ Between(P, b) /\ WaitingSound(P, b, fs, 0) /\ InfosSound(b, r.infos, fs, 0)
      /\ r.posB \in Nat
      /\ r = [seq |-> r.seq, infos |-> r.infos, fragments |-> r.fragments,
              posB |-> r.posB, buf |-> r.buf]
  BY DEF Receiving, RxShape
<1>2. PICK k0 : Held(r.buf, i, k0, b) /\ i + 0 = Whole(k0, b)
  BY DEF Receiving
<1>3. i \in Nat /\ b \in Nat /\ c \in Nat
  <2>1. i \in 0 .. Len(MsgSize)
    BY <1>2 DEF Held
  <2> QED BY <1>1, <2>1, StreamNumbers, SeqSpaceSize
<1>4. i < Len(MsgSize) => b < BytesBefore(i + 1)
  <2>1. i = Whole(k0, b)
    BY <1>2, <1>3
  <2> HIDE DEF b
  <2> QED BY <1>2, <1>3, <2>1, HeldBelow
<1>5. Assemble(r) = Outcome(last)
  <2>1. Assemble(r) = CHOOSE x \in {Outcome(w) : w \in {last}} : TRUE
    BY DEF Assemble, Strictly
  <2> HIDE DEF Outcome, last
  <2> QED BY <2>1
<1>6. start.seq = b /\ start.infos = r.infos /\ start.buf = r.buf /\ start.used = 0
      /\ start.nMsgs = 0 /\ start.status = "going"
  OBVIOUS
<1>7. AssemblySound(start, P, fs, i, b, c)
  <2>1. start \in AssemblyType(start, Len(fs))
    BY <1>1, <1>3 DEF AssemblyType
  <2> HIDE DEF start, fs, b
  <2> QED BY <1>1, <1>2, <1>3, <1>6, <2>1 DEF AssemblySound
<1> HIDE DEF fs, start, b
<1>8. PICK g : /\ g[0] = start
               /\ \A t \in 1 .. Len(fs) : g[t] = AssembleStep(g[t - 1], fs[t])
               /\ Assembling!Folded(start, fs) = g[Len(fs)]
  BY ZenonT(20), <1>1, Assembling!FoldSteps
<1>9. last = g[Len(fs)]
  BY <1>8 DEF Fold, Assembling!Folded
<1> HIDE DEF last
<1> DEFINE T == {t \in 0 .. Len(fs) : Running(g[t], P, fs, i, b, c, t)}
<1>10. 0 \in T
  BY <1>1, <1>6, <1>7, <1>8 DEF Running
<1>11. ASSUME NEW t \in 1 .. Len(fs), t - 1 \in T PROVE t \in T
  <2> DEFINE w == g[t - 1]
  <2>1. Running(w, P, fs, i, b, c, t - 1) /\ g[t] = AssembleStep(w, fs[t])
    BY <1>8, <1>11
  <2>2. c <= b + Window
    BY DEF b
  <2> HIDE DEF w
  <2>3. Running(AssembleStep(w, fs[t]), P, fs, i, b, c, t)
    BY <1>1, <1>3, <1>4, <2>1, <2>2, TurnSound
  <2> QED BY <2>1, <2>3
<1> HIDE DEF T
<1>12. \A t \in 0 .. Len(fs) : t \in T
  BY <1>1, <1>10, <1>11, Assembling!HoldsToTheEnd
<1>13. Running(last, P, fs, i, b, c, Len(fs))
  BY <1>1, <1>9, <1>12 DEF T
<1> DEFINE rest == SubSeq(fs, last.used + 1, Len(fs))
           q == Assemble(r)
<1>14. /\ last.seq \in Nat /\ last.infos \in Seq(MsgInfoType) /\ last.used \in 0 .. Len(fs)
       /\ last.nMsgs \in Nat /\ last.status \in {"going", "gap"}
       /\ Len(last.infos) <= MsgInfoSize /\ b <= last.seq /\ last.seq <= c
       /\ Between(P, last.seq) /\ WaitingSound(P, last.seq, fs, last.used)
       /\ InfosSound(last.seq, last.infos, fs, last.used)
       /\ \E k : Held(last.buf, i, k, last.seq) /\ i + last.nMsgs = Whole(k, last.seq)
  BY <1>13 DEF Running, AssemblySound, AssemblyType
<1>15. /\ rest \in Seq(RxFragmentType) /\ Len(rest) = Len(fs) - last.used
       /\ \A l \in 1 .. Len(fs) - last.used : rest[l] = fs[last.used + l]
       /\ WaitingSound(P, last.seq, rest, 0) /\ InfosSound(last.seq, last.infos, rest, 0)
  BY <1>1, <1>14, RestWaits
<1> HIDE DEF rest
<1>16. /\ q.nMsgs = last.nMsgs
       /\ q.rx = [r EXCEPT !.seq = last.seq, !.infos = last.infos, !.buf = last.buf,
                           !.fragments = rest]
  <2>1. last.status # "error"
    BY <1>14
  <2>2. Outcome(last).nMsgs = last.nMsgs
        /\ Outcome(last).rx = [r EXCEPT !.seq = last.seq, !.infos = last.infos,
                                        !.buf = last.buf, !.fragments = rest]
    BY <1>1, <2>1 DEF rest, fs
  <2> HIDE DEF Outcome, q, fs
  <2> QED BY <1>5, <2>2 DEF q
<1> HIDE DEF q, Outcome
<1>17. q.rx.seq = last.seq /\ q.rx.infos = last.infos /\ q.rx.fragments = rest
       /\ q.rx.buf = last.buf /\ q.rx \in RxShape(q.rx)
  <2>1. last.seq \in 0 .. SeqSpace - 1 /\ r \in RxShape(r)
    BY <1>14, SeqSpaceSize DEF Receiving
  <2> DEFINE z == [r EXCEPT !.seq = last.seq, !.infos = last.infos, !.buf = last.buf,
                            !.fragments = rest]
  <2>2. z.seq = last.seq /\ z.infos = last.infos /\ z.buf = last.buf /\ z.fragments = rest
        /\ z \in RxShape(z)
    BY <1>14, <1>15, <2>1, RxWith
  <2>3. q.rx = z
    BY <1>16
  <2> HIDE DEF z
  <2> QED BY <2>2, <2>3
<1>18. Receiving(q.rx, P, i, q.nMsgs, c)
  BY <1>14, <1>15, <1>16, <1>17 DEF Receiving
<1>19. Ahead(q.rx)
  <2> SUFFICES ASSUME NEW l \in 1 .. Len(rest) PROVE last.seq < rest[l].seq
    BY <1>17 DEF Ahead
  <2>1. Len(rest) = Len(fs) - last.used /\ last.used \in Nat
    BY <1>14, <1>15
  <2>2. last.used # Len(fs)
    BY <1>1, <2>1
  <2>3. last.used < Len(fs) /\ last.seq < fs[last.used + 1].seq
    BY <1>13, <2>2 DEF Running, Stopped
  <2>4. last.used + l \in last.used + 1 .. Len(fs) /\ rest[l] = fs[last.used + l]
    BY SMTT(20), <1>1, <1>15, <2>1
  <2>5. CASE l = 1
    BY <2>3, <2>4, <2>5
  <2>6. CASE l # 1
    <3> DEFINE x == fs[last.used + 1]
               y == fs[last.used + l]
    <3>1. last.used + 1 \in last.used + 1 .. Len(fs) /\ last.used + 1 < last.used + l
      BY SMTT(20), <1>1, <2>1, <2>3, <2>6
    <3>2. x.seq < y.seq /\ Placed(x, P) /\ Placed(y, P)
      BY <1>14, <2>4, <3>1 DEF WaitingSound
    <3>3. x.seq \in Nat /\ y.seq \in Nat
      BY <1>3, <3>2, PlacedNumbers
    <3>4. last.seq < x.seq
      BY <2>3
    <3> HIDE DEF x, y
    <3>5. last.seq < y.seq
      BY <1>14, <3>2, <3>3, <3>4
    <3> QED BY <2>4, <3>5 DEF y
  <2> QED BY <2>5, <2>6
<1>20. r.seq <= q.rx.seq /\ q.nMsgs \in Nat
  BY <1>14, <1>16, <1>17 DEF b
<1> QED BY <1>18, <1>19, <1>20 DEF q

\* What is before the position lies outside the window, seen from there.
LEMMA OldPacketRefused ==
  ASSUME NoWrap, NEW P, NEW c \in 0 .. SeqSpace - 1, PiecesSound(P, c),
         NEW r, r.seq \in Nat, r.seq <= c, Between(P, r.seq),
         NEW p, Placed(p, P), p.seq < r.seq, c <= p.seq + Window
  PROVE  ~InWindow(r, p)
<1> DEFINE s == p.seq
           n == p.len
           b == r.seq
           d == b - s
           x == SeqSpace - d
<1>1. c \in Nat
  BY SeqSpaceSize
<1>2. s \in Nat /\ n \in Nat \ {0} /\ s + n <= b
  BY <1>1, PlacedNumbers, PlacedBefore
<1>3. /\ b \in Nat /\ b <= c /\ c <= s + Window /\ c < SeqSpace /\ s < b
      /\ Window \in Nat /\ SeqSpace \in Nat \ {0} /\ 2 * Window <= SeqSpace
  BY <1>1, SeqSpaceSize, WindowAssumption
<1> HIDE DEF s, n, b
<1>4. d \in Nat /\ n <= d /\ d <= Window
  BY <1>1, <1>2, <1>3
<1>5. x \in 0 .. SeqSpace - 1 /\ s - b = x - SeqSpace
  BY <1>2, <1>3, <1>4
<1>6. SeqSub(s, b) = x
  <2>1. s - b = SeqSpace * (-1) + x
    BY <1>2, <1>3, <1>5
  <2> HIDE DEF x, d
  <2>2. x \in Int /\ -1 \in Int
    BY <1>5, <1>3
  <2>3. At(SeqSpace * (-1) + x) = At(x)
    BY <2>2, AtMultiple
  <2>4. At(x) = x
    BY <1>5, AtSmall
  <2> QED BY <2>1, <2>3, <2>4 DEF At, SeqSub
<1>7. CASE n = d
  <2>1. x + n = SeqSpace
    BY <1>3, <1>4, <1>7
  <2>2. SeqAdd(x, n) = 0
    BY <1>3, <2>1 DEF SeqAdd
  <2>3. ~(x < 0)
    BY <1>5
  <2> QED BY <1>6, <2>2, <2>3 DEF InWindow, s, n, b
<1>8. CASE n # d
  <2>1. x + n \in 0 .. SeqSpace - 1 /\ ~(x + n <= Window)
    BY <1>2, <1>3, <1>4, <1>8
  <2>2. SeqAdd(x, n) = x + n
    <3> DEFINE y == x + n
    <3>1. At(y) = y
      BY <2>1, AtSmall
    <3> QED BY <3>1 DEF At, SeqAdd
  <2> QED BY <1>6, <2>1, <2>2 DEF InWindow, s, n, b
<1> QED BY <1>7, <1>8

-----------------------------------------------------------------------------
(* Insertion into the two lists.                                            *)

\* A list has the same items, and one more.
Has(s, x) == \E k \in 1 .. Len(s) : s[k] = x
Adds(new, s, e) == \A x : Has(new, x) <=> Has(s, x) \/ x = e

\* Inserting adds the item and loses none.
LEMMA InsertAtAdds ==
  ASSUME NEW D, NEW s \in Seq(D), NEW e \in D, NEW i \in 1 .. Len(s) + 1
  PROVE  Adds(InsertAt(s, i, e), s, e)
<1> DEFINE new == InsertAt(s, i, e)
           n == Len(s)
<1>1. /\ n \in Nat /\ Len(new) = n + 1 /\ i \in 1 .. n + 1
      /\ \A k \in 1 .. n + 1 :
           new[k] = IF k < i THEN s[k] ELSE IF k = i THEN e ELSE s[k - 1]
  <2>1. /\ Len(new) = Len(s) + 1
        /\ \A k \in 1 .. Len(s) + 1 :
             new[k] = IF k < i THEN s[k] ELSE IF k = i THEN e ELSE s[k - 1]
    BY InsertAtSound
  <2> HIDE DEF new
  <2> QED BY <2>1
<1> HIDE DEF new
<1>2. ASSUME NEW x, Has(new, x) PROVE Has(s, x) \/ x = e
  <2>1. PICK k \in 1 .. n + 1 : new[k] = x
    BY <1>1, <1>2 DEF Has
  <2>2. CASE k < i
    <3>1. k \in 1 .. n /\ s[k] = x
      BY <1>1, <2>1, <2>2
    <3> QED BY <3>1 DEF Has
  <2>3. CASE k = i
    BY <1>1, <2>1, <2>3
  <2>4. CASE i < k
    <3>1. k - 1 \in 1 .. n /\ s[k - 1] = x
      BY <1>1, <2>1, <2>4
    <3> QED BY <3>1 DEF Has
  <2> QED BY <1>1, <2>2, <2>3, <2>4
<1>3. Has(new, e)
  <2>1. new[i] = e /\ i \in 1 .. Len(new)
    BY <1>1
  <2> QED BY <2>1 DEF Has
<1>4. ASSUME NEW x, Has(s, x) PROVE Has(new, x)
  <2>1. PICK k \in 1 .. n : s[k] = x
    BY <1>4 DEF Has
  <2>2. CASE k < i
    <3>1. k \in 1 .. Len(new) /\ new[k] = x
      BY <1>1, <2>1, <2>2
    <3> QED BY <3>1 DEF Has
  <2>3. CASE i <= k
    <3> DEFINE l == k + 1
    <3>1. l \in 1 .. n + 1 /\ i < l /\ l - 1 = k
      BY <1>1, <2>1, <2>3
    <3> HIDE DEF l
    <3>2. new[l] = s[k] /\ l \in 1 .. Len(new)
      BY <1>1, <3>1
    <3> QED BY <2>1, <3>2 DEF Has
  <2> QED BY <1>1, <2>2, <2>3
<1> QED BY <1>2, <1>3, <1>4 DEF Adds, new

\* Numbers in ascending order, where another belongs among them, and their list with it.
Ascending(nums, n) ==
  /\ \A k \in 1 .. n : nums[k] \in Nat
  /\ \A k, l \in 1 .. n : k < l => nums[k] < nums[l]
Belongs(e, i, nums, n) ==
  /\ i \in 1 .. n + 1 /\ \A k \in 1 .. n : k < i => nums[k] < e
  /\ i <= n => e < nums[i]
Spliced(new, e, i, nums, n) ==
  \A k \in 1 .. n + 1 :
    new[k] = IF k < i THEN nums[k] ELSE IF k = i THEN e ELSE nums[k - 1]

\* Inserting before the first number that is not below keeps the order.
LEMMA SortedInsert ==
  ASSUME NEW n \in Nat, NEW nums, Ascending(nums, n), NEW e \in Nat, NEW i,
         Belongs(e, i, nums, n), NEW new, Spliced(new, e, i, nums, n)
  PROVE  \A k, l \in 1 .. n + 1 : k < l => new[k] < new[l]
<1> USE DEF Ascending, Belongs, Spliced
<1> SUFFICES ASSUME NEW k \in 1 .. n + 1, NEW l \in 1 .. n + 1, k < l
             PROVE  new[k] < new[l]
  OBVIOUS
<1>1. CASE l < i
  BY <1>1
<1>2. CASE l = i
  BY <1>2
<1>3. CASE i < l
  <2> DEFINE y == l - 1
  <2>1. y \in 1 .. n /\ i <= y /\ new[l] = nums[y] /\ nums[y] \in Nat
    BY <1>3
  <2>2. i <= n /\ e < nums[i] /\ nums[i] \in Nat /\ i \in 1 .. n
    BY <2>1
  <2>3. e < nums[y]
    <3>1. i = y \/ i < y
      BY <2>1
    <3> HIDE DEF y
    <3>2. nums[i] = nums[y] \/ nums[i] < nums[y]
      BY <2>1, <2>2, <3>1
    <3> QED BY <2>1, <2>2, <3>2
  <2>4. CASE k < i
    <3>1. k \in 1 .. n /\ new[k] = nums[k] /\ nums[k] < e
      BY <2>2, <2>4
    <3> HIDE DEF y
    <3> QED BY <2>1, <2>3, <3>1
  <2>5. CASE k = i
    <3> HIDE DEF y
    <3> QED BY <2>1, <2>3, <2>5
  <2>6. CASE i < k
    <3> DEFINE x == k - 1
    <3>1. x \in 1 .. n /\ x < y /\ new[k] = nums[x]
      BY <2>1, <2>6
    <3> HIDE DEF x, y
    <3> QED BY <2>1, <3>1
  <2> QED BY <2>4, <2>5, <2>6
<1> QED BY <1>1, <1>2, <1>3

\* A message that is announced without overlap was not announced before, and goes to
\* its place in the list.
LEMMA InfoInserted ==
  ASSUME NoWrap, NEW r \in Nat, NEW infos \in Seq(MsgInfoType), NEW fs,
         InfosSound(r, infos, fs, 0), NEW m \in Message, NEW n, n = BytesBefore(m - 1),
         ~Overlaps(Begins(infos), n, MsgSize[m], Position(Begins(infos), n))
  PROVE  LET new == InsertAt(infos, Position(Begins(infos), n), InfoOf(m))
         IN /\ new \in Seq(MsgInfoType) /\ Len(new) = Len(infos) + 1
            /\ Adds(new, infos, InfoOf(m)) /\ ~Has(infos, InfoOf(m)) /\ InOrder(new)
<1> DEFINE nums == Begins(infos)
           z    == Len(infos)
           i    == Position(nums, n)
           e    == InfoOf(m)
           new  == InsertAt(infos, i, e)
<1>1. z \in Nat /\ DOMAIN nums = 1 .. z /\ \A k \in 1 .. z : nums[k] = infos[k].begin
  BY DEF Begins
<1>2. /\ n \in Nat /\ MsgSize[m] \in Nat \ {0} /\ n + MsgSize[m] = BytesBefore(m)
      /\ BytesBefore(m) < SeqSpace /\ n < SeqSpace /\ m \in Nat
      /\ BytesBefore(m) \in Nat
  BY StreamNumbers
<1>3. \A k \in 1 .. z : infos[k].begin \in Nat
  <2> SUFFICES ASSUME NEW k \in 1 .. z PROVE infos[k].begin \in Nat
    OBVIOUS
  <2>1. infos[k] \in MsgInfoType
    OBVIOUS
  <2> QED BY <2>1, SeqSpaceSize DEF MsgInfoType
<1>4. /\ i \in 1 .. z + 1 /\ \A j \in 1 .. z : j < i => nums[j] < n
      /\ i <= z => ~(nums[i] < n)
  <2> HIDE DEF nums, z
  <2> QED BY <1>1, PositionSound
<1>5. e \in MsgInfoType /\ e.begin = n
  BY <1>2, SeqSpaceSize DEF InfoOf, MsgInfoType
<1> HIDE DEF i, e
<1>6. new \in Seq(MsgInfoType) /\ Len(new) = z + 1 /\ Adds(new, infos, e)
      /\ \A k \in 1 .. z + 1 :
           new[k] = IF k < i THEN infos[k] ELSE IF k = i THEN e ELSE infos[k - 1]
  BY <1>4, <1>5, InsertAtSound, InsertAtAdds
<1>7. i <= z => n < nums[i]
  <2> SUFFICES ASSUME i <= z PROVE n < nums[i]
    OBVIOUS
  <2>1. i \in 1 .. z /\ nums[i] \in Nat /\ n <= nums[i]
    <3>1. i \in 1 .. z
      BY <1>1, <1>4
    <3>2. nums[i] \in Nat
      BY <1>1, <1>3, <3>1
    <3> HIDE DEF nums, z
    <3> QED BY <1>1, <1>2, <1>4, <3>1, <3>2
  <2>2. SeqAdd(n, MsgSize[m]) = BytesBefore(m)
    <3> DEFINE y == BytesBefore(m)
    <3>1. y \in 0 .. SeqSpace - 1 /\ n + MsgSize[m] = y
      BY <1>2, SeqSpaceSize
    <3> HIDE DEF y
    <3>2. At(y) = y
      BY <3>1, AtSmall
    <3> QED BY <3>1, <3>2 DEF At, SeqAdd, y
  <2>3. ~(SeqAdd(n, MsgSize[m]) > nums[i])
    BY <1>4, <2>1, <1>1 DEF Overlaps, i
  <2> HIDE DEF nums
  <2> QED BY <1>2, <2>1, <2>2, <2>3
<1>8. InOrder(infos)
  BY DEF InfosSound
<1>9. ~Has(infos, e)
  <2> SUFFICES ASSUME NEW k \in 1 .. z, infos[k] = e PROVE FALSE
    BY DEF Has
  <2>1. nums[k] = n
    BY <1>1, <1>5
  <2>2. i \in 1 .. z /\ i <= k
    <3>1. ~(k < i)
      BY <1>2, <1>4, <2>1
    <3> QED BY <1>1, <1>4, <3>1
  <2>3. nums[i] <= nums[k]
    <3>1. i = k \/ i < k
      BY <2>2
    <3>2. nums[i] \in Nat /\ nums[k] \in Nat
      BY <1>1, <1>3, <2>2
    <3>3. i < k => nums[i] < nums[k]
      BY <1>1, <1>8, <2>2 DEF InOrder
    <3> HIDE DEF nums
    <3> QED BY <3>1, <3>2, <3>3
  <2>4. nums[i] \in Nat
    BY <1>1, <1>3, <2>2
  <2>5. n < nums[i]
    BY <1>7, <2>2
  <2> HIDE DEF nums
  <2> QED BY <1>2, <2>1, <2>3, <2>4, <2>5
<1>10. InOrder(new)
  <2> DEFINE after == Begins(new)
  <2>1. \A k \in 1 .. z + 1 : after[k] = new[k].begin
    BY <1>6 DEF Begins
  <2> HIDE DEF new, after
  <2>2. \A k \in 1 .. z + 1 :
          after[k] = IF k < i THEN nums[k] ELSE IF k = i THEN n ELSE nums[k - 1]
    <3> SUFFICES ASSUME NEW k \in 1 .. z + 1
                 PROVE after[k] = IF k < i THEN nums[k] ELSE IF k = i THEN n ELSE nums[k - 1]
      OBVIOUS
    <3>1. CASE k < i
      <4>1. k \in 1 .. z
        BY <1>1, <1>4, <3>1
      <4> QED BY <1>1, <1>6, <2>1, <3>1, <4>1
    <3>2. CASE k = i
      BY <1>5, <1>6, <2>1, <3>2
    <3>3. CASE i < k
      <4>1. k - 1 \in 1 .. z
        BY <1>1, <1>4, <3>3
      <4> QED BY <1>1, <1>6, <1>4, <2>1, <3>3, <4>1
    <3> QED BY <1>4, <3>1, <3>2, <3>3
  <2>3. \A k \in 1 .. z : nums[k] \in Nat
    BY <1>1, <1>3
  <2>4. \A k, l \in 1 .. z : k < l => nums[k] < nums[l]
    BY <1>1, <1>8 DEF InOrder
  <2> HIDE DEF nums, z
  <2>5. \A k, l \in 1 .. z + 1 : k < l => after[k] < after[l]
    <3>1. Ascending(nums, z)
      BY <2>3, <2>4 DEF Ascending
    <3>2. Belongs(n, i, nums, z)
      BY <1>4, <1>7 DEF Belongs
    <3>3. Spliced(after, n, i, nums, z)
      BY <2>2 DEF Spliced
    <3> QED BY <1>1, <1>2, <3>1, <3>2, <3>3, SortedInsert
  <2>6. Len(new) = z + 1
    BY <1>6
  <2> QED BY <2>1, <2>5, <2>6 DEF InOrder
<1> QED BY <1>6, <1>9, <1>10 DEF e, i

\* Fragments that are not in the buffer go to their place in the list, and only those
\* that are overlap.
LEMMA FragmentInserted ==
  ASSUME NoWrap, NEW P, NEW c \in 0 .. SeqSpace - 1, PiecesSound(P, c),
         NEW r \in Nat, NEW fs \in Seq(RxFragmentType), WaitingSound(P, r, fs, 0),
         NEW f \in RxFragmentType, Placed(f, P), r <= f.seq
  PROVE  LET i    == Position(SeqNums(fs), f.seq)
             new  == InsertAt(fs, i, f)
             over == Overlaps(SeqNums(fs), f.seq, f.len, i)
         IN /\ over => \E k \in 1 .. Len(fs) : fs[k].msg = f.msg /\ fs[k].off = f.off
            /\ ~over => /\ new \in Seq(RxFragmentType) /\ Adds(new, fs, f)
                        /\ WaitingSound(P, r, new, 0)
<1> DEFINE nums == SeqNums(fs)
           z    == Len(fs)
           n    == f.seq
           i    == Position(nums, n)
           new  == InsertAt(fs, i, f)
           over == Overlaps(nums, n, f.len, i)
<1>1. z \in Nat /\ DOMAIN nums = 1 .. z /\ \A k \in 1 .. z : nums[k] = fs[k].seq
  BY DEF SeqNums
<1>2. c \in Nat /\ n \in Nat /\ f.len \in Nat \ {0} /\ n + f.len <= c /\ n < SeqSpace
  BY SeqSpaceSize, PlacedNumbers
<1>3. \A k \in 1 .. z : Placed(fs[k], P) /\ fs[k].seq \in Nat
  <2>1. \A k \in 0 + 1 .. Len(fs) : Placed(fs[k], P)
    BY DEF WaitingSound
  <2>2. ASSUME NEW k \in 1 .. z PROVE fs[k].seq \in Nat
    <3>1. fs[k] \in RxFragmentType
      OBVIOUS
    <3>2. fs[k].seq \in 0 .. SeqSpace - 1
      BY <3>1 DEF RxFragmentType
    <3> QED BY <3>2, SeqSpaceSize
  <2> QED BY <1>1, <2>1, <2>2
<1>4. /\ i \in 1 .. z + 1 /\ \A j \in 1 .. z : j < i => nums[j] < n
      /\ i <= z => ~(nums[i] < n)
  <2> HIDE DEF nums, z
  <2> QED BY <1>1, PositionSound
<1>5. SeqAdd(n, f.len) = n + f.len
  <2> DEFINE y == n + f.len
  <2>1. y \in 0 .. SeqSpace - 1
    BY <1>2, SeqSpaceSize
  <2> HIDE DEF y
  <2>2. At(y) = y
    BY <2>1, AtSmall
  <2> QED BY <2>2 DEF At, SeqAdd, y
<1> HIDE DEF i
<1>6. over => \E k \in 1 .. Len(fs) : fs[k].msg = f.msg /\ fs[k].off = f.off
  <2> SUFFICES ASSUME over PROVE fs[i].msg = f.msg /\ fs[i].off = f.off /\ i \in 1 .. z
    OBVIOUS
  <2>1. i \in 1 .. z /\ nums[i] < n + f.len
    <3>1. i <= z /\ n + f.len > nums[i]
      BY <1>1, <1>5 DEF Overlaps
    <3>2. nums[i] \in Nat
      BY <1>1, <1>3, <1>4, <3>1
    <3> HIDE DEF nums, n, over
    <3> QED BY <1>1, <1>2, <1>4, <3>1, <3>2
  <2>2. Placed(fs[i], P) /\ fs[i].seq \in Nat /\ fs[i].seq < n + f.len /\ n <= fs[i].seq
    BY <1>1, <1>2, <1>3, <1>4, <2>1
  <2>3. /\ f.seq < fs[i].seq => f.seq + f.len <= fs[i].seq
        /\ fs[i].seq = f.seq => fs[i].msg = f.msg /\ fs[i].off = f.off
    BY <2>2, PlacedApart
  <2>4. fs[i].seq = f.seq
    BY <1>2, <2>2, <2>3
  <2> QED BY <2>1, <2>3, <2>4
<1>7. ASSUME ~over
      PROVE  new \in Seq(RxFragmentType) /\ Adds(new, fs, f) /\ WaitingSound(P, r, new, 0)
  <2>1. new \in Seq(RxFragmentType) /\ Len(new) = z + 1 /\ Adds(new, fs, f)
        /\ \A k \in 1 .. z + 1 :
             new[k] = IF k < i THEN fs[k] ELSE IF k = i THEN f ELSE fs[k - 1]
    BY <1>4, InsertAtSound, InsertAtAdds
  <2>2. i <= z => n < nums[i]
    <3> SUFFICES ASSUME i <= z PROVE n < nums[i]
      OBVIOUS
    <3>1. nums[i] \in Nat /\ ~(n + f.len > nums[i])
      BY <1>1, <1>3, <1>4, <1>5, <1>7 DEF Overlaps
    <3> HIDE DEF nums, n
    <3> QED BY <1>2, <3>1
  <2> HIDE DEF new
  <2>3. \A k \in 1 .. z + 1 :
          new[k].seq = IF k < i THEN nums[k] ELSE IF k = i THEN n ELSE nums[k - 1]
    <3> SUFFICES ASSUME NEW k \in 1 .. z + 1
                 PROVE new[k].seq
                         = IF k < i THEN nums[k] ELSE IF k = i THEN n ELSE nums[k - 1]
      OBVIOUS
    <3>1. CASE k < i
      <4>1. k \in 1 .. z
        BY <1>1, <1>4, <3>1
      <4> QED BY <1>1, <2>1, <3>1, <4>1
    <3>2. CASE k = i
      BY <2>1, <3>2
    <3>3. CASE i < k
      <4>1. k - 1 \in 1 .. z
        BY <1>1, <1>4, <3>3
      <4> QED BY <1>1, <1>4, <2>1, <3>3, <4>1
    <3> QED BY <1>4, <3>1, <3>2, <3>3
  <2>4. \A k, l \in 1 .. z + 1 : k < l => new[k].seq < new[l].seq
    <3> DEFINE after == SeqNums(new)
    <3>1. \A k \in 1 .. z + 1 : after[k] = new[k].seq
      BY <2>1 DEF SeqNums
    <3>2. \A k \in 1 .. z + 1 :
            after[k] = IF k < i THEN nums[k] ELSE IF k = i THEN n ELSE nums[k - 1]
      BY <2>3, <3>1
    <3>3. \A k \in 1 .. z : nums[k] \in Nat
      BY <1>1, <1>3
    <3>4. \A k, l \in 1 .. z : k < l => nums[k] < nums[l]
      BY <1>1 DEF WaitingSound
    <3> HIDE DEF after, nums, z, n
    <3>5. \A k, l \in 1 .. z + 1 : k < l => after[k] < after[l]
      <4>1. Ascending(nums, z)
        BY <3>3, <3>4 DEF Ascending
      <4>2. Belongs(n, i, nums, z)
        BY <1>4, <2>2 DEF Belongs
      <4>3. Spliced(after, n, i, nums, z)
        BY <3>2 DEF Spliced
      <4> QED BY <1>1, <1>2, <4>1, <4>2, <4>3, SortedInsert
    <3> QED BY <3>1, <3>5
  <2>5. \A k \in 1 .. z + 1 : Placed(new[k], P) /\ r <= new[k].seq
    <3> SUFFICES ASSUME NEW k \in 1 .. z + 1 PROVE Placed(new[k], P) /\ r <= new[k].seq
      OBVIOUS
    <3>1. Has(new, new[k])
      BY <2>1 DEF Has
    <3>2. Has(fs, new[k]) \/ new[k] = f
      BY <2>1, <3>1 DEF Adds
    <3>3. ASSUME Has(fs, new[k]) PROVE Placed(new[k], P) /\ r <= new[k].seq
      <4>1. PICK l \in 1 .. z : fs[l] = new[k]
        BY <3>3 DEF Has
      <4>2. l \in 0 + 1 .. Len(fs)
        BY <1>1
      <4> QED BY <4>1, <4>2 DEF WaitingSound
    <3> QED BY <3>2, <3>3
  <2>6. WaitingSound(P, r, new, 0)
    <3>1. Len(new) = z + 1
      BY <2>1
    <3> HIDE DEF z
    <3> QED BY <2>4, <2>5, <3>1 DEF WaitingSound
  <2> QED BY <2>1, <2>6
<1> QED BY <1>6, <1>7 DEF i

\* The announced messages are still right for the list with one more fragment: one that
\* is not the first of its message ...
LEMMA InfosWithRest ==
  ASSUME NEW r, NEW infos, NEW fs, InfosSound(r, infos, fs, 0), NEW f, f.off # 0,
         NEW hs, Adds(hs, fs, f), Len(fs) \in Nat, Len(hs) \in Nat
  PROVE  InfosSound(r, infos, hs, 0)
<1>1. Announced(r, infos, hs, 0)
  <2>1. ASSUME NEW m, \E l \in 0 + 1 .. Len(fs) : fs[l].seq = BytesBefore(m - 1)
        PROVE  \E l \in 0 + 1 .. Len(hs) : hs[l].seq = BytesBefore(m - 1)
    <3>1. PICK l \in 1 .. Len(fs) : fs[l].seq = BytesBefore(m - 1)
      BY <2>1
    <3>2. Has(fs, fs[l])
      BY DEF Has
    <3>3. Has(hs, fs[l])
      BY <3>2 DEF Adds
    <3> QED BY <3>1, <3>3 DEF Has
  <2> QED BY <2>1 DEF InfosSound, Announced
<1>2. FirstsAnnounced(infos, hs, 0)
  <2> SUFFICES ASSUME NEW l \in 0 + 1 .. Len(hs), hs[l].off = 0
               PROVE  \E k \in 1 .. Len(infos) : infos[k] = InfoOf(hs[l].msg)
    BY DEF FirstsAnnounced
  <2>1. Has(hs, hs[l])
    BY DEF Has
  <2>2. Has(fs, hs[l])
    BY <2>1 DEF Adds
  <2>3. PICK k \in 1 .. Len(fs) : fs[k] = hs[l]
    BY <2>2 DEF Has
  <2>4. k \in 0 + 1 .. Len(fs)
    OBVIOUS
  <2> QED BY <2>3, <2>4 DEF InfosSound, FirstsAnnounced
<1> QED BY <1>1, <1>2 DEF InfosSound

\* ... or one that is, when its message has been announced.
LEMMA InfosWithFirst ==
  ASSUME NEW r, NEW infos, NEW fs, InfosSound(r, infos, fs, 0), NEW f, f.msg \in Message,
         f.seq = BytesBefore(f.msg - 1), r < BytesBefore(f.msg),
         NEW hs, Adds(hs, fs, f), Len(fs) \in Nat, Len(hs) \in Nat,
         NEW new, Adds(new, infos, InfoOf(f.msg)), InOrder(new), Len(infos) \in Nat,
         Len(new) \in Nat
  PROVE  InfosSound(r, new, hs, 0)
<1>1. Announced(r, new, hs, 0)
  <2> SUFFICES ASSUME NEW k \in 1 .. Len(new)
               PROVE  \E m \in Message :
                        /\ new[k] = InfoOf(m) /\ r < BytesBefore(m)
                        /\ \/ BytesBefore(m - 1) < r
                           \/ \E l \in 0 + 1 .. Len(hs) : hs[l].seq = BytesBefore(m - 1)
    BY DEF Announced
  <2>1. Has(new, new[k])
    BY DEF Has
  <2>2. CASE new[k] = InfoOf(f.msg)
    <3>1. Has(hs, f)
      BY DEF Adds
    <3>2. \E l \in 0 + 1 .. Len(hs) : hs[l].seq = BytesBefore(f.msg - 1)
      BY <3>1 DEF Has
    <3> QED BY <2>2, <3>2
  <2>3. CASE new[k] # InfoOf(f.msg)
    <3>1. Has(infos, new[k])
      BY <2>1, <2>3 DEF Adds
    <3>2. PICK j \in 1 .. Len(infos) : infos[j] = new[k]
      BY <3>1 DEF Has
    <3>3. PICK m \in Message :
                 /\ infos[j] = InfoOf(m) /\ r < BytesBefore(m)
                 /\ \/ BytesBefore(m - 1) < r
                    \/ \E l \in 0 + 1 .. Len(fs) : fs[l].seq = BytesBefore(m - 1)
      BY DEF InfosSound, Announced
    <3>4. ASSUME \E l \in 0 + 1 .. Len(fs) : fs[l].seq = BytesBefore(m - 1)
          PROVE  \E l \in 0 + 1 .. Len(hs) : hs[l].seq = BytesBefore(m - 1)
      <4>1. PICK l \in 1 .. Len(fs) : fs[l].seq = BytesBefore(m - 1)
        BY <3>4
      <4>2. Has(fs, fs[l])
        BY DEF Has
      <4>3. Has(hs, fs[l])
        BY <4>2 DEF Adds
      <4> QED BY <4>1, <4>3 DEF Has
    <3> QED BY <3>2, <3>3, <3>4
  <2> QED BY <2>2, <2>3
<1>2. ASSUME NEW m, \E k \in 1 .. Len(infos) : infos[k] = InfoOf(m)
      PROVE  \E k \in 1 .. Len(new) : new[k] = InfoOf(m)
  <2>1. Has(infos, InfoOf(m))
    BY <1>2 DEF Has
  <2>2. Has(new, InfoOf(m))
    BY <2>1 DEF Adds
  <2> QED BY <2>2 DEF Has
<1>3. FirstsAnnounced(new, hs, 0)
  <2> SUFFICES ASSUME NEW l \in 0 + 1 .. Len(hs), hs[l].off = 0
               PROVE  \E k \in 1 .. Len(new) : new[k] = InfoOf(hs[l].msg)
    BY DEF FirstsAnnounced
  <2>1. Has(hs, hs[l])
    BY DEF Has
  <2>2. CASE hs[l] = f
    <3>1. Has(new, InfoOf(f.msg))
      BY DEF Adds
    <3> QED BY <2>2, <3>1 DEF Has
  <2>3. CASE hs[l] # f
    <3>1. Has(fs, hs[l])
      BY <2>1, <2>3 DEF Adds
    <3>2. PICK k \in 1 .. Len(fs) : fs[k] = hs[l]
      BY <3>1 DEF Has
    <3>3. k \in 0 + 1 .. Len(fs)
      OBVIOUS
    <3>4. \E j \in 1 .. Len(infos) : infos[j] = InfoOf(fs[k].msg)
      BY <3>2, <3>3 DEF InfosSound, FirstsAnnounced
    <3> QED BY <1>2, <3>2, <3>4
  <2> QED BY <2>2, <2>3
<1>4. CurrentAnnounced(r, new)
  BY <1>2 DEF InfosSound, CurrentAnnounced
<1> QED BY <1>1, <1>3, <1>4 DEF InfosSound

-----------------------------------------------------------------------------
\* wtp_rx_handle_packet, for a packet that the server cut.
LEMMA RxHandlePacketSound ==
  ASSUME NoWrap, BufferSuffices, NEW P, NEW c \in 0 .. SeqSpace - 1, PiecesSound(P, c),
         NEW i, NEW r, Receiving(r, P, i, 0, c), Ahead(r), c <= r.seq + Window,
         NEW p \in DataPacketType, Placed(p, P), FragmentSound(p), c <= p.seq + Window
  PROVE  LET q == RxHandlePacket(r, p)
         IN /\ q.nMsgs \in Nat /\ r.seq <= q.rx.seq
            /\ Receiving(q.rx, P, i, q.nMsgs, c) /\ Ahead(q.rx)
<1> DEFINE info    == [begin |-> p.seq, size |-> p.msgSize]
           infoAt  == Position(Begins(r.infos), p.seq)
           badInfo == p.msgSize > 0
                        /\ \/ Overlaps(Begins(r.infos), p.seq, p.msgSize, infoAt)
                           \/ Len(r.infos) >= MsgInfoSize
           infos   == IF p.msgSize = 0 THEN r.infos ELSE InsertAt(r.infos, infoAt, info)
           noted   == IF p.msgSize = 0 THEN r
                      ELSE [r EXCEPT !.infos = InsertAt(r.infos, infoAt, info)]
           at      == AllocAt(r.posB, FragHeader + p.len)
           posB    == at + FragHeader + p.len
           frag    == [seq |-> p.seq, msg |-> p.msg, off |-> p.off, len |-> p.len, at |-> at]
           fragAt  == Position(SeqNums(r.fragments), p.seq)
           fs      == InsertAt(r.fragments, fragAt, frag)
           over    == Overlaps(SeqNums(r.fragments), p.seq, p.len, fragAt)
           next    == [noted EXCEPT !.fragments = fs, !.posB = posB]
           q       == RxHandlePacket(r, p)
           Good    == /\ q.nMsgs \in Nat /\ r.seq <= q.rx.seq
                      /\ Receiving(q.rx, P, i, q.nMsgs, c) /\ Ahead(q.rx)
<1>1. /\ r \in RxShape(r) /\ Len(r.infos) <= MsgInfoSize /\ r.seq <= c
      /\ Between(P, r.seq) /\ WaitingSound(P, r.seq, r.fragments, 0)
      /\ InfosSound(r.seq, r.infos, r.fragments, 0)
      /\ \E k : Held(r.buf, i, k, r.seq) /\ i + 0 = Whole(k, r.seq)
  BY DEF Receiving
<1>2. /\ r.infos \in Seq(MsgInfoType) /\ r.fragments \in Seq(RxFragmentType)
      /\ r.posB \in Nat /\ r.seq \in 0 .. SeqSpace - 1
  BY <1>1 DEF RxShape
<1>3. r.seq \in Nat /\ c \in Nat /\ c < SeqSpace
  BY <1>2, SeqSpaceSize
<1>4. /\ p.msg \in Message /\ p.off \in Nat /\ p.len \in Nat \ {0}
      /\ p.seq = BytesBefore(p.msg - 1) + p.off /\ p.seq \in Nat
      /\ p.seq < BytesBefore(p.msg)
      /\ p.off = 0 <=> p.seq = BytesBefore(p.msg - 1)
  BY <1>3, PlacedNumbers
<1>5. /\ p.msgSize = IF p.off = 0 THEN MsgSize[p.msg] ELSE 0
      /\ MsgSize[p.msg] \in Nat \ {0}
  BY <1>4, StreamNumbers DEF FragmentSound
<1>6. q = IF ~InWindow(r, p) \/ badInfo THEN [rx |-> r, nMsgs |-> 0]
          ELSE IF over THEN [rx |-> noted, nMsgs |-> 0]
          ELSE Assemble(next)
  <2>1. q = IF ~InWindow(r, p) \/ badInfo THEN [rx |-> r, nMsgs |-> 0]
            ELSE IF over THEN [rx |-> noted, nMsgs |-> 0]
            ELSE CHOOSE x \in {Assemble(y) : y \in {next}} : TRUE
    <3>1. noted = IF p.msgSize = 0 THEN r
                  ELSE [r EXCEPT !.infos = InsertAt(@, infoAt, info)]
      BY <1>1 DEF RxShape
    <3>2. noted.fragments = r.fragments
      BY <1>1 DEF RxShape
    <3> HIDE DEF noted
    <3>3. next = [noted EXCEPT !.fragments = InsertAt(@, fragAt, frag),
                               !.posB = at + FragHeader + p.len]
      BY <3>2
    <3> QED BY <3>1, <3>3 DEF RxHandlePacket, Strictly
  <2> HIDE DEF badInfo, over, next, q, noted
  <2>2. (CHOOSE x \in {Assemble(y) : y \in {next}} : TRUE) = Assemble(next)
    OBVIOUS
  <2> QED BY <2>1, <2>2
<1> HIDE DEF q
<1>7. ASSUME q.rx = r, q.nMsgs = 0 PROVE Good
  BY <1>3, <1>7
<1>8. CASE ~InWindow(r, p) \/ badInfo
  <2>1. q.rx = r /\ q.nMsgs = 0
    <3> HIDE DEF badInfo, over, next, noted
    <3> QED BY <1>6, <1>8
  <2> QED BY <1>7, <2>1 DEF q
<1>9. CASE InWindow(r, p) /\ ~badInfo
  <2>1. r.seq <= p.seq
    <3>1. ~(p.seq < r.seq)
      BY <1>1, <1>3, <1>9, OldPacketRefused
    <3> QED BY <1>3, <1>4, <3>1
  <2>2. p.off = 0 =>
          /\ infos \in Seq(MsgInfoType) /\ Len(infos) = Len(r.infos) + 1
          /\ Adds(infos, r.infos, InfoOf(p.msg)) /\ ~Has(r.infos, InfoOf(p.msg))
          /\ InOrder(infos) /\ Len(infos) <= MsgInfoSize /\ Len(r.infos) \in Nat
    <3> SUFFICES ASSUME p.off = 0
                 PROVE  /\ infos \in Seq(MsgInfoType) /\ Len(infos) = Len(r.infos) + 1
                        /\ Adds(infos, r.infos, InfoOf(p.msg))
                        /\ ~Has(r.infos, InfoOf(p.msg))
                        /\ InOrder(infos) /\ Len(infos) <= MsgInfoSize
                        /\ Len(r.infos) \in Nat
      OBVIOUS
    <3>1. p.msgSize = MsgSize[p.msg] /\ p.msgSize > 0 /\ p.seq = BytesBefore(p.msg - 1)
      BY <1>4, <1>5
    <3>2. info = InfoOf(p.msg) /\ infos = InsertAt(r.infos, infoAt, InfoOf(p.msg))
      BY <3>1 DEF InfoOf
    <3>3. /\ ~Overlaps(Begins(r.infos), p.seq, MsgSize[p.msg], infoAt)
          /\ ~(Len(r.infos) >= MsgInfoSize)
      BY <1>9, <3>1
    <3> HIDE DEF infos
    <3>4. /\ infos \in Seq(MsgInfoType) /\ Len(infos) = Len(r.infos) + 1
          /\ Adds(infos, r.infos, InfoOf(p.msg)) /\ ~Has(r.infos, InfoOf(p.msg))
          /\ InOrder(infos)
      BY <1>1, <1>2, <1>3, <1>4, <3>1, <3>2, <3>3, InfoInserted
    <3>5. Len(r.infos) \in Nat /\ MsgInfoSize \in Nat
      BY <1>2, MsgInfoAssumption
    <3> QED BY <3>3, <3>4, <3>5
  <2>3. p.off # 0 => infos = r.infos /\ noted = r
    BY <1>5
  <2>4. frag \in RxFragmentType /\ posB \in Nat
    <3>1. at \in 0 .. FragBufSize - 1
      BY SMTT(20), <1>2, <1>4, FragBufAssumption DEF AllocAt
    <3> HIDE DEF at
    <3> QED BY <1>4, <3>1, FragBufAssumption DEF RxFragmentType, DataPacketType
  <2>5. Placed(frag, P) /\ frag.seq = p.seq /\ frag.len = p.len /\ frag.msg = p.msg
        /\ frag.off = p.off
    BY DEF Placed, Piece, PositionOf
  <2> HIDE DEF frag
  <2>6. /\ over => \E k \in 1 .. Len(r.fragments) : r.fragments[k].msg = p.msg
                                                    /\ r.fragments[k].off = p.off
        /\ ~over => /\ fs \in Seq(RxFragmentType) /\ Adds(fs, r.fragments, frag)
                    /\ WaitingSound(P, r.seq, fs, 0)
    BY <1>1, <1>2, <1>3, <2>1, <2>4, <2>5, FragmentInserted
  <2>7. CASE over
    <3>1. p.off # 0
      <4> SUFFICES ASSUME p.off = 0 PROVE FALSE
        OBVIOUS
      <4>1. PICK k \in 1 .. Len(r.fragments) : r.fragments[k].msg = p.msg
                                               /\ r.fragments[k].off = 0
        BY <2>6, <2>7
      <4>2. k \in 0 + 1 .. Len(r.fragments)
        OBVIOUS
      <4>3. Has(r.infos, InfoOf(p.msg))
        BY <1>1, <4>1, <4>2 DEF InfosSound, FirstsAnnounced, Has
      <4> QED BY <2>2, <4>3
    <3>2. q.rx = r /\ q.nMsgs = 0
      <4> HIDE DEF over, badInfo, noted, next
      <4> QED BY <1>6, <1>9, <2>3, <2>7, <3>1
    <3> QED BY <1>7, <3>2 DEF q
  <2>8. CASE ~over
    <3>1. fs \in Seq(RxFragmentType) /\ Adds(fs, r.fragments, frag)
          /\ WaitingSound(P, r.seq, fs, 0) /\ Len(fs) \in Nat /\ Len(r.fragments) \in Nat
      <4> HIDE DEF fs, over
      <4> QED BY <1>2, <2>6, <2>8
    <3>2. /\ next.seq = r.seq /\ next.infos = infos /\ next.fragments = fs
          /\ next.posB = posB /\ next.buf = r.buf
          /\ next \in [seq : {r.seq}, infos : {infos}, fragments : {fs}, posB : {posB},
                       buf : {r.buf}]
      <4> HIDE DEF fs, posB
      <4> QED BY <1>1 DEF RxShape
    <3> HIDE DEF next, fs, posB, infos
    <3>3. infos \in Seq(MsgInfoType) /\ Len(infos) <= MsgInfoSize
      BY <1>1, <1>2, <2>2, <2>3
    <3>4. InfosSound(r.seq, infos, fs, 0)
      <4>1. CASE p.off = 0
        <5>1. r.seq < BytesBefore(p.msg) /\ p.seq = BytesBefore(p.msg - 1)
          <6>1. BytesBefore(p.msg) \in Nat
            BY <1>4, StreamNumbers
          <6> QED BY <1>3, <1>4, <2>1, <4>1, <6>1
        <5>2. Len(infos) \in Nat
          BY <3>3
        <5> QED BY <1>1, <1>4, <2>2, <2>5, <3>1, <4>1, <5>1, <5>2, InfosWithFirst
      <4>2. CASE p.off # 0
        <5>1. InfosSound(r.seq, r.infos, fs, 0)
          BY <1>1, <2>5, <3>1, <4>2, InfosWithRest
        <5> QED BY <2>3, <4>2, <5>1
      <4> QED BY <4>1, <4>2
    <3>5. next \in RxShape(next)
      BY <1>2, <2>4, <3>1, <3>2, <3>3 DEF RxShape
    <3>6. Receiving(next, P, i, 0, c)
      BY <1>1, <3>1, <3>2, <3>3, <3>4, <3>5 DEF Receiving
    <3>7. c <= next.seq + Window
      BY <3>2
    <3>8. q = Assemble(next)
      <4> HIDE DEF over, badInfo, noted
      <4> QED BY <1>6, <1>9, <2>8
    <3>9. Good
      BY <3>2, <3>6, <3>7, <3>8, AssembleSound
    <3> QED BY <3>9 DEF q
  <2> QED BY <2>7, <2>8
<1> QED BY <1>8, <1>9
==============================================================================
