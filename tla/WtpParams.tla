------------------------------ MODULE WtpParams ------------------------------
(***************************************************************************)
(* What both ends of a WTP connection share: the sequence-number space,    *)
(* the sliding window, and the messages the server's application sends.    *)
(* The code's values are SeqSpace = 2^16, Window = 64 and WriteInit/Min/Max  *)
(* = 24/8/30 (server/wtp/wtp/constants.py).                                *)
(***************************************************************************)
EXTENDS Integers, Strict

CONSTANTS
  SeqSpace,     \* sequence numbers are integers modulo SeqSpace
  Window,     \* sliding window, in bytes
  MsgSize     \* MsgSize[i] is the size in bytes of the i-th message

ASSUME WindowAssumption == SeqSpace \in Nat /\ Window \in Nat \ {0} /\ 2 * Window <= SeqSpace
ASSUME MsgSizeAssumption == MsgSize \in Seq(Nat \ {0})

Message == 1 .. Len(MsgSize)

\* CyclicInt addition and subtraction; uint16_t arithmetic of the client.
SeqAdd(a, b) == (a + b) % SeqSpace
SeqSub(a, b) == (a - b) % SeqSpace

\* The bytes of the first i messages: where the next one begins in the stream that
\* all messages make up.
BytesBefore(i) ==
  LET upTo[k \in 0 .. Len(MsgSize)] == IF k = 0 THEN 0 ELSE upTo[k - 1] + MsgSize[k]
  IN upTo[i]

\* A byte of the stream: the k-th byte of message i, k counted from 0.
BytesOf(i) == [k \in 1 .. MsgSize[i] |-> <<i, k - 1>>]

\* The bytes a data packet carries: len bytes of message msg from offset off.
Payload(p) == [k \in 1 .. p.len |-> <<p.msg, p.off + k - 1>>]
=============================================================================
