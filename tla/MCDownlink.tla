----------------------------- MODULE MCDownlink -----------------------------
(***************************************************************************)
(* Instances of the downlink for TLC; each .cfg picks one of them.  The    *)
(* sizes of the messages go with Window and with WriteInit: a first packet *)
(* of a message carries WriteInit - 7 bytes of it, the next WriteInit - 5. *)
(***************************************************************************)
EXTENDS Downlink

\* The first two fill half of the window of 5, the third needs it to move.
SafetyMessages == <<2, 1, 3>>

\* With these, what the theorems about both ends suppose holds.
ASSUME TheoremsApply == MsgSize = SafetyMessages => NoWrap /\ BufferSuffices

\* Both fit in the window and in one BlockWrite of 20.
LivenessMessages == <<2, 3>>

\* One message of several BlockWrites.
LongMessage == <<9>>

\* The first message fills the window of 4 exactly.
WindowMessages == <<4, 2>>

\* The third and fourth lie on either side of the wrap of 8 sequence numbers.
WrapMessages == <<3, 4, 3, 3>>
=============================================================================
