------------------------------ MODULE MCUplink ------------------------------
(***************************************************************************)
(* Instances of the uplink for TLC.  With Reads of 8 bytes a first packet  *)
(* of a message carries 2 bytes of it and the next one 4.                  *)
(***************************************************************************)
EXTENDS Uplink

NoDownMessages == <<>>

\* One Read, four Reads, and a message whose data goes to the beginning of an
\* arena of 14 bytes, over the size of the second one.
UpMessages == <<1, 7, 4>>

\* Three requests that differ, with Reads to spare.
LongMessages == <<3, 4, 1>>
=============================================================================
