----------------------------- MODULE MCWioQueue -----------------------------
(***************************************************************************)
(* A queue of three slots and two items: large enough for both cursors to  *)
(* wrap at different times and for the queue to be full with begin # 0.    *)
(***************************************************************************)
EXTENDS WioQueue
=============================================================================
