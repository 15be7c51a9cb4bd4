----------------------------- MODULE MCWioTimer -----------------------------
(***************************************************************************)
(* An instance of the timers for TLC: a time of two words of one bit, so   *)
(* that it wraps and carries within every timeout, and an interrupt at any *)
(* place in each call.                                                     *)
(***************************************************************************)
EXTENDS WioTimer
=============================================================================
