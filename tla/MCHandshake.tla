---------------------------- MODULE MCHandshake ----------------------------
(***************************************************************************)
(* An instance of the handshake for TLC: EPCs of ten bytes, as in          *)
(* runtime.c, and enough messages of the WISP for the EPC with its OPEN to *)
(* drop out of the last three.                                             *)
(***************************************************************************)
EXTENDS Handshake

NoDownMessages == <<>>
=============================================================================
