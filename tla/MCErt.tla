------------------------------- MODULE MCErt -------------------------------
(***************************************************************************)
(* An instance of the extended runtime for TLC: one more real descriptor   *)
(* than the table has room for, real descriptor 0 among them, and a heap   *)
(* for the user stack and two closures.                                    *)
(***************************************************************************)
EXTENDS Ert
=============================================================================
