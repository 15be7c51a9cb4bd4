------------------------------- MODULE Strict -------------------------------
(***************************************************************************)
(* Application and folds that evaluate each argument once.  TLC does not   *)
(* remember the values of arguments where it evaluates a fairness          *)
(* condition; a fold of a fold would take it exponential time there.       *)
(*                                                                         *)
(* Fold is FoldLeft of SequencesExt, written as a function of the number   *)
(* of items taken so that it can be reasoned about item by item.           *)
(***************************************************************************)
EXTENDS Naturals, Sequences, SequencesExt

\* op(v)
Strictly(op(_), v) == CHOOSE r \in {op(x) : x \in {v}} : TRUE

\* op(... op(op(base, s[1]), s[2]) ..., s[Len(s)])
Fold(op(_, _), base, s) ==
  LET after[k \in 0 .. Len(s)] ==
        IF k = 0 THEN base ELSE CHOOSE r \in {op(w, s[k]) : w \in {after[k - 1]}} : TRUE
  IN after[Len(s)]
=============================================================================
