------------------------------- MODULE FoldFacts -------------------------------
(***************************************************************************)
(* What a fold computes, step by step, whatever operator is folded, and    *)
(* induction over a set of numbers.  The provers cannot instantiate a      *)
(* theorem about all operators or predicates, so a module that reasons     *)
(* about Fold(Op, base, s) takes an instance of this one for its Op, and   *)
(* induction is over a set.                                                *)
(***************************************************************************)
EXTENDS Strict, SequenceTheorems, WellFoundedInduction, TLAPS

CONSTANT Op(_, _)

\* A set of natural numbers that is not empty has a least element.
LEMMA LeastExists ==
  ASSUME NEW T, T \subseteq Nat, T # {}
  PROVE  \E n \in T : \A m \in T : n <= m
<1>1. PICK n \in T : \A m \in T : ~(<<m, n>> \in OpToRel(<, Nat))
  BY WFMin, NatLessThanWellFounded
<1>2. \A m \in T : ~(m < n)
  BY <1>1 DEF OpToRel
<1> QED BY <1>2

\* What holds of 0, and of k when it holds of k - 1, holds up to n.
LEMMA HoldsToTheEnd ==
  ASSUME NEW n \in Nat, NEW T, 0 \in T,
         \A k \in 1 .. n : k - 1 \in T => k \in T
  PROVE  \A k \in 0 .. n : k \in T
<1> DEFINE out == {k \in 0 .. n : k \notin T}
<1> SUFFICES ASSUME out # {} PROVE FALSE
  OBVIOUS
<1>1. out \subseteq Nat
  OBVIOUS
<1> HIDE DEF out
<1>2. PICK k \in out : \A m \in out : k <= m
  BY <1>1, LeastExists
<1>3. k \in 1 .. n
  BY <1>2 DEF out
<1>4. k - 1 \notin out
  BY <1>2, <1>3
<1> QED BY <1>3, <1>4, <1>2 DEF out

\* Fold(Op, base, s), spelled out.
Folded(base, s) ==
  LET after[k \in 0 .. Len(s)] ==
        IF k = 0 THEN base ELSE CHOOSE r \in {Op(w, s[k]) : w \in {after[k - 1]}} : TRUE
  IN after[Len(s)]

\* There are values, one after each item, that start with base and each come from
\* the one before by Op; the fold is the last one.
LEMMA FoldSteps ==
  ASSUME NEW base, NEW s, Len(s) \in Nat
  PROVE  \E g : /\ g[0] = base
                /\ \A k \in 1 .. Len(s) : g[k] = Op(g[k - 1], s[k])
                /\ Folded(base, s) = g[Len(s)]
<1> DEFINE n == Len(s)
           E(g, m) == g = [k \in 0 .. m |->
                             IF k = 0 THEN base
                             ELSE CHOOSE r \in {Op(w, s[k]) : w \in {g[k - 1]}} : TRUE]
           T == {m \in 0 .. n : \E g : E(g, m)}
           after == CHOOSE g : E(g, n)
<1>1. \A v, x : (CHOOSE r \in {Op(w, x) : w \in {v}} : TRUE) = Op(v, x)
  OBVIOUS
<1>2. 0 \in T
  <2> DEFINE h == [k \in 0 .. 0 |-> base]
  <2>1. h = [k \in 0 .. 0 |->
               IF k = 0 THEN base
               ELSE CHOOSE r \in {Op(w, s[k]) : w \in {h[k - 1]}} : TRUE]
    OBVIOUS
  <2>2. E(h, 0)
    BY <2>1
  <2> QED BY <2>2, 0 \in 0 .. n
<1>3. ASSUME NEW m \in 1 .. n, m - 1 \in T PROVE m \in T
  <2>1. PICK g : E(g, m - 1)
    BY <1>3
  <2> DEFINE h == [k \in 0 .. m |-> IF k = m THEN Op(g[m - 1], s[m]) ELSE g[k]]
  <2>2. \A k \in 0 .. m - 1 : h[k] = g[k]
    OBVIOUS
  <2>3. h[m] = Op(g[m - 1], s[m]) /\ h = [k \in 0 .. m |-> h[k]]
    OBVIOUS
  <2>4. g[0] = base
    BY <2>1
  <2>5. \A k \in 1 .. m - 1 : g[k] = Op(g[k - 1], s[k])
    <3> SUFFICES ASSUME NEW k \in 1 .. m - 1 PROVE g[k] = Op(g[k - 1], s[k])
      OBVIOUS
    <3>1. k \in 0 .. m - 1 /\ k # 0
      OBVIOUS
    <3>2. g[k] = CHOOSE r \in {Op(w, s[k]) : w \in {g[k - 1]}} : TRUE
      BY <2>1, <3>1
    <3> QED BY <3>2, <1>1
  <2> HIDE DEF h
  <2>6. ASSUME NEW k \in 0 .. m
        PROVE  h[k] = IF k = 0 THEN base
                      ELSE CHOOSE r \in {Op(w, s[k]) : w \in {h[k - 1]}} : TRUE
    <3>1. CASE k = 0
      BY <3>1, <2>2, <2>4, 0 \in 0 .. m - 1
    <3>2. CASE k = m
      <4>1. h[k] = Op(h[k - 1], s[k])
        BY <3>2, <2>2, <2>3, m - 1 \in 0 .. m - 1
      <4> QED BY <4>1, <1>1, <3>2
    <3>3. CASE k \in 1 .. m - 1
      <4>1. k \in 0 .. m - 1 /\ k - 1 \in 0 .. m - 1
        BY <3>3
      <4>2. h[k] = Op(h[k - 1], s[k])
        BY <3>3, <4>1, <2>2, <2>5
      <4> QED BY <4>2, <1>1, <3>3
    <3> QED BY <3>1, <3>2, <3>3
  <2>7. E(h, m)
    BY <2>3, <2>6
  <2> QED BY <2>7
<1> HIDE DEF T
<1>4. n \in T
  <2>1. n \in Nat /\ \A k \in 1 .. n : k - 1 \in T => k \in T
    BY <1>3
  <2> HIDE DEF n
  <2>2. \A k \in 0 .. n : k \in T
    BY <1>2, <2>1, HoldsToTheEnd
  <2> QED BY <2>1, <2>2
<1> USE DEF T
<1>5. E(after, n)
  BY <1>4
<1>6. Folded(base, s) = after[n]
  BY DEF Folded
<1> HIDE DEF after
<1>7. after[0] = base
  BY <1>5
<1>8. ASSUME NEW k \in 1 .. n PROVE after[k] = Op(after[k - 1], s[k])
  <2>1. k \in 0 .. n /\ k # 0
    OBVIOUS
  <2>2. after[k] = CHOOSE r \in {Op(w, s[k]) : w \in {after[k - 1]}} : TRUE
    BY <1>5, <2>1
  <2> QED BY <2>2, <1>1
<1> QED BY <1>6, <1>7, <1>8

\* The fold of one item and of two, written out.
LEMMA FoldOne ==
  ASSUME NEW base, NEW x
  PROVE  Folded(base, <<x>>) = Op(base, x)
<1>1. Len(<<x>>) = 1 /\ <<x>>[1] = x
  OBVIOUS
<1> QED BY <1>1, FoldSteps

LEMMA FoldTwo ==
  ASSUME NEW base, NEW x, NEW y
  PROVE  Folded(base, <<x, y>>) = Op(Op(base, x), y)
<1> DEFINE s == <<x, y>>
<1>1. Len(s) = 2 /\ s[1] = x /\ s[2] = y
  OBVIOUS
<1> HIDE DEF s
<1>2. Len(s) \in Nat
  BY <1>1
<1>3. PICK g : /\ g[0] = base
               /\ \A k \in 1 .. Len(s) : g[k] = Op(g[k - 1], s[k])
               /\ Folded(base, s) = g[Len(s)]
  BY <1>2, FoldSteps
<1>4. g[1] = Op(base, x) /\ g[2] = Op(g[1], y)
  BY <1>1, <1>3
<1> QED BY <1>1, <1>3, <1>4 DEF s
=============================================================================
