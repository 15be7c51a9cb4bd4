--------------------------- MODULE WioTimer_proofs ---------------------------
(***************************************************************************)
(* The software timers for any number of timers, any size of the time's    *)
(* words and any timeouts, while one timer at a time is armed.             *)
(*                                                                         *)
(* TimerInv says what the list is at each location of the program within a *)
(* call, so what an interrupt that comes just then finds: the timer that   *)
(* is being set is not in the list before its time is stored, and its time *)
(* is not reached by the one interrupt that a call may see.                *)
(*                                                                         *)
(* Times are compared modulo TimeSpace.  Due(t) says that the stored       *)
(* deadline is ahead of current_time by what is left of the timeout, or by *)
(* one tick more if the interrupt came while the time was read.            *)
(***************************************************************************)
EXTENDS WioTimer, FiniteSetTheorems, SequenceTheorems, TLAPS

-----------------------------------------------------------------------------
(* The time and its words.                                                  *)

\* The time and the words of it are numbers.
LEMMA TimeSpaceSize == TimeSpace \in Nat \ {0} /\ WordSpace \in Nat \ {0}
<1>1. WordSpace \in Nat \ {0}
  BY TimerAssumption
<1>2. WordSpace * WordSpace \in Nat /\ WordSpace * WordSpace > 0
  BY <1>1
<1> QED BY <1>1, <1>2 DEF TimeSpace

\* Numbers less than a wrap apart.
LEMMA ModNear ==
  ASSUME NEW S \in Nat \ {0}, NEW x \in Int, -S <= x, x < S + S
  PROVE  x % S = IF x < 0 THEN x + S ELSE IF x < S THEN x ELSE x - S
<1>1. CASE x < 0
  <2>1. x = S * (-1) + (x + S) /\ x + S \in 0 .. S - 1
    BY <1>1
  <2> QED BY <1>1, <2>1
<1>2. CASE x \in 0 .. S - 1
  BY <1>2
<1>3. CASE x >= S
  <2>1. x = S * 1 + (x - S) /\ x - S \in 0 .. S - 1
    BY <1>3
  <2> QED BY <1>3, <2>1
<1> QED BY <1>1, <1>2, <1>3

\* An interrupt brings a time that is ahead one nearer, and reaches it when it was
\* one ahead.
LEMMA TickBrings ==
  ASSUME NEW d \in 0 .. TimeSpace - 1, NEW n \in 0 .. TimeSpace - 1,
         NEW k, k = (n + 1) % TimeSpace
  PROVE  /\ k \in 0 .. TimeSpace - 1
         /\ (d - n) % TimeSpace \in Nat
         /\ (d - n) % TimeSpace >= 1 =>
              /\ (d - k) % TimeSpace = ((d - n) % TimeSpace) - 1
              /\ d = k <=> (d - n) % TimeSpace = 1
<1> DEFINE S == TimeSpace
<1>0. S \in Nat \ {0}
  BY TimeSpaceSize
<1>a. d \in 0 .. S - 1 /\ n \in 0 .. S - 1 /\ k = (n + 1) % S
  OBVIOUS
<1> HIDE DEF S
<1>1. k = IF n + 1 < S THEN n + 1 ELSE 0
  <2>1. n + 1 \in Int /\ -S <= n + 1 /\ n + 1 < S + S
    BY <1>0, <1>a
  <2>2. (n + 1) % S = IF n + 1 < 0 THEN n + 1 + S ELSE IF n + 1 < S THEN n + 1 ELSE (n + 1) - S
    BY <1>0, <2>1, ModNear
  <2> QED BY <1>0, <1>a, <2>2
<1>2. \A y \in 0 .. S - 1 : (d - y) % S = IF d < y THEN (d - y) + S ELSE d - y
  <2> TAKE y \in 0 .. S - 1
  <2>1. d - y \in Int /\ -S <= d - y /\ d - y < S + S /\ d - y < S
    BY <1>0, <1>a
  <2>2. (d - y) % S = IF d - y < 0 THEN (d - y) + S ELSE IF d - y < S THEN d - y ELSE (d - y) - S
    BY <1>0, <2>1, ModNear
  <2> QED BY <1>0, <1>a, <2>1, <2>2
<1>3. k \in 0 .. S - 1
  BY <1>0, <1>a, <1>1
<1>4. (d - n) % S = (IF d < n THEN (d - n) + S ELSE d - n)
      /\ (d - k) % S = (IF d < k THEN (d - k) + S ELSE d - k)
  BY <1>a, <1>2, <1>3
<1> QED BY <1>0, <1>a, <1>1, <1>3, <1>4 DEF S

\* A deadline is ahead of the time it was computed from, and of the next tick.
LEMMA DeadlineAhead ==
  ASSUME NEW n \in 0 .. TimeSpace - 1, NEW time \in 0 .. TimeSpace - 1
  PROVE  /\ Deadline(n, time) \in 0 .. TimeSpace - 1
         /\ (Deadline(n, time) - n) % TimeSpace = time
<1> DEFINE S == TimeSpace
           d == Deadline(n, time)
<1>0. S \in Nat \ {0}
  BY TimeSpaceSize
<1>a. n \in 0 .. S - 1 /\ time \in 0 .. S - 1 /\ d = (n + time) % S
  BY DEF Deadline
<1> HIDE DEF S, d
<1>1. d = IF n + time < S THEN n + time ELSE (n + time) - S
  <2>1. n + time \in Int /\ -S <= n + time /\ n + time < S + S
    BY <1>0, <1>a
  <2>2. (n + time) % S = IF n + time < 0 THEN (n + time) + S
                         ELSE IF n + time < S THEN n + time ELSE (n + time) - S
    BY <1>0, <2>1, ModNear
  <2> QED BY <1>0, <1>a, <2>2
<1>2. (d - n) % S = IF d < n THEN (d - n) + S ELSE d - n
  <2>1. d - n \in Int /\ -S <= d - n /\ d - n < S + S /\ d - n < S
    BY <1>0, <1>a, <1>1
  <2>2. (d - n) % S = IF d - n < 0 THEN (d - n) + S ELSE IF d - n < S THEN d - n ELSE (d - n) - S
    BY <1>0, <2>1, ModNear
  <2> QED BY <1>0, <1>a, <1>1, <2>1, <2>2
<1> QED BY <1>0, <1>a, <1>1, <1>2 DEF S, d

\* The two words of a time make up the time.
LEMMA WordsOfTime ==
  ASSUME NEW n \in 0 .. TimeSpace - 1
  PROVE  /\ Low(n) \in 0 .. WordSpace - 1 /\ High(n) \in 0 .. TimeSpace - 1
         /\ High(n) + Low(n) = n
         /\ Low(TimeSpace + Low(n)) = Low(n)
<1>1. Low(n) \in 0 .. WordSpace - 1 /\ Low(n) <= n
  BY TimeSpaceSize DEF Low
<1> DEFINE r == Low(n)
<1>2. r \in 0 .. WordSpace - 1
  BY <1>1
<1> HIDE DEF r
<1>3. (WordSpace * WordSpace + r) % WordSpace = r
  BY <1>2, TimeSpaceSize
<1> QED BY <1>1, <1>3, TimeSpaceSize DEF r, Low, High, TimeSpace

-----------------------------------------------------------------------------
\* A pointer to a timer.
Ptr == Timer \cup {None}
\* The memory that the program and the interrupt share.
MemType == [begin : Ptr, end : Ptr, t : [Timer -> TimerType]]

\* The parts of the memory.
LEMMA MemFields ==
  ASSUME NEW m \in MemType
  PROVE  m.begin \in Ptr /\ m.end \in Ptr /\ m.t \in [Timer -> TimerType]
         /\ \A t \in Timer : /\ m.t[t] \in TimerType
              /\ m.t[t].flag \in BOOLEAN /\ m.t[t].cb \in BOOLEAN
              /\ m.t[t].time \in 0 .. TimeSpace - 1
              /\ m.t[t].prev \in Ptr /\ m.t[t].next \in Ptr
BY DEF MemType, TimerType, Ptr

\* The record of timer t, changed.
LEMMA TimerSet ==
  ASSUME NEW m \in MemType, NEW t \in Timer, NEW x \in TimerType
  PROVE  [m EXCEPT !.t[t] = x] \in MemType
BY DEF MemType

\* A timer with a field changed is a timer.
LEMMA TimerFields ==
  ASSUME NEW x \in TimerType
  PROVE  /\ \A n \in Ptr : [x EXCEPT !.next = n] \in TimerType
         /\ \A p, n \in Ptr : /\ [x EXCEPT !.prev = p, !.next = n] \in TimerType
                              /\ [x EXCEPT !.next = n, !.prev = p] \in TimerType
         /\ \A b \in BOOLEAN : [x EXCEPT !.flag = b] \in TimerType
         /\ \A b \in BOOLEAN, d \in 0 .. TimeSpace - 1 :
              /\ [x EXCEPT !.flag = b, !.time = d] \in TimerType
              /\ [x EXCEPT !.time = d, !.cb = b] \in TimerType
BY DEF TimerType, Ptr

\* Each access to the memory keeps its type.
LEMMA AccessType ==
  ASSUME NEW m \in MemType, NEW t \in Timer
  PROVE  /\ \A n \in Timer : BeforeOwn(m, t, n) \in MemType /\ BeforeHead(m, t, n) \in MemType
         /\ AppendOwn(m, t) \in MemType /\ AppendHead(m, t) \in MemType
         /\ AppendEnd(m, t) \in MemType
         /\ m.begin # None => Pop(m) \in MemType
         /\ [m EXCEPT !.t[t].flag = TRUE] \in MemType
         /\ \A d \in 0 .. TimeSpace - 1, b \in BOOLEAN :
              /\ [m EXCEPT !.t[t].flag = TRUE, !.t[t].time = d] \in MemType
              /\ [m EXCEPT !.t[t].time = d, !.t[t].cb = b] \in MemType
<1> DEFINE x == m.t[t]
<1>1. x \in TimerType /\ None \in Ptr /\ t \in Ptr /\ m.end \in Ptr
  BY MemFields DEF Ptr
<1>2. ASSUME NEW n \in Timer PROVE BeforeOwn(m, t, n) \in MemType
  <2> DEFINE p == m.t[n].prev
             y == [x EXCEPT !.prev = p, !.next = n]
  <2>1. p \in Ptr /\ n \in Ptr
    BY MemFields DEF Ptr
  <2>2. y \in TimerType
    BY <1>1, <2>1, TimerFields
  <2>3. BeforeOwn(m, t, n) = [m EXCEPT !.t[t] = y]
    BY MemFields DEF BeforeOwn, MemType, TimerType
  <2> HIDE DEF y
  <2> QED BY <2>2, <2>3, TimerSet
<1>3. ASSUME NEW n \in Timer PROVE BeforeHead(m, t, n) \in MemType
  <2> DEFINE p == m.t[n].prev
             a(y) == IF y = p THEN t ELSE m.t[y].next
             b(y) == IF y = n THEN t ELSE m.t[y].prev
             F(y) == [m.t[y] EXCEPT !.next = IF y = p THEN t ELSE @,
                                    !.prev = IF y = n THEN t ELSE @]
  <2>1. \A y \in Timer : F(y) \in TimerType
    <3> TAKE y \in Timer
    <3>1. a(y) \in Ptr /\ b(y) \in Ptr /\ m.t[y] \in TimerType
      BY <1>1, MemFields
    <3>2. F(y) = [m.t[y] EXCEPT !.next = a(y), !.prev = b(y)]
      OBVIOUS
    <3> HIDE DEF a, b, F
    <3>3. \A u, v \in Ptr : [m.t[y] EXCEPT !.next = v, !.prev = u] \in TimerType
      BY <3>1, TimerFields
    <3>4. [m.t[y] EXCEPT !.next = a(y), !.prev = b(y)] \in TimerType
      BY <3>1, <3>3
    <3> QED BY <3>2, <3>4
  <2>2. BeforeHead(m, t, n) = [m EXCEPT !.t = [y \in Timer |-> F(y)]]
    BY DEF BeforeHead
  <2> HIDE DEF F
  <2> QED BY <2>1, <2>2 DEF MemType
<1>4. AppendOwn(m, t) \in MemType
  <2> DEFINE y == [x EXCEPT !.prev = m.end, !.next = None]
  <2>1. y \in TimerType
    BY <1>1, TimerFields
  <2>2. AppendOwn(m, t) = [m EXCEPT !.t[t] = y]
    BY MemFields DEF AppendOwn, MemType, TimerType
  <2> HIDE DEF y
  <2> QED BY <2>1, <2>2, TimerSet
<1>5. AppendHead(m, t) \in MemType
  <2>1. CASE m.end = None
    BY <1>1, <2>1 DEF AppendHead, MemType
  <2>2. CASE m.end # None
    <3>1. m.end \in Timer /\ m.t[m.end] \in TimerType
      BY <2>2, MemFields DEF Ptr
    <3>2. [m.t[m.end] EXCEPT !.next = t] \in TimerType
      BY <1>1, <3>1, TimerFields
    <3>3. AppendHead(m, t) = [m EXCEPT !.t[m.end] = [m.t[m.end] EXCEPT !.next = t]]
      BY <2>2 DEF AppendHead
    <3> QED BY <3>1, <3>2, <3>3, TimerSet
  <2> QED BY <2>1, <2>2
<1>6. AppendEnd(m, t) \in MemType
  BY <1>1 DEF AppendEnd, MemType
<1>7. ASSUME m.begin # None PROVE Pop(m) \in MemType
  <2> DEFINE n == m.t[m.begin].next
             e == IF n = None THEN None ELSE m.end
             y == [m.t[m.begin] EXCEPT !.flag = FALSE]
  <2>1. m.begin \in Timer /\ m.t[m.begin] \in TimerType
    BY <1>7, MemFields DEF Ptr
  <2>2. n \in Ptr /\ e \in Ptr /\ y \in TimerType
    BY <1>1, <2>1, MemFields, TimerFields
  <2>3. Pop(m) = [m EXCEPT !.begin = n, !.end = e, !.t[m.begin] = y]
    BY DEF Pop
  <2> HIDE DEF n, e, y
  <2>4. [m.t EXCEPT ![m.begin] = y] \in [Timer -> TimerType]
    BY <2>1, <2>2, MemFields
  <2>5. Pop(m) = [begin |-> n, end |-> e, t |-> [m.t EXCEPT ![m.begin] = y]]
    BY <2>3 DEF MemType
  <2> QED BY <2>2, <2>4, <2>5 DEF MemType
<1>8. [m EXCEPT !.t[t].flag = TRUE] \in MemType
  <2>1. [x EXCEPT !.flag = TRUE] \in TimerType
    BY <1>1, TimerFields
  <2>2. [m EXCEPT !.t[t].flag = TRUE] = [m EXCEPT !.t[t] = [x EXCEPT !.flag = TRUE]]
    OBVIOUS
  <2> QED BY <2>1, <2>2, TimerSet
<1>9. ASSUME NEW d \in 0 .. TimeSpace - 1, NEW b \in BOOLEAN
      PROVE  /\ [m EXCEPT !.t[t].flag = TRUE, !.t[t].time = d] \in MemType
             /\ [m EXCEPT !.t[t].time = d, !.t[t].cb = b] \in MemType
  <2> DEFINE y == [x EXCEPT !.flag = TRUE, !.time = d]
             z == [x EXCEPT !.time = d, !.cb = b]
  <2>1. y \in TimerType /\ z \in TimerType
    BY <1>1, TimerFields
  <2>2. [m EXCEPT !.t[t].flag = TRUE, !.t[t].time = d] = [m EXCEPT !.t[t] = y]
    BY MemFields DEF MemType, TimerType
  <2>3. [m EXCEPT !.t[t].time = d, !.t[t].cb = b] = [m EXCEPT !.t[t] = z]
    BY MemFields DEF MemType, TimerType
  <2> HIDE DEF y, z
  <2> QED BY <2>1, <2>2, <2>3, TimerSet
<1> QED BY <1>2, <1>3, <1>4, <1>5, <1>6, <1>7, <1>8, <1>9

-----------------------------------------------------------------------------
(* The loops: of wio_set_timeout, and of the interrupt.                     *)

\* The folds of the two loops.
Walking == INSTANCE FoldFacts WITH Op <- Walk
Firing == INSTANCE FoldFacts WITH Op <- Fire

\* The numbers of turns.
LEMMA Turns ==
  ASSUME NEW n \in Nat
  PROVE  Len([i \in 1 .. n |-> i]) = n
OBVIOUS

\* The number of timers bounds both loops.
LEMMA TimersFinite == Cardinality(Timer) \in Nat
BY TimerAssumption, FS_CardinalityType

\* The walk ends at a timer or behind the last one, at once if there is none.
LEMMA WalkEnds ==
  ASSUME NEW m \in MemType, NEW at
  PROVE  LET n == Fold(Walk, [m |-> m, n |-> m.begin, at |-> at],
                       [i \in 1 .. Cardinality(Timer) |-> i]).n
         IN n \in Ptr /\ (m.begin = None => n = None)
<1> DEFINE start == [m |-> m, n |-> m.begin, at |-> at]
           s == [i \in 1 .. Cardinality(Timer) |-> i]
           Good(w) == /\ w = [m |-> m, n |-> w.n, at |-> at]
                      /\ w.n \in Ptr /\ (m.begin = None => w.n = None)
<1>1. Len(s) \in Nat
  BY Turns, TimersFinite
<1> HIDE DEF s
<1>2. PICK g : /\ g[0] = start
               /\ \A k \in 1 .. Len(s) : g[k] = Walk(g[k - 1], s[k])
               /\ Walking!Folded(start, s) = g[Len(s)]
  BY <1>1, Walking!FoldSteps
<1>3. Fold(Walk, start, s) = g[Len(s)]
  BY <1>2 DEF Fold, Walking!Folded
<1>4. Good(start)
  BY MemFields
<1>5. ASSUME NEW w, Good(w), NEW i PROVE Good(Walk(w, i))
  <2>1. CASE Passes(w.m, w.n, w.at)
    <3>1. w.n # None /\ w.m = m
      BY <1>5, <2>1 DEF Passes
    <3>2. w.n \in Timer
      BY <1>5, <3>1 DEF Ptr
    <3>3. m.t[w.n].next \in Ptr
      BY <3>2, MemFields
    <3>4. Walk(w, i) = [w EXCEPT !.n = m.t[w.n].next]
      BY <2>1, <3>1 DEF Walk
    <3> DEFINE p == m.t[w.n].next
    <3>5. Walk(w, i) = [w EXCEPT !.n = p] /\ p \in Ptr
      BY <3>3, <3>4
    <3> HIDE DEF p
    <3>6. Walk(w, i) = [m |-> m, n |-> p, at |-> at]
      BY <1>5, <3>5
    <3> QED BY <1>5, <3>1, <3>5, <3>6
  <2>2. CASE ~Passes(w.m, w.n, w.at)
    BY <1>5, <2>2 DEF Walk
  <2> QED BY <2>1, <2>2
<1> DEFINE T == {k \in 0 .. Len(s) : Good(g[k])}
<1> HIDE DEF Good
<1>6. 0 \in T
  BY <1>1, <1>2, <1>4
<1>7. ASSUME NEW k \in 1 .. Len(s), k - 1 \in T PROVE k \in T
  BY <1>2, <1>5, <1>7
<1> HIDE DEF T
<1>8. \A k \in 0 .. Len(s) : k \in T
  BY <1>1, <1>6, <1>7, Walking!HoldsToTheEnd
<1>9. Good(g[Len(s)])
  BY <1>1, <1>8 DEF T
<1> QED BY <1>3, <1>9 DEF Good, s

\* wio_set_timeout keeps the memory's type.
LEMMA SetTimeoutType ==
  ASSUME NEW m \in MemType, NEW t \in Timer, NEW time \in Nat, NEW at \in 0 .. TimeSpace - 1
  PROVE  SetTimeout(m, t, time, at) \in MemType
<1> DEFINE n == Fold(Walk, [m |-> m, n |-> m.begin, at |-> at],
                     [i \in 1 .. Cardinality(Timer) |-> i]).n
           s == [m EXCEPT !.t[t].flag = TRUE, !.t[t].time = Deadline(at, time)]
<1>1. n \in Ptr
  BY WalkEnds
<1>2. s \in MemType
  <2>1. Deadline(at, time) \in 0 .. TimeSpace - 1
    BY TimeSpaceSize DEF Deadline
  <2> QED BY <2>1, AccessType
<1>3. SetTimeout(m, t, time, at) = IF n # None THEN BeforeHead(BeforeOwn(s, t, n), t, n)
                                   ELSE AppendEnd(AppendHead(AppendOwn(s, t), t), t)
  BY DEF SetTimeout
<1> HIDE DEF n, s
<1>4. CASE n # None
  <2>1. n \in Timer
    BY <1>1, <1>4 DEF Ptr
  <2>2. BeforeOwn(s, t, n) \in MemType
    BY <1>2, <2>1, AccessType
  <2> QED BY <1>3, <1>4, <2>1, <2>2, AccessType
<1>5. CASE n = None
  <2>1. AppendOwn(s, t) \in MemType
    BY <1>2, AccessType
  <2>2. AppendHead(AppendOwn(s, t), t) \in MemType
    BY <2>1, AccessType
  <2> QED BY <1>3, <1>5, <2>2, AccessType
<1> QED BY <1>4, <1>5

\* The list of memory m holds timer t and no other.
OnlyTimer(m, t) ==
  /\ m.begin = t /\ m.end = t
  /\ m.t[t].prev = None /\ m.t[t].next = None
  /\ m.t[t].flag

\* The list of memory m is empty.
NoneIn(m) == m.begin = None /\ m.end = None

\* In an empty list the new timer is the only one.
LEMMA SetTimeoutAlone ==
  ASSUME NEW m \in MemType, NEW t \in Timer, NEW time \in Nat, NEW at \in 0 .. TimeSpace - 1,
         NoneIn(m)
  PROVE  LET r == SetTimeout(m, t, time, at)
         IN /\ OnlyTimer(r, t) /\ r.t[t].time = Deadline(at, time)
            /\ \A x \in Timer \ {t} : r.t[x] = m.t[x]
<1> DEFINE n == Fold(Walk, [m |-> m, n |-> m.begin, at |-> at],
                     [i \in 1 .. Cardinality(Timer) |-> i]).n
           d == Deadline(at, time)
           s == [m EXCEPT !.t[t].flag = TRUE, !.t[t].time = d]
           y == [m.t[t] EXCEPT !.flag = TRUE, !.time = d]
           z == [y EXCEPT !.prev = None, !.next = None]
           r == AppendEnd(AppendHead(AppendOwn(s, t), t), t)
<1>1. n = None
  BY WalkEnds DEF NoneIn
<1>2. SetTimeout(m, t, time, at) = r
  BY <1>1 DEF SetTimeout
<1>3. d \in 0 .. TimeSpace - 1
  BY TimeSpaceSize DEF Deadline
<1> HIDE DEF n, d
<1>4. m.t[t] \in TimerType
  BY MemFields
<1>5. y \in TimerType /\ y.flag /\ y.time = d
  <2>1. y \in TimerType
    BY <1>3, <1>4, TimerFields
  <2> QED BY <1>4, <2>1 DEF TimerType
<1>6. s = [m EXCEPT !.t[t] = y]
  BY <1>3, MemFields DEF MemType, TimerType
<1> HIDE DEF y
<1>7. z.prev = None /\ z.next = None /\ z.flag /\ z.time = d
  BY <1>5 DEF TimerType
<1>8. s = [begin |-> None, end |-> None, t |-> [m.t EXCEPT ![t] = y]]
  BY <1>6 DEF MemType, NoneIn
<1> HIDE DEF s
<1> DEFINE u == [m.t EXCEPT ![t] = y]
           v == [m.t EXCEPT ![t] = z]
<1>9. u[t] = y /\ [u EXCEPT ![t] = z] = v /\ v[t] = z /\ \A x \in Timer \ {t} : v[x] = m.t[x]
  <2>1. m.t \in [Timer -> TimerType]
    BY MemFields
  <2> HIDE DEF z
  <2> QED BY <2>1
<1> DEFINE o == AppendOwn(s, t)
<1>10. o = [s EXCEPT !.t = [u EXCEPT ![t] = z]]
  <2>1. s.t = u /\ s.end = None /\ s.t[t] = y
    BY <1>8, <1>9
  <2>2. s \in MemType
    BY <1>5, <1>6, TimerSet
  <2>3. o = [s EXCEPT !.t[t] = [s.t[t] EXCEPT !.prev = s.end, !.next = None]]
    <3> DEFINE q == s.end
    <3>1. s.t[t] \in TimerType /\ q \in Ptr
      BY <2>2, MemFields
    <3> QED BY <2>2, <3>1 DEF AppendOwn, MemType, TimerType
  <2>4. [s.t[t] EXCEPT !.prev = s.end, !.next = None] = z
    BY <2>1
  <2> HIDE DEF u, o, z
  <2> QED BY <2>1, <2>3, <2>4
<1>11. o = [begin |-> None, end |-> None, t |-> v]
  <2> HIDE DEF o, u, v
  <2> QED BY <1>8, <1>9, <1>10
<1> HIDE DEF o, u, v, z
<1>12. AppendHead(o, t) = [begin |-> t, end |-> None, t |-> v]
  BY <1>11 DEF AppendHead
<1>13. r = [begin |-> t, end |-> t, t |-> v]
  BY <1>12 DEF AppendEnd, o
<1> HIDE DEF r
<1> QED BY <1>2, <1>7, <1>9, <1>13 DEF OnlyTimer, d

-----------------------------------------------------------------------------
\* The interrupt's local state.
FireState ==
  [m : MemType, at : 0 .. TimeSpace - 1, again : 0 .. MaxTime, fired : SUBSET Timer,
   rearmed : SUBSET Timer]

\* A turn of the interrupt's loop keeps its type.
LEMMA FireType ==
  ASSUME NEW w \in FireState, NEW i
  PROVE  Fire(w, i) \in FireState
<1> DEFINE t == w.m.begin
           m == Pop(w.m)
           re == w.again > 0 /\ w.m.t[t].cb
<1>1. w.m \in MemType /\ w.at \in 0 .. TimeSpace - 1 /\ w.again \in 0 .. MaxTime
      /\ w.fired \in SUBSET Timer /\ w.rearmed \in SUBSET Timer /\ w.again \in Nat
  BY TimerAssumption DEF FireState
<1>2. CASE t = None \/ w.m.t[t].time # w.at
  BY <1>2 DEF Fire
<1>3. CASE ~(t = None \/ w.m.t[t].time # w.at)
  <2> DEFINE f == w.fired \cup {t}
             r == IF re THEN w.rearmed \cup {t} ELSE w.rearmed \ {t}
             n == IF re THEN SetTimeout(m, t, w.again, w.at) ELSE m
  <2>1. t \in Timer
    BY <1>1, <1>3, MemFields DEF Ptr
  <2>2. m \in MemType
    BY <1>1, <1>3, AccessType, <2>1
  <2>3. SetTimeout(m, t, w.again, w.at) \in MemType
    BY <1>1, <2>1, <2>2, SetTimeoutType
  <2>4. f \in SUBSET Timer /\ r \in SUBSET Timer /\ n \in MemType
    BY <1>1, <2>1, <2>2, <2>3
  <2>5. Fire(w, i) = [w EXCEPT !.fired = f, !.rearmed = r, !.m = n]
    <3> HIDE DEF m
    <3> QED BY <1>3 DEF Fire, m
  <2> HIDE DEF f, r, n
  <2>6. Fire(w, i) = [m |-> n, at |-> w.at, again |-> w.again, fired |-> f, rearmed |-> r]
    BY <2>5 DEF FireState
  <2> QED BY <1>1, <2>4, <2>6 DEF FireState
<1> QED BY <1>2, <1>3

\* Where the interrupt's loop begins.
FireStart(again) ==
  [m |-> mem, at |-> (now + 1) % TimeSpace, again |-> again, fired |-> {}, rearmed |-> {}]

\* The interrupt is a number of turns, at least one.
LEMMA InterruptSteps ==
  ASSUME NEW again
  PROVE  \E n, g :
           /\ n \in Nat /\ n # 0
           /\ g[0] = FireStart(again) /\ Interrupt(again) = g[n]
           /\ \A k \in 1 .. n : g[k] = Fire(g[k - 1], k)
<1> DEFINE n == Cardinality(Timer) + 1
           s == [i \in 1 .. n |-> i]
           start == FireStart(again)
<1>1. n \in Nat \ {0} /\ Len(s) = n /\ \A k \in 1 .. n : s[k] = k
  BY TimersFinite
<1>2. Interrupt(again) = Fold(Fire, start, s)
  BY DEF Interrupt, FireStart
<1> HIDE DEF n, s, start
<1>3. PICK g : /\ g[0] = start
               /\ \A k \in 1 .. Len(s) : g[k] = Fire(g[k - 1], s[k])
               /\ Firing!Folded(start, s) = g[Len(s)]
  BY <1>1, Firing!FoldSteps
<1>4. Fold(Fire, start, s) = g[Len(s)]
  BY <1>3 DEF Fold, Firing!Folded
<1>5. \A k \in 1 .. n : g[k] = Fire(g[k - 1], k)
  <2> HIDE DEF Fire
  <2> QED BY <1>1, <1>3
<1> QED BY <1>1, <1>2, <1>3, <1>4, <1>5 DEF start

\* An interrupt ends in a state of its type.
LEMMA InterruptTyped ==
  ASSUME mem \in MemType, now \in 0 .. TimeSpace - 1, NEW again \in 0 .. MaxTime
  PROVE  /\ FireStart(again) \in FireState
         /\ Interrupt(again) \in FireState
<1>1. FireStart(again) \in FireState
  BY TimeSpaceSize DEF FireStart, FireState
<1>2. PICK n, g :
        /\ n \in Nat /\ n # 0
        /\ g[0] = FireStart(again) /\ Interrupt(again) = g[n]
        /\ \A k \in 1 .. n : g[k] = Fire(g[k - 1], k)
  BY InterruptSteps
<1> DEFINE T == {k \in 0 .. n : g[k] \in FireState}
<1>3. 0 \in T
  BY <1>1, <1>2
<1>4. ASSUME NEW k \in 1 .. n, k - 1 \in T PROVE k \in T
  BY <1>2, <1>4, FireType
<1> HIDE DEF T
<1>5. \A k \in 0 .. n : k \in T
  BY <1>2, <1>3, <1>4, Firing!HoldsToTheEnd
<1> QED BY <1>1, <1>2, <1>5 DEF T

\* When no timer is due the interrupt only counts the time.
LEMMA InterruptIdle ==
  ASSUME NEW again,
         mem.begin = None \/ mem.t[mem.begin].time # (now + 1) % TimeSpace
  PROVE  Interrupt(again) = FireStart(again)
<1>1. PICK n, g :
        /\ n \in Nat /\ n # 0
        /\ g[0] = FireStart(again) /\ Interrupt(again) = g[n]
        /\ \A k \in 1 .. n : g[k] = Fire(g[k - 1], k)
  BY InterruptSteps
<1> DEFINE T == {k \in 0 .. n : g[k] = FireStart(again)}
<1>2. 0 \in T
  BY <1>1
<1>3. \A i : Fire(FireStart(again), i) = FireStart(again)
  <2> DEFINE w == FireStart(again)
  <2>1. w.m = mem /\ w.at = (now + 1) % TimeSpace
    BY DEF FireStart
  <2> HIDE DEF w
  <2> QED BY <2>1 DEF Fire, w
<1>4. ASSUME NEW k \in 1 .. n, k - 1 \in T PROVE k \in T
  BY <1>1, <1>3, <1>4
<1> HIDE DEF T
<1>5. \A k \in 0 .. n : k \in T
  BY <1>1, <1>2, <1>4, Firing!HoldsToTheEnd
<1> QED BY <1>1, <1>5 DEF T

\* The only timer leaves the list.
LEMMA PopOnly ==
  ASSUME NEW m \in MemType, NEW t \in Timer, OnlyTimer(m, t)
  PROVE  /\ Pop(m) \in MemType /\ NoneIn(Pop(m))
         /\ \A x \in Timer \ {t} : Pop(m).t[x] = m.t[x]
<1> DEFINE y == [m.t[t] EXCEPT !.flag = FALSE]
<1>1. Pop(m) \in MemType
  <2>1. m.begin # None
    BY TimerAssumption DEF OnlyTimer
  <2> QED BY <2>1, AccessType
<1>2. Pop(m) = [m EXCEPT !.begin = None, !.end = None, !.t[t] = y]
  BY DEF Pop, OnlyTimer
<1> HIDE DEF y
<1>3. Pop(m) = [begin |-> None, end |-> None, t |-> [m.t EXCEPT ![t] = y]]
  BY <1>2 DEF MemType
<1> QED BY <1>1, <1>3, MemFields DEF NoneIn

\* When the only timer is due the interrupt takes it off the list, and its callback
\* may set it again, which a later turn of the loop leaves alone.
LEMMA InterruptFires ==
  ASSUME mem \in MemType, now \in 0 .. TimeSpace - 1, NEW again \in 0 .. MaxTime,
         MaxTime < TimeSpace, NEW t \in Timer, OnlyTimer(mem, t),
         mem.t[t].time = (now + 1) % TimeSpace
  PROVE  LET w == Interrupt(again)
             re == again > 0 /\ mem.t[t].cb
         IN /\ w.at = (now + 1) % TimeSpace
            /\ w.fired = {t} /\ w.rearmed = (IF re THEN {t} ELSE {})
            /\ re => OnlyTimer(w.m, t) /\ w.m.t[t].time = Deadline(w.at, again)
            /\ ~re => NoneIn(w.m)
            /\ \A x \in Timer \ {t} : w.m.t[x] = mem.t[x]
<1> DEFINE at == (now + 1) % TimeSpace
           w0 == FireStart(again)
           re == again > 0 /\ mem.t[t].cb
           m0 == Pop(mem)
           m1 == IF re THEN SetTimeout(m0, t, again, at) ELSE m0
           f1 == {t}
           r1 == IF re THEN {t} ELSE {}
           w1 == [m |-> m1, at |-> at, again |-> again, fired |-> f1, rearmed |-> r1]
<1>1. PICK n, g :
        /\ n \in Nat /\ n # 0
        /\ g[0] = FireStart(again) /\ Interrupt(again) = g[n]
        /\ \A k \in 1 .. n : g[k] = Fire(g[k - 1], k)
  BY InterruptSteps
<1>2. at \in 0 .. TimeSpace - 1 /\ again \in Nat /\ again < TimeSpace
      /\ again \in 0 .. TimeSpace - 1
  BY TimeSpaceSize, TimerAssumption
<1>3. m0 \in MemType /\ NoneIn(m0) /\ \A x \in Timer \ {t} : m0.t[x] = mem.t[x]
  BY PopOnly
<1>4. /\ re => OnlyTimer(m1, t) /\ m1.t[t].time = Deadline(at, again)
      /\ ~re => NoneIn(m1)
      /\ \A x \in Timer \ {t} : m1.t[x] = mem.t[x]
  <2> HIDE DEF m0, at
  <2>1. CASE re
    <3> DEFINE r == SetTimeout(m0, t, again, at)
    <3>1. OnlyTimer(r, t) /\ r.t[t].time = Deadline(at, again)
          /\ \A x \in Timer \ {t} : r.t[x] = m0.t[x]
      BY <1>2, <1>3, SetTimeoutAlone
    <3> HIDE DEF r
    <3>2. m1 = r
      BY <2>1 DEF r
    <3> HIDE DEF m1, re
    <3> QED BY <1>3, <2>1, <3>1, <3>2
  <2>2. CASE ~re
    BY <1>3, <2>2
  <2> QED BY <2>1, <2>2
<1>5. \A i : Fire(w0, i) = w1
  <2> TAKE i
  <2>1. w0 = [m |-> mem, at |-> at, again |-> again, fired |-> {}, rearmed |-> {}]
    BY DEF FireStart
  <2>2. mem.begin = t /\ t # None /\ mem.t[t].time = at
    BY TimerAssumption DEF OnlyTimer
  <2>3. w0.m = mem /\ w0.at = at /\ w0.again = again /\ w0.fired = {} /\ w0.rearmed = {}
    BY <2>1
  <2> HIDE DEF w0, at, m0
  <2>4. Fire(w0, i) = [w0 EXCEPT !.fired = {} \cup {t},
                                 !.rearmed = IF re THEN {} \cup {t} ELSE {} \ {t},
                                 !.m = m1]
    BY <2>2, <2>3 DEF Fire, m0
  <2>5. {} \cup {t} = f1 /\ (IF re THEN {} \cup {t} ELSE {} \ {t}) = r1
    OBVIOUS
  <2>6. Fire(w0, i) = [w0 EXCEPT !.fired = f1, !.rearmed = r1, !.m = m1]
    BY <2>4, <2>5
  <2> HIDE DEF f1, r1, m1
  <2> QED BY <2>1, <2>6
<1>6. \A i : Fire(w1, i) = w1
  <2> TAKE i
  <2>1. w1.m = m1 /\ w1.at = at
    OBVIOUS
  <2>2. m1.begin = None \/ m1.t[m1.begin].time # at
    <3>1. CASE re
      <4>1. m1.begin = t /\ m1.t[t].time = Deadline(at, again)
        BY <1>4, <3>1 DEF OnlyTimer
      <4>2. Deadline(at, again) \in 0 .. TimeSpace - 1
            /\ (Deadline(at, again) - at) % TimeSpace = again
        BY <1>2, DeadlineAhead
      <4>3. again > 0 /\ 0 % TimeSpace = 0
        BY <3>1, TimeSpaceSize
      <4>4. Deadline(at, again) # at
        <5> SUFFICES ASSUME Deadline(at, again) = at PROVE FALSE
          OBVIOUS
        <5>1. Deadline(at, again) - at = 0
          BY <1>2
        <5> QED BY <4>2, <4>3, <5>1
      <4> HIDE DEF m1, at
      <4> QED BY <4>1, <4>4
    <3>2. CASE ~re
      <4> HIDE DEF m1
      <4> QED BY <1>4, <3>2 DEF NoneIn
    <3> QED BY <3>1, <3>2
  <2> HIDE DEF w1, m1, at
  <2> QED BY <2>1, <2>2 DEF Fire
<1> DEFINE T == {k \in 0 .. n : k = 0 \/ g[k] = w1}
<1> HIDE DEF w0, w1
<1>7. 0 \in T
  BY <1>1
<1>8. ASSUME NEW k \in 1 .. n, k - 1 \in T PROVE k \in T
  <2>1. g[k - 1] = w0 \/ g[k - 1] = w1
    BY <1>1, <1>8 DEF w0
  <2>2. g[k] = w1
    BY <1>1, <1>5, <1>6, <2>1
  <2> QED BY <2>2
<1> HIDE DEF T
<1>9. \A k \in 0 .. n : k \in T
  BY <1>1, <1>7, <1>8, Firing!HoldsToTheEnd
<1>10. Interrupt(again) = w1
  BY <1>1, <1>9 DEF T
<1> HIDE DEF m1
<1>11. w1.m = m1 /\ w1.at = at /\ w1.fired = {t} /\ w1.rearmed = (IF re THEN {t} ELSE {})
  BY DEF w1
<1> HIDE DEF re, at
<1>12. /\ Interrupt(again).at = at
       /\ Interrupt(again).fired = {t} /\ Interrupt(again).rearmed = (IF re THEN {t} ELSE {})
       /\ Interrupt(again).m = m1
  BY <1>10, <1>11
<1> QED BY <1>4, <1>12 DEF re, at

\* The program's local variables.
LocalType == [next : Ptr, prev : Ptr, time : 0 .. MaxTime, cb : BOOLEAN, word : Nat]

\* Where the program is, and what it keeps for a call.
CallTyped ==
  /\ now \in 0 .. TimeSpace - 1
  /\ pc \in Busy \cup {"idle", "wait"}
  /\ self \in Ptr /\ (pc # "idle" => self \in Timer)
  /\ local \in LocalType
  /\ pc \in {"before", "beforeHead"} => local.next \in Timer
  /\ ticks \in 0 .. TicksPerCall /\ (pc \notin Busy => ticks = 0)

\* The timers, and what was set.
DataTyped ==
  /\ mem \in MemType
  /\ armed \subseteq Timer /\ lost \subseteq Timer
  /\ want \in [Timer -> 0 .. MaxTime] /\ age \in [Timer -> 0 .. MaxTime + 1]

\* The type part of the invariant: a timer is behind each place of a call.
Typed == CallTyped /\ DataTyped

\* The ticks until the deadline of timer t.
Left(t) == (mem.t[t].time - now) % TimeSpace

\* The deadline is ahead, by what is left of the timeout or one more.
Due(t) == Left(t) >= 1 /\ want[t] - age[t] \in {Left(t), Left(t) - 1}

\* The list holds the armed timer and no other, and its deadline is ahead.
Quiet ==
  /\ armed = {} => NoneIn(mem)
  /\ \A t \in armed : OnlyTimer(mem, t) /\ Due(t)

\* In a call that sets the only timer.
Setting == armed = {self} /\ mem.t[self].flag /\ want[self] >= 2 /\ age[self] <= ticks

\* What the list, the armed timer and the local variables are at each location, while
\* there is no trouble.
Sound ==
  /\ pc \in {"idle", "wait", "enter", "clear", "unlink"} => Quiet
  /\ pc = "clear" /\ self \in armed => local.prev = None /\ local.next = None
  /\ pc = "unlink" => local.prev = None /\ local.next = None /\ armed \subseteq {self}
  /\ pc \in {"half", "time", "find", "append", "appendHead", "appendEnd"} => Setting
  /\ pc \in {"half", "time"} => NoneIn(mem) /\ want[self] = local.time /\ local.next = None
  /\ pc = "time" /\ age[self] = 0 => local.word \in {TimeSpace + Low(now), High(now)}
  /\ pc \in {"find", "append", "appendHead", "appendEnd"} => Due(self)
  /\ pc \in {"find", "append", "appendHead"} => NoneIn(mem)
  /\ pc = "find" => local.next = None
  /\ pc \in {"appendHead", "appendEnd"} =>
       mem.t[self].prev = None /\ mem.t[self].next = None
  /\ pc = "appendEnd" => mem.begin = self /\ mem.end = None
  /\ pc = "unlinkEnd" =>
       armed = {} /\ mem.begin = None /\ local.next = None /\ local.prev = None
  /\ pc \notin {"before", "beforeHead"}

\* The inductive invariant.
TimerInv == Typed /\ (trouble = {} => Sound)

\* It holds when the timers are initialized.
LEMMA Start == Init => TimerInv
<1> SUFFICES ASSUME Init PROVE TimerInv
  OBVIOUS
<1>1. NewTimer \in TimerType
  BY TimeSpaceSize DEF NewTimer, TimerType
<1>2. NoLocal \in LocalType /\ NoTimes \in [Timer -> 0 .. MaxTime]
      /\ NoTimes \in [Timer -> 0 .. MaxTime + 1]
  BY TimerAssumption DEF NoLocal, NoTimes, LocalType, Ptr
<1>3. CallTyped
  BY <1>2, TimeSpaceSize, TimerAssumption DEF Init, CallTyped, Ptr, Busy
<1>4. DataTyped
  <2> HIDE DEF NewTimer
  <2> QED BY <1>1, <1>2 DEF Init, DataTyped, MemType, Ptr
<1>5. Sound
  BY DEF Init, Sound, Quiet, NoneIn
<1> QED BY <1>3, <1>4, <1>5 DEF TimerInv, Typed

-----------------------------------------------------------------------------
\* The next location of a call.
LEMMA GoToTyped ==
  ASSUME CallTyped, NEW from, NEW to, NEW kept, GoTo(from, to, kept),
         from \in Busy \cup {"wait"}, to \in Busy \cup {"idle", "wait"}, kept \in LocalType,
         to \in {"before", "beforeHead"} => kept.next \in Timer
  PROVE  CallTyped'
<1>0. from # "idle"
  BY DEF Busy
<1>1. NoLocal \in LocalType
  BY TimerAssumption DEF NoLocal, LocalType, Ptr
<1>2. self \in Timer
  BY <1>0 DEF CallTyped, GoTo
<1>3. local' \in LocalType
  BY <1>1 DEF GoTo
<1> HIDE DEF NoLocal
<1>4. self' \in Ptr /\ (pc' # "idle" => self' \in Timer)
  BY <1>2 DEF GoTo, Ptr
<1>5. ticks' \in 0 .. TicksPerCall /\ (pc' \notin Busy => ticks' = 0)
  BY TimerAssumption DEF CallTyped, GoTo, Busy
<1>6. pc' \in {"before", "beforeHead"} => local'.next \in Timer
  BY DEF GoTo
<1> QED BY <1>3, <1>4, <1>5, <1>6 DEF CallTyped, GoTo

\* A step that only writes the memory.
LEMMA HistTyped ==
  ASSUME DataTyped, UNCHANGED <<armed, lost, want, age>>, mem' \in MemType
  PROVE  DataTyped'
BY DEF DataTyped

\* The local variables before a call.
LEMMA EmptyLocal == NoLocal \in LocalType
BY TimerAssumption DEF NoLocal, LocalType, Ptr

\* The local variables, and those a step leaves.
LEMMA LocalFields ==
  ASSUME CallTyped
  PROVE  /\ local \in LocalType
         /\ \A w \in Nat : [local EXCEPT !.word = w] \in LocalType
         /\ [local EXCEPT !.word = 0, !.time = 0] \in LocalType
         /\ \A n \in Ptr : [local EXCEPT !.next = n] \in LocalType
         /\ local.time \in 0 .. MaxTime /\ local.word \in Nat
         /\ local.next \in Ptr /\ local.prev \in Ptr /\ local.cb \in BOOLEAN
<1>1. local \in LocalType
  BY DEF CallTyped
<1>2. 0 \in 0 .. MaxTime /\ 0 \in Nat
  BY TimerAssumption
<1> QED BY <1>1, <1>2 DEF LocalType

\* Each step of the program keeps the types: the beginning of wio_set_timeout;
LEMMA SetEnterTyped ==
  ASSUME Typed, NEW t \in Timer, NEW time \in 1 .. MaxTime, NEW cb \in BOOLEAN,
         SetEnter(t, time, cb)
  PROVE  Typed'
<1>0. mem.begin \in Ptr /\ time \in 0 .. MaxTime
  BY MemFields DEF Typed, DataTyped
<1>1. local' \in LocalType
  BY <1>0, EmptyLocal DEF SetEnter, LocalType
<1>2. CallTyped'
  <2> HIDE DEF NoLocal
  <2> QED BY <1>1 DEF Typed, CallTyped, SetEnter, Busy, Ptr
<1>3. DataTyped'
  BY DEF Typed, DataTyped, SetEnter, histVars
<1> QED BY <1>2, <1>3 DEF Typed

\* the beginning of wio_clear_timeout;
LEMMA ClearEnterTyped ==
  ASSUME Typed, NEW t \in Timer, ClearEnter(t)
  PROVE  Typed'
<1>0. mem.t[t].prev \in Ptr /\ mem.t[t].next \in Ptr
  BY MemFields DEF Typed, DataTyped
<1>1. local' \in LocalType
  BY <1>0, EmptyLocal DEF ClearEnter, LocalType
<1>2. CallTyped'
  <2> HIDE DEF NoLocal
  <2> QED BY <1>1 DEF Typed, CallTyped, ClearEnter, Busy, Ptr
<1>3. DataTyped'
  BY DEF Typed, DataTyped, ClearEnter, histVars
<1> QED BY <1>2, <1>3 DEF Typed

\* the flag is tested and set;
LEMMA SetFlagTyped ==
  ASSUME Typed, SetFlag
  PROVE  Typed'
<1>0. local \in LocalType /\ local.time \in 0 .. MaxTime /\ self \in Timer
  BY LocalFields DEF Typed, SetFlag, GoTo, CallTyped
<1>1. CASE GoTo("enter", "idle", local) /\ UNCHANGED <<mem, histVars>>
  <2>1. CallTyped'
    BY <1>0, <1>1, GoToTyped DEF Typed, Busy
  <2> QED BY <1>1, <2>1 DEF Typed, DataTyped, histVars
<1>2. CASE /\ GoTo("enter", "half", local)
           /\ mem' = [mem EXCEPT !.t[self].flag = TRUE]
           /\ armed' = armed \cup {self}
           /\ want' = IF trouble' = {} THEN [want EXCEPT ![self] = local.time] ELSE NoTimes
           /\ age' = IF trouble' = {} THEN [age EXCEPT ![self] = 0] ELSE NoTimes
           /\ UNCHANGED lost
  <2>1. CallTyped'
    BY <1>0, <1>2, GoToTyped DEF Typed, Busy
  <2>2. mem' \in MemType
    BY <1>0, <1>2, AccessType DEF Typed, DataTyped
  <2>3. want' \in [Timer -> 0 .. MaxTime]
    BY <1>0, <1>2, TimerAssumption DEF Typed, DataTyped, NoTimes
  <2>4. age' \in [Timer -> 0 .. MaxTime + 1]
    BY <1>0, <1>2, TimerAssumption DEF Typed, DataTyped, NoTimes
  <2>5. armed' \subseteq Timer /\ lost' \subseteq Timer
    BY <1>0, <1>2 DEF Typed, DataTyped
  <2> QED BY <2>1, <2>2, <2>3, <2>4, <2>5 DEF Typed, DataTyped
<1> QED BY <1>1, <1>2 DEF SetFlag

\* a word of the time is read;
LEMMA ReadHalfTyped ==
  ASSUME Typed, NEW low \in BOOLEAN, ReadHalf(low)
  PROVE  Typed'
<1> DEFINE w == IF low THEN TimeSpace + Low(now) ELSE High(now)
<1>1. w \in Nat
  BY WordsOfTime, TimeSpaceSize DEF Typed, CallTyped
<1>2. GoTo("half", "time", [local EXCEPT !.word = w]) /\ UNCHANGED <<mem, histVars>>
  BY DEF ReadHalf
<1> HIDE DEF w
<1>3. [local EXCEPT !.word = w] \in LocalType
  BY <1>1, LocalFields DEF Typed
<1>4. CallTyped'
  BY <1>2, <1>3, GoToTyped DEF Typed, Busy
<1> QED BY <1>2, <1>4 DEF Typed, DataTyped, histVars

\* The time that SetTime puts together.
ReadTime == IF local.word >= TimeSpace THEN High(now) + Low(local.word)
            ELSE local.word + Low(now)

\* Whatever words it is put together from, it is a number.
LEMMA ReadTimeType == ASSUME CallTyped PROVE ReadTime \in Nat
<1>1. local.word \in Nat
  BY LocalFields
<1>2. Low(local.word) \in Nat
  BY <1>1, TimeSpaceSize DEF Low
<1>3. High(now) \in Nat /\ Low(now) \in Nat
  BY WordsOfTime DEF CallTyped
<1> QED BY <1>1, <1>2, <1>3 DEF ReadTime

\* the deadline is stored;
LEMMA SetTimeTyped ==
  ASSUME Typed, SetTime
  PROVE  Typed'
<1>1. /\ GoTo("time", "find", [local EXCEPT !.word = 0, !.time = 0])
      /\ mem' = [mem EXCEPT !.t[self].time = Deadline(ReadTime, local.time),
                            !.t[self].cb = local.cb]
      /\ want' = IF trouble' = {} THEN want ELSE NoTimes
      /\ age' = IF trouble' = {} THEN age ELSE NoTimes
      /\ UNCHANGED <<armed, lost>>
  BY DEF SetTime, ReadTime
<1>2. CallTyped'
  BY <1>1, GoToTyped, LocalFields DEF Typed, Busy
<1>3. self \in Timer
  BY <1>1 DEF Typed, CallTyped, GoTo
<1>4. Deadline(ReadTime, local.time) \in 0 .. TimeSpace - 1 /\ local.cb \in BOOLEAN
  <2>1. ReadTime \in Nat /\ local.time \in Nat /\ local.cb \in BOOLEAN
    BY ReadTimeType, LocalFields, TimerAssumption DEF Typed
  <2> QED BY <2>1, TimeSpaceSize DEF Deadline
<1>5. mem' \in MemType
  BY <1>1, <1>3, <1>4, AccessType DEF Typed, DataTyped
<1>6. want' \in [Timer -> 0 .. MaxTime] /\ age' \in [Timer -> 0 .. MaxTime + 1]
  BY <1>1, TimerAssumption DEF Typed, DataTyped, NoTimes
<1> QED BY <1>1, <1>2, <1>5, <1>6 DEF Typed, DataTyped

\* a turn of the loop that finds the place;
LEMMA FindTyped ==
  ASSUME Typed, Find
  PROVE  Typed'
<1> DEFINE n == local.next
<1>0. n \in Ptr /\ local \in LocalType
  BY LocalFields DEF Typed
<1>1. CASE Passes(mem, n, now) /\ GoTo("find", "find", [local EXCEPT !.next = mem.t[n].next])
  <2>1. n \in Timer
    BY <1>0, <1>1 DEF Passes, Ptr
  <2>2. mem.t[n].next \in Ptr
    BY <2>1, MemFields DEF Typed, DataTyped
  <2>3. [local EXCEPT !.next = mem.t[n].next] \in LocalType
    BY <2>2, LocalFields DEF Typed
  <2>4. CallTyped'
    BY <1>1, <2>3, GoToTyped DEF Typed, Busy
  <2> QED BY <2>4 DEF Find, Typed, DataTyped, histVars
<1>2. CASE GoTo("find", IF n # None THEN "before" ELSE "append", local)
  <2>1. CallTyped'
    <3>1. CASE n # None
      <4>1. n \in Timer
        BY <1>0, <3>1 DEF Ptr
      <4> QED BY <1>0, <1>2, <3>1, <4>1, GoToTyped DEF Typed, Busy
    <3>2. CASE n = None
      BY <1>0, <1>2, <3>2, GoToTyped DEF Typed, Busy
    <3> QED BY <3>1, <3>2
  <2> QED BY <2>1 DEF Find, Typed, DataTyped, histVars
<1> QED BY <1>1, <1>2 DEF Find

\* an access that links the timer;
LEMMA InsertTyped ==
  ASSUME Typed, Insert
  PROVE  Typed'
<1>0. local \in LocalType /\ Returned \in {"idle", "wait"}
  BY LocalFields DEF Typed, Returned
<1>1. self \in Timer /\ (pc \in {"before", "beforeHead"} => local.next \in Timer)
  BY DEF Insert, GoTo, Typed, CallTyped
<1>2. mem \in MemType
  BY DEF Typed, DataTyped
<1>3. lost' \subseteq Timer
  BY <1>1 DEF Insert, Typed, DataTyped
<1>4. CallTyped' /\ mem' \in MemType
  <2>1. CASE GoTo("before", "beforeHead", local) /\ mem' = BeforeOwn(mem, self, local.next)
    <3>1. local.next \in Timer
      BY <1>1, <2>1 DEF GoTo
    <3> QED BY <1>0, <1>1, <1>2, <2>1, <3>1, GoToTyped, AccessType DEF Typed, Busy
  <2>2. CASE GoTo("beforeHead", Returned, local) /\ mem' = BeforeHead(mem, self, local.next)
    <3>1. local.next \in Timer
      BY <1>1, <2>2 DEF GoTo
    <3> QED BY <1>0, <1>1, <1>2, <2>2, <3>1, GoToTyped, AccessType DEF Typed, Busy
  <2>3. CASE GoTo("append", "appendHead", local) /\ mem' = AppendOwn(mem, self)
    BY <1>0, <1>1, <1>2, <2>3, GoToTyped, AccessType DEF Typed, Busy
  <2>4. CASE GoTo("appendHead", "appendEnd", local) /\ mem' = AppendHead(mem, self)
    BY <1>0, <1>1, <1>2, <2>4, GoToTyped, AccessType DEF Typed, Busy
  <2>5. CASE GoTo("appendEnd", Returned, local) /\ mem' = AppendEnd(mem, self)
    BY <1>0, <1>1, <1>2, <2>5, GoToTyped, AccessType DEF Typed, Busy
  <2> QED BY <2>1, <2>2, <2>3, <2>4, <2>5 DEF Insert
<1> QED BY <1>3, <1>4 DEF Insert, Typed, DataTyped

\* wio_wait4_timeout returns;
LEMMA WaitOverTyped ==
  ASSUME Typed, WaitOver
  PROVE  Typed'
<1>1. CallTyped'
  BY GoToTyped, LocalFields DEF Typed, WaitOver, Busy
<1> QED BY <1>1 DEF WaitOver, Typed, DataTyped, histVars

\* wio_clear_timeout tests the flag;
LEMMA ClearCheckTyped ==
  ASSUME Typed, ClearCheck
  PROVE  Typed'
<1>1. CallTyped'
  BY GoToTyped, LocalFields DEF Typed, ClearCheck, Busy
<1> QED BY <1>1 DEF ClearCheck, Typed, DataTyped

\* A pointer of the list and of a timer is written.
LEMMA PointerSet ==
  ASSUME NEW m \in MemType, NEW n \in Ptr
  PROVE  /\ [m EXCEPT !.begin = n] \in MemType
         /\ [m EXCEPT !.end = n] \in MemType
         /\ \A p \in Timer : [m EXCEPT !.t[p].next = n] \in MemType
                             /\ [m EXCEPT !.t[p].prev = n] \in MemType
<1>1. \A p \in Timer : [m EXCEPT !.t[p].next = n] \in MemType
                       /\ [m EXCEPT !.t[p].prev = n] \in MemType
  <2> TAKE p \in Timer
  <2> DEFINE y == [m.t[p] EXCEPT !.next = n]
             z == [m.t[p] EXCEPT !.prev = n]
  <2>1. m.t[p] \in TimerType
    BY MemFields
  <2>2. y \in TimerType /\ z \in TimerType
    BY <2>1 DEF TimerType, Ptr
  <2>3. [m EXCEPT !.t[p].next = n] = [m EXCEPT !.t[p] = y]
        /\ [m EXCEPT !.t[p].prev = n] = [m EXCEPT !.t[p] = z]
    OBVIOUS
  <2> HIDE DEF y, z
  <2> QED BY <2>2, <2>3, TimerSet
<1> QED BY <1>1 DEF MemType

\* an access that unlinks the timer.
LEMMA UnlinkTyped ==
  ASSUME Typed, Unlink
  PROVE  Typed'
<1> DEFINE p == local.prev
           n == local.next
<1>0. p \in Ptr /\ n \in Ptr /\ local \in LocalType /\ mem \in MemType
  BY LocalFields DEF Typed, DataTyped
<1>a. (p # None => p \in Timer) /\ (n # None => n \in Timer)
  BY <1>0 DEF Ptr
<1>1. CASE /\ GoTo("unlink", "unlinkEnd", local)
           /\ mem' = IF p # None THEN [mem EXCEPT !.t[p].next = n] ELSE [mem EXCEPT !.begin = n]
           /\ armed' = armed \ {self}
           /\ want' = [want EXCEPT ![self] = 0] /\ age' = [age EXCEPT ![self] = 0]
           /\ UNCHANGED <<lost, trouble>>
  <2>1. CallTyped'
    BY <1>0, <1>1, GoToTyped DEF Typed, Busy
  <2>2. mem' \in MemType
    BY <1>0, <1>a, <1>1, PointerSet
  <2>3. want' \in [Timer -> 0 .. MaxTime] /\ age' \in [Timer -> 0 .. MaxTime + 1]
    <3>1. 0 \in 0 .. MaxTime /\ 0 \in 0 .. MaxTime + 1
      BY TimerAssumption
    <3> QED BY <1>1, <3>1 DEF Typed, DataTyped
  <2> QED BY <1>1, <2>1, <2>2, <2>3 DEF Typed, DataTyped
<1>2. CASE /\ GoTo("unlinkEnd", "idle", local)
           /\ mem' = IF n # None THEN [mem EXCEPT !.t[n].prev = p] ELSE [mem EXCEPT !.end = p]
           /\ UNCHANGED histVars
  <2>1. CallTyped'
    BY <1>0, <1>2, GoToTyped DEF Typed, Busy
  <2>2. mem' \in MemType
    BY <1>0, <1>a, <1>2, PointerSet
  <2> QED BY <1>2, <2>1, <2>2 DEF Typed, DataTyped, histVars
<1> QED BY <1>1, <1>2 DEF Unlink

-----------------------------------------------------------------------------
\* What is armed, and how long it has been, is as before.
DueAlike(t) ==
  /\ mem'.t[t].time = mem.t[t].time /\ now' = now
  /\ want'[t] = want[t] /\ age'[t] = age[t]

\* Then its deadline is as far ahead as before.
LEMMA DueKept ==
  ASSUME NEW t, Due(t), DueAlike(t)
  PROVE  Due(t)'
BY DEF Due, Left, DueAlike

\* A step that changes neither the list nor the timers.
LEMMA QuietKept ==
  ASSUME Quiet, UNCHANGED <<now, mem, want, age, armed>>
  PROVE  Quiet'
BY DEF Quiet, OnlyTimer, NoneIn, Due, Left

\* Between calls, and where a call has not changed anything yet.
LEMMA QuietSound ==
  ASSUME Quiet', pc' \in {"idle", "wait", "enter"}
  PROVE  Sound'
BY DEF Sound

\* Each step of the program finds the list as Sound says, and leaves it so: the beginning
\* of wio_set_timeout;
LEMMA SetEnterSound ==
  ASSUME Sound, NEW t, NEW time, NEW cb, SetEnter(t, time, cb)
  PROVE  Sound'
<1>1. Quiet'
  BY QuietKept DEF Sound, SetEnter, histVars
<1> QED BY <1>1, QuietSound DEF SetEnter

\* wio_wait4_timeout returns;
LEMMA WaitOverSound ==
  ASSUME Sound, WaitOver
  PROVE  Sound'
<1>1. Quiet' /\ pc' = "idle"
  BY QuietKept DEF Sound, WaitOver, GoTo, histVars
<1> QED BY <1>1, QuietSound

\* the beginning of wio_clear_timeout, which reads the neighbours, of which there are none;
LEMMA ClearEnterSound ==
  ASSUME Sound, NEW t \in Timer, ClearEnter(t)
  PROVE  Sound'
<1>1. Quiet /\ Quiet' /\ pc' = "clear" /\ self' = t
  BY QuietKept DEF Sound, ClearEnter, histVars
<1>2. local'.prev = mem.t[t].prev /\ local'.next = mem.t[t].next /\ armed' = armed
  BY DEF ClearEnter, NoLocal, histVars
<1>3. t \in armed => mem.t[t].prev = None /\ mem.t[t].next = None
  BY <1>1 DEF Quiet, OnlyTimer
<1> HIDE DEF Quiet
<1> QED BY <1>1, <1>2, <1>3 DEF Sound

\* with no trouble the timer that is unlinked is the armed one;
LEMMA ClearCheckSound ==
  ASSUME Sound, Typed, ClearCheck, trouble' = {}
  PROVE  Sound'
<1>1. Quiet /\ Quiet'
  BY QuietKept DEF Sound, ClearCheck, GoTo
<1>2. CASE ~mem.t[self].flag
  <2>1. pc' = "idle"
    BY <1>2 DEF ClearCheck, GoTo
  <2> QED BY <1>1, <2>1, QuietSound
<1>3. CASE mem.t[self].flag
  <2>1. pc' = "unlink" /\ local' = local /\ self' = self /\ armed' = armed
    BY <1>3 DEF ClearCheck, GoTo
  <2>2. self \in armed
    BY <1>3 DEF ClearCheck
  <2>3. local.prev = None /\ local.next = None
    BY <2>2 DEF Sound, ClearCheck, GoTo
  <2>4. armed \subseteq {self}
    BY <1>1, <2>2 DEF Quiet, OnlyTimer
  <2> QED BY <1>1, <2>1, <2>3, <2>4 DEF Sound
<1> QED BY <1>2, <1>3

\* it leaves an empty list behind;
LEMMA UnlinkSound ==
  ASSUME Sound, Typed, Unlink
  PROVE  Sound'
<1>0. mem \in MemType
  BY DEF Typed, DataTyped
<1>1. CASE /\ GoTo("unlink", "unlinkEnd", local)
           /\ mem' = IF local.prev # None THEN [mem EXCEPT !.t[local.prev].next = local.next]
                     ELSE [mem EXCEPT !.begin = local.next]
           /\ armed' = armed \ {self}
  <2>1. local.prev = None /\ local.next = None /\ armed \subseteq {self}
    BY <1>1 DEF Sound, GoTo
  <2>2. mem' = [mem EXCEPT !.begin = None] /\ armed' = {}
    BY <1>1, <2>1
  <2>3. mem'.begin = None
    BY <1>0, <2>2 DEF MemType
  <2>4. pc' = "unlinkEnd" /\ local' = local
    BY <1>1 DEF GoTo
  <2> QED BY <2>1, <2>2, <2>3, <2>4 DEF Sound
<1>2. CASE /\ GoTo("unlinkEnd", "idle", local)
           /\ mem' = IF local.next # None THEN [mem EXCEPT !.t[local.next].prev = local.prev]
                     ELSE [mem EXCEPT !.end = local.prev]
           /\ UNCHANGED histVars
  <2>1. local.prev = None /\ local.next = None /\ armed = {} /\ mem.begin = None
    BY <1>2 DEF Sound, GoTo
  <2>2. mem' = [mem EXCEPT !.end = None] /\ armed' = {}
    BY <1>2, <2>1 DEF histVars
  <2>3. NoneIn(mem')
    BY <1>0, <2>1, <2>2 DEF MemType, NoneIn
  <2>4. Quiet'
    BY <2>2, <2>3 DEF Quiet
  <2>5. pc' = "idle"
    BY <1>2 DEF GoTo
  <2> QED BY <2>4, <2>5, QuietSound
<1> QED BY <1>1, <1>2 DEF Unlink

\* with no trouble no other timer is armed, so the list is empty;
LEMMA SetFlagSound ==
  ASSUME Sound, Typed, SetFlag, trouble' = {}
  PROVE  Sound'
<1>0. mem \in MemType /\ self \in Timer /\ Quiet
  BY DEF Typed, DataTyped, CallTyped, SetFlag, GoTo, Sound
<1>1. CASE GoTo("enter", "idle", local) /\ UNCHANGED <<mem, histVars>>
  <2>1. Quiet' /\ pc' = "idle"
    BY <1>0, <1>1, QuietKept DEF GoTo, histVars
  <2> QED BY <2>1, QuietSound
<1>2. CASE /\ GoTo("enter", "half", local)
           /\ mem' = [mem EXCEPT !.t[self].flag = TRUE]
           /\ armed' = armed \cup {self}
           /\ trouble' = trouble \cup Ill(local.time, local.next)
           /\ want' = IF trouble' = {} THEN [want EXCEPT ![self] = local.time] ELSE NoTimes
           /\ age' = IF trouble' = {} THEN [age EXCEPT ![self] = 0] ELSE NoTimes
  <2>1. armed = {} /\ local.next = None /\ local.time > 1
    BY <1>2 DEF Ill
  <2>2. pc' = "half" /\ self' = self /\ local' = local /\ ticks' = ticks /\ armed' = {self}
    BY <1>2, <2>1 DEF GoTo
  <2>3. want'[self] = local.time /\ age'[self] = 0
    BY <1>0, <1>2 DEF Typed, DataTyped
  <2>4. mem'.begin = None /\ mem'.end = None /\ mem'.t[self].flag
    <3>1. mem.begin = None /\ mem.end = None
      BY <1>0, <2>1 DEF Quiet, NoneIn
    <3>2. mem.t[self] \in TimerType
      BY <1>0, MemFields
    <3> QED BY <1>0, <1>2, <3>1, <3>2 DEF MemType, TimerType
  <2>5. local.time >= 2 /\ ticks >= 0
    BY <2>1, LocalFields, TimerAssumption DEF Typed, CallTyped
  <2>6. Setting'
    BY <2>2, <2>3, <2>4, <2>5 DEF Setting
  <2> QED BY <2>1, <2>2, <2>3, <2>4, <2>6 DEF Sound, NoneIn
<1> QED BY <1>1, <1>2 DEF SetFlag

\* the word that is read is of the time before a tick, or there has been one.
LEMMA ReadHalfSound ==
  ASSUME Sound, Typed, NEW low \in BOOLEAN, ReadHalf(low)
  PROVE  Sound'
<1> DEFINE w == IF low THEN TimeSpace + Low(now) ELSE High(now)
<1>1. GoTo("half", "time", [local EXCEPT !.word = w]) /\ UNCHANGED <<mem, histVars>>
  BY DEF ReadHalf
<1>2. w \in {TimeSpace + Low(now), High(now)}
  OBVIOUS
<1> HIDE DEF w
<1>3. /\ pc = "half" /\ pc' = "time" /\ self' = self /\ ticks' = ticks /\ now' = now
      /\ UNCHANGED <<mem, want, age, armed>>
      /\ local' = [local EXCEPT !.word = w]
  BY <1>1 DEF GoTo, histVars
<1>4. local'.word = w /\ local'.time = local.time /\ local'.next = local.next
  BY <1>3 DEF Typed, CallTyped, LocalType
<1>5. Setting'
  BY <1>3 DEF Sound, Setting
<1>6. NoneIn(mem') /\ want'[self'] = local'.time /\ local'.next = None
  BY <1>3, <1>4 DEF Sound
<1> QED BY <1>2, <1>3, <1>4, <1>5, <1>6 DEF Sound, Low, High

\* The remainder is the only one.
LEMMA ModUnique ==
  ASSUME NEW S \in Nat \ {0}, NEW k \in Int, NEW e \in 0 .. S - 1, NEW z, z = S * k + e
  PROVE  z % S = e
<1> DEFINE d == z \div S
           m == z % S
<1>0. z \in Int
  OBVIOUS
<1>1. d \in Int /\ m \in 0 .. S - 1 /\ z = S * d + m
  BY <1>0
<1> HIDE DEF d, m
<1>2. S * (k - d) = m - e
  BY <1>1
<1>3. \A j \in Int : j >= 1 => S * j >= S
  OBVIOUS
<1>4. ~(k - d >= 1)
  BY <1>1, <1>2, <1>3
<1>5. S * (d - k) = e - m
  BY <1>2, <1>1
<1>6. ~(d - k >= 1)
  BY <1>1, <1>5, <1>3
<1>7. d = k
  BY <1>1, <1>4, <1>6
<1>8. m = e
  BY <1>1, <1>2, <1>7
<1> QED BY <1>8 DEF m

\* A number may be reduced before another is added.
LEMMA ModAdd ==
  ASSUME NEW S \in Nat \ {0}, NEW x \in Int, NEW y \in Int
  PROVE  (x + y) % S = ((x % S) + y) % S
<1> DEFINE q == x \div S
           r == x % S
           p == (r + y) \div S
           e == (r + y) % S
<1>1. q \in Int /\ r \in 0 .. S - 1 /\ x = S * q + r
  OBVIOUS
<1> HIDE DEF q, r
<1>2. p \in Int /\ e \in 0 .. S - 1 /\ r + y = S * p + e
  BY <1>1
<1> HIDE DEF p, e
<1>3. x + y = S * (q + p) + e /\ q + p \in Int
  BY <1>1, <1>2
<1>4. (S * (q + p) + e) % S = e
  BY <1>2, <1>3, ModUnique
<1> QED BY <1>3, <1>4 DEF e, r

\* The deadline that SetTime stores is ahead by what is left of the timeout.
LEMMA TimeRead ==
  ASSUME NEW r \in Nat, NEW n \in 0 .. TimeSpace - 1, NEW time \in 0 .. MaxTime, time >= 2,
         r = n \/ (r + 1) % TimeSpace = n
  PROVE  (Deadline(r, time) - n) % TimeSpace = IF r = n THEN time ELSE time - 1
<1>0. TimeSpace \in Nat \ {0} /\ time \in 0 .. TimeSpace - 1 /\ time - 1 \in 0 .. TimeSpace - 1
  BY TimeSpaceSize, TimelyAssumption, TimerAssumption
<1>1. CASE r = n
  BY <1>0, <1>1, DeadlineAhead
<1>2. CASE r # n
  <2>1. (r + 1) % TimeSpace = n
    BY <1>2
  <2>2. ((r + 1) + (time - 1)) % TimeSpace = (((r + 1) % TimeSpace) + (time - 1)) % TimeSpace
    <3>1. r + 1 \in Int /\ time - 1 \in Int
      OBVIOUS
    <3> QED BY <1>0, <3>1, ModAdd
  <2>3. (r + 1) + (time - 1) = r + time
    BY <1>0
  <2>4. Deadline(r, time) = Deadline(n, time - 1)
    BY <2>1, <2>2, <2>3 DEF Deadline
  <2> QED BY <1>0, <1>2, <2>4, DeadlineAhead
<1> QED BY <1>1, <1>2

\* So the deadline is right whatever words it was computed from;
LEMMA SetTimeSound ==
  ASSUME Sound, Typed, SetTime, trouble' = {}
  PROVE  Sound'
<1> DEFINE d == Deadline(ReadTime, local.time)
<1>1. /\ GoTo("time", "find", [local EXCEPT !.word = 0, !.time = 0])
      /\ mem' = [mem EXCEPT !.t[self].time = d, !.t[self].cb = local.cb]
      /\ ReadTime = now \/ (ReadTime + 1) % TimeSpace = now
      /\ want' = want /\ age' = age /\ armed' = armed
  BY DEF SetTime, ReadTime
<1>2. /\ self \in Timer /\ mem \in MemType /\ local.cb \in BOOLEAN
      /\ local.time \in 0 .. MaxTime /\ now \in 0 .. TimeSpace - 1 /\ ReadTime \in Nat
      /\ ticks \in 0 .. TicksPerCall
  BY <1>1, LocalFields, ReadTimeType DEF Typed, DataTyped, CallTyped, GoTo
<1>3. /\ pc' = "find" /\ self' = self /\ now' = now /\ ticks' = ticks
      /\ local' = [local EXCEPT !.word = 0, !.time = 0]
  BY <1>1 DEF GoTo
<1>4. Setting /\ NoneIn(mem) /\ want[self] = local.time /\ local.next = None
      /\ (age[self] = 0 => local.word \in {TimeSpace + Low(now), High(now)})
  BY <1>1 DEF Sound, GoTo
<1>5. d \in 0 .. TimeSpace - 1
  BY <1>2, TimeSpaceSize, TimerAssumption DEF Deadline
<1>6. (d - now) % TimeSpace = IF ReadTime = now THEN local.time ELSE local.time - 1
  <2>1. local.time >= 2
    BY <1>4 DEF Setting
  <2> QED BY <1>1, <1>2, <2>1, TimeRead
<1>7. age[self] = 0 => ReadTime = now
  <2>1. Low(now) \in 0 .. WordSpace - 1 /\ High(now) \in 0 .. TimeSpace - 1
        /\ High(now) + Low(now) = now /\ Low(TimeSpace + Low(now)) = Low(now)
    BY <1>2, WordsOfTime
  <2>2. CASE local.word = TimeSpace + Low(now)
    <3>1. local.word >= TimeSpace
      BY <2>1, <2>2, TimeSpaceSize
    <3> QED BY <2>1, <2>2, <3>1 DEF ReadTime
  <2>3. CASE local.word = High(now)
    <3>1. ~(local.word >= TimeSpace)
      BY <2>1, <2>3, TimeSpaceSize
    <3> QED BY <2>1, <2>3, <3>1 DEF ReadTime
  <2> QED BY <1>4, <2>2, <2>3
<1>8. age[self] \in {0, 1}
  BY <1>2, <1>4, TimelyAssumption, TimerAssumption DEF Setting, Typed, DataTyped
<1> HIDE DEF d
<1>9. mem'.t[self].time = d /\ mem'.t[self].flag = mem.t[self].flag
      /\ mem'.begin = mem.begin /\ mem'.end = mem.end
  <2>1. mem.t[self] \in TimerType
    BY <1>2, MemFields
  <2> QED BY <1>1, <1>2, <2>1 DEF MemType, TimerType
<1>10. Due(self)'
  <2>1. Left(self)' = IF ReadTime = now THEN local.time ELSE local.time - 1
    BY <1>3, <1>6, <1>9 DEF Left
  <2>2. want'[self] = local.time /\ age'[self] = age[self] /\ local.time >= 2
    BY <1>1, <1>4 DEF Setting
  <2>3. local.time \in Int
    BY <1>2
  <2> QED BY <1>3, <1>7, <1>8, <2>1, <2>2, <2>3 DEF Due
<1>11. Setting'
  BY <1>1, <1>3, <1>4, <1>9 DEF Setting
<1>12. NoneIn(mem') /\ local'.next = None
  BY <1>3, <1>4, <1>9 DEF NoneIn, Typed, CallTyped, LocalType
<1> QED BY <1>3, <1>10, <1>11, <1>12 DEF Sound

\* the place in an empty list is the end;
LEMMA FindSound ==
  ASSUME Sound, Typed, Find
  PROVE  Sound'
<1>1. local.next = None /\ NoneIn(mem) /\ Setting /\ Due(self)
  BY DEF Sound, Find, GoTo
<1>2. GoTo("find", "append", local) /\ UNCHANGED <<mem, histVars>>
  BY <1>1 DEF Find, Passes
<1>3. pc' = "append" /\ UNCHANGED <<local, self, ticks, now, mem, want, age, armed>>
  BY <1>2 DEF GoTo, histVars
<1>4. Due(self)'
  BY <1>1, <1>3 DEF Due, Left
<1> QED BY <1>1, <1>3, <1>4 DEF Sound, Setting, NoneIn

\* and three accesses make the timer the only one in the list.
LEMMA InsertSound ==
  ASSUME Sound, Typed, Insert
  PROVE  Sound'
<1>0. self \in Timer /\ mem \in MemType /\ mem.t[self] \in TimerType /\ self # None
  BY MemFields, TimerAssumption DEF Typed, DataTyped, CallTyped, Insert, GoTo
<1>1. Setting /\ Due(self) /\ UNCHANGED <<now, want, age, armed>>
  BY DEF Sound, Insert, GoTo
<1>2. CASE GoTo("append", "appendHead", local) /\ mem' = AppendOwn(mem, self)
  <2>1. pc' = "appendHead" /\ UNCHANGED <<self, ticks>> /\ NoneIn(mem)
    BY <1>2 DEF GoTo, Sound
  <2>2. mem' = [mem EXCEPT !.t[self].prev = None, !.t[self].next = None]
    BY <1>2, <2>1 DEF AppendOwn, NoneIn
  <2>3. /\ mem'.begin = None /\ mem'.end = None
        /\ mem'.t[self].prev = None /\ mem'.t[self].next = None
        /\ mem'.t[self].time = mem.t[self].time /\ mem'.t[self].flag = mem.t[self].flag
    BY <1>0, <2>1, <2>2 DEF NoneIn, MemType, TimerType
  <2>4. Due(self)' /\ Setting'
    BY <1>1, <2>1, <2>3 DEF Due, Left, Setting
  <2> QED BY <2>1, <2>3, <2>4 DEF Sound, NoneIn
<1>3. CASE GoTo("appendHead", "appendEnd", local) /\ mem' = AppendHead(mem, self)
  <2>1. pc' = "appendEnd" /\ UNCHANGED <<self, ticks>> /\ NoneIn(mem)
        /\ mem.t[self].prev = None /\ mem.t[self].next = None
    BY <1>3 DEF GoTo, Sound
  <2>2. mem' = [mem EXCEPT !.begin = self]
    BY <1>3, <2>1 DEF AppendHead, NoneIn
  <2>3. mem'.begin = self /\ mem'.end = None /\ mem'.t = mem.t
    BY <1>0, <2>1, <2>2 DEF NoneIn, MemType
  <2>4. Due(self)' /\ Setting'
    BY <1>1, <2>1, <2>3 DEF Due, Left, Setting
  <2> QED BY <2>1, <2>3, <2>4 DEF Sound
<1>4. CASE GoTo("appendEnd", Returned, local) /\ mem' = AppendEnd(mem, self)
  <2>1. mem.begin = self /\ mem.t[self].prev = None /\ mem.t[self].next = None
    BY <1>4 DEF GoTo, Sound
  <2>2. mem'.begin = self /\ mem'.end = self /\ mem'.t = mem.t
    BY <1>0, <1>4, <2>1 DEF AppendEnd, MemType
  <2>3. OnlyTimer(mem', self)
    BY <1>1, <2>1, <2>2 DEF OnlyTimer, Setting
  <2>5. armed' = {self}
    BY <1>1 DEF Setting
  <2>6. \A x \in {self} : /\ OnlyTimer(mem', x)
                          /\ Left(x)' >= 1
                          /\ want'[x] - age'[x] \in {Left(x)', Left(x)' - 1}
    BY <2>3, <1>1, <2>2 DEF Due, Left
  <2>7. Quiet'
    BY <2>5, <2>6 DEF Quiet, Due
  <2>8. pc' \in {"idle", "wait", "enter"}
    BY <1>4 DEF GoTo, Returned
  <2> QED BY <2>7, <2>8, QuietSound
<1> QED BY <1>2, <1>3, <1>4 DEF Insert, GoTo, Sound

-----------------------------------------------------------------------------
\* The interrupt takes a timer off the list when it is the head and its time is now.
NextTime == (now + 1) % TimeSpace
\* No timer is taken off.
NoneDue == mem.begin = None \/ mem.t[mem.begin].time # NextTime

\* A timer that is due later is due one tick sooner after a tick.
LEMMA DueLater ==
  ASSUME Typed, NEW t \in Timer, Due(t), mem.t[t].time # NextTime,
         mem'.t[t].time = mem.t[t].time, now' = NextTime, want'[t] = want[t], age'[t] = age[t] + 1
  PROVE  Due(t)' /\ want[t] - age[t] >= 1
<1> DEFINE d == mem.t[t].time
<1>1. d \in 0 .. TimeSpace - 1 /\ now \in 0 .. TimeSpace - 1 /\ want[t] \in Int /\ age[t] \in Int
  BY MemFields DEF Typed, DataTyped, CallTyped
<1>2. /\ Left(t) \in Nat /\ Left(t) >= 1
      /\ Left(t)' = Left(t) - 1 /\ Left(t) # 1
  <2>1. Left(t) = (d - now) % TimeSpace /\ Left(t)' = (d - NextTime) % TimeSpace
    BY DEF Left
  <2>2. Left(t) >= 1 /\ d # NextTime
    BY DEF Due
  <2> HIDE DEF d
  <2> QED BY <1>1, <2>1, <2>2, TickBrings DEF NextTime
<1> QED BY <1>1, <1>2 DEF Due

\* A timer that is due now has had its time, or one tick more.
LEMMA DueNow ==
  ASSUME Typed, NEW t \in Timer, Due(t), mem.t[t].time = NextTime
  PROVE  want[t] - age[t] \in {0, 1}
<1> DEFINE d == mem.t[t].time
<1>1. d \in 0 .. TimeSpace - 1 /\ now \in 0 .. TimeSpace - 1 /\ want[t] \in Int /\ age[t] \in Int
  BY MemFields DEF Typed, DataTyped, CallTyped
<1>2. Left(t) = 1
  <2>1. Left(t) = (d - now) % TimeSpace
    BY DEF Left
  <2>2. Left(t) >= 1 /\ d = NextTime
    BY DEF Due
  <2> HIDE DEF d
  <2> QED BY <1>1, <2>1, <2>2, TickBrings DEF NextTime
<1> QED BY <1>1, <1>2 DEF Due

\* A timeout of two ticks or more is not over at the first.
LEMMA NotYet ==
  ASSUME Typed, NEW t \in Timer, Due(t), want[t] >= 2, age[t] = 0
  PROVE  mem.t[t].time # NextTime
<1>1. want[t] \in Int
  BY DEF Typed, DataTyped
<1> QED BY <1>1, DueNow

\* An interrupt during a call that sets a timer is the first.
LEMMA TickFirst ==
  ASSUME Typed, pc \in Busy, NEW again, Tick(again)
  PROVE  ticks = 0 /\ ticks' = 1 /\ pc' = pc /\ self' = self /\ local' = local
BY TimelyAssumption, TimerAssumption DEF Typed, CallTyped, Tick

\* An interrupt that takes no timer off the list.
LEMMA TickIdle ==
  ASSUME Typed, trouble = {}, NEW again \in 0 .. MaxTime, Tick(again), trouble' = {}, NoneDue
  PROVE  /\ now' = NextTime /\ mem' = mem /\ armed' = armed /\ want' = want
         /\ \A t \in armed : age'[t] = age[t] + 1
         /\ \A t \in Timer \ armed : age'[t] = 0
<1>1. Interrupt(again) = FireStart(again)
  BY InterruptIdle DEF NoneDue, NextTime
<1> DEFINE w == Interrupt(again)
<1>2. w.at = NextTime /\ w.m = mem /\ w.fired = {} /\ w.rearmed = {}
  BY <1>1 DEF FireStart, NextTime
<1> HIDE DEF w
<1>3. /\ now' = w.at /\ mem' = w.m /\ armed' = (armed \ w.fired) \cup w.rearmed
      /\ want' = [t \in Timer |-> IF trouble' # {} THEN 0 ELSE IF t \in w.rearmed THEN again
                                  ELSE IF t \in w.fired THEN 0 ELSE want[t]]
      /\ age' = [t \in Timer |-> IF trouble' # {} \/ t \in w.fired \/ t \notin armed THEN 0
                                 ELSE age[t] + 1]
  BY DEF Tick, w
<1>4. armed \subseteq Timer /\ want = [t \in Timer |-> want[t]]
  BY DEF Typed, DataTyped
<1>5. want' = want
  BY <1>2, <1>3, <1>4
<1>6. \A t \in Timer : age'[t] = IF t \notin armed THEN 0 ELSE age[t] + 1
  BY <1>2, <1>3
<1> QED BY <1>2, <1>3, <1>4, <1>5, <1>6

\* An interrupt that takes the armed timer off the list, and its callback.
LEMMA TickFires ==
  ASSUME Typed, trouble = {}, NEW again \in 0 .. MaxTime, Tick(again), trouble' = {},
         NEW t \in Timer, armed = {t}, OnlyTimer(mem, t), mem.t[t].time = NextTime
  PROVE  /\ now' = NextTime
         /\ \A x \in Timer \ {t} : mem'.t[x] = mem.t[x]
         /\ \A x \in Timer : age'[x] = 0
         /\ \/ armed' = {} /\ NoneIn(mem')
            \/ /\ pc \notin Busy /\ armed' = {t} /\ OnlyTimer(mem', t)
               /\ mem'.t[t].time = Deadline(NextTime, again) /\ want'[t] = again /\ again >= 1
<1> DEFINE w == Interrupt(again)
           re == again > 0 /\ mem.t[t].cb
<1>0. mem \in MemType /\ now \in 0 .. TimeSpace - 1
  BY DEF Typed, DataTyped, CallTyped
<1>1. /\ w.at = NextTime
      /\ w.fired = {t} /\ w.rearmed = (IF re THEN {t} ELSE {})
      /\ re => OnlyTimer(w.m, t) /\ w.m.t[t].time = Deadline(w.at, again)
      /\ ~re => NoneIn(w.m)
      /\ \A x \in Timer \ {t} : w.m.t[x] = mem.t[x]
  BY <1>0, InterruptFires, TimelyAssumption DEF NextTime
<1> HIDE DEF w
<1>3. /\ now' = w.at /\ mem' = w.m /\ armed' = (armed \ w.fired) \cup w.rearmed
      /\ trouble' = trouble \cup
            (IF w.rearmed # {} /\ (pc \in Busy \/ armed \ w.fired # {}) THEN {"second"} ELSE {})
      /\ want' = [x \in Timer |-> IF trouble' # {} THEN 0 ELSE IF x \in w.rearmed THEN again
                                  ELSE IF x \in w.fired THEN 0 ELSE want[x]]
      /\ age' = [x \in Timer |-> IF trouble' # {} \/ x \in w.fired \/ x \notin armed THEN 0
                                 ELSE age[x] + 1]
  BY DEF Tick, w
<1>4. \A x \in Timer : age'[x] = 0
  BY <1>1, <1>3
<1>5. CASE re
  <2>1. w.rearmed = {t} /\ armed' = {t} /\ want'[t] = again /\ again >= 1
    BY <1>1, <1>3, <1>5
  <2>2. pc \notin Busy
    BY <1>3, <2>1
  <2> QED BY <1>1, <1>3, <1>4, <1>5, <2>1, <2>2
<1>6. CASE ~re
  <2>1. armed' = {}
    BY <1>1, <1>3, <1>6
  <2> QED BY <1>1, <1>3, <1>4, <1>6, <2>1
<1> QED BY <1>5, <1>6

\* In either case: what fires, and what is not over.
TickTells(t) ==
  /\ t \in armed => IF age'[t] = 0 THEN age[t] + 1 \in {want[t], want[t] + 1}
                    ELSE age'[t] <= want[t]
  /\ mem.t[t].flag /\ t \notin armed => mem'.t[t].flag /\ t \notin armed'
  /\ age'[t] \in 0 .. MaxTime + 1

\* An interrupt while no call is where the list or a timer is changed.
LEMMA TickQuiet ==
  ASSUME Typed, Quiet, trouble = {}, NEW again \in 0 .. MaxTime, Tick(again), trouble' = {}
  PROVE  /\ Quiet' /\ \A t \in Timer : TickTells(t)
         /\ pc \in Busy => armed' \subseteq armed
<1>0. mem \in MemType /\ armed \subseteq Timer /\ now \in 0 .. TimeSpace - 1
      /\ want \in [Timer -> 0 .. MaxTime] /\ age \in [Timer -> 0 .. MaxTime + 1]
      /\ MaxTime \in Nat
  BY TimerAssumption DEF Typed, DataTyped, CallTyped
<1>1. CASE NoneDue
  <2>1. /\ now' = NextTime /\ mem' = mem /\ armed' = armed /\ want' = want
        /\ \A t \in armed : age'[t] = age[t] + 1
        /\ \A t \in Timer \ armed : age'[t] = 0
    BY <1>1, TickIdle
  <2>2. \A t \in armed : Due(t)' /\ want[t] - age[t] >= 1
    <3> TAKE t \in armed
    <3>1. OnlyTimer(mem, t) /\ Due(t) /\ t \in Timer
      BY <1>0 DEF Quiet
    <3>2. mem.t[t].time # NextTime
      BY <1>1, <3>1, TimerAssumption DEF NoneDue, OnlyTimer
    <3> QED BY <2>1, <3>1, <3>2, DueLater
  <2>3. Quiet'
    <3>1. \A t \in armed' : OnlyTimer(mem', t)
      BY <2>1 DEF Quiet
    <3>2. armed' = {} => NoneIn(mem')
      BY <2>1 DEF Quiet
    <3>3. \A t \in armed' : Due(t)'
      BY <2>1, <2>2
    <3> QED BY <3>1, <3>2, <3>3 DEF Quiet
  <2>4. \A t \in Timer : TickTells(t)
    <3> TAKE t \in Timer
    <3>0. age[t] \in 0 .. MaxTime + 1 /\ want[t] \in 0 .. MaxTime
      BY <1>0
    <3>1. CASE t \in armed
      BY <1>0, <2>1, <2>2, <3>0, <3>1 DEF TickTells
    <3>2. CASE t \notin armed
      BY <1>0, <2>1, <3>2 DEF TickTells
    <3> QED BY <3>1, <3>2
  <2> QED BY <2>1, <2>3, <2>4
<1>2. CASE ~NoneDue
  <2>1. mem.begin # None
    BY <1>2 DEF NoneDue
  <2>2. PICK t \in armed : TRUE
    BY <2>1 DEF Quiet, NoneIn
  <2>3. OnlyTimer(mem, t) /\ Due(t) /\ t \in Timer
    BY <1>0 DEF Quiet
  <2>4. armed = {t}
    BY <2>2, <2>3 DEF Quiet, OnlyTimer
  <2>5. mem.t[t].time = NextTime
    BY <1>2, <2>3 DEF NoneDue, OnlyTimer
  <2>6. /\ now' = NextTime
        /\ \A x \in Timer \ {t} : mem'.t[x] = mem.t[x]
        /\ \A x \in Timer : age'[x] = 0
        /\ \/ armed' = {} /\ NoneIn(mem')
           \/ /\ pc \notin Busy /\ armed' = {t} /\ OnlyTimer(mem', t)
              /\ mem'.t[t].time = Deadline(NextTime, again) /\ want'[t] = again /\ again >= 1
    BY <2>3, <2>4, <2>5, TickFires
  <2>7. Quiet' /\ (pc \in Busy => armed' \subseteq armed)
    <3>1. CASE armed' = {} /\ NoneIn(mem')
      BY <3>1 DEF Quiet
    <3>2. CASE /\ pc \notin Busy /\ armed' = {t} /\ OnlyTimer(mem', t)
               /\ mem'.t[t].time = Deadline(NextTime, again) /\ want'[t] = again /\ again >= 1
      <4>1. NextTime \in 0 .. TimeSpace - 1 /\ again \in 0 .. TimeSpace - 1
        BY TimeSpaceSize, TimelyAssumption, <1>0 DEF NextTime
      <4>2. (Deadline(NextTime, again) - NextTime) % TimeSpace = again
        BY <4>1, DeadlineAhead
      <4>3. Left(t)' = again
        BY <2>6, <3>2, <4>2 DEF Left
      <4>4. Due(t)'
        BY <2>3, <2>6, <3>2, <4>3 DEF Due
      <4>5. \A x \in armed' : OnlyTimer(mem', x)
        BY <3>2
      <4>6. \A x \in armed' : Due(x)'
        BY <3>2, <4>4
      <4>7. armed' # {}
        BY <3>2
      <4> QED BY <3>2, <4>5, <4>6, <4>7 DEF Quiet
    <3> QED BY <2>6, <3>1, <3>2
  <2>8. \A x \in Timer : TickTells(x)
    <3> TAKE x \in Timer
    <3>0. age[x] \in 0 .. MaxTime + 1 /\ want[x] \in 0 .. MaxTime /\ age'[x] = 0
      BY <1>0, <2>6
    <3>1. CASE x = t
      <4>1. want[t] - age[t] \in {0, 1}
        BY <2>3, <2>5, DueNow
      <4> QED BY <1>0, <2>4, <3>0, <3>1, <4>1 DEF TickTells
    <3>2. CASE x # t
      <4>1. mem'.t[x] = mem.t[x] /\ x \notin armed /\ x \notin armed'
        BY <2>4, <2>6, <3>2
      <4> QED BY <1>0, <3>0, <4>1 DEF TickTells
    <3> QED BY <3>1, <3>2
  <2> QED BY <2>7, <2>8
<1> QED BY <1>1, <1>2

\* An interrupt while a timer is being set.
LEMMA TickSetting ==
  ASSUME Typed, Sound, trouble = {}, NEW again \in 0 .. MaxTime, Tick(again), trouble' = {},
         pc \in {"half", "time", "find", "append", "appendHead", "appendEnd"}
  PROVE  Sound' /\ \A t \in Timer : TickTells(t)
<1>0. mem \in MemType /\ armed \subseteq Timer /\ MaxTime \in Nat /\ self \in Timer
      /\ want \in [Timer -> 0 .. MaxTime] /\ age \in [Timer -> 0 .. MaxTime + 1]
  BY TimerAssumption DEF Typed, DataTyped, CallTyped
<1>1. ticks = 0 /\ ticks' = 1 /\ pc' = pc /\ self' = self /\ local' = local
  BY TickFirst DEF Busy
<1>2. Setting /\ age[self] = 0
  BY <1>0, <1>1 DEF Sound, Setting
<1>3. pc \in {"find", "append", "appendHead", "appendEnd"} =>
        Due(self) /\ mem.t[self].time # NextTime
  <2> SUFFICES ASSUME pc \in {"find", "append", "appendHead", "appendEnd"}
               PROVE  Due(self) /\ mem.t[self].time # NextTime
    OBVIOUS
  <2>1. Due(self)
    BY DEF Sound
  <2> QED BY <1>0, <1>2, <2>1, NotYet DEF Setting
<1>4. NoneDue
  <2>1. CASE pc = "appendEnd"
    BY <1>3, <2>1 DEF Sound, NoneDue
  <2>2. CASE pc # "appendEnd"
    BY <2>2 DEF Sound, NoneDue, NoneIn
  <2> QED BY <2>1, <2>2
<1>5. /\ now' = NextTime /\ mem' = mem /\ armed' = armed /\ want' = want
      /\ \A t \in armed : age'[t] = age[t] + 1
      /\ \A t \in Timer \ armed : age'[t] = 0
  BY <1>4, TickIdle
<1>6. age'[self] = 1 /\ want[self] >= 2
  BY <1>2, <1>5 DEF Setting
<1>7. Setting'
  BY <1>1, <1>2, <1>5, <1>6 DEF Setting
<1>8. pc \in {"find", "append", "appendHead", "appendEnd"} => Due(self)'
  <2> SUFFICES ASSUME pc \in {"find", "append", "appendHead", "appendEnd"} PROVE Due(self)'
    OBVIOUS
  <2>1. PICK t \in Timer : t = self
    BY <1>0
  <2>2. Due(t) /\ mem.t[t].time # NextTime /\ mem'.t[t].time = mem.t[t].time
        /\ want'[t] = want[t] /\ age'[t] = age[t] + 1
    BY <1>2, <1>3, <1>5, <2>1 DEF Setting
  <2>3. Due(t)'
    BY <1>5, <2>2, DueLater
  <2> QED BY <1>1, <2>1, <2>3 DEF Due, Left
<1>9. Sound'
  BY <1>1, <1>5, <1>6, <1>7, <1>8 DEF Sound, NoneIn
<1>10. ASSUME NEW t \in Timer PROVE TickTells(t)
  <2>0. age[t] \in 0 .. MaxTime + 1 /\ want[t] \in 0 .. MaxTime
    BY <1>0
  <2>1. CASE t = self
    BY <1>0, <1>2, <1>5, <1>6, <2>0, <2>1 DEF TickTells, Setting
  <2>2. CASE t # self
    BY <1>0, <1>2, <1>5, <2>0, <2>2 DEF TickTells, Setting
  <2> QED BY <2>1, <2>2
<1> QED BY <1>9, <1>10

\* An interrupt wherever the program is.
LEMMA TickSound ==
  ASSUME Typed, Sound, trouble = {}, NEW again \in 0 .. MaxTime, Tick(again), trouble' = {}
  PROVE  Sound' /\ \A t \in Timer : TickTells(t)
<1>0. mem \in MemType /\ armed \subseteq Timer /\ MaxTime \in Nat
      /\ want \in [Timer -> 0 .. MaxTime] /\ age \in [Timer -> 0 .. MaxTime + 1]
  BY TimerAssumption DEF Typed, DataTyped, CallTyped
<1>1. UNCHANGED <<pc, self, local>>
  BY DEF Tick
<1>2. CASE pc \in {"idle", "wait", "enter", "clear", "unlink"}
  <2>1. Quiet
    BY <1>2 DEF Sound
  <2>2. /\ Quiet' /\ \A t \in Timer : TickTells(t)
        /\ pc \in Busy => armed' \subseteq armed
    BY <2>1, TickQuiet
  <2>3. CASE pc \in {"idle", "wait", "enter"}
    BY <1>1, <2>2, <2>3, QuietSound
  <2>4. CASE pc \in {"clear", "unlink"}
    <3>1. armed' \subseteq armed
      BY <2>2, <2>4 DEF Busy
    <3>2. /\ pc = "clear" /\ self \in armed => local.prev = None /\ local.next = None
          /\ pc = "unlink" => local.prev = None /\ local.next = None /\ armed \subseteq {self}
      BY DEF Sound
    <3>3. Quiet' /\ \A t \in Timer : TickTells(t)
      BY <2>2
    <3>4. Sound'
      BY <1>1, <2>4, <3>1, <3>2, <3>3 DEF Sound
    <3> QED BY <3>3, <3>4
  <2> QED BY <1>2, <2>3, <2>4
<1>3. CASE pc \in {"half", "time", "find", "append", "appendHead", "appendEnd"}
  BY <1>3, TickSetting
<1>4. CASE pc = "unlinkEnd"
  <2>1. armed = {} /\ mem.begin = None /\ local.next = None /\ local.prev = None
    BY <1>4 DEF Sound
  <2>2. /\ now' = NextTime /\ mem' = mem /\ armed' = armed /\ want' = want
        /\ \A t \in Timer \ armed : age'[t] = 0
    BY <2>1, TickIdle DEF NoneDue
  <2>3. Sound'
    BY <1>1, <1>4, <2>1, <2>2 DEF Sound
  <2>4. \A t \in Timer : TickTells(t)
    BY <1>0, <2>1, <2>2 DEF TickTells
  <2> QED BY <2>3, <2>4
<1> QED BY <1>2, <1>3, <1>4 DEF Sound, Typed, CallTyped, Busy

\* An interrupt keeps the types, also after a call that was trouble.
LEMMA TickTyped ==
  ASSUME TimerInv, NEW again \in 0 .. MaxTime, Tick(again)
  PROVE  Typed'
<1> DEFINE w == Interrupt(again)
<1>0. mem \in MemType /\ now \in 0 .. TimeSpace - 1 /\ armed \subseteq Timer /\ MaxTime \in Nat
      /\ want \in [Timer -> 0 .. MaxTime]
  BY TimerAssumption DEF TimerInv, Typed, DataTyped, CallTyped
<1>1. w.m \in MemType /\ w.at \in 0 .. TimeSpace - 1
      /\ w.fired \subseteq Timer /\ w.rearmed \subseteq Timer
  BY <1>0, InterruptTyped DEF FireState
<1> HIDE DEF w
<1>2. /\ now' = w.at /\ mem' = w.m /\ armed' = (armed \ w.fired) \cup w.rearmed
      /\ want' = [t \in Timer |-> IF trouble' # {} THEN 0 ELSE IF t \in w.rearmed THEN again
                                  ELSE IF t \in w.fired THEN 0 ELSE want[t]]
      /\ age' = [t \in Timer |-> IF trouble' # {} \/ t \in w.fired \/ t \notin armed THEN 0
                                 ELSE age[t] + 1]
      /\ UNCHANGED <<pc, self, local, lost>>
      /\ ticks' = IF pc \in Busy THEN ticks + 1 ELSE 0
      /\ pc \in Busy => ticks < TicksPerCall
      /\ trouble \subseteq trouble'
  BY DEF Tick, w
<1>3. CallTyped'
  BY <1>1, <1>2, TimerAssumption DEF TimerInv, Typed, CallTyped
<1>4. \A t \in Timer : want'[t] \in 0 .. MaxTime
  BY <1>0, <1>2
<1>5. \A t \in Timer : age'[t] \in 0 .. MaxTime + 1
  <2>1. CASE trouble' = {}
    <3>1. trouble = {}
      BY <1>2, <2>1
    <3>2. \A t \in Timer : TickTells(t)
      BY <2>1, <3>1, TickSound DEF TimerInv
    <3> QED BY <3>2 DEF TickTells
  <2>2. CASE trouble' # {}
    BY <1>0, <1>2, <2>2
  <2> QED BY <2>1, <2>2
<1>6. want' \in [Timer -> 0 .. MaxTime] /\ age' \in [Timer -> 0 .. MaxTime + 1]
  BY <1>2, <1>4, <1>5
<1>7. armed' \subseteq Timer /\ lost' \subseteq Timer /\ mem' \in MemType
  BY <1>0, <1>1, <1>2 DEF TimerInv, Typed, DataTyped
<1> QED BY <1>3, <1>6, <1>7 DEF Typed, DataTyped

-----------------------------------------------------------------------------
\* Trouble is never forgotten.
LEMMA TroubleStays ==
  ASSUME Next
  PROVE  trouble \subseteq trouble'
<1>1. ASSUME NEW again, Tick(again) PROVE trouble \subseteq trouble'
  BY <1>1 DEF Tick
<1>2. ASSUME Step PROVE trouble \subseteq trouble'
  BY <1>2 DEF Step, SetFlag, ReadHalf, SetTime, Find, Insert, WaitOver, ClearCheck, Unlink,
     histVars
<1> QED BY <1>1, <1>2 DEF Next, SetEnter, ClearEnter, histVars

\* Every step keeps the invariant.
LEMMA Keeps ==
  ASSUME TimerInv, Next
  PROVE  TimerInv'
<1>0. Typed /\ (trouble' = {} => trouble = {} /\ Sound)
  BY TroubleStays DEF TimerInv
<1>1. ASSUME NEW t \in Timer, NEW time \in 1 .. MaxTime, NEW cb \in BOOLEAN,
             SetEnter(t, time, cb)
      PROVE  TimerInv'
  BY <1>0, <1>1, SetEnterTyped, SetEnterSound DEF TimerInv
<1>2. ASSUME NEW t \in Timer, ClearEnter(t) PROVE TimerInv'
  BY <1>0, <1>2, ClearEnterTyped, ClearEnterSound DEF TimerInv
<1>3. CASE SetFlag
  BY <1>0, <1>3, SetFlagTyped, SetFlagSound DEF TimerInv
<1>4. ASSUME NEW low \in BOOLEAN, ReadHalf(low) PROVE TimerInv'
  BY <1>0, <1>4, ReadHalfTyped, ReadHalfSound DEF TimerInv
<1>5. CASE SetTime
  BY <1>0, <1>5, SetTimeTyped, SetTimeSound DEF TimerInv
<1>6. CASE Find
  BY <1>0, <1>6, FindTyped, FindSound DEF TimerInv
<1>7. CASE Insert
  BY <1>0, <1>7, InsertTyped, InsertSound DEF TimerInv
<1>8. CASE WaitOver
  BY <1>0, <1>8, WaitOverTyped, WaitOverSound DEF TimerInv
<1>9. CASE ClearCheck
  BY <1>0, <1>9, ClearCheckTyped, ClearCheckSound DEF TimerInv
<1>10. CASE Unlink
  BY <1>0, <1>10, UnlinkTyped, UnlinkSound DEF TimerInv
<1>11. ASSUME NEW again \in 0 .. MaxTime, Tick(again) PROVE TimerInv'
  BY <1>0, <1>11, TickTyped, TickSound DEF TimerInv
<1> QED BY <1>1, <1>2, <1>3, <1>4, <1>5, <1>6, <1>7, <1>8, <1>9, <1>10, <1>11 DEF Next, Step

\* So does no step.
LEMMA KeepsStutter ==
  ASSUME TimerInv, UNCHANGED vars
  PROVE  TimerInv'
BY DEF TimerInv, Typed, CallTyped, DataTyped, Sound, Quiet, Setting, Due, Left, NoneIn, OnlyTimer,
   vars, callVars, histVars, Low, High

\* The inductive invariant of the timers holds for any number of timers.
THEOREM TimerInvariant == Spec => []TimerInv
<1>1. Init => TimerInv
  BY Start
<1>2. TimerInv /\ [Next]_vars => TimerInv'
  BY Keeps, KeepsStutter
<1> QED BY <1>1, <1>2, PTL DEF Spec

\* The pointers, times and flags of wio_timer_t stay in their types, whatever interrupts
\* come and whatever trouble the calls make.
THEOREM TimersTyped == Spec => []TypeOK
<1>1. TimerInv => TypeOK
  <2> SUFFICES ASSUME TimerInv PROVE TypeOK
    OBVIOUS
  <2>1. mem.begin \in Ptr /\ mem.end \in Ptr /\ mem.t \in [Timer -> TimerType]
    BY MemFields DEF TimerInv, Typed, DataTyped
  <2>2. local.next \in Ptr /\ local.prev \in Ptr
    BY LocalFields DEF TimerInv, Typed
  <2> QED BY <2>1, <2>2 DEF TimerInv, Typed, CallTyped, DataTyped, TypeOK, Ptr
<1> QED BY <1>1, TimerInvariant, PTL

\* Interrupts within wio_set_timeout and wio_clear_timeout leave no trace in the list: between
\* the calls timer_begin and timer_end both point to the armed timer, or to none.
THEOREM ListAlwaysSound == Spec => []ListSound
<1>1. TimerInv => ListSound
  BY DEF TimerInv, Sound, ListSound, Quiet, OnlyTimer, NoneIn, Typed, CallTyped
<1> QED BY <1>1, TimerInvariant, PTL

\* Linking a timer changes no flag.
LEMMA FlagKept ==
  ASSUME NEW m \in MemType, NEW t \in Timer
  PROVE  \A x \in Timer : /\ AppendOwn(m, t).t[x].flag = m.t[x].flag
                          /\ AppendHead(m, t).t[x].flag = m.t[x].flag
                          /\ AppendEnd(m, t).t[x].flag = m.t[x].flag
BY MemFields DEF AppendOwn, AppendHead, AppendEnd, MemType, TimerType, Ptr

\* In an interrupt with no trouble.
LEMMA TickTold ==
  ASSUME TimerInv, NEW again \in 0 .. MaxTime, Tick(again), trouble' = {}
  PROVE  \A t \in Timer : TickTells(t)
<1>1. trouble = {}
  BY DEF Tick
<1> QED BY <1>1, TickSound DEF TimerInv

\* Only an interrupt counts the time.
LEMMA TimeStands ==
  ASSUME Next, ~(\E again \in 0 .. MaxTime : Tick(again))
  PROVE  now' = now
BY DEF Next, Step, SetEnter, ClearEnter, SetFlag, ReadHalf, SetTime, Find, Insert, WaitOver,
   ClearCheck, Unlink, GoTo

\* wio_timer_callback takes a timer off when its timeout has passed, or a tick later, and no
\* sooner, through every wrap of current_time and every carry between its words.
THEOREM TimersFireOnTime == Spec => FiresOnTime
<1> DEFINE A == now' # now /\ trouble' = {} =>
                  \A t \in armed : IF age'[t] = 0 THEN age[t] + 1 \in {want[t], want[t] + 1}
                                   ELSE age'[t] <= want[t]
<1>1. TimerInv /\ Next => A
  <2> SUFFICES ASSUME TimerInv, Next, now' # now, trouble' = {}, NEW t \in armed
               PROVE  IF age'[t] = 0 THEN age[t] + 1 \in {want[t], want[t] + 1}
                      ELSE age'[t] <= want[t]
    OBVIOUS
  <2>1. PICK again \in 0 .. MaxTime : Tick(again)
    BY TimeStands
  <2>2. t \in Timer
    BY DEF TimerInv, Typed, DataTyped
  <2>3. TickTells(t)
    BY <2>1, <2>2, TickTold
  <2> QED BY <2>3 DEF TickTells
<1>2. TimerInv /\ [Next]_vars => [A]_vars
  BY <1>1
<1> QED BY <1>2, TimerInvariant, PTL DEF Spec, FiresOnTime

\* A step of the program leaves the flag of a timer that was cleared.
LEMMA FlagStays ==
  ASSUME TimerInv, trouble' = {}, Step, NEW t \in Timer, mem.t[t].flag, t \notin armed
  PROVE  mem'.t[t].flag /\ t \notin armed'
<1>0. mem \in MemType /\ trouble = {} /\ Sound /\ Typed
  <2>1. trouble \subseteq trouble'
    BY TroubleStays DEF Next
  <2> QED BY <2>1 DEF TimerInv, Typed, DataTyped
<1>a. mem.t[t] \in TimerType /\ (self \in Timer => mem.t[self] \in TimerType)
  BY <1>0, MemFields
<1>1. CASE SetFlag
  <2>0. self \in Timer
    BY <1>0, <1>1 DEF Typed, CallTyped, SetFlag, GoTo
  <2>1. CASE UNCHANGED <<mem, histVars>>
    BY <2>1 DEF histVars
  <2>2. CASE /\ ~InUse(self) /\ mem' = [mem EXCEPT !.t[self].flag = TRUE]
             /\ armed' = armed \cup {self}
    <3>1. t # self
      BY <2>2 DEF InUse
    <3> QED BY <1>0, <2>2, <3>1 DEF MemType
  <2> QED BY <1>1, <2>1, <2>2 DEF SetFlag
<1>2. CASE SetTime
  <2>1. /\ mem' = [mem EXCEPT !.t[self].time = Deadline(ReadTime, local.time),
                              !.t[self].cb = local.cb]
        /\ armed' = armed
    BY <1>2 DEF SetTime, ReadTime
  <2>2. self \in Timer /\ ReadTime \in Nat /\ local.time \in Nat /\ local.cb \in BOOLEAN
    BY <1>0, <1>2, ReadTimeType, LocalFields, TimerAssumption
       DEF Typed, CallTyped, SetTime, GoTo
  <2>3. Deadline(ReadTime, local.time) \in 0 .. TimeSpace - 1
    BY <2>2, TimeSpaceSize DEF Deadline
  <2> DEFINE d == Deadline(ReadTime, local.time)
  <2>4. mem' = [mem EXCEPT !.t[self].time = d, !.t[self].cb = local.cb]
        /\ d \in 0 .. TimeSpace - 1
    BY <2>1, <2>3
  <2> HIDE DEF d
  <2>5. [mem EXCEPT !.t[self].time = d, !.t[self].cb = local.cb].t[t].flag = mem.t[t].flag
    BY <1>0, <1>a, <2>2, <2>4 DEF MemType, TimerType
  <2> QED BY <2>1, <2>4, <2>5
<1>3. CASE Insert
  <2>1. self \in Timer /\ armed' = armed
    BY <1>0, <1>3 DEF Typed, CallTyped, Insert, GoTo
  <2>2. mem' \in {AppendOwn(mem, self), AppendHead(mem, self), AppendEnd(mem, self)}
    BY <1>0, <1>3 DEF Sound, Insert, GoTo
  <2> QED BY <1>0, <2>1, <2>2, FlagKept
<1>4. CASE Unlink
  <2>1. armed' \subseteq armed
    BY <1>4 DEF Unlink, histVars
  <2>2. local.prev = None /\ local.next = None
    BY <1>0, <1>4 DEF Sound, Unlink, GoTo
  <2>3. mem' = [mem EXCEPT !.begin = None] \/ mem' = [mem EXCEPT !.end = None]
    BY <1>4, <2>2 DEF Unlink
  <2> QED BY <1>0, <2>1, <2>3 DEF MemType
<1> QED BY <1>1, <1>2, <1>3, <1>4 DEF Step, ReadHalf, Find, WaitOver, ClearCheck, histVars

\* A timer that wio_clear_timeout took off the list keeps its flag, and is never armed again.
THEOREM ClearedNeverUsed == Spec => ClearedStaysUnused
<1> DEFINE A == \A t \in Timer : trouble' = {} /\ mem.t[t].flag /\ t \notin armed =>
                                   mem'.t[t].flag /\ t \notin armed'
<1>1. TimerInv /\ Next => A
  <2> SUFFICES ASSUME TimerInv, Next, NEW t \in Timer, trouble' = {},
                      mem.t[t].flag, t \notin armed
               PROVE  mem'.t[t].flag /\ t \notin armed'
    OBVIOUS
  <2>1. ASSUME NEW again \in 0 .. MaxTime, Tick(again)
        PROVE  mem'.t[t].flag /\ t \notin armed'
    BY <2>1, TickTold DEF TickTells
  <2>2. CASE Step
    BY <2>2, FlagStays
  <2> QED BY <2>1, <2>2 DEF Next, SetEnter, ClearEnter, histVars
<1>2. TimerInv /\ [Next]_vars => [A]_vars
  BY <1>1
<1> QED BY <1>2, TimerInvariant, PTL DEF Spec, ClearedStaysUnused
==============================================================================
