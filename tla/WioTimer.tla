------------------------------ MODULE WioTimer ------------------------------
(***************************************************************************)
(* The software timers of WIO, client/wisp-base/wio/timer.c.  The program  *)
(* sets and clears timers; the timer interrupt counts the time and calls   *)
(* the callbacks of those that are due.  Nothing keeps the interrupt out   *)
(* of wio_set_timeout and wio_clear_timeout, so these are modelled one     *)
(* access to shared memory after the other, and the interrupt as one step. *)
(*                                                                         *)
(* current_time has two words that the 16-bit CPU reads one by one, in an  *)
(* order that is the compiler's.                                           *)
(***************************************************************************)
EXTENDS Integers, Strict, FiniteSets

CONSTANTS
  Timer, None,   \* timers, and the null pointer
  WordSpace,     \* values of a word of current_time
  MaxTime,       \* bound: timeouts are 1 .. MaxTime
  TicksPerCall   \* interrupts during one call: a tick is 20 ms

ASSUME TimerAssumption ==
  /\ None \notin Timer /\ IsFiniteSet(Timer)
  /\ WordSpace \in Nat \ {0} /\ MaxTime \in Nat /\ TicksPerCall \in Nat

TimeSpace == WordSpace * WordSpace

\* A call takes less than the time between two interrupts, and no timeout is so
\* long that the time comes round before it has passed.
ASSUME TimelyAssumption == TicksPerCall <= 1 /\ MaxTime < TimeSpace

VARIABLES
  now,           \* current_time
  mem,           \* timer_begin, timer_end and the timers
  pc, self,      \* where the program is, and for which timer
  local,         \* its local variables: next, prev, the time and the word it read
  ticks,         \* interrupts since the call began
  want, age,     \* history: the timeout of each armed timer, and ticks since then,
                 \* while there is no trouble
  armed,         \* history: timers that were set, and neither fired nor cleared
  lost,          \* history: timers put before the head of the list
  trouble        \* history: what the calls below did not keep to

callVars == <<pc, self, local, ticks>>
histVars == <<want, age, armed, lost, trouble>>
vars == <<now, mem, callVars, histVars>>

\* wio_timer_t, but for the data of its callback.
TimerType ==
  [flag : BOOLEAN, cb : BOOLEAN, time : 0 .. TimeSpace - 1,
   prev : Timer \cup {None}, next : Timer \cup {None}]

NoTimes == [t \in Timer |-> 0]
NewTimer == [flag |-> FALSE, cb |-> FALSE, time |-> 0, prev |-> None, next |-> None]
NoLocal == [next |-> None, prev |-> None, time |-> 0, cb |-> FALSE, word |-> 0]
Busy == {"enter", "half", "time", "find", "before", "beforeHead", "append", "appendHead",
         "appendEnd", "clear", "unlink", "unlinkEnd"}

\* wio_timer_init for every timer.
Init ==
  /\ now = 0
  /\ mem = [begin |-> None, end |-> None, t |-> [t \in Timer |-> NewTimer]]
  /\ pc = "idle" /\ self = None /\ local = NoLocal /\ ticks = 0
  /\ want = NoTimes /\ age = NoTimes
  /\ armed = {} /\ lost = {} /\ trouble = {}

\* Mutant of Deadline: it does not wrap.
DeadlineWide(at, time) == at + time

\* The sum of current_time and a timeout.
Deadline(at, time) == (at + time) % TimeSpace

-----------------------------------------------------------------------------
(* Accesses to the list: m is the memory, t the timer that is set.          *)

\* Is the place behind timer n?
Passes(m, n, time) == n # None /\ m.t[n].time < time

\* Before timer n: its own pointers, then those of its neighbours.  The head has
\* no _prev: the write through it changes nothing of the list, and timer_begin
\* stays as it is.
BeforeOwn(m, t, n) ==
  [m EXCEPT !.t[t].prev = m.t[n].prev, !.t[t].next = n]
BeforeHead(m, t, n) ==
  LET p == m.t[n].prev
      Linked(x) == [m.t[x] EXCEPT !.next = IF x = p THEN t ELSE @,
                                  !.prev = IF x = n THEN t ELSE @]
  IN [m EXCEPT !.t = [x \in Timer |-> Linked(x)]]

\* Mutant of AppendHead: timer_begin is not set.
AppendHeadNever(m, t) == IF m.end = None THEN m ELSE [m EXCEPT !.t[m.end].next = t]

\* At the end: its own pointers, timer_begin or the last timer, timer_end.
AppendOwn(m, t) == [m EXCEPT !.t[t].prev = m.end, !.t[t].next = None]
AppendHead(m, t) ==
  IF m.end = None THEN [m EXCEPT !.begin = t] ELSE [m EXCEPT !.t[m.end].next = t]
AppendEnd(m, t) == [m EXCEPT !.end = t]

\* One turn of the loop that finds the place.
Walk(w, i) == IF Passes(w.m, w.n, w.at) THEN [w EXCEPT !.n = w.m.t[w.n].next] ELSE w

\* wio_set_timeout with no interrupt, as a callback calls it.
SetTimeout(m, t, time, at) ==
  LET n == Fold(Walk, [m |-> m, n |-> m.begin, at |-> at],
                [i \in 1 .. Cardinality(Timer) |-> i]).n
      s == [m EXCEPT !.t[t].flag = TRUE, !.t[t].time = Deadline(at, time)]
  IN IF n # None THEN BeforeHead(BeforeOwn(s, t, n), t, n)
     ELSE AppendEnd(AppendHead(AppendOwn(s, t), t), t)

-----------------------------------------------------------------------------
(* wio_set_timeout, and wio_wait4_timeout, whose timer has no callback.     *)

\* Calls outside of what works: a timer is armed, or was when the call began, or
\* the timeout is so short that an interrupt during the call can pass it.
Ill(time, next) ==
  (IF armed = {} /\ next = None THEN {} ELSE {"second"})
    \cup (IF time > 1 THEN {} ELSE {"short"})

\* The program goes on; what it keeps for a call ends with the call.
GoTo(from, to, kept) ==
  LET over == to \in {"idle", "wait"} IN
  /\ pc = from
  /\ pc' = to
  /\ self' = IF to = "idle" THEN None ELSE self
  /\ local' = IF over THEN NoLocal ELSE kept
  /\ ticks' = IF over THEN 0 ELSE ticks
  /\ UNCHANGED now

\* Bound: what happens after trouble, but for more calls of wio_set_timeout and
\* interrupts after a "second" one, is not followed.
SetEnter(t, time, cb) ==
  /\ pc = "idle" /\ trouble \subseteq {"second"}
  /\ pc' = "enter" /\ self' = t
  /\ local' = [NoLocal EXCEPT !.next = mem.begin, !.time = time, !.cb = cb]
  /\ UNCHANGED <<now, mem, ticks, histVars>>

\* Mutant of InUse: a timer that is set may be set again.
InUseNever(t) == FALSE

\* Already in use
InUse(t) == mem.t[t].flag

SetFlag ==
  \/ /\ GoTo("enter", "idle", local)
     /\ InUse(self)
     /\ UNCHANGED <<mem, histVars>>
  \/ /\ GoTo("enter", "half", local)
     /\ ~InUse(self)
     /\ mem' = [mem EXCEPT !.t[self].flag = TRUE]
     /\ armed' = armed \cup {self}
     /\ trouble' = trouble \cup Ill(local.time, local.next)
     /\ want' = IF trouble' = {} THEN [want EXCEPT ![self] = local.time] ELSE NoTimes
     /\ age' = IF trouble' = {} THEN [age EXCEPT ![self] = 0] ELSE NoTimes
     /\ UNCHANGED lost

Low(n) == n % WordSpace
High(n) == n - Low(n)

\* The first word of current_time is read, the low or the high one.
ReadHalf(low) ==
  /\ GoTo("half", "time", [local EXCEPT !.word = IF low THEN TimeSpace + Low(now)
                                                 ELSE High(now)])
  /\ UNCHANGED <<mem, histVars>>

\* The second word: a low word of before a carry with a high word of after it,
\* or the reverse, is a time that never was.
SetTime ==
  LET read == IF local.word >= TimeSpace THEN High(now) + Low(local.word)
              ELSE local.word + Low(now)
  IN
  /\ GoTo("time", "find", [local EXCEPT !.word = 0, !.time = 0])
  /\ mem' = [mem EXCEPT !.t[self].time = Deadline(read, local.time), !.t[self].cb = local.cb]
  /\ trouble' = trouble \cup
       (IF read = now \/ (read + 1) % TimeSpace = now THEN {} ELSE {"torn"})
  /\ want' = IF trouble' = {} THEN want ELSE NoTimes
  /\ age' = IF trouble' = {} THEN age ELSE NoTimes
  /\ UNCHANGED <<armed, lost>>

\* The loop that finds the place, which compares with the current time and not
\* with that of the timer.
Find ==
  LET n == local.next IN
  /\ \/ /\ Passes(mem, n, now)
        /\ GoTo("find", "find", [local EXCEPT !.next = mem.t[n].next])
     \/ /\ ~Passes(mem, n, now)
        /\ GoTo("find", IF n # None THEN "before" ELSE "append", local)
  /\ UNCHANGED <<mem, histVars>>

\* The call returns, or waits for the flag.
Returned == IF local.cb THEN "idle" ELSE "wait"

Insert ==
  LET n == local.next IN
  /\ \/ /\ GoTo("before", "beforeHead", local)
        /\ mem' = BeforeOwn(mem, self, n)
        /\ UNCHANGED lost
     \/ /\ GoTo("beforeHead", Returned, local)
        /\ mem' = BeforeHead(mem, self, n)
        /\ lost' = lost \cup (IF mem.t[n].prev = None THEN {self} ELSE {})
     \/ GoTo("append", "appendHead", local) /\ mem' = AppendOwn(mem, self) /\ UNCHANGED lost
     \/ GoTo("appendHead", "appendEnd", local) /\ mem' = AppendHead(mem, self) /\ UNCHANGED lost
     \/ GoTo("appendEnd", Returned, local) /\ mem' = AppendEnd(mem, self) /\ UNCHANGED lost
  /\ UNCHANGED <<want, age, armed, trouble>>

\* The loop of wio_wait4_timeout ends.
WaitOver ==
  /\ GoTo("wait", "idle", local)
  /\ ~mem.t[self].flag
  /\ UNCHANGED <<mem, histVars>>

-----------------------------------------------------------------------------
(* wio_clear_timeout                                                        *)

ClearEnter(t) ==
  /\ pc = "idle" /\ trouble = {}
  /\ pc' = "clear" /\ self' = t
  /\ local' = [NoLocal EXCEPT !.prev = mem.t[t].prev, !.next = mem.t[t].next]
  /\ UNCHANGED <<now, mem, ticks, histVars>>

ClearCheck ==
  /\ GoTo("clear", IF mem.t[self].flag THEN "unlink" ELSE "idle", local)
  /\ trouble' = trouble \cup
       (IF mem.t[self].flag /\ self \notin armed THEN {"recleared"} ELSE {})
  /\ UNCHANGED <<mem, want, age, armed, lost>>

\* Remove timer from linked list; its flag stays set.
Unlink ==
  LET p == local.prev
      n == local.next
  IN
  \/ /\ GoTo("unlink", "unlinkEnd", local)
     /\ mem' = IF p # None THEN [mem EXCEPT !.t[p].next = n] ELSE [mem EXCEPT !.begin = n]
     /\ armed' = armed \ {self}
     /\ want' = [want EXCEPT ![self] = 0] /\ age' = [age EXCEPT ![self] = 0]
     /\ UNCHANGED <<lost, trouble>>
  \/ /\ GoTo("unlinkEnd", "idle", local)
     /\ mem' = IF n # None THEN [mem EXCEPT !.t[n].prev = p] ELSE [mem EXCEPT !.end = p]
     /\ UNCHANGED histVars

-----------------------------------------------------------------------------
\* Mutant of Pop: timer_end keeps pointing to the timer.
PopBegin(m) == [m EXCEPT !.begin = m.t[m.begin].next, !.t[m.begin].flag = FALSE]

\* Mutant of Pop: the flag stays set.
PopFlagged(m) ==
  LET n == m.t[m.begin].next
  IN [m EXCEPT !.begin = n, !.end = IF n = None THEN None ELSE @]

\* The head leaves the list.
Pop(m) ==
  LET n == m.t[m.begin].next
  IN [m EXCEPT !.begin = n, !.end = IF n = None THEN None ELSE @,
               !.t[m.begin].flag = FALSE]

\* One turn of the interrupt's loop.  A callback may set its timer again, to
\* `again' if that is not 0.
Fire(w, i) ==
  LET t == w.m.begin
      m == Pop(w.m)
      re == w.again > 0 /\ w.m.t[t].cb
  IN IF t = None \/ w.m.t[t].time # w.at THEN w
     ELSE [w EXCEPT !.fired = @ \cup {t},
                    !.rearmed = IF re THEN @ \cup {t} ELSE @ \ {t},
                    !.m = IF re THEN SetTimeout(m, t, w.again, w.at) ELSE m]

\* The state after the interrupt: fired timers, and those that were set again.
Interrupt(again) ==
  Fold(Fire, [m |-> mem, at |-> (now + 1) % TimeSpace, again |-> again, fired |-> {},
              rearmed |-> {}],
       [i \in 1 .. Cardinality(Timer) + 1 |-> i])

\* wio_timer_callback.  The timeout a callback sets is longer than the interrupt.
Tick(again) ==
  /\ trouble \subseteq {"second"}
  /\ pc \in Busy => ticks < TicksPerCall
  /\ \E w \in {Interrupt(again)} :
       /\ again > 0 => w.rearmed # {}
       /\ now' = w.at /\ mem' = w.m
       /\ armed' = (armed \ w.fired) \cup w.rearmed
       /\ trouble' = trouble \cup
            (IF w.rearmed # {} /\ (pc \in Busy \/ armed \ w.fired # {}) THEN {"second"} ELSE {})
       /\ want' = [t \in Timer |-> IF trouble' # {} THEN 0 ELSE IF t \in w.rearmed THEN again
                                   ELSE IF t \in w.fired THEN 0 ELSE want[t]]
       /\ age' = [t \in Timer |-> IF trouble' # {} \/ t \in w.fired \/ t \notin armed THEN 0
                                  ELSE age[t] + 1]
  /\ ticks' = IF pc \in Busy THEN ticks + 1 ELSE 0
  /\ UNCHANGED <<pc, self, local, lost>>

\* A step of the program within a call.
Step ==
  \/ SetFlag
  \/ \E low \in BOOLEAN : ReadHalf(low)
  \/ SetTime
  \/ Find
  \/ Insert
  \/ WaitOver
  \/ ClearCheck
  \/ Unlink

Next ==
  \/ \E t \in Timer, time \in 1 .. MaxTime, cb \in BOOLEAN : SetEnter(t, time, cb)
  \/ \E t \in Timer : ClearEnter(t)
  \/ Step
  \/ \E again \in 0 .. MaxTime : Tick(again)

Spec == Init /\ [][Next]_vars

-----------------------------------------------------------------------------
TypeOK ==
  /\ now \in 0 .. TimeSpace - 1
  /\ {mem.begin, mem.end, self, local.next, local.prev} \subseteq Timer \cup {None}
  /\ mem.t \in [Timer -> TimerType]
  /\ pc \in Busy \cup {"idle", "wait"}
  /\ ticks \in 0 .. TicksPerCall
  /\ armed \subseteq Timer /\ lost \subseteq Timer
  /\ want \in [Timer -> 0 .. MaxTime] /\ age \in [Timer -> 0 .. MaxTime + 1]

\* While one timer at a time is armed, for two ticks or more, the list holds that
\* timer and no other between the calls, in spite of interrupts within them: the
\* interrupt finds it by timer_begin, the next call finds the end by timer_end.
ListSound ==
  trouble = {} /\ pc \notin Busy =>
    /\ armed = {} => mem.begin = None /\ mem.end = None
    /\ \A t \in armed : mem.begin = t /\ mem.end = t /\ mem.t[t].flag

\* Then a timer fires when its time has passed since the call began, or a tick
\* later, and never before, though current_time wraps and the call is interrupted.
FiresOnTime ==
  [][now' # now /\ trouble' = {} =>
       \A t \in armed : IF age'[t] = 0 THEN age[t] + 1 \in {want[t], want[t] + 1}
                        ELSE age'[t] <= want[t]]_vars

\* wio_clear_timeout leaves the flag set, so that a cleared timer is taken for one
\* in use and is never armed again.
ClearedStaysUnused ==
  [][\A t \in Timer : trouble' = {} /\ mem.t[t].flag /\ t \notin armed =>
       mem'.t[t].flag /\ t \notin armed']_vars

\* A timer that wio_set_timeout puts before the head, which it does while another
\* is pending whatever their times, is in no list that begins at timer_begin: it
\* is never fired, however many timers are set later.
LostNeverFires ==
  [][\A t \in lost : mem.t[t].flag => mem'.t[t].flag]_vars

(***************************************************************************)
(* Fairness: time goes on, and the program goes on with a call.            *)
(***************************************************************************)
FairSpec ==
  /\ Spec
  /\ WF_vars(Tick(0))
  /\ WF_vars(Step)

\* wio_wait4_timeout returns.
WaitReturns == (pc = "wait") ~> (pc = "idle" \/ trouble # {})
=============================================================================
