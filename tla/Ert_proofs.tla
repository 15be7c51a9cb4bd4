------------------------------ MODULE Ert_proofs ------------------------------
(***************************************************************************)
(* What the extended runtime guarantees for every number of calls, every   *)
(* size of the heap and of the tables of descriptors, every set of paths   *)
(* and every way a call can fail: one await at a time, closures that are   *)
(* kept as long as they are needed and freed then, the answer to its own   *)
(* call for each await, and what the calls do to the files of the server.  *)
(*                                                                         *)
(* The numbers of calls carry the argument: a new call has a number that   *)
(* no earlier one has, so what is known of the others stays true.          *)
(***************************************************************************)
EXTENDS Ert, SequenceTheorems, WellFoundedInduction, FiniteSetTheorems, TLAPS

\* Numbers of calls are used once, and before the first one nothing is there.
CallNumbers ==
  /\ calls \in Nat
  /\ calls = 0 => user = "none"
  /\ DOMAIN table \subseteq 1 .. calls
  /\ closures \subseteq 1 .. calls
  /\ inCallback \in 0 .. calls

\* ert_enter_main is the callback of the first call alone, and the program runs
\* only after it.
MainOnce ==
  \A i \in DOMAIN table : table[i] = "main" =>
    i = 1 /\ user = "none" /\ i \notin closures

\* While the RFID loop runs no callback is under way; one that runs the program
\* is not waited for any more.
CallbackEntered ==
  /\ ctx = "runtime" => inCallback = 0
  /\ inCallback \notin DOMAIN table
  /\ ctx \in {"runtime", "user"}

\* OneAwait and ClosuresFreed are not inductive: that the callback which enters
\* the program is not called twice needs MainOnce, that a new call does not take
\* the place of an old one CallNumbers, and that freeing at the next suspension
\* frees the right closure CallbackEntered.
ContextInv == CallNumbers /\ MainOnce /\ CallbackEntered /\ OneAwait /\ ClosuresFreed

-----------------------------------------------------------------------------

\* Before the connection there is no context.
LEMMA InitContext == Init => ContextInv
BY DEF Init, ServiceInit, ContextInv, CallNumbers, MainOnce, CallbackEntered, OneAwait,
       ClosuresFreed

\* What a file function does to the calls and the closures.
LEMMA FsCallAdds ==
  ASSUME NEW kind, NEW op, NEW kept, FsCall(kind, op, kept)
  PROVE  /\ calls' = calls + 1
         /\ trouble \subseteq trouble'
         /\ \/ table' = table /\ closures' = kept
            \/ /\ table' = table /\ closures' = kept \cup {calls + 1}
               /\ "callLost" \in trouble'
            \/ table' = With(table, calls + 1, kind) /\ closures' = kept \cup {calls + 1}
BY DEF FsCall, Accept

\* ert_on_connect, which makes the first call.
LEMMA ConnectKeepsContext == ContextInv /\ Connect => ContextInv'
<1> SUFFICES ASSUME ContextInv, Connect PROVE ContextInv'
  OBVIOUS
<1>1. calls = 0 /\ calls' = 1 /\ UNCHANGED <<ctx, user, awaited, inCallback, closures>>
  BY DEF Connect, userVars
<1>2. DOMAIN table = {} /\ closures = {} /\ inCallback = 0
  <2>1. 1 .. calls = {} /\ 0 .. calls = {0}
    BY <1>1
  <2> QED BY <2>1 DEF ContextInv, CallNumbers
<1>3. \/ DOMAIN table' = {1} /\ table'[1] = "main"
      \/ DOMAIN table' = {}
  BY <1>2 DEF Connect, Accept, With
<1> QED
  BY <1>1, <1>2, <1>3
  DEF ContextInv, CallNumbers, MainOnce, CallbackEntered, OneAwait, ClosuresFreed

\* A call whose callback does something else, after which the program goes on.
LEMMA CallKeepsContext ==
  ASSUME ContextInv, NEW op \in Ops, Call(op)
  PROVE  ContextInv'
<1>1. ctx = "user" /\ user = "started" /\ UNCHANGED <<ctx, user, awaited, inCallback>>
  BY DEF Call, userVars, ContextInv, OneAwait
<1>2. /\ calls' = calls + 1
      /\ trouble \subseteq trouble'
      /\ \/ table' = table /\ closures' = closures
         \/ /\ table' = table /\ closures' = closures \cup {calls + 1}
            /\ "callLost" \in trouble'
         \/ table' = With(table, calls + 1, "plain") /\ closures' = closures \cup {calls + 1}
  BY FsCallAdds DEF Call
<1>3. CallNumbers'
  BY <1>1, <1>2 DEF ContextInv, CallNumbers, With
<1>4. MainOnce'
  BY <1>1, <1>2 DEF ContextInv, CallNumbers, MainOnce, With
<1>5. CallbackEntered'
  BY <1>1, <1>2 DEF ContextInv, CallNumbers, CallbackEntered, With
<1>6. OneAwait'
  BY <1>1, <1>2 DEF ContextInv, OneAwait, With
<1>7. ClosuresFreed'
  BY <1>1, <1>2 DEF ContextInv, CallNumbers, ClosuresFreed, With
<1> QED BY <1>3, <1>4, <1>5, <1>6, <1>7 DEF ContextInv

\* A task that waits for the result of its call.
LEMMA AwaitKeepsContext ==
  ASSUME ContextInv, NEW op \in Ops, Await(op)
  PROVE  ContextInv'
<1>1. /\ ctx = "user" /\ user = "started"
      /\ ctx' = "runtime" /\ user' = "suspended" /\ awaited' = calls + 1 /\ inCallback' = 0
  BY DEF Await, Suspended, ContextInv, OneAwait
<1>2. /\ calls' = calls + 1
      /\ trouble \subseteq trouble'
      /\ \/ table' = table /\ closures' = closures \ {inCallback}
         \/ /\ table' = table /\ closures' = (closures \ {inCallback}) \cup {calls + 1}
            /\ "callLost" \in trouble'
         \/ /\ table' = With(table, calls + 1, "await")
            /\ closures' = (closures \ {inCallback}) \cup {calls + 1}
  BY FsCallAdds DEF Await, Freed
<1>3. CallNumbers'
  BY <1>1, <1>2 DEF ContextInv, CallNumbers, With
<1>4. MainOnce'
  BY <1>1, <1>2 DEF ContextInv, CallNumbers, MainOnce, With
<1>5. CallbackEntered'
  BY <1>1, <1>2 DEF ContextInv, CallNumbers, CallbackEntered, With
<1>6. OneAwait'
  BY <1>1, <1>2 DEF ContextInv, OneAwait, With
<1>7. ClosuresFreed'
  BY <1>1, <1>2 DEF ContextInv, CallNumbers, CallbackEntered, ClosuresFreed, With
<1> QED BY <1>3, <1>4, <1>5, <1>6, <1>7 DEF ContextInv

\* The server's side does not touch the context.
LEMMA ServeKeepsContext == ContextInv /\ Serve => ContextInv'
<1> SUFFICES ASSUME ContextInv, Serve PROVE ContextInv'
  OBVIOUS
<1>1. UNCHANGED <<ctx, user, awaited, inCallback, calls, closures, table>>
      /\ trouble \subseteq trouble'
  BY DEF Serve, userVars
<1> QED
  BY <1>1
  DEF ContextInv, CallNumbers, MainOnce, CallbackEntered, OneAwait, ClosuresFreed

\* ert_enter_main, which starts the program or fails.
LEMMA EnterMainKeepsContext == ContextInv /\ EnterMain => ContextInv'
<1> SUFFICES ASSUME ContextInv, EnterMain PROVE ContextInv'
  OBVIOUS
<1> DEFINE i == Head(replies).id
<1>1. /\ i \in DOMAIN table /\ table[i] = "main" /\ table' = Without(table, i)
      /\ ctx = "runtime"
      /\ UNCHANGED <<awaited, inCallback, calls, closures>>
  BY DEF EnterMain, Arrives
<1>2. \/ ctx' = "user" /\ user' = "started"
      \/ ctx' = ctx /\ user' = user
  BY DEF EnterMain
<1>3. trouble \subseteq trouble'
  BY DEF EnterMain
<1>4. user = "none" /\ i = 1 /\ i \notin closures
  BY <1>1 DEF ContextInv, MainOnce
<1> HIDE DEF i
<1>5. CallNumbers' /\ MainOnce' /\ CallbackEntered'
  BY <1>1, <1>2, <1>4 DEF ContextInv, CallNumbers, MainOnce, CallbackEntered, Without
<1>6. OneAwait'
  BY <1>1, <1>2, <1>4 DEF ContextInv, OneAwait, Without
<1>7. ClosuresFreed'
  BY <1>1, <1>3, <1>4 DEF ContextInv, ClosuresFreed, Without
<1> QED BY <1>5, <1>6, <1>7 DEF ContextInv

\* A result resumes the context.
LEMMA ResumeKeepsContext == ContextInv /\ Resume => ContextInv'
<1> SUFFICES ASSUME ContextInv, Resume PROVE ContextInv'
  OBVIOUS
<1> DEFINE i == Head(replies).id
<1>1. /\ i \in DOMAIN table /\ table[i] = "await" /\ table' = Without(table, i)
      /\ ctx = "runtime" /\ inCallback' = i /\ ctx' = "user" /\ user' = "started"
      /\ UNCHANGED <<calls, closures, trouble>>
  BY DEF Resume, Arrives
<1>2. user = "suspended" /\ awaited = i /\ inCallback = 0
  BY <1>1 DEF ContextInv, OneAwait, CallbackEntered
<1> HIDE DEF i
<1>3. CallNumbers' /\ MainOnce' /\ CallbackEntered'
  BY <1>1, <1>2 DEF ContextInv, CallNumbers, MainOnce, CallbackEntered, Without
<1>4. OneAwait'
  BY <1>1, <1>2 DEF ContextInv, OneAwait, Without
<1>5. ClosuresFreed'
  BY <1>1, <1>2 DEF ContextInv, CallNumbers, ClosuresFreed, Without
<1> QED BY <1>3, <1>4, <1>5 DEF ContextInv

\* Other callbacks do not touch the context.
LEMMA PlainKeepsContext == ContextInv /\ PlainCallback => ContextInv'
<1> SUFFICES ASSUME ContextInv, PlainCallback PROVE ContextInv'
  OBVIOUS
<1> DEFINE i == Head(replies).id
<1>1. /\ i \in DOMAIN table /\ table' = Without(table, i)
      /\ closures' = closures \ {i}
      /\ UNCHANGED <<ctx, user, awaited, inCallback, calls, trouble>>
  BY DEF PlainCallback, Arrives, FreedAfter, userVars
<1> HIDE DEF i
<1>2. CallNumbers' /\ MainOnce' /\ CallbackEntered'
  BY <1>1 DEF ContextInv, CallNumbers, MainOnce, CallbackEntered, Without
<1>3. OneAwait' /\ ClosuresFreed'
  BY <1>1 DEF ContextInv, OneAwait, ClosuresFreed, Without
<1> QED BY <1>2, <1>3 DEF ContextInv

\* Every step keeps the context sound.
LEMMA NextKeepsContext == ContextInv /\ [Next]_vars => ContextInv'
<1> SUFFICES ASSUME ContextInv, [Next]_vars PROVE ContextInv'
  OBVIOUS
<1>1. CASE Next
  BY <1>1, ConnectKeepsContext, CallKeepsContext, AwaitKeepsContext, ServeKeepsContext,
     EnterMainKeepsContext, ResumeKeepsContext, PlainKeepsContext DEF Next
<1>2. CASE UNCHANGED vars
  BY <1>2 DEF vars, userVars, callVars, ContextInv, CallNumbers, MainOnce,
     CallbackEntered, OneAwait, ClosuresFreed
<1> QED BY <1>1, <1>2

\* The context is sound in every state.
LEMMA ContextAlwaysHolds == Spec => []ContextInv
BY InitContext, NextKeepsContext, PTL DEF Spec

\* For every number of calls, the program is never entered while it runs, and at
\* most one call may resume it (ert_user_suspend and ert_user_resume).
THEOREM OneAwaitAlways == Spec => []OneAwait
<1>1. ContextInv => OneAwait
  BY DEF ContextInv
<1> QED BY <1>1, ContextAlwaysHolds, PTL

\* For every number of calls and every heap, a closure lives as long as its call
\* and no longer than until the program suspends again (ert_fs_rpc_cb).
THEOREM ClosuresAlwaysFreed == Spec => []ClosuresFreed
<1>1. ContextInv => ClosuresFreed
  BY DEF ContextInv
<1> QED BY <1>1, ContextAlwaysHolds, PTL

\* The program waits for a call that u-RPC does not know.
Stuck == user = "suspended" /\ awaited \notin DOMAIN table

\* For every number of calls, an await whose call could not be made is never
\* resumed, whatever else is answered (ERT_AWAIT).
THEOREM LostAwaitStays == Spec => LostAwait
<1>1. ContextInv /\ Stuck => ctx = "runtime"
  BY DEF ContextInv, CallbackEntered, OneAwait, Stuck
<1>2. ContextInv /\ Stuck /\ [Next]_vars => Stuck'
  <2> SUFFICES ASSUME ContextInv, Stuck, [Next]_vars PROVE Stuck'
    OBVIOUS
  <2>1. \A i \in DOMAIN table : table[i] \notin {"main", "await"}
    BY DEF ContextInv, MainOnce, OneAwait, Stuck
  <2>2. ~Connect
    BY DEF Connect, ContextInv, CallNumbers, Stuck
  <2>3. ~(\E op \in Ops : Call(op)) /\ ~(\E op \in Ops : Await(op))
    BY <1>1 DEF Call, Await
  <2>4. CASE Serve
    BY <2>4 DEF Serve, userVars, Stuck
  <2>5. ~EnterMain /\ ~Resume
    BY <2>1 DEF EnterMain, Resume, Arrives
  <2>6. CASE PlainCallback
    BY <2>6 DEF PlainCallback, Arrives, userVars, Without, Stuck
  <2>7. CASE UNCHANGED vars
    BY <2>7 DEF vars, userVars, callVars, Stuck
  <2> QED BY <2>2, <2>3, <2>4, <2>5, <2>6, <2>7 DEF Next
<1>3. Stuck <=> (user = "suspended" /\ awaited \notin DOMAIN table)
  BY DEF Stuck
<1> QED BY <1>1, <1>2, <1>3, ContextAlwaysHolds, PTL DEF Spec, LostAwait

-----------------------------------------------------------------------------
(* The files. *)

CallOps == Ops \cup {[name |-> "consts"]}
AnswerType == [val : Int, n : {1, 2}, data : Path \cup {NoData}]

-----------------------------------------------------------------------------
\* The lowest free number is a free number when there is one.
LEMMA LowestIsFree ==
  ASSUME NEW n \in Nat, NEW taken, \E i \in 0 .. n - 1 : i \notin taken
  PROVE  Lowest(n, taken) \in 0 .. n - 1 /\ Lowest(n, taken) \notin taken
<1> DEFINE free == {i \in 0 .. n - 1 : i \notin taken}
<1>1. free # {} /\ free \subseteq Nat
  OBVIOUS
<1>2. \E i \in free : \A j \in free : ~(<<j, i>> \in OpToRel(<, Nat))
  BY <1>1, WFMin, NatLessThanWellFounded
<1>3. PICK i \in free : \A j \in free : ~(<<j, i>> \in OpToRel(<, Nat))
  BY <1>2
<1>4. \A j \in free : ~(j < i)
  BY <1>1, <1>3 DEF OpToRel
<1>5. \A j \in 0 .. n - 1 : j \notin taken => i <= j
  BY <1>4
<1> QED BY <1>3, <1>5 DEF Lowest

\* An entry of a table is taken out, or put in at a free place.
LEMMA TableUpdates ==
  ASSUME NEW f, NEW x, NEW v
  PROVE  /\ DOMAIN Without(f, x) = DOMAIN f \ {x}
         /\ \A y \in DOMAIN f \ {x} : Without(f, x)[y] = f[y]
         /\ DOMAIN With(f, x, v) = DOMAIN f \cup {x}
         /\ With(f, x, v)[x] = v
         /\ \A y \in DOMAIN f \ {x} : With(f, x, v)[y] = f[y]
BY DEF Without, With

\* How a call may end: nothing changed, a file opened, a file opened for which the
\* table has no room, or a file closed with or without an error.
Unchanged(end) == end.map = fdMap /\ end.files = kernel /\ end.raised = FALSE

Opened(op, end) ==
  \E v \in VirtualFd \ DOMAIN fdMap, real \in RealFd \ DOMAIN kernel :
    /\ end.map = With(fdMap, v, real) /\ end.files = With(kernel, real, op.path)
    /\ end.answer = Answer(v) /\ end.raised = FALSE

OpenedTooMany(op, end) ==
  \E real \in RealFd \ DOMAIN kernel :
    /\ end.map = fdMap /\ end.files = With(kernel, real, op.path)
    /\ end.answer = Answer(0) /\ end.raised = TRUE

Closed(op, end) ==
  /\ op.fd \in DOMAIN fdMap
  /\ end.map = Without(fdMap, op.fd) /\ end.files = Without(kernel, fdMap[op.fd])
  /\ end.answer = Answer(0) /\ end.raised = FALSE

ClosedWithError(op, end) ==
  /\ op.fd \in DOMAIN fdMap
  /\ end.map = fdMap /\ end.files = Without(kernel, fdMap[op.fd])
  /\ end.answer = Answer(-EIO) /\ end.raised = FALSE

\* An open takes a free virtual and a free real descriptor.
LEMMA OpenCases ==
  ASSUME ServiceTypeOK, NEW op \in CallOps, op.name = "open", NEW end \in OpenEnds(op.path)
  PROVE  \/ Unchanged(end) /\ end.answer = Answer(-EIO)
         \/ Opened(op, end)
         \/ OpenedTooMany(op, end)
<1> DEFINE real  == Lowest(RealFds, DOMAIN kernel)
           files == With(kernel, real, op.path)
           v     == Lowest(TableSize, DOMAIN fdMap)
<1>1. CASE end = Fails(EIO)
  BY <1>1 DEF Fails, Ends, Unchanged
<1>2. CASE DOMAIN kernel # RealFd /\ DOMAIN fdMap = VirtualFd
           /\ end = [Ends(Answer(0), fdMap, files) EXCEPT !.raised = TRUE]
  <2>1. real \in RealFd \ DOMAIN kernel
    BY <1>2, LowestIsFree, ErtServiceAssumption DEF RealFd, ServiceTypeOK
  <2> QED BY <1>2, <2>1 DEF Ends, OpenedTooMany
<1>3. CASE DOMAIN kernel # RealFd /\ DOMAIN fdMap # VirtualFd
           /\ end = Ends(Answer(v), With(fdMap, v, real), files)
  <2>1. real \in RealFd \ DOMAIN kernel
    BY <1>3, LowestIsFree, ErtServiceAssumption DEF RealFd, ServiceTypeOK
  <2>2. v \in VirtualFd \ DOMAIN fdMap
    BY <1>3, LowestIsFree, ErtServiceAssumption DEF VirtualFd, ServiceTypeOK
  <2> QED BY <1>3, <2>1, <2>2 DEF Ends, Opened
<1> QED BY <1>1, <1>2, <1>3 DEF OpenEnds

\* The ends of every call, and the type of what it answers.
LEMMA EndCases ==
  ASSUME ServiceTypeOK, NEW op \in CallOps, NEW end \in CallEnds(op)
  PROVE  /\ end.answer \in AnswerType
         /\ \/ Unchanged(end) /\ op.name = "open" /\ end.answer = Answer(-EIO)
            \/ Unchanged(end) /\ op.name = "close" /\ end.answer = Answer(-EBADF)
            \/ Unchanged(end) /\ op.name \in {"consts", "read", "write"}
            \/ op.name = "open" /\ (Opened(op, end) \/ OpenedTooMany(op, end))
            \/ op.name = "close" /\ (Closed(op, end) \/ ClosedWithError(op, end))
<1>1. op.name \in {"consts", "open", "close", "read", "write"}
  BY DEF CallOps, Ops
<1>2. NoData \in Path \cup {NoData} /\ EIO \in Nat \ {0} /\ EBADF \in Nat \ {0}
  BY ErtServiceAssumption
<1>3. CASE op.name = "consts"
  <2>1. end = Ends(Answer(0), fdMap, kernel)
    BY <1>3 DEF CallEnds
  <2> QED BY <1>2, <1>3, <2>1 DEF Ends, Answer, AnswerType, Unchanged
<1>4. CASE op.name = "open"
  <2>1. end \in OpenEnds(op.path)
    BY <1>4 DEF CallEnds
  <2>2. \/ Unchanged(end) /\ end.answer = Answer(-EIO)
        \/ Opened(op, end)
        \/ OpenedTooMany(op, end)
    BY <1>4, <2>1, OpenCases
  <2>3. \E val \in Int : end.answer = Answer(val)
    BY <1>2, <2>2, ErtServiceAssumption DEF Opened, OpenedTooMany, VirtualFd
  <2>4. end.answer \in AnswerType
    BY <1>2, <2>3 DEF Answer, AnswerType
  <2> QED BY <1>4, <2>2, <2>4
<1>5. CASE op.name = "close"
  <2>1. end \in CloseEnds(op.fd)
    BY <1>5 DEF CallEnds
  <2>2. CASE Refused(op.fd)
    BY <1>2, <1>5, <2>1, <2>2 DEF CloseEnds, Fails, Ends, Answer, AnswerType, Unchanged
  <2>3. CASE ~Refused(op.fd)
    <3>1. op.fd \in DOMAIN fdMap
      BY <2>3 DEF Refused
    <3> QED
      BY <1>2, <1>5, <2>1, <2>3, <3>1
      DEF CloseEnds, Ends, Answer, AnswerType, Closed, ClosedWithError
  <2> QED BY <2>2, <2>3
<1>6. CASE op.name = "read"
  <2>1. end \in ReadEnds(op.fd)
    BY <1>6 DEF CallEnds
  <2>2. FileOf(op.fd) \in Path \cup {NoData}
    BY DEF FileOf, ServiceTypeOK
  <2> HIDE DEF FileOf
  <2>3. \E val \in Int, data \in Path \cup {NoData} : end = Ends(Data(val, data), fdMap, kernel)
    BY <1>2, <2>1, <2>2 DEF ReadEnds
  <2> QED BY <1>6, <2>3 DEF Ends, Data, AnswerType, Unchanged
<1>7. CASE op.name = "write"
  <2>1. end \in WriteEnds(op.fd)
    BY <1>7 DEF CallEnds
  <2>2. \E val \in Int : end = Ends(Answer(val), fdMap, kernel)
    BY <1>2, <2>1 DEF WriteEnds, Fails
  <2> QED BY <1>2, <1>7, <2>2 DEF Ends, Answer, AnswerType, Unchanged
<1> QED BY <1>1, <1>3, <1>4, <1>5, <1>6, <1>7

-----------------------------------------------------------------------------
Request == [id : Nat, op : CallOps]
Reply == [id : Nat, failed : BOOLEAN, answer : AnswerType]

\* Every call is at one place on its way, and an answer on its way is the one that
\* the server gave.
OnTheirWay ==
  /\ requests \in Seq(Request) /\ replies \in Seq(Reply)
  /\ \A j \in 1 .. Len(requests) : requests[j].id \in 1 .. calls
  /\ \A j, k \in 1 .. Len(requests) : j # k => requests[j].id # requests[k].id
  /\ \A j \in 1 .. Len(requests), k \in 1 .. Len(replies) : requests[j].id # replies[k].id
  /\ \A k \in 1 .. Len(replies) :
       replies[k].id \in DOMAIN answers /\ answers[replies[k].id] = replies[k]
  /\ \A k \in 1 .. Len(replies) : replies[k].id \in 1 .. calls

\* What the server does when it handles the oldest call.
ReplyTo(end, failed) == [id |-> Head(requests).id, failed |-> failed, answer |-> end.answer]

Served(op, end, failed) ==
  /\ requests # <<>> /\ requests' = Tail(requests)
  /\ fdMap' = end.map /\ kernel' = end.files /\ recvWaiting' \in BOOLEAN
  /\ \/ UNCHANGED <<replies, answers>>
     \/ /\ replies' = Append(replies, ReplyTo(end, failed))
        /\ answers' = With(answers, Head(requests).id, ReplyTo(end, failed))
  /\ trouble \subseteq trouble'
  /\ end.raised => "raised" \in trouble'
  /\ end.files # kernel /\ end.answer.val < 0 => "closeFailed" \in trouble'
  /\ op.name = "open" /\ end.answer.val >= 0 /\ ~end.raised =>
       opened' = With(opened, end.answer.val, op.path)
  /\ op.name = "close" /\ end.answer.val = 0 => opened' = Without(opened, op.fd)
  /\ /\ ~(op.name = "open" /\ end.answer.val >= 0 /\ ~end.raised)
     /\ ~(op.name = "close" /\ end.answer.val = 0)
     => opened' = opened
  /\ UNCHANGED <<userVars, calls, closures, table>>

\* What the service does with a request, field by field.
LEMMA ServeSteps ==
  ASSUME OnTheirWay, Serve
  PROVE  \E op \in CallOps : \E end \in CallEnds(op), failed \in BOOLEAN :
           Served(op, end, failed)
<1> DEFINE op == Head(requests).op
<1>1. requests # <<>> /\ requests' = Tail(requests)
  BY DEF Serve
<1>2. op \in CallOps
  <2>1. Head(requests) \in Request
    BY <1>1, HeadTailProperties DEF OnTheirWay
  <2> QED BY <2>1 DEF Request
<1>3. PICK end \in CallEnds(op) :
        /\ HandleCall(end)
        /\ \E failed \in IF MayFail THEN BOOLEAN ELSE {FALSE} :
             LET r == [id |-> Head(requests).id, failed |-> failed, answer |-> end.answer]
             IN IF end.raised THEN UNCHANGED <<replies, answers>>
                ELSE replies' = Append(replies, r) /\ answers' = With(answers, r.id, r)
        /\ trouble' = trouble \cup (IF end.raised THEN {"raised"} ELSE {})
             \cup (IF end.files # kernel /\ end.answer.val < 0 THEN {"closeFailed"} ELSE {})
        /\ opened' =
             CASE op.name = "open" /\ end.answer.val >= 0 /\ ~end.raised ->
                    With(opened, end.answer.val, op.path)
               [] op.name = "close" /\ end.answer.val = 0 -> Without(opened, op.fd)
               [] OTHER -> opened
  BY Zenon DEF Serve
<1> HIDE DEF op
<1>4. PICK failed \in BOOLEAN :
        \/ UNCHANGED <<replies, answers>>
        \/ /\ replies' = Append(replies, ReplyTo(end, failed))
           /\ answers' = With(answers, ReplyTo(end, failed).id, ReplyTo(end, failed))
  <2>1. (IF MayFail THEN BOOLEAN ELSE {FALSE}) \subseteq BOOLEAN
    OBVIOUS
  <2> QED BY <1>3, <2>1, Zenon DEF ReplyTo
<1>5. fdMap' = end.map /\ kernel' = end.files /\ recvWaiting' \in BOOLEAN
  BY <1>3 DEF HandleCall, NextRecv
<1>6. /\ trouble \subseteq trouble'
      /\ end.raised => "raised" \in trouble'
      /\ end.files # kernel /\ end.answer.val < 0 => "closeFailed" \in trouble'
  BY <1>3, Zenon
<1>7. /\ op.name = "open" /\ end.answer.val >= 0 /\ ~end.raised =>
           opened' = With(opened, end.answer.val, op.path)
      /\ op.name = "close" /\ end.answer.val = 0 => opened' = Without(opened, op.fd)
      /\ /\ ~(op.name = "open" /\ end.answer.val >= 0 /\ ~end.raised)
         /\ ~(op.name = "close" /\ end.answer.val = 0)
         => opened' = opened
  <2>1. "open" # "close"
    OBVIOUS
  <2> QED BY <1>3, <2>1, Zenon
<1>8. UNCHANGED <<userVars, calls, closures, table>>
  BY Zenon DEF Serve
<1>9. ReplyTo(end, failed).id = Head(requests).id
  BY DEF ReplyTo
<1> QED BY <1>1, <1>2, <1>3, <1>4, <1>5, <1>6, <1>7, <1>8, <1>9, Zenon DEF Served

-----------------------------------------------------------------------------
(* The files: FdsReachTheirFiles with the types of the service is inductive *)
(* with OnTheirWay, which gives the calls that can be served.               *)

CallsInv == ContextInv /\ OnTheirWay /\ ServiceTypeOK

\* At the start there is no call.
LEMMA InitCalls == Init => CallsInv
<1> SUFFICES ASSUME Init PROVE CallsInv
  OBVIOUS
<1>1. ContextInv
  BY InitContext
<1>2. OnTheirWay
  BY DEF Init, OnTheirWay
<1>3. ServiceTypeOK
  BY DEF Init, ServiceInit, ServiceTypeOK
<1> QED BY <1>1, <1>2, <1>3 DEF CallsInv

\* A new call has a number that no call on its way has.
LEMMA FsCallSends ==
  ASSUME CallsInv, NEW kind, NEW op \in CallOps, NEW kept, FsCall(kind, op, kept),
         UNCHANGED <<serviceVars, replies, answers>>
  PROVE  OnTheirWay' /\ ServiceTypeOK'
<1>1. ServiceTypeOK'
  BY DEF CallsInv, ServiceTypeOK, serviceVars
<1>2. calls \in Nat /\ calls' = calls + 1
  BY DEF FsCall, CallsInv, ContextInv, CallNumbers
<1> DEFINE new == [id |-> calls + 1, op |-> op]
<1>3. requests' = requests \/ requests' = Append(requests, new)
  BY <1>2 DEF FsCall, Accept
<1>4. new \in Request
  BY <1>2 DEF Request
<1>5. CASE requests' = requests
  BY <1>1, <1>2, <1>5 DEF CallsInv, OnTheirWay
<1>6. CASE requests' = Append(requests, new)
  <2>1. /\ requests \in Seq(Request) /\ Len(requests) \in Nat
        /\ requests' \in Seq(Request) /\ Len(requests') = Len(requests) + 1
        /\ \A j \in 1 .. Len(requests) : requests'[j] = requests[j]
        /\ requests'[Len(requests) + 1] = new
    BY <1>4, <1>6, AppendProperties, LenProperties DEF CallsInv, OnTheirWay
  <2>2. \A j \in 1 .. Len(requests') : j \in 1 .. Len(requests) \/ j = Len(requests) + 1
    BY <2>1
  <2>3. new.id = calls + 1
    OBVIOUS
  <2> HIDE DEF new
  <2>4. \A j \in 1 .. Len(requests') : requests'[j].id \in 1 .. calls'
    BY <1>2, <2>1, <2>2, <2>3 DEF CallsInv, OnTheirWay
  <2>5. \A j, k \in 1 .. Len(requests') : j # k => requests'[j].id # requests'[k].id
    BY SMTT(30), <1>2, <2>1, <2>2, <2>3 DEF CallsInv, OnTheirWay
  <2>6. \A j \in 1 .. Len(requests'), k \in 1 .. Len(replies) :
          requests'[j].id # replies[k].id
    BY SMTT(30), <1>2, <2>1, <2>2, <2>3 DEF CallsInv, OnTheirWay
  <2> QED BY <1>1, <1>2, <2>1, <2>4, <2>5, <2>6 DEF CallsInv, OnTheirWay
<1> QED BY <1>1, <1>3, <1>5, <1>6

\* ert_on_connect makes the first one.
LEMMA ConnectSends == CallsInv /\ Connect => OnTheirWay' /\ ServiceTypeOK'
<1> SUFFICES ASSUME CallsInv, Connect PROVE OnTheirWay' /\ ServiceTypeOK'
  OBVIOUS
<1>1. ServiceTypeOK'
  BY DEF Connect, CallsInv, ServiceTypeOK, serviceVars
<1>2. calls = 0 /\ calls' = 1 /\ UNCHANGED <<replies, answers>>
  BY DEF Connect
<1>3. 1 .. calls = {}
  BY <1>2
<1>4. requests = <<>> /\ replies = <<>>
  BY <1>3, LenProperties, EmptySeq DEF CallsInv, OnTheirWay
<1> DEFINE new == [id |-> 1, op |-> [name |-> "consts"]]
<1>5. requests' = requests \/ requests' = Append(requests, new)
  BY DEF Connect, Accept
<1>6. new \in Request
  BY DEF Request, CallOps
<1>7. /\ requests' \in Seq(Request) /\ Len(requests') \in {0, 1} /\ Len(replies) = 0
      /\ \A j \in 1 .. Len(requests') : j = 1 /\ requests'[j] = new
  <2> HIDE DEF new
  <2>1. CASE requests' = <<>>
    BY <1>4, <2>1
  <2>2. CASE requests' = <<new>>
    BY <1>4, <1>6, <2>2
  <2> QED BY <1>4, <1>5, <2>1, <2>2
<1>8. new.id = 1
  OBVIOUS
<1> HIDE DEF new
<1>9. OnTheirWay'
  BY <1>2, <1>4, <1>7, <1>8 DEF CallsInv, OnTheirWay
<1> QED BY <1>1, <1>9

\* An answer leaves the queue when its callback is called.
LEMMA ArrivalTakes ==
  ASSUME CallsInv, replies # <<>>, replies' = Tail(replies),
         UNCHANGED <<serviceVars, calls, requests, answers>>
  PROVE  OnTheirWay' /\ ServiceTypeOK'
<1>1. ServiceTypeOK'
  BY DEF CallsInv, ServiceTypeOK, serviceVars
<1>2. /\ replies' \in Seq(Reply) /\ Len(replies') = Len(replies) - 1
      /\ \A k \in 1 .. Len(replies') : replies'[k] = replies[k + 1]
  BY HeadTailProperties DEF CallsInv, OnTheirWay
<1>3. Len(replies) \in Nat
  BY LenProperties DEF CallsInv, OnTheirWay
<1>4. \A k \in 1 .. Len(replies') : k + 1 \in 1 .. Len(replies)
  BY <1>2, <1>3
<1> QED BY <1>1, <1>2, <1>4 DEF CallsInv, OnTheirWay

\* The server takes the oldest call and answers it, or ends its receive loop.
LEMMA ServeSends == CallsInv /\ Serve => OnTheirWay' /\ ServiceTypeOK'
<1> SUFFICES ASSUME CallsInv, Serve PROVE OnTheirWay' /\ ServiceTypeOK'
  OBVIOUS
<1> PICK op \in CallOps : \E end \in CallEnds(op), failed \in BOOLEAN : Served(op, end, failed)
  BY ServeSteps DEF CallsInv
<1> PICK end \in CallEnds(op), failed \in BOOLEAN : Served(op, end, failed)
  OBVIOUS
<1>1. /\ requests # <<>> /\ requests' = Tail(requests)
      /\ fdMap' = end.map /\ kernel' = end.files /\ recvWaiting' \in BOOLEAN
      /\ \/ UNCHANGED <<replies, answers>>
         \/ /\ replies' = Append(replies, ReplyTo(end, failed))
            /\ answers' = With(answers, Head(requests).id, ReplyTo(end, failed))
      /\ calls' = calls
  BY DEF Served
<1>2. /\ requests' \in Seq(Request) /\ Len(requests') = Len(requests) - 1
      /\ \A j \in 1 .. Len(requests') : requests'[j] = requests[j + 1]
      /\ Head(requests) \in Request /\ Head(requests) = requests[1]
      /\ Len(requests) \in Nat \ {0}
  BY <1>1, HeadTailProperties, LenProperties, EmptySeq DEF CallsInv, OnTheirWay
<1>3. \A j \in 1 .. Len(requests') : j + 1 \in 1 .. Len(requests) /\ j + 1 # 1
  BY <1>2
<1>4. 1 \in 1 .. Len(requests)
  BY <1>2
<1>5. /\ \A j \in 1 .. Len(requests') : requests'[j].id \in 1 .. calls
      /\ \A j, k \in 1 .. Len(requests') : j # k => requests'[j].id # requests'[k].id
      /\ \A j \in 1 .. Len(requests') : requests'[j].id # Head(requests).id
      /\ Head(requests).id \in 1 .. calls
      /\ \A k \in 1 .. Len(replies) : Head(requests).id # replies[k].id
      /\ \A j \in 1 .. Len(requests'), k \in 1 .. Len(replies) :
           requests'[j].id # replies[k].id
  <2>1. \A j \in 1 .. Len(requests') : requests'[j].id \in 1 .. calls
    BY <1>2, <1>3 DEF CallsInv, OnTheirWay
  <2>2. \A j, k \in 1 .. Len(requests') : j # k => requests'[j].id # requests'[k].id
    <3> TAKE j, k \in 1 .. Len(requests')
    <3> HAVE j # k
    <3>1. j + 1 # k + 1 /\ j + 1 \in 1 .. Len(requests) /\ k + 1 \in 1 .. Len(requests)
      BY <1>3
    <3>2. requests[j + 1].id # requests[k + 1].id
      BY <3>1 DEF CallsInv, OnTheirWay
    <3> QED BY <1>2, <3>2
  <2>3. \A j \in 1 .. Len(requests') : requests'[j].id # Head(requests).id
    BY <1>2, <1>3, <1>4 DEF CallsInv, OnTheirWay
  <2>4. Head(requests).id \in 1 .. calls
    BY <1>2, <1>4 DEF CallsInv, OnTheirWay
  <2>5. \A k \in 1 .. Len(replies) : Head(requests).id # replies[k].id
    BY <1>2, <1>4 DEF CallsInv, OnTheirWay
  <2>6. \A j \in 1 .. Len(requests'), k \in 1 .. Len(replies) :
          requests'[j].id # replies[k].id
    BY SMTT(30), <1>2, <1>3 DEF CallsInv, OnTheirWay
  <2> QED BY <2>1, <2>2, <2>3, <2>4, <2>5, <2>6
<1>6. OnTheirWay'
  <2>1. CASE UNCHANGED <<replies, answers>>
    BY <1>1, <1>2, <1>5, <2>1 DEF CallsInv, OnTheirWay
  <2>2. CASE /\ replies' = Append(replies, ReplyTo(end, failed))
             /\ answers' = With(answers, Head(requests).id, ReplyTo(end, failed))
    <3> DEFINE new == ReplyTo(end, failed)
    <3>1. new \in Reply /\ new.id = Head(requests).id
      BY <1>2, EndCases DEF CallsInv, Reply, Request, ReplyTo
    <3> HIDE DEF new
    <3>2. /\ replies' \in Seq(Reply) /\ Len(replies') = Len(replies) + 1
          /\ \A k \in 1 .. Len(replies) : replies'[k] = replies[k]
          /\ replies'[Len(replies) + 1] = new
          /\ Len(replies) \in Nat
      BY <2>2, <3>1, AppendProperties, LenProperties DEF CallsInv, OnTheirWay, new
    <3>3. \A k \in 1 .. Len(replies') : k \in 1 .. Len(replies) \/ k = Len(replies) + 1
      BY <3>2
    <3>4. answers' = With(answers, new.id, new)
      BY <2>2, <3>1 DEF new
    <3>5. \A k \in 1 .. Len(replies') :
            /\ replies'[k].id \in DOMAIN answers' /\ answers'[replies'[k].id] = replies'[k]
            /\ replies'[k].id \in 1 .. calls
      BY <1>5, <3>1, <3>2, <3>3, <3>4 DEF CallsInv, OnTheirWay, With
    <3>6. \A j \in 1 .. Len(requests'), k \in 1 .. Len(replies') :
            requests'[j].id # replies'[k].id
      BY <1>5, <3>1, <3>2, <3>3
    <3> QED BY <1>1, <1>2, <1>5, <3>2, <3>5, <3>6 DEF OnTheirWay
  <2> QED BY <1>1, <2>1, <2>2
<1>7. op.name = "open" => op.path \in Path
  BY DEF CallOps, Ops
<1>8. ServiceTypeOK'
  <2>1. CASE Unchanged(end)
    BY <1>1, <2>1 DEF CallsInv, ServiceTypeOK, Unchanged
  <2>2. CASE op.name = "open" /\ Opened(op, end)
    <3>1. PICK v \in VirtualFd \ DOMAIN fdMap, real \in RealFd \ DOMAIN kernel :
            fdMap' = With(fdMap, v, real) /\ kernel' = With(kernel, real, op.path)
      BY <1>1, <2>2 DEF Opened
    <3>2. DOMAIN fdMap' \subseteq VirtualFd /\ \A w \in DOMAIN fdMap' : fdMap'[w] \in RealFd
      BY <3>1 DEF CallsInv, ServiceTypeOK, With
    <3>3. DOMAIN kernel' \subseteq RealFd /\ \A w \in DOMAIN kernel' : kernel'[w] \in Path
      BY <1>7, <2>2, <3>1 DEF CallsInv, ServiceTypeOK, With
    <3> QED BY <1>1, <3>2, <3>3 DEF ServiceTypeOK
  <2>3. CASE op.name = "open" /\ OpenedTooMany(op, end)
    <3>1. PICK real \in RealFd \ DOMAIN kernel :
            fdMap' = fdMap /\ kernel' = With(kernel, real, op.path)
      BY <1>1, <2>3 DEF OpenedTooMany
    <3>2. DOMAIN kernel' \subseteq RealFd /\ \A w \in DOMAIN kernel' : kernel'[w] \in Path
      BY <1>7, <2>3, <3>1 DEF CallsInv, ServiceTypeOK, With
    <3> QED BY <1>1, <3>1, <3>2 DEF CallsInv, ServiceTypeOK
  <2>4. CASE Closed(op, end) \/ ClosedWithError(op, end)
    BY <1>1, <2>4 DEF CallsInv, ServiceTypeOK, Closed, ClosedWithError, Without
  <2> QED BY <2>1, <2>2, <2>3, <2>4, EndCases DEF CallsInv
<1> QED BY <1>6, <1>8

\* Every step keeps the calls matched.
LEMMA NextKeepsCalls == CallsInv /\ [Next]_vars => CallsInv'
<1> SUFFICES ASSUME CallsInv, [Next]_vars PROVE CallsInv'
  OBVIOUS
<1>1. ContextInv'
  BY NextKeepsContext DEF CallsInv
<1>2. ASSUME NEW op \in Ops, Call(op) PROVE OnTheirWay' /\ ServiceTypeOK'
  BY <1>2, FsCallSends DEF Call, CallOps
<1>3. ASSUME NEW op \in Ops, Await(op) PROVE OnTheirWay' /\ ServiceTypeOK'
  BY <1>3, FsCallSends DEF Await, CallOps
<1>4. CASE EnterMain \/ Resume \/ PlainCallback
  BY <1>1, <1>4, ArrivalTakes DEF CallsInv, EnterMain, Resume, PlainCallback, Arrives
<1>5. CASE UNCHANGED vars
  BY <1>1, <1>5 DEF vars, callVars, serviceVars, CallsInv, OnTheirWay, ServiceTypeOK
<1> QED
  BY <1>1, <1>2, <1>3, <1>4, <1>5, ConnectSends, ServeSends DEF CallsInv, Next

\* The calls are matched in every state.
LEMMA CallsAlwaysHold == Spec => []CallsInv
BY InitCalls, NextKeepsCalls, PTL DEF Spec

-----------------------------------------------------------------------------
\* The two parts of FdsReachTheirFiles.
Reached ==
  "closeFailed" \notin trouble =>
    /\ DOMAIN fdMap = DOMAIN opened
    /\ \A v \in DOMAIN fdMap : fdMap[v] \in DOMAIN kernel /\ kernel[fdMap[v]] = opened[v]
    /\ \A v, w \in DOMAIN fdMap : fdMap[v] = fdMap[w] => v = w

Reachable ==
  trouble \cap {"closeFailed", "raised"} = {} =>
    DOMAIN kernel = {fdMap[v] : v \in DOMAIN fdMap}

\* The ends of a call keep every descriptor on its file.
LEMMA ServedKeepsFiles ==
  ASSUME CallsInv, Reached, Reachable,
         NEW op \in CallOps, NEW end \in CallEnds(op), NEW failed \in BOOLEAN,
         Served(op, end, failed)
  PROVE  Reached' /\ Reachable'
<1>1. /\ fdMap' = end.map /\ kernel' = end.files
      /\ trouble \subseteq trouble'
      /\ end.raised => "raised" \in trouble'
      /\ end.files # kernel /\ end.answer.val < 0 => "closeFailed" \in trouble'
      /\ op.name = "open" /\ end.answer.val >= 0 /\ ~end.raised =>
           opened' = With(opened, end.answer.val, op.path)
      /\ op.name = "close" /\ end.answer.val = 0 => opened' = Without(opened, op.fd)
      /\ /\ ~(op.name = "open" /\ end.answer.val >= 0 /\ ~end.raised)
         /\ ~(op.name = "close" /\ end.answer.val = 0)
         => opened' = opened
  BY DEF Served
<1>2. EIO \in Nat \ {0} /\ EBADF \in Nat \ {0}
  BY ErtServiceAssumption
<1>3. CASE /\ Unchanged(end)
           /\ \/ op.name = "open" /\ end.answer = Answer(-EIO)
              \/ op.name = "close" /\ end.answer = Answer(-EBADF)
              \/ op.name \in {"consts", "read", "write"}
  <2>1. fdMap' = fdMap /\ kernel' = kernel
    BY <1>1, <1>3 DEF Unchanged
  <2>2. opened' = opened
    BY <1>1, <1>2, <1>3 DEF Answer
  <2> QED BY <1>1, <2>1, <2>2 DEF Reached, Reachable
<1>4. CASE op.name = "open" /\ Opened(op, end)
  <2>1. PICK v \in VirtualFd \ DOMAIN fdMap, real \in RealFd \ DOMAIN kernel :
          /\ fdMap' = With(fdMap, v, real) /\ kernel' = With(kernel, real, op.path)
          /\ end.answer = Answer(v) /\ end.raised = FALSE
    BY <1>1, <1>4 DEF Opened
  <2>2. v >= 0
    BY ErtServiceAssumption DEF VirtualFd
  <2>3. opened' = With(opened, v, op.path)
    BY <1>1, <1>4, <2>1, <2>2 DEF Answer
  <2>4. ASSUME "closeFailed" \notin trouble' PROVE Reached'
    <3>1. /\ DOMAIN fdMap = DOMAIN opened
          /\ \A w \in DOMAIN fdMap : fdMap[w] \in DOMAIN kernel /\ kernel[fdMap[w]] = opened[w]
          /\ \A u, w \in DOMAIN fdMap : fdMap[u] = fdMap[w] => u = w
      BY <1>1, <2>4 DEF Reached
    <3>2. DOMAIN fdMap' = DOMAIN opened'
      BY <2>1, <2>3, <3>1 DEF With
    <3>3. \A w \in DOMAIN fdMap' : fdMap'[w] \in DOMAIN kernel' /\ kernel'[fdMap'[w]] = opened'[w]
      BY <2>1, <2>3, <3>1 DEF With
    <3>4. \A u, w \in DOMAIN fdMap' : fdMap'[u] = fdMap'[w] => u = w
      BY <2>1, <3>1 DEF With
    <3> QED BY <3>2, <3>3, <3>4 DEF Reached
  <2>5. Reachable'
    <3> SUFFICES ASSUME trouble' \cap {"closeFailed", "raised"} = {}
                 PROVE  DOMAIN kernel' = {fdMap'[w] : w \in DOMAIN fdMap'}
      BY DEF Reachable
    <3>1. DOMAIN kernel = {fdMap[w] : w \in DOMAIN fdMap}
      BY <1>1 DEF Reachable
    <3> QED BY <2>1, <3>1 DEF With
  <2> QED BY <2>4, <2>5 DEF Reached
<1>5. CASE op.name = "open" /\ OpenedTooMany(op, end)
  <2>1. PICK real \in RealFd \ DOMAIN kernel :
          fdMap' = fdMap /\ kernel' = With(kernel, real, op.path) /\ end.raised = TRUE
    BY <1>1, <1>5 DEF OpenedTooMany
  <2>2. opened' = opened /\ "raised" \in trouble'
    BY <1>1, <1>5, <2>1
  <2> QED BY <1>1, <2>1, <2>2 DEF Reached, Reachable, With
<1>6. CASE op.name = "close" /\ Closed(op, end)
  <2>1. /\ op.fd \in DOMAIN fdMap
        /\ fdMap' = Without(fdMap, op.fd) /\ kernel' = Without(kernel, fdMap[op.fd])
        /\ opened' = Without(opened, op.fd)
    BY <1>1, <1>6 DEF Closed, Answer
  <2>2. ASSUME "closeFailed" \notin trouble'
        PROVE  /\ DOMAIN fdMap = DOMAIN opened
               /\ \A w \in DOMAIN fdMap :
                    fdMap[w] \in DOMAIN kernel /\ kernel[fdMap[w]] = opened[w]
               /\ \A u, w \in DOMAIN fdMap : fdMap[u] = fdMap[w] => u = w
    BY <1>1, <2>2 DEF Reached
  <2>3. Reached'
    BY <2>1, <2>2 DEF Reached, Without
  <2>4. Reachable'
    <3> SUFFICES ASSUME trouble' \cap {"closeFailed", "raised"} = {}
                 PROVE  DOMAIN kernel' = {fdMap'[w] : w \in DOMAIN fdMap'}
      BY DEF Reachable
    <3>1. DOMAIN kernel = {fdMap[w] : w \in DOMAIN fdMap}
      BY <1>1 DEF Reachable
    <3>2. \A u, w \in DOMAIN fdMap : fdMap[u] = fdMap[w] => u = w
      BY <2>2
    <3> QED BY <2>1, <3>1, <3>2 DEF Without
  <2> QED BY <2>3, <2>4
<1>7. CASE op.name = "close" /\ ClosedWithError(op, end)
  <2>1. /\ op.fd \in DOMAIN fdMap
        /\ fdMap' = fdMap /\ kernel' = Without(kernel, fdMap[op.fd])
        /\ end.answer.val < 0
        /\ opened' = opened
    BY <1>1, <1>2, <1>7 DEF ClosedWithError, Answer
  <2>2. CASE "closeFailed" \in trouble'
    BY <2>2 DEF Reached, Reachable
  <2>3. CASE "closeFailed" \notin trouble'
    \* Nothing was released: the descriptor would have been one of the kernel's.
    <3>1. fdMap[op.fd] \in DOMAIN kernel
      BY <1>1, <2>1, <2>3 DEF Reached
    <3>2. kernel' # kernel
      BY <2>1, <3>1 DEF Without
    <3> QED BY <1>1, <2>1, <2>3, <3>2
  <2> QED BY <2>2, <2>3
<1>8. ServiceTypeOK
  BY DEF CallsInv
<1> QED BY <1>3, <1>4, <1>5, <1>6, <1>7, <1>8, EndCases

FilesInv == CallsInv /\ Reached /\ Reachable

\* Every step keeps the open files sound.
LEMMA NextKeepsFiles == FilesInv /\ [Next]_vars => FilesInv'
<1> SUFFICES ASSUME FilesInv, [Next]_vars PROVE FilesInv'
  OBVIOUS
<1>1. CallsInv'
  BY NextKeepsCalls DEF FilesInv
<1>2. CASE Serve
  <2>1. \E op \in CallOps : \E end \in CallEnds(op), failed \in BOOLEAN :
          Served(op, end, failed)
    BY <1>2, ServeSteps DEF FilesInv, CallsInv
  <2>2. Reached' /\ Reachable'
    BY <2>1, ServedKeepsFiles DEF FilesInv
  <2> QED BY <1>1, <2>2 DEF FilesInv
<1>3. ASSUME UNCHANGED <<fdMap, kernel, opened>>, trouble \subseteq trouble'
      PROVE  FilesInv'
  BY <1>1, <1>3 DEF FilesInv, Reached, Reachable
<1>4. CASE Connect \/ EnterMain \/ Resume \/ PlainCallback
  BY <1>3, <1>4 DEF Connect, EnterMain, Resume, PlainCallback, serviceVars
<1>5. ASSUME NEW op \in Ops, Call(op) \/ Await(op) PROVE FilesInv'
  BY <1>3, <1>5, FsCallAdds DEF Call, Await, serviceVars
<1>6. CASE UNCHANGED vars
  BY <1>3, <1>6 DEF vars, serviceVars
<1> QED BY <1>2, <1>4, <1>5, <1>6 DEF Next

\* For every set of paths, every number of descriptors and every table, a
\* descriptor of the WISP leads to the file it was given for until a close
\* reports an error, and until the table is full none of the kernel's is lost, and
\* every one but 0 is behind a descriptor that _proxy_sys accepts (fs.py).
THEOREM FdsAlwaysReach == Spec => []FdsReachTheirFiles
<1>1. Init => FilesInv
  <2> SUFFICES ASSUME Init PROVE FilesInv
    OBVIOUS
  <2>1. DOMAIN fdMap = {} /\ DOMAIN opened = {} /\ DOMAIN kernel = {}
    BY DEF Init, ServiceInit
  <2> QED BY <2>1, InitCalls DEF FilesInv, Reached, Reachable
<1>2. FilesInv => FdsReachTheirFiles
  <2> SUFFICES ASSUME FilesInv PROVE FdsReachTheirFiles
    OBVIOUS
  <2>1. DOMAIN fdMap \subseteq VirtualFd
    BY DEF FilesInv, CallsInv, ServiceTypeOK
  <2>2. ASSUME trouble \cap {"closeFailed", "raised"} = {}
        PROVE  DOMAIN kernel \ {0} = {fdMap[v] : v \in {w \in VirtualFd : ~Refused(w)}}
    BY <2>1, <2>2 DEF FilesInv, Reachable, Refused
  <2> QED BY <2>2 DEF FilesInv, Reached, Reachable, FdsReachTheirFiles
<1> QED BY <1>1, <1>2, NextKeepsFiles, PTL DEF Spec

-----------------------------------------------------------------------------
\* What a callback makes of an answer.
LEMMA ResultOfAnswer ==
  ASSUME NEW r \in Reply
  PROVE  /\ r.failed => FsResult(r).status = "failed"
         /\ ~r.failed /\ r.answer.val < 0 =>
              FsResult(r).status = "sysFailed" /\ FsResult(r).val = -r.answer.val
         /\ ~r.failed /\ ~(r.answer.val < 0) =>
              /\ FsResult(r).status = "ok"
              /\ IF r.answer.n = 1 THEN FsResult(r).val = r.answer.val
                 ELSE FsResult(r).data = r.answer.data
<1>1. r.answer.val \in Int /\ r.failed \in BOOLEAN
  BY DEF Reply, AnswerType
<1>2. r.answer.val < 0 <=> ~(r.answer.val >= 0)
  BY <1>1
<1>3. CASE r.failed
  <2>1. FsResult(r) = [Nothing EXCEPT !.status = "failed"]
    BY <1>3, Zenon DEF FsResult
  <2> QED BY <1>3, <2>1 DEF Nothing
<1>4. CASE ~r.failed /\ r.answer.val < 0
  <2>1. FsResult(r) = [status |-> "sysFailed", val |-> -r.answer.val, data |-> NoData]
    BY <1>2, <1>4, Zenon DEF FsResult
  <2> QED BY <1>4, <2>1
<1>5. CASE ~r.failed /\ ~(r.answer.val < 0)
  <2>1. FsResult(r) = IF r.answer.n = 1
                      THEN [status |-> "ok", val |-> r.answer.val, data |-> NoData]
                      ELSE [status |-> "ok", val |-> 0, data |-> r.answer.data]
    BY <1>2, <1>5, Zenon DEF FsResult
  <2> QED BY <1>5, <2>1
<1> QED BY <1>3, <1>4, <1>5

\* The answer that resumes the program is the server's answer to the call awaited.
LEMMA ResumedByItsAnswer ==
  ASSUME CallsInv, Resume
  PROVE  /\ got' = FsResult(answers[awaited])
         /\ answers[awaited] \in Reply
<1>1. /\ replies # <<>> /\ Head(replies).id \in DOMAIN table
      /\ table[Head(replies).id] = "await" /\ got' = FsResult(Head(replies))
  BY DEF Resume, Arrives
<1>2. awaited = Head(replies).id
  BY <1>1 DEF CallsInv, ContextInv, OneAwait
<1>3. Head(replies) \in Reply /\ Head(replies) = replies[1] /\ 1 \in 1 .. Len(replies)
  BY <1>1, HeadTailProperties, LenProperties, EmptySeq DEF CallsInv, OnTheirWay
<1>4. answers[awaited] = Head(replies)
  BY <1>2, <1>3 DEF CallsInv, OnTheirWay
<1> QED BY <1>1, <1>3, <1>4

\* For every interleaving of calls, awaited or not, and whatever fails, an await
\* gives the program what the server answered to that very call (ert_fs_rpc_cb
\* and ert_user_resume).
THEOREM AwaitGetsItsResult == Spec => AwaitedResult
<1> DEFINE Right ==
      Resume =>
        LET r == answers[awaited].answer
        IN CASE answers[awaited].failed -> got'.status = "failed"
             [] ~answers[awaited].failed /\ r.val < 0 ->
                  got'.status = "sysFailed" /\ got'.val = -r.val
             [] OTHER -> /\ got'.status = "ok"
                         /\ IF r.n = 1 THEN got'.val = r.val ELSE got'.data = r.data
<1>1. CallsInv => Right
  <2> SUFFICES ASSUME CallsInv, Resume PROVE Right
    OBVIOUS
  <2> DEFINE a == answers[awaited]
  <2>1. /\ a.failed => got'.status = "failed"
        /\ ~a.failed /\ a.answer.val < 0 => got'.status = "sysFailed" /\ got'.val = -a.answer.val
        /\ ~a.failed /\ ~(a.answer.val < 0) =>
             /\ got'.status = "ok"
             /\ IF a.answer.n = 1 THEN got'.val = a.answer.val ELSE got'.data = a.answer.data
    BY ResumedByItsAnswer, ResultOfAnswer
  <2>2. a.failed \/ ~a.failed
    OBVIOUS
  <2> QED BY <2>1, <2>2, Zenon
<1>2. CallsInv /\ [Next]_vars => [Right]_vars
  BY <1>1
<1> QED BY <1>2, CallsAlwaysHold, PTL DEF Spec, AwaitedResult

-----------------------------------------------------------------------------
\* TypeOK is preserved with CallsInv, which has the types of what it shares with
\* it; what is left is the room on the heap.
LEMMA NextKeepsTypes == CallsInv /\ TypeOK /\ [Next]_vars => TypeOK'
<1> SUFFICES ASSUME CallsInv, TypeOK, [Next]_vars PROVE TypeOK'
  OBVIOUS
<1>1. CallsInv'
  BY NextKeepsCalls
<1>2. IsFiniteSet(closures) /\ Cardinality(closures) \in Nat
  <2>1. IsFiniteSet(1 .. calls)
    BY FS_Interval DEF CallsInv, ContextInv, CallNumbers
  <2>2. closures \in SUBSET (1 .. calls)
    BY DEF TypeOK
  <2> QED BY <2>1, <2>2, FS_Subset, FS_CardinalityType
<1>3. /\ calls \in Nat /\ MaxCalls \in Nat /\ HeapSize \in Nat
      /\ ServiceTypeOK' /\ closures' \subseteq 1 .. calls' /\ DOMAIN table' \subseteq 1 .. calls'
      /\ inCallback' \in 0 .. calls' /\ ctx' \in {"runtime", "user"}
  BY <1>1, ErtAssumption DEF CallsInv, ContextInv, CallNumbers, CallbackEntered
<1> DEFINE Room == Cardinality(closures) + (IF user = "none" THEN 0 ELSE 1) <= HeapSize
           Rest == /\ user \in {"none", "started", "suspended"}
                   /\ calls \in 0 .. MaxCalls + 1 /\ awaited \in 0 .. calls
                   /\ \A i \in DOMAIN table : table[i] \in Callback
                   /\ got.status \in {"none", "ok", "sysFailed", "failed"}
<1>4. SUFFICES Room' /\ Rest'
  BY <1>3 DEF TypeOK
<1>5. Room /\ Rest
  BY DEF TypeOK
<1>6. CASE Connect
  <2>1. calls' = 1 /\ UNCHANGED <<user, awaited, got, closures>> /\ calls = 0
    BY <1>6 DEF Connect, userVars
  <2>2. table' = table \/ table' = With(table, 1, "main")
    BY <1>6 DEF Connect, Accept
  <2> QED BY <1>3, <1>5, <2>1, <2>2 DEF With, Callback
<1>7. ASSUME NEW kind \in {"plain", "await"}, NEW op, NEW kept \in SUBSET closures,
             FsCall(kind, op, kept), got' = got, user # "none", user' \in {"started", "suspended"},
             awaited' \in {awaited, calls + 1}
      PROVE  Room' /\ Rest'
  <2>1. calls <= MaxCalls /\ calls' = calls + 1
    BY <1>7 DEF FsCall
  <2>2. table' = table \/ table' = With(table, calls + 1, kind)
    BY <1>7, FsCallAdds
  <2>3. Rest'
    BY <1>3, <1>5, <1>7, <2>1, <2>2 DEF With, Callback
  <2>4. IsFiniteSet(kept) /\ Cardinality(kept) <= Cardinality(closures)
        /\ Cardinality(kept) \in Nat
    BY <1>2, FS_Subset, FS_CardinalityType
  <2>5. CASE closures' = kept
    BY <1>2, <1>3, <1>5, <1>7, <2>3, <2>4, <2>5
  <2>6. CASE HeapUsed < HeapSize /\ closures' = kept \cup {calls'}
    <3>1. Cardinality(closures') <= Cardinality(kept) + 1 /\ Cardinality(closures') \in Nat
      <4>1. IsFiniteSet(kept \cup {calls'})
            /\ Cardinality(kept \cup {calls'}) =
                 IF calls' \in kept THEN Cardinality(kept) ELSE Cardinality(kept) + 1
        BY <2>4, FS_AddElement, Zenon
      <4> QED BY <2>4, <2>6, <4>1
    <3>2. Cardinality(closures) + 1 < HeapSize
      BY <1>7, <2>6 DEF HeapUsed
    <3> QED BY <1>2, <1>3, <1>7, <2>3, <2>4, <3>1, <3>2
  <2> QED BY <1>7, <2>1, <2>3, <2>5, <2>6 DEF FsCall
<1>8. ASSUME NEW op \in Ops, Call(op) PROVE Room' /\ Rest'
  <2>1. user = "started"
    BY <1>8 DEF Call, CallsInv, ContextInv, OneAwait
  <2> QED BY <1>7, <1>8, <2>1 DEF Call, userVars
<1>9. ASSUME NEW op \in Ops, Await(op) PROVE Room' /\ Rest'
  <2>1. user = "started"
    BY <1>9 DEF Await, CallsInv, ContextInv, OneAwait
  <2> QED BY <1>7, <1>9, <2>1 DEF Await, Freed
<1>10. CASE Serve
  <2>1. UNCHANGED <<userVars, calls, closures, table>>
    BY <1>10 DEF Serve
  <2> QED BY <1>5, <2>1 DEF userVars
<1>11. ASSUME NEW kind, Arrives(kind) PROVE table' = Without(table, Head(replies).id)
  BY <1>11 DEF Arrives
<1>12. CASE EnterMain
  <2>1. UNCHANGED <<awaited, got, calls, closures>>
        /\ \/ HeapUsed < HeapSize /\ user' = "started"
           \/ user' = user
    BY <1>12 DEF EnterMain
  <2>2. user = "none"
    BY <1>12 DEF EnterMain, Arrives, CallsInv, ContextInv, MainOnce
  <2>3. Room'
    BY <1>2, <1>3, <1>5, <2>1, <2>2 DEF HeapUsed
  <2> QED BY <1>5, <1>11, <1>12, <2>1, <2>3 DEF EnterMain, Without
<1>13. CASE Resume
  <2>1. UNCHANGED <<calls, closures>> /\ awaited' = 0 /\ user' = "started"
    BY <1>13 DEF Resume
  <2>2. user = "suspended"
    BY <1>13 DEF Resume, Arrives, CallsInv, ContextInv, OneAwait
  <2>3. got'.status \in {"none", "ok", "sysFailed", "failed"}
    BY <1>13, ResumedByItsAnswer, ResultOfAnswer
  <2> QED BY <1>3, <1>5, <1>11, <1>13, <2>1, <2>2, <2>3 DEF Resume, Without
<1>14. CASE PlainCallback
  <2>1. UNCHANGED <<userVars, calls>> /\ closures' = closures \ {Head(replies).id}
    BY <1>14 DEF PlainCallback, FreedAfter
  <2>2. Cardinality(closures') <= Cardinality(closures) /\ Cardinality(closures') \in Nat
    <3>1. Cardinality(closures \ {Head(replies).id}) =
            IF Head(replies).id \in closures THEN Cardinality(closures) - 1
            ELSE Cardinality(closures)
      BY <1>2, FS_RemoveElement, Zenon
    <3>2. Cardinality(closures \ {Head(replies).id}) \in Nat
      BY <1>2, FS_RemoveElement, FS_CardinalityType, Zenon
    <3> QED BY <1>2, <2>1, <3>1, <3>2
  <2> QED BY <1>2, <1>3, <1>5, <1>11, <1>14, <2>1, <2>2 DEF PlainCallback, userVars, Without
<1>15. CASE UNCHANGED vars
  BY <1>5, <1>15 DEF vars, userVars, callVars
<1> QED
  BY <1>6, <1>8, <1>9, <1>10, <1>12, <1>13, <1>14, <1>15 DEF Next

\* For every number of calls the heap holds the closures and the user stack
\* (fs.c and runtime.c check each malloc), and all else has its type.
THEOREM ErtTypesAlwaysOK == Spec => []TypeOK
<1>1. Init => TypeOK
  <2> SUFFICES ASSUME Init PROVE TypeOK
    OBVIOUS
  <2>1. ServiceTypeOK
    BY InitCalls DEF CallsInv
  <2>2. Cardinality(closures) = 0
    BY FS_EmptySet DEF Init
  <2> QED BY <2>1, <2>2, ErtAssumption DEF Init, TypeOK, Nothing
<1> QED BY <1>1, CallsAlwaysHold, NextKeepsTypes, PTL DEF Spec
=============================================================================
