--------------------------------- MODULE Ert ---------------------------------
(***************************************************************************)
(* The extended runtime: a user program on the WISP that calls the file    *)
(* functions of the server.                                                *)
(*                                                                         *)
(* The WISP has two contexts (runtime.c, posix/ucontext.c): that of the    *)
(* RFID loop, in which all callbacks run, and that of the user program,    *)
(* which runs until it awaits a call.  The file functions (fs.c) wrap the  *)
(* caller's callback in a closure on the heap.  ERT_AWAIT and the file     *)
(* functions ignore what the functions they call return.                   *)
(*                                                                         *)
(* The u-RPC library is external: urpc_call may return an error, and       *)
(* otherwise its callback is called once with the answer of the server or  *)
(* with an error.  WTP connections carry its messages, in order: Downlink  *)
(* and Uplink show when.                                                   *)
(***************************************************************************)
EXTENDS ErtService, Sequences

CONSTANTS
  MaxCalls,      \* bound: calls of the user program
  HeapSize,      \* closures and user stacks the heap has room for
  MayFail        \* calls may fail on the way

ASSUME ErtAssumption == MaxCalls \in Nat /\ HeapSize \in Nat /\ MayFail \in BOOLEAN

VARIABLES
  ctx,           \* the context that runs: "runtime" or "user"
  user,          \* the user program: "none", "started" or "suspended"
  calls,         \* calls made so far, which number them
  awaited,       \* the call the user program awaits, 0 if none
  closures,      \* calls that have a closure on the heap
  inCallback,    \* the call whose callback started or resumed the user program
  table,         \* the calls u-RPC waits for, each with its kind of callback
  got,           \* the status and the result variable of the last await
  requests,      \* calls on their way to the server
  replies,       \* answers on their way to the WISP
  answers,       \* history: what the server answered
  opened,        \* history: the file for which a virtual descriptor was given
  trouble        \* history: what went wrong

userVars == <<ctx, user, awaited, inCallback, got>>
callVars == <<calls, closures, table, requests>>
vars == <<serviceVars, userVars, callVars, replies, answers, opened, trouble>>

Ops == [name : {"open"}, path : Path]
         \cup [name : {"close", "read", "write"}, fd : VirtualFd]
Callback == {"main", "await", "plain"}
Nothing == [status |-> "none", val |-> 0, data |-> NoData]

\* Mutant of HeapUsed: the user stack is forgotten.
HeapUsedByClosures == Cardinality(closures)

\* The memory that is taken: the user stack is one piece like a closure.
HeapUsed == Cardinality(closures) + (IF user = "none" THEN 0 ELSE 1)

Init ==
  /\ ServiceInit
  /\ ctx = "runtime" /\ user = "none" /\ awaited = 0 /\ inCallback = 0 /\ got = Nothing
  /\ calls = 0 /\ closures = {} /\ table = [i \in {} |-> "main"]
  /\ requests = <<>> /\ replies = <<>>
  /\ answers = [i \in {} |-> Nothing] /\ opened = [v \in {} |-> NoData]
  /\ trouble = {}

\* u-RPC accepts call i.
Accept(i, kind, op) ==
  /\ table' = With(table, i, kind)
  /\ requests' = Append(requests, [id |-> i, op |-> op])

\* ert_on_connect asks for the constants of the service.
Connect ==
  /\ calls = 0
  /\ calls' = 1
  /\ \/ Accept(1, "main", [name |-> "consts"]) /\ UNCHANGED trouble
     \/ /\ MayFail /\ trouble' = trouble \cup {"callLost"}
        /\ UNCHANGED <<table, requests>>
  /\ UNCHANGED <<serviceVars, userVars, closures, replies, answers, opened>>

-----------------------------------------------------------------------------
(* The user program.                                                        *)

\* The callback that runs the user program returns when that is suspended, and
\* only then does ert_fs_rpc_cb free the closure.
Freed == closures \ {inCallback}

\* ert_open, ert_close, ert_read or ert_write with a closure;
\* `kept' are the closures that stay after it.
FsCall(kind, op, kept) ==
  LET i == calls + 1 IN
  /\ calls <= MaxCalls
  /\ calls' = i
  /\ \/ /\ HeapUsed >= HeapSize
        /\ trouble' = trouble \cup {"noMemory"}
        /\ closures' = kept
        /\ UNCHANGED <<table, requests>>
     \/ /\ HeapUsed < HeapSize
        /\ closures' = kept \cup {i}
        /\ \/ Accept(i, kind, op) /\ UNCHANGED trouble
           \/ /\ MayFail /\ trouble' = trouble \cup {"callLost"}
              /\ UNCHANGED <<table, requests>>

\* A call whose callback does something else; the program goes on.
Call(op) ==
  /\ ctx = "user"
  /\ FsCall("plain", op, closures)
  /\ UNCHANGED <<serviceVars, userVars, replies, answers, opened>>

\* Mutant of Suspended: the program goes on.
SuspendedNever(c) == c

\* ert_user_suspend changes to the context of the runtime.
Suspended(c) == "runtime"

\* ERT_AWAIT: the program is suspended whether the call was made or not.
Await(op) ==
  /\ ctx = "user"
  /\ FsCall("await", op, Freed)
  /\ ctx' = Suspended(ctx)
  /\ user' = "suspended"
  /\ awaited' = calls + 1
  /\ inCallback' = 0
  /\ UNCHANGED <<serviceVars, got, replies, answers, opened>>

-----------------------------------------------------------------------------
\* The server handles a call, if its receive loop goes on.
Serve ==
  /\ requests # <<>>
  /\ \E end \in CallEnds(Head(requests).op) :
       /\ HandleCall(end)
       /\ requests' = Tail(requests)
       /\ \E failed \in IF MayFail THEN BOOLEAN ELSE {FALSE} :
            LET r == [id |-> Head(requests).id, failed |-> failed, answer |-> end.answer]
            IN IF end.raised THEN UNCHANGED <<replies, answers>>
               ELSE replies' = Append(replies, r) /\ answers' = With(answers, r.id, r)
       /\ trouble' = trouble \cup (IF end.raised THEN {"raised"} ELSE {})
            \cup (IF end.files # kernel /\ end.answer.val < 0 THEN {"closeFailed"} ELSE {})
       /\ LET op == Head(requests).op IN opened' =
            CASE op.name = "open" /\ end.answer.val >= 0 /\ ~end.raised ->
                   With(opened, end.answer.val, op.path)
              [] op.name = "close" /\ end.answer.val = 0 -> Without(opened, op.fd)
              [] OTHER -> opened
  /\ UNCHANGED <<userVars, calls, closures, table>>

-----------------------------------------------------------------------------
(* The RFID loop gets an answer: ert_on_recv waits for the next message and *)
(* u-RPC calls the callback.                                                *)

Arrives(kind) ==
  /\ ctx = "runtime" /\ replies # <<>>
  /\ Head(replies).id \in DOMAIN table
  /\ table[Head(replies).id] = kind
  /\ replies' = Tail(replies)
  /\ table' = Without(table, Head(replies).id)

\* ert_enter_main, which has a user stack or returns an error.  It does not look
\* at the status of the RPC.
EnterMain ==
  /\ Arrives("main")
  /\ \/ /\ HeapUsed < HeapSize
        /\ ctx' = "user" /\ user' = "started"
        /\ UNCHANGED trouble
     \/ /\ HeapUsed >= HeapSize
        /\ trouble' = trouble \cup {"noMemory"}
        /\ UNCHANGED <<ctx, user>>
  /\ UNCHANGED <<serviceVars, awaited, inCallback, got, calls, closures, requests, answers,
                 opened>>

\* Mutant of FsResult: a result of 0 is taken for a failure.
FsResultPositive(r) ==
  CASE r.failed -> [Nothing EXCEPT !.status = "failed"]
    [] ~r.failed /\ r.answer.val > 0 ->
         IF r.answer.n = 1 THEN [status |-> "ok", val |-> r.answer.val, data |-> NoData]
         ELSE [status |-> "ok", val |-> 0, data |-> r.answer.data]
    [] OTHER -> [status |-> "sysFailed", val |-> -r.answer.val, data |-> NoData]

\* The status and result that ert_fs_rpc_cb gives to the callback.  There is no
\* result when the RPC failed: what is copied then is read from address 0.
FsResult(r) ==
  CASE r.failed -> [Nothing EXCEPT !.status = "failed"]
    [] ~r.failed /\ r.answer.val >= 0 ->
         IF r.answer.n = 1 THEN [status |-> "ok", val |-> r.answer.val, data |-> NoData]
         ELSE [status |-> "ok", val |-> 0, data |-> r.answer.data]
    [] OTHER -> [status |-> "sysFailed", val |-> -r.answer.val, data |-> NoData]

\* ert_user_resume
Resume ==
  /\ Arrives("await")
  /\ got' = FsResult(Head(replies))
  /\ inCallback' = Head(replies).id
  /\ ctx' = "user" /\ user' = "started"
  /\ awaited' = 0
  /\ UNCHANGED <<serviceVars, calls, closures, requests, answers, opened, trouble>>

\* Mutant of FreedAfter: the closure is kept when the RPC failed.
FreedOnSuccess(r) == IF r.failed THEN closures ELSE closures \ {r.id}

\* ert_fs_rpc_cb frees the closure whatever the outcome is.
FreedAfter(r) == closures \ {r.id}

\* Another callback of the user program.
PlainCallback ==
  /\ Arrives("plain")
  /\ closures' = FreedAfter(Head(replies))
  /\ UNCHANGED <<serviceVars, userVars, calls, requests, answers, opened, trouble>>

Next ==
  \/ Connect
  \/ \E op \in Ops : Call(op)
  \/ \E op \in Ops : Await(op)
  \/ Serve
  \/ EnterMain
  \/ Resume
  \/ PlainCallback

Spec == Init /\ [][Next]_vars
-----------------------------------------------------------------------------
TypeOK ==
  /\ ServiceTypeOK
  /\ ctx \in {"runtime", "user"} /\ user \in {"none", "started", "suspended"}
  /\ calls \in 0 .. MaxCalls + 1
  /\ {awaited, inCallback} \subseteq 0 .. calls
  /\ closures \subseteq 1 .. calls
  /\ Cardinality(closures) + (IF user = "none" THEN 0 ELSE 1) <= HeapSize
  /\ DOMAIN table \subseteq 1 .. calls /\ \A i \in DOMAIN table : table[i] \in Callback
  /\ got.status \in {"none", "ok", "sysFailed", "failed"}

\* The contexts alternate: u-RPC waits for at most one call whose callback is
\* ert_user_resume, and that is the call which the suspended program awaits.
\* So swapcontext never enters a program that runs, and the one pair of status
\* and result variables of runtime.c is enough.
OneAwait ==
  /\ ctx = "user" => user = "started"
  /\ \A i \in DOMAIN table : table[i] = "await" =>
       user = "suspended" /\ awaited = i /\ ctx = "runtime"

\* The closures on the heap are those of the calls that are under way and of the
\* one whose callback runs the user program, but for calls that urpc_call
\* refused, whose closures are lost.
ClosuresFreed ==
  /\ \A i \in DOMAIN table : table[i] # "main" => i \in closures
  /\ trouble \cap {"callLost"} = {} =>
       closures \subseteq DOMAIN table \cup {inCallback}

\* What the program has after an await is what the server answered to that very
\* call, though calls are answered while others are under way: the number or the
\* data of a success, the error number of a failure.
AwaitedResult ==
  [][Resume =>
       LET r == answers[awaited].answer
       IN CASE answers[awaited].failed -> got'.status = "failed"
            [] ~answers[awaited].failed /\ r.val < 0 ->
                 got'.status = "sysFailed" /\ got'.val = -r.val
            [] OTHER -> /\ got'.status = "ok"
                        /\ IF r.n = 1 THEN got'.val = r.val ELSE got'.data = r.data]_vars

\* Every virtual descriptor leads to the file for which it was given, no two to
\* the same real descriptor, and every open file but one can be used, through any
\* sequence of opens and closes.  That one is a file that the kernel gives
\* descriptor 0: it gets a virtual one like any other, but _proxy_sys refuses it
\* (`if not real_fd'), so it is neither read nor closed.  Two errors break the
\* rest: a close that reports an error has released the real descriptor and leaves
\* the virtual one, and an open that finds no room in the table loses the real one.
FdsReachTheirFiles ==
  /\ "closeFailed" \notin trouble =>
       /\ DOMAIN fdMap = DOMAIN opened
       /\ \A v \in DOMAIN fdMap : fdMap[v] \in DOMAIN kernel /\ kernel[fdMap[v]] = opened[v]
       /\ \A v, w \in DOMAIN fdMap : fdMap[v] = fdMap[w] => v = w
  /\ trouble \cap {"closeFailed", "raised"} = {} =>
       /\ DOMAIN kernel = {fdMap[v] : v \in DOMAIN fdMap}
       /\ DOMAIN kernel \ {0} = {fdMap[v] : v \in {w \in VirtualFd : ~Refused(w)}}

\* An await whose call could not be made is never resumed.
LostAwait ==
  [](user = "suspended" /\ awaited \notin DOMAIN table => [](ctx = "runtime"))

(***************************************************************************)
(* Fairness: the server handles what arrives, and so does the RFID loop.   *)
(***************************************************************************)
FairSpec ==
  /\ Spec
  /\ WF_vars(Serve)
  /\ WF_vars(EnterMain \/ Resume \/ PlainCallback)

\* Unless a call could not be made or the server raised an exception, an await
\* comes to an end.  An exception ends the receive loop of runtime.py: all
\* later calls wait for ever.
AwaitEnds ==
  (user = "suspended") ~>
    (ctx = "user" \/ trouble \cap {"noMemory", "callLost", "raised"} # {})
=============================================================================
