----------------------------- MODULE ErtService -----------------------------
(***************************************************************************)
(* The server's part of the extended runtime, server/wisp-ert/wisp_ert:    *)
(* the receive loop of a client (runtime.py) and the LocalFS service       *)
(* (fs.py), which keeps the files a WISP has open in a table of virtual    *)
(* file descriptors.                                                       *)
(*                                                                         *)
(* The kernel and the AllocTable of the u-RPC library are external.  The   *)
(* kernel gives the lowest free descriptor and releases one also when      *)
(* close reports an error, as Linux does; AllocTable.add takes the lowest  *)
(* free index and raises when there is none.                               *)
(***************************************************************************)
EXTENDS Integers, FiniteSets

CONSTANTS
  Path,          \* paths of files
  RealFds,       \* bound: the kernel's descriptors for files are 0 .. RealFds - 1
  TableSize,     \* capacity of _fd_mapping
  EBADF, EIO     \* error numbers

ASSUME ErtServiceAssumption ==
  /\ RealFds \in Nat /\ TableSize \in Nat
  /\ EBADF \in Nat \ {0} /\ EIO \in Nat \ {0}

VARIABLES
  fdMap,         \* _fd_mapping, from virtual to real descriptors
  kernel,        \* the file behind each real descriptor that is open
  recvWaiting    \* a Deferred of connection.recv() waits for the next message

serviceVars == <<fdMap, kernel, recvWaiting>>

RealFd == 0 .. RealFds - 1
VirtualFd == 0 .. TableSize - 1
NoData == "no data"

\* What a function returns to the WISP: a number, and data for read.
Answer(val) == [val |-> val, n |-> 1, data |-> NoData]
Data(val, data) == [val |-> val, n |-> 2, data |-> data]

\* The lowest number of 0 .. n - 1 that is not taken.
Lowest(n, taken) == CHOOSE i \in 0 .. n - 1 :
  i \notin taken /\ \A j \in 0 .. n - 1 : j \notin taken => i <= j

Without(f, x) == [y \in DOMAIN f \ {x} |-> f[y]]
With(f, x, v) == [y \in DOMAIN f \cup {x} |-> IF y = x THEN v ELSE f[y]]

ServiceInit == fdMap = [v \in {} |-> 0] /\ kernel = [r \in {} |-> 0] /\ recvWaiting = TRUE

-----------------------------------------------------------------------------
\* Ways a call of a function can end: what it returns, the table and the kernel
\* after it, and whether it raises.  An error of the kernel is one of them.
Ends(answer, map, files) == [answer |-> answer, map |-> map, files |-> files, raised |-> FALSE]
Fails(errno) == Ends(Answer(-errno), fdMap, kernel)

\* open: a descriptor that the table has no room for stays open.
OpenEnds(path) ==
  {Fails(EIO)} \cup
  (IF DOMAIN kernel = RealFd THEN {}
   ELSE LET real  == Lowest(RealFds, DOMAIN kernel)
            files == With(kernel, real, path)
        IN IF DOMAIN fdMap = VirtualFd
           THEN {[Ends(Answer(0), fdMap, files) EXCEPT !.raised = TRUE]}
           ELSE LET v == Lowest(TableSize, DOMAIN fdMap)
                IN {Ends(Answer(v), With(fdMap, v, real), files)})

\* The check of _proxy_sys: a virtual descriptor for real descriptor 0 is
\* refused like one that is not in the table.
Refused(fd) == fd \notin DOMAIN fdMap \/ fdMap[fd] = 0

\* Mutant of CloseEnds: the entry stays in the table.
CloseEndsKept(fd) ==
  IF Refused(fd) THEN {Fails(EBADF)}
  ELSE {Ends(Answer(0), fdMap, Without(kernel, fdMap[fd])),
        Ends(Answer(-EIO), fdMap, Without(kernel, fdMap[fd]))}

\* close: the entry stays if the system call reports an error.
CloseEnds(fd) ==
  IF Refused(fd) THEN {Fails(EBADF)}
  ELSE {Ends(Answer(0), Without(fdMap, fd), Without(kernel, fdMap[fd])),
        Ends(Answer(-EIO), fdMap, Without(kernel, fdMap[fd]))}

\* The file behind a virtual descriptor; none if it was closed behind its back.
FileOf(fd) == IF fdMap[fd] \in DOMAIN kernel THEN kernel[fdMap[fd]] ELSE NoData

\* read: the data stands for the file it comes from.
ReadEnds(fd) ==
  IF Refused(fd) THEN {Ends(Data(-EBADF, NoData), fdMap, kernel)}
  ELSE {Ends(Data(-EIO, NoData), fdMap, kernel)} \cup
       (IF FileOf(fd) = NoData THEN {} ELSE {Ends(Data(0, FileOf(fd)), fdMap, kernel)})

\* write and lseek, which the WISP does not call, return a number of bytes.
WriteEnds(fd) ==
  IF Refused(fd) THEN {Fails(EBADF)}
  ELSE {Fails(EIO)} \cup (IF FileOf(fd) = NoData THEN {} ELSE {Ends(Answer(1), fdMap, kernel)})

\* The functions of the service and _service_constants.
CallEnds(op) ==
  CASE op.name = "consts" -> {Ends(Answer(0), fdMap, kernel)}
    [] op.name = "open" -> OpenEnds(op.path)
    [] op.name = "close" -> CloseEnds(op.fd)
    [] op.name = "read" -> ReadEnds(op.fd)
    [] op.name = "write" -> WriteEnds(op.fd)

\* Mutant of NextRecv: the Deferred is not renewed.
NextRecvNever(raised) == FALSE

\* _wtp_recv_cb waits for the next message, unless what handles this one raises.
NextRecv(raised) == ~raised

\* _wtp_recv_cb for a call that ends like this.
HandleCall(end) ==
  /\ recvWaiting
  /\ fdMap' = end.map /\ kernel' = end.files
  /\ recvWaiting' = NextRecv(end.raised)

ServiceTypeOK ==
  /\ DOMAIN fdMap \subseteq VirtualFd /\ \A v \in DOMAIN fdMap : fdMap[v] \in RealFd
  /\ DOMAIN kernel \subseteq RealFd /\ \A r \in DOMAIN kernel : kernel[r] \in Path
  /\ recvWaiting \in BOOLEAN
=============================================================================
