------------------------------- MODULE WioBuf -------------------------------
(***************************************************************************)
(* wio_buf_t, client/wisp-base/wio/buf.c: a buffer with a read and a write *)
(* cursor, used as a stream (wio_read, wio_write, wio_copy) and as an      *)
(* arena (wio_alloc, wio_free).  The structure is a record and each        *)
(* function an operator that returns the structure after the call.         *)
(*                                                                         *)
(* wio_alloc and wio_free each decide by themselves when to start again at *)
(* the beginning, and neither looks at the other's cursor.                 *)
(***************************************************************************)
EXTENDS Integers, Strict

\* A wio_buf_t of that size on memory of cells.
BufType(size, Cell) ==
  [size : {size}, posA : 0 .. size, posB : 0 .. size, mem : [0 .. size - 1 -> Cell]]

\* wio_buf_init on memory that holds `fill' everywhere.
BufInit(size, fill) ==
  [size |-> size, posA |-> 0, posB |-> 0, mem |-> [i \in 0 .. size - 1 |-> fill]]

\* The memory after bytes were stored from position at on.
Store(mem, at, bytes) ==
  [i \in DOMAIN mem |-> IF i \in at .. at + Len(bytes) - 1
                        THEN bytes[i - at + 1] ELSE mem[i]]

CanRead(b, n) == b.posA + n <= b.size
CanWrite(b, n) == b.posB + n <= b.size

\* wio_read and wio_write return WIO_ERR_OUT_OF_RANGE when they cannot.
BufRead(b, n) == [ok |-> CanRead(b, n),
                  buf |-> IF CanRead(b, n) THEN [b EXCEPT !.posA = @ + n] ELSE b]
BufWrite(b, bytes) ==
  [ok  |-> CanWrite(b, Len(bytes)),
   buf |-> IF CanWrite(b, Len(bytes))
           THEN [b EXCEPT !.mem = Store(@, b.posB, bytes), !.posB = @ + Len(bytes)]
           ELSE b]

\* The n bytes at the read cursor.
NextBytes(b, n) == [k \in 1 .. n |-> b.mem[b.posA + k - 1]]

\* wio_copy of n bytes: the read cursor moves only if both ends have room.
BufCopy(from, to, n) ==
  IF CanRead(from, n) /\ CanWrite(to, n)
  THEN [from |-> [from EXCEPT !.posA = @ + n],
        to   |-> BufWrite(to, NextBytes(from, n)).buf]
  ELSE [from |-> from, to |-> to]

\* Where wio_alloc puts n bytes, and the buffer when they are filled.
AllocPos(b, n) == IF b.posB + n >= b.size THEN 0 ELSE b.posB
AllocStore(b, bytes) ==
  [b EXCEPT !.mem = Store(@, AllocPos(b, Len(bytes)), bytes),
            !.posB = AllocPos(b, Len(bytes)) + Len(bytes)]

\* wio_free of n bytes with the read cursor at pos: the cursor after it.
FreeFrom(b, pos, n) == IF b.size - pos < n THEN n ELSE pos + n
=============================================================================
