------------------------------ MODULE FifoBuf -------------------------------
(***************************************************************************)
(* The ring buffer of src/bertos/struct/fifobuf.h, as operators on the     *)
(* record of its pointers: head is the next byte to pop, tail the place of *)
(* the next push, end the last place of the buffer (begin is 0).  Head and *)
(* tail are equal when it is empty, so one place is never used.            *)
(***************************************************************************)
EXTENDS Integers, Sequences

\* The states of a buffer of end + 1 places for the values of V
FifoOf(V, end) ==
  [buf : [0 .. end -> V], head : 0 .. end, tail : 0 .. end, end : {end}]

fifo_isempty(f) == f.head = f.tail

\* MUTANT: the wrapped case is forgotten
MutIsFullUnwrapped(f) == f.tail = f.head - 1

fifo_isfull(f) == \/ f.head = 0 /\ f.tail = f.end
                  \/ f.tail = f.head - 1

\* MUTANT: a pointer goes one past the end
MutAfterPastEnd(f, i) == IF i > f.end THEN 0 ELSE i + 1

After(f, i) == IF i = f.end THEN 0 ELSE i + 1

fifo_push(f, c) ==
  [f EXCEPT !.buf = [f.buf EXCEPT ![f.tail] = c], !.tail = After(f, f.tail)]

\* The byte fifo_pop returns, and the buffer it leaves
fifo_first(f) == f.buf[f.head]
fifo_pop(f)   == [f EXCEPT !.head = After(f, f.head)]

fifo_flush(f) == [f EXCEPT !.head = f.tail]

\* How many bytes are in the buffer, and which, in the order they were pushed
Count(f) == IF f.head <= f.tail THEN f.tail - f.head
                                ELSE f.tail - f.head + f.end + 1
Place(f, i) == IF f.head + i - 1 <= f.end THEN f.head + i - 1
                                          ELSE f.head + i - 2 - f.end
Contents(f) == [i \in 1 .. Count(f) |-> f.buf[Place(f, i)]]
=============================================================================
