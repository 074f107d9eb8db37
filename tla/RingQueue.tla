------------------------------ MODULE RingQueue ------------------------------
(***************************************************************************)
(* The growing and shrinking ring buffer of rpc/stream/queue.go, which     *)
(* holds the segments of a stream.  An index into the buffer is reduced    *)
(* with a bitwise and, as in the code: that is a modulus only as long as   *)
(* the length of the buffer is a power of two.                             *)
(*                                                                         *)
(* A queue is a record [buf, len, head, tail, count] with buf a function   *)
(* on 0 .. len - 1.                                                        *)
(***************************************************************************)
EXTENDS Integers, Sequences, Bitwise

CONSTANT minQueueLen    \* "Must be power of 2"

ASSUME QueueAssumption == minQueueLen \in Nat \ {0} /\ minQueueLen & (minQueueLen - 1) = 0

\* The zero value of a segment.
Zero == <<>>

New ==
  [buf |-> [i \in 0 .. minQueueLen - 1 |-> Zero], len |-> minQueueLen,
   head |-> 0, tail |-> 0, count |-> 0]

\* Where resize takes element i from.  With tail not beyond head the elements are
\* those from head to the end of the buffer, then those before tail.
Source(q, i) ==
  IF q.tail > q.head \/ i < q.len - q.head THEN q.head + i ELSE i - (q.len - q.head)

resize(q) ==
  [buf   |-> [i \in 0 .. 2 * q.count - 1 |-> IF i < q.count THEN q.buf[Source(q, i)] ELSE Zero],
   len   |-> 2 * q.count,
   head  |-> 0,
   tail  |-> q.count,
   count |-> q.count]

Put(q, v) ==
  [q EXCEPT !.buf[q.tail] = v, !.tail = (q.tail + 1) & (q.len - 1), !.count = q.count + 1]

Add(q, v) == Put(IF q.count = q.len THEN resize(q) ELSE q, v)

Shrinks(q) == q.len > minQueueLen /\ 4 * q.count = q.len

\* Mutant: a removal moves the tail back.
Taken_FromTail(q) == [q EXCEPT !.tail = (q.tail - 1) & (q.len - 1), !.count = q.count - 1]

Taken(q) == [q EXCEPT !.head = (q.head + 1) & (q.len - 1), !.count = q.count - 1]

Remove(q) == IF Shrinks(Taken(q)) THEN resize(Taken(q)) ELSE Taken(q)

\* Where GetP finds element i; -1 is the last one.
Position(q, i) == (q.head + (IF i < 0 THEN i + q.count ELSE i)) & (q.len - 1)

Get(q, i) == q.buf[Position(q, i)]

===============================================================================
