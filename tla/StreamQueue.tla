----------------------------- MODULE StreamQueue -----------------------------
(***************************************************************************)
(* The stream with its segments in the ring buffer: what Add does to the   *)
(* buffer, step by step with what Stream says of the segments.             *)
(***************************************************************************)
EXTENDS Stream, RingQueue

VARIABLE queue

\* The oldest segment is removed, emptied and added again when there are too many.
MakeRoom(q) == IF NeedsSegment THEN Add(IF Prunes THEN Remove(q) ELSE q, Zero) ELSE q

\* The item is appended to the last segment, where it is.
Write(q, v) == [q EXCEPT !.buf[Position(q, -1)] = Append(@, v)]

QInit == Init /\ queue = New

QNext ==
  /\ Next
  /\ queue' = IF added' # added THEN Write(MakeRoom(queue), added') ELSE queue

QSpec == QInit /\ [][QNext]_<<vars, queue>> /\ Fairness

\* "Must be power of 2 for bitwise modulus: x % n == x & (n - 1)" (minQueueLen):
\* through every growth of the buffer and every wrap around its end, the queue
\* holds the segments in their order, and its length stays a power of two.
QueueHoldsSegments ==
  /\ segments = [i \in 1 .. queue.count |-> Get(queue, i - 1)]
  /\ queue.len & (queue.len - 1) = 0

===============================================================================
