-------------------------------- MODULE Stream --------------------------------
(***************************************************************************)
(* An event stream of the JSON-RPC server (rpc/stream): one writer appends *)
(* items to segments, of which the oldest are pruned; websocket            *)
(* subscriptions read in a loop and wait for more on a channel that each   *)
(* Add closes and replaces; filters remember an offset and poll.           *)
(*                                                                         *)
(* The item with id n is the number n.  StreamQueue keeps the segments in  *)
(* the ring buffer of the code.  The steps of Add are taken with the write *)
(* lock held, every read with the read lock.                               *)
(***************************************************************************)
EXTENDS Integers, Sequences

CONSTANTS
  segmentSize,
  capacity,
  Subscribers,    \* goroutines in Subscribe
  Filters,        \* filters polled by GetFilterChanges
  MaxItems,       \* bound: items added in all
  MaxBatch        \* bound: items of one Add

Readers == Subscribers \cup Filters

ASSUME StreamAssumption ==
  /\ {segmentSize, capacity} \subseteq Nat \ {0}
  /\ {MaxItems, MaxBatch} \subseteq Nat

\* Mutant: a capacity that is no multiple of the segment size is rounded down.
maxSegments_Down == capacity \div segmentSize

\* Rounded up, as in NewStream.
maxSegments == (capacity + segmentSize - 1) \div segmentSize

VARIABLES
  segments,       \* sequence of segments, each a sequence of items
  segmentOffset,  \* segments pruned so far
  adding,         \* items the running Add has yet to append; it holds the lock
  writeLocked,
  added,          \* history: items appended so far
  pc,             \* where each reader is
  offset,         \* the last id each reader knows of
  typ,            \* what each filter is for: logs, or hashes of blocks and transactions
  given,          \* history: the items each reader was given, in order
  due             \* history: the last item when a subscriber's channel was closed,
                  \* 0 once it has read that or has ended

streamVars == <<segments, segmentOffset, adding, writeLocked, added>>
vars == <<segments, segmentOffset, adding, writeLocked, added, pc, offset, typ, given, due>>

Init ==
  /\ segments = <<>> /\ segmentOffset = 0
  /\ adding = 0 /\ writeLocked = FALSE
  /\ added = 0
  /\ pc = [r \in Readers |-> IF r \in Subscribers THEN "read" ELSE "new"]
  /\ offset = [r \in Readers |-> -1]
  /\ typ = [f \in Filters |-> "logs"]
  /\ given = [r \in Readers |-> <<>>]
  /\ due = [s \in Subscribers |-> 0]

----------------------------------------------------------------------------
\* The writer.

AddBegin ==
  /\ ~writeLocked
  /\ \A f \in Filters : pc[f] # "readall"
  /\ \E n \in 1 .. MaxBatch : added + n <= MaxItems /\ adding' = n
  /\ writeLocked' = TRUE
  /\ UNCHANGED <<segments, segmentOffset, added, pc, offset, typ, given, due>>

NeedsSegment ==
  IF segments = <<>> THEN TRUE ELSE Len(segments[Len(segments)]) = segmentSize

Prunes == Len(segments) > maxSegments

\* Mutant: a pruned segment is not counted.
NextSegmentOffset_Kept == segmentOffset

NextSegmentOffset == segmentOffset + 1

\* One round of the loop of Add.
Push ==
  /\ adding > 0
  /\ segments' =
       IF ~NeedsSegment
       THEN [segments EXCEPT ![Len(segments)] = Append(@, added + 1)]
       ELSE Append(IF Prunes THEN Tail(segments) ELSE segments, <<added + 1>>)
  /\ segmentOffset' = IF NeedsSegment /\ Prunes THEN NextSegmentOffset ELSE segmentOffset
  /\ added' = added + 1
  /\ adding' = adding - 1
  /\ UNCHANGED <<writeLocked, pc, offset, typ, given, due>>

\* Broadcast closes the channel, on which every subscriber waits that is waiting now,
\* and makes a new one; then the lock is released.
AddEnd ==
  /\ writeLocked /\ adding = 0
  /\ pc' = [r \in Readers |-> IF pc[r] = "waiting" THEN "woken" ELSE pc[r]]
  /\ due' = [s \in Subscribers |-> IF pc[s] = "waiting" THEN added ELSE due[s]]
  /\ writeLocked' = FALSE
  /\ UNCHANGED <<segments, segmentOffset, adding, added, offset, typ, given>>

----------------------------------------------------------------------------
\* Reading.

lastID ==
  IF segments = <<>> THEN 0
  ELSE (segmentOffset + Len(segments) - 1) * segmentSize + Len(segments[Len(segments)])

\* The index of the segment to read from, the earliest for a pruned one.
SegmentOf(o) ==
  IF o \div segmentSize >= segmentOffset THEN o \div segmentSize - segmentOffset ELSE 0

Nothing == [items |-> <<>>, offset |-> lastID]

\* Mutant: the chunk begins with the item the reader already has.
FirstItem_Again(o) == IF o % segmentSize = 0 THEN 1 ELSE o % segmentSize

FirstItem(o) == (o % segmentSize) + 1

doRead(o) ==
  IF o < 0 \/ SegmentOf(o) >= Len(segments) THEN Nothing
  ELSE LET seg == segments[SegmentOf(o) + 1]
           items == SubSeq(seg, FirstItem(o), Len(seg))
       IN  IF items = <<>> THEN Nothing
           ELSE [items  |-> items,
                 offset |-> (segmentOffset + SegmentOf(o)) * segmentSize + Len(seg)]

\* A reader takes what there is to read, and goes on at one place if that is
\* something and at another if it is nothing.
Take(r, something, nothing) ==
  LET res == doRead(offset[r])
  IN  /\ ~writeLocked
      /\ offset' = [offset EXCEPT ![r] = res.offset]
      /\ IF res.items # <<>>
         THEN pc' = [pc EXCEPT ![r] = something] /\ given' = [given EXCEPT ![r] = @ \o res.items]
         ELSE pc' = [pc EXCEPT ![r] = nothing] /\ UNCHANGED given
      /\ due' = [s \in Subscribers |-> IF offset'[s] >= due[s] THEN 0 ELSE due[s]]
      /\ UNCHANGED streamVars

Goto(r, label) ==
  /\ pc' = [pc EXCEPT ![r] = label]
  /\ due' = [s \in Subscribers |-> IF pc'[s] = "done" THEN 0 ELSE due[s]]
  /\ UNCHANGED <<streamVars, offset, given>>

----------------------------------------------------------------------------
\* Subscribe, with the loop of ReadBlocking inside.

Read(s) == pc[s] = "read" /\ Take(s, "callback", "unlocked") /\ UNCHANGED typ

\* The callback may fail, which ends the subscription.
Callback(s) ==
  /\ pc[s] = "callback"
  /\ \E label \in {"read", "done"} : Goto(s, label)
  /\ UNCHANGED typ

\* Wait fetches the channel after the read lock was released.
Wait(s) ==
  /\ pc[s] = "unlocked"
  /\ Goto(s, "waiting")
  /\ UNCHANGED typ

\* Mutant: the loop waits again before it reads.
Wake_Again(s) ==
  /\ pc[s] = "woken"
  /\ Goto(s, "unlocked")
  /\ UNCHANGED typ

Wake(s) ==
  /\ pc[s] = "woken"
  /\ Goto(s, "read")
  /\ UNCHANGED typ

\* The context of the subscription is cancelled; select may notice that although the
\* channel is closed, too.
Cancel(s) ==
  /\ pc[s] \in {"waiting", "woken"}
  /\ Goto(s, "done")
  /\ UNCHANGED typ

----------------------------------------------------------------------------
\* Filters, at most one of which is served at a time (filtersMu).

Served == {f \in Filters : pc[f] \in {"poll", "readall"}}

\* NewFilter, NewBlockFilter and NewPendingTransactionFilter.
NewFilter(f) ==
  /\ Served = {} /\ pc[f] = "new"
  /\ Take(f, "idle", "idle")
  /\ \E t \in {"logs", "hashes"} : typ' = [typ EXCEPT ![f] = t]

GetFilterChanges(f) ==
  /\ Served = {} /\ pc[f] = "idle"
  /\ typ[f] = "hashes" => ~writeLocked
  /\ Goto(f, IF typ[f] = "logs" THEN "poll" ELSE "readall")
  /\ UNCHANGED typ

\* ReadAllNonBlocking keeps the lock from one chunk to the next, the loop of
\* GetFilterChanges over ReadNonBlocking does not.
Poll(f) == pc[f] \in {"poll", "readall"} /\ Take(f, pc[f], "idle") /\ UNCHANGED typ

----------------------------------------------------------------------------
Step(s) == Read(s) \/ Callback(s) \/ Wait(s) \/ Wake(s)

Next ==
  \/ AddBegin \/ Push \/ AddEnd
  \/ \E s \in Subscribers : Step(s) \/ Cancel(s)
  \/ \E f \in Filters : NewFilter(f) \/ GetFilterChanges(f) \/ Poll(f)

\* Goroutines are scheduled: an Add that began ends, and a subscriber that can go
\* on does.  The lock is not kept from a subscriber for ever.
Fairness ==
  /\ WF_vars(Push) /\ WF_vars(AddEnd)
  /\ \A s \in Subscribers : SF_vars(Read(s)) /\ WF_vars(Callback(s)) /\ WF_vars(Wait(s)) /\ WF_vars(Wake(s))

Spec == Init /\ [][Next]_vars /\ Fairness

----------------------------------------------------------------------------
Labels == {"new", "idle", "poll", "readall",
           "read", "callback", "unlocked", "waiting", "woken", "done"}

\* No reader is told an id that was not given out yet; so the slice that doRead
\* takes of a segment begins within it.
TypeOK ==
  /\ segments \in Seq(Seq(Nat))
  /\ {segmentOffset, adding, added} \subseteq Nat
  /\ writeLocked \in BOOLEAN
  /\ pc \in [Readers -> Labels]
  /\ offset \in [Readers -> -1 .. added]
  /\ typ \in [Filters -> {"logs", "hashes"}]
  /\ given \in [Readers -> Seq(Nat)]
  /\ due \in [Subscribers -> Nat]

\* The ids that lastID and doRead compute from the number of pruned segments are
\* those of the items ("item id start with 1", Add), whatever was pruned.
PositionsAreIds ==
  /\ lastID = added
  /\ \A i \in 1 .. Len(segments) : \A j \in 1 .. Len(segments[i]) :
       segments[i][j] = (segmentOffset + i - 1) * segmentSize + j

\* "with a fixed capacity, when buffer is full, the old data get pruned when new
\* data comes" (Stream): none of the last capacity items is pruned, and never more
\* than one segment above the capacity is kept.
RetainsCapacity ==
  /\ segmentOffset # 0 => segmentOffset * segmentSize + capacity <= added
  /\ Len(segments) <= maxSegments + 1

Pruned == segmentOffset * segmentSize

\* A reader gets items in order, none of them twice, and without a gap unless the
\* item it would be given next was pruned.  The offset it is told is the id of the
\* last one, and moves with nothing given only at its first read: so the offset
\* that a gap is measured from is the last item the reader was given.
ReadsInOrder ==
  [][\A r \in Readers :
       IF given'[r] = given[r] THEN offset'[r] = offset[r] \/ offset[r] = -1
       ELSE LET first == Len(given[r]) + 1
                last == Len(given'[r])
            IN  /\ \A i \in first .. last : given'[r][i] = given'[r][first] + i - first
                /\ given'[r][first] > offset[r]
                /\ offset[r] >= Pruned => given'[r][first] = offset[r] + 1
                /\ offset'[r] = given'[r][last]]_vars

\* A subscriber whose channel was closed reads everything that was added until then,
\* unless its callback fails or it is cancelled.
CatchesUp ==
  \A s \in Subscribers : pc[s] = "woken" ~> due[s] = 0

\* "notify the subscribers" (Add): a subscriber gets every item that was added.
SubscribersNotified ==
  \A s \in Subscribers, n \in 1 .. MaxItems :
    (offset[s] # -1 /\ added >= n) ~> (offset[s] >= n \/ pc[s] = "done")

=============================================================================
