------------------------------ MODULE Websockets ------------------------------
(***************************************************************************)
(* The websocket server (rpc/websockets.go) on top of the streams that are *)
(* set up when they are first asked for (rpc/stream/rpc.go): a read loop   *)
(* per connection, a goroutine per subscription, and the goroutine that    *)
(* moves CometBFT's events into the streams.                               *)
(*                                                                         *)
(* A stream is the sequence of events added to it; Stream says how it      *)
(* keeps and prunes them.  Requests other than eth_subscribe and           *)
(* eth_unsubscribe are answered by the HTTP server and change nothing      *)
(* here.                                                                   *)
(***************************************************************************)
EXTENDS Integers, Sequences, FiniteSetsExt

CONSTANTS
  Conns,        \* connections
  Plans         \* bounds: the topics each peer asks for, the peers that may be lost, and how
                \* many subscriptions and events of each topic there are in all

Topics == {"newHeads", "logs", "newPendingTransactions"}
NoStream == 0

VARIABLES
  headerStream, logStream,    \* fields of RPCStream: a stream, or NoStream
  streams,                    \* the events added to each stream that was made
  feeds,                      \* goroutines in start: how many events each has received
  crashed,                    \* a goroutine that nobody recovers has panicked
  conn,                       \* each connection: open, lost by its peer, answered with a
                              \* close frame, or closed here
  loop,                       \* where each read loop is
  topic,                      \* the topic of the request being served
  subscriptions,              \* the ids each read loop remembers
  subs,                       \* the goroutine of each subscription, by id
  told,                       \* history: the events each subscription was notified of
  plan                        \* which of Plans it is

streamFields == <<headerStream, logStream, streams, feeds>>
serverVars == <<headerStream, logStream, streams, feeds, crashed, conn, loop, topic,
                subscriptions, subs, told, plan>>

MaxSubs == Max({p.subs : p \in Plans})

\* The stream of pending transactions is there from the start.
pendingTxStream == 1

SubIDs == DOMAIN subs

NewRPCStreams ==
  /\ headerStream = NoStream /\ logStream = NoStream
  /\ streams = <<<<>>>> /\ feeds = <<>> /\ crashed = FALSE
  /\ conn = [c \in Conns |-> "open"]
  /\ loop = [c \in Conns |-> "read"]
  /\ topic = [c \in Conns |-> "newHeads"]
  /\ subscriptions = [c \in Conns |-> {}]
  /\ subs = <<>> /\ told = <<>>
  /\ plan \in Plans

Goes(c, label) == loop' = [loop EXCEPT ![c] = label]

\* The contexts of these subscriptions are cancelled.
Cancelled(ids) == [id \in SubIDs |-> IF id \in ids THEN [subs[id] EXCEPT !.cancelled = TRUE] ELSE subs[id]]

\* The read loop returns or panics; its deferred function cancels what it remembers.
Leaves(c) == Goes(c, "done") /\ subs' = Cancelled(subscriptions[c])

----------------------------------------------------------------------------
\* The read loop.

\* The peer goes without a word: nothing comes any more, and writes fail sooner or
\* later.
PeerLost(c) ==
  /\ conn[c] = "open" /\ c \in plan.lost
  /\ conn' = [conn EXCEPT ![c] = "lost"]
  /\ UNCHANGED <<streamFields, crashed, loop, topic, subscriptions, subs, told>>

\* The peer closes in good order: ReadMessage answers with a close frame, after which
\* every write is refused, before it returns its error.
CloseReceived(c) ==
  /\ loop[c] = "read" /\ conn[c] = "open" /\ c \in plan.lost
  /\ conn' = [conn EXCEPT ![c] = "closeSent"]
  /\ Goes(c, "closing")
  /\ UNCHANGED <<streamFields, crashed, topic, subscriptions, subs, told>>

ReadFails(c) ==
  /\ loop[c] = "closing" \/ (loop[c] = "read" /\ conn[c] # "open")
  /\ conn' = [conn EXCEPT ![c] = "closed"]
  /\ Leaves(c)
  /\ UNCHANGED <<streamFields, crashed, topic, subscriptions, told>>

Subscribing == 
  {c \in Conns : loop[c] \in {"check", "header", "log", "cometBlocks", "cometLogs", "go"}}

\* The stream of pending transactions needs no set-up.
EthSubscribe(c, t) ==
  /\ loop[c] = "read" /\ conn[c] = "open"
  /\ t \in plan.asks[c] /\ Len(subs) + Cardinality(Subscribing) < plan.subs
  /\ topic' = [topic EXCEPT ![c] = t]
  /\ Goes(c, IF t = "newPendingTransactions" THEN "go" ELSE "check")
  /\ UNCHANGED <<streamFields, crashed, conn, subscriptions, subs, told>>

\* An id that is not of this connection is answered with false.
EthUnsubscribe(c, id) ==
  /\ loop[c] = "read" /\ conn[c] = "open"
  /\ subscriptions' = [subscriptions EXCEPT ![c] = @ \ {id}]
  /\ subs' = Cancelled({id} \cap subscriptions[c])
  /\ Goes(c, "reply")
  /\ UNCHANGED <<streamFields, crashed, conn, topic, told>>

\* A response that cannot be written ends the loop; the connection is not closed.
Reply(c) ==
  /\ loop[c] = "reply"
  /\ \/ conn[c] # "closed" /\ Goes(c, "read") /\ UNCHANGED subs
     \/ conn[c] # "open" /\ Leaves(c)
  /\ UNCHANGED <<streamFields, crashed, conn, topic, subscriptions, told>>

----------------------------------------------------------------------------
\* initSubscriptions, which takes no lock: a step for each access to a field.

InitCheck(c) ==
  /\ loop[c] = "check"
  /\ Goes(c, IF headerStream # NoStream THEN "go" ELSE "header")
  /\ UNCHANGED <<streamFields, crashed, conn, topic, subscriptions, subs, told>>

InitHeaderStream(c) ==
  /\ loop[c] = "header"
  /\ streams' = Append(streams, <<>>)
  /\ headerStream' = Len(streams')
  /\ Goes(c, "log")
  /\ UNCHANGED <<logStream, feeds, crashed, conn, topic, subscriptions, subs, told>>

InitLogStream(c) ==
  /\ loop[c] = "log"
  /\ streams' = Append(streams, <<>>)
  /\ logStream' = Len(streams')
  /\ Goes(c, "cometBlocks")
  /\ UNCHANGED <<headerStream, feeds, crashed, conn, topic, subscriptions, subs, told>>

\* Mutant: a refused subscription is passed over.
AlreadySubscribed_Ignored == FALSE

\* CometBFT refuses a second subscription of one subscriber to one query.
AlreadySubscribed == feeds # <<>> \/ \E c \in Conns : loop[c] = "cometLogs"

\* A refusal, for whatever reason, is a panic, which the HTTP server recovers.
InitSubscribeBlocks(c) ==
  /\ loop[c] = "cometBlocks"
  /\ \/ Leaves(c)
     \/ ~AlreadySubscribed /\ Goes(c, "cometLogs") /\ UNCHANGED subs
  /\ UNCHANGED <<streamFields, crashed, conn, topic, subscriptions, told>>

\* Here a refusal gives up the first subscription before the panic; the fields keep
\* their streams, which nobody feeds then.
InitSubscribeLogs(c) ==
  /\ loop[c] = "cometLogs"
  /\ \/ Leaves(c) /\ UNCHANGED feeds
     \/ /\ feeds' = Append(feeds, [newHeads |-> 0, logs |-> 0])
        /\ Goes(c, "go") /\ UNCHANGED subs
  /\ UNCHANGED <<headerStream, logStream, streams, crashed, conn, topic, subscriptions, told>>

StreamOf(t) ==
  CASE t = "newHeads" -> headerStream
    [] t = "logs" -> logStream
    [] OTHER -> pendingTxStream

\* The field is read by the read loop, the rest happens in the new goroutine.
GoSubscribe(c) ==
  /\ loop[c] = "go"
  /\ subs' = Append(subs, [pc |-> "read", conn |-> c, stream |-> StreamOf(topic[c]), offset |-> -1,
                           next |-> 0, channel |-> 0, cancelled |-> FALSE])
  /\ subscriptions' = [subscriptions EXCEPT ![c] = @ \cup {Len(subs')}]
  /\ told' = Append(told, <<>>)
  /\ topic' = [topic EXCEPT ![c] = "newHeads"]
  /\ Goes(c, "reply")
  /\ UNCHANGED <<streamFields, crashed, conn>>

----------------------------------------------------------------------------
\* Events: start receives those of CometBFT, CheckTx adds pending transactions.

FeedAdds(f, t) ==
  /\ feeds[f][t] < plan.events[t]
  /\ feeds' = [feeds EXCEPT ![f][t] = @ + 1]
  /\ streams' = [streams EXCEPT ![StreamOf(t)] = Append(@, feeds[f][t] + 1)]
  /\ UNCHANGED <<headerStream, logStream, crashed, conn, loop, topic, subscriptions, subs, told>>

ListenPendingTx ==
  /\ Len(streams[pendingTxStream]) < plan.events["newPendingTransactions"]
  /\ streams' = [streams EXCEPT ![pendingTxStream] = Append(@, Len(@) + 1)]
  /\ UNCHANGED <<headerStream, logStream, feeds, crashed, conn, loop, topic, subscriptions, subs, told>>

----------------------------------------------------------------------------
\* The goroutine of a subscription: Stream.Subscribe with the callback that writes
\* to the connection.

Sub(id, label) == subs[id].pc = label

\* Of a goroutine that has returned only its connection is of interest.
Ended(id, label) == [subs[id] EXCEPT !.pc = label, !.stream = NoStream, !.offset = -1, !.next = 0,
                                     !.channel = 0, !.cancelled = TRUE]

\* The first read only finds out where the stream ends.  On no stream at all it is
\* a nil pointer, which ends the process.
SubRead(id) ==
  LET s == subs[id]
      last == Len(streams[s.stream])
  IN  /\ Sub(id, "read")
      /\ IF s.stream = NoStream
         THEN crashed' = TRUE /\ UNCHANGED subs
         ELSE /\ subs' = [subs EXCEPT ![id] =
                   IF s.offset \in {-1, last}
                   THEN [s EXCEPT !.pc = "unlocked", !.offset = last]
                   ELSE [s EXCEPT !.pc = "write", !.next = s.offset + 1, !.offset = last]]
              /\ UNCHANGED crashed
      /\ UNCHANGED <<streamFields, conn, loop, topic, subscriptions, told>>

SubWait(id) ==
  /\ Sub(id, "unlocked")
  /\ subs' = [subs EXCEPT ![id] = [subs[id] EXCEPT !.pc = "waiting",
                                                 !.channel = Len(streams[subs[id].stream])]]
  /\ UNCHANGED <<streamFields, crashed, conn, loop, topic, subscriptions, told>>

\* Both may be so; then either case of the select is taken.
SubWake(id) ==
  /\ Sub(id, "waiting")
  /\ \/ /\ Len(streams[subs[id].stream]) > subs[id].channel
        /\ subs' = [subs EXCEPT ![id] = [subs[id] EXCEPT !.pc = "read", !.channel = 0]]
     \/ subs[id].cancelled /\ subs' = [subs EXCEPT ![id] = Ended(id, "done")]
  /\ UNCHANGED <<streamFields, crashed, conn, loop, topic, subscriptions, told>>

\* Mutant: the connection is left to its read loop.
AfterFailure_Kept(c) == conn

\* The peer is dropped, unless the error is that a close frame was sent already.
AfterFailure(c) == [conn EXCEPT ![c] = IF @ = "closeSent" THEN @ ELSE "closed"]

\* One notification is written; the context is not looked at.
SubWrite(id) ==
  LET s == subs[id]
  IN  /\ Sub(id, "write")
      /\ \/ /\ conn[s.conn] \in {"open", "lost"}
            /\ told' = [told EXCEPT ![id] = Append(@, streams[s.stream][s.next])]
            /\ subs' = [subs EXCEPT ![id] = IF s.next = s.offset THEN [s EXCEPT !.pc = "read", !.next = 0]
                                            ELSE [s EXCEPT !.next = s.next + 1]]
            /\ UNCHANGED conn
         \/ /\ conn[s.conn] # "open"
            /\ conn' = AfterFailure(s.conn)
            /\ subs' = [subs EXCEPT ![id] = Ended(id, "dropped")]
            /\ UNCHANGED told
      /\ UNCHANGED <<streamFields, crashed, loop, topic, subscriptions>>

----------------------------------------------------------------------------
\* What a read loop does without waiting for its peer.
LoopStep(c) ==
  \/ Reply(c) \/ InitCheck(c) \/ InitHeaderStream(c) \/ InitLogStream(c)
  \/ InitSubscribeBlocks(c) \/ InitSubscribeLogs(c) \/ GoSubscribe(c)

SubStep(id) == SubRead(id) \/ SubWait(id) \/ SubWake(id) \/ SubWrite(id)

Running == ~crashed /\ UNCHANGED plan

ServerNext ==
  /\ Running
  /\ \/ \E c \in Conns :
          \/ PeerLost(c) \/ CloseReceived(c) \/ ReadFails(c) \/ LoopStep(c)
          \/ \E t \in Topics : EthSubscribe(c, t)
          \/ \E id \in SubIDs : EthUnsubscribe(c, id)
     \/ \E id \in SubIDs : SubStep(id)
     \/ \E f \in DOMAIN feeds, t \in {"newHeads", "logs"} : FeedAdds(f, t)
     \/ ListenPendingTx

\* Goroutines are scheduled, and a read of a connection that was closed here or by a
\* close frame returns.  Nothing is assumed of peers: a lost one may never be noticed.
ServerFairness ==
  /\ \A c \in Conns :
       /\ WF_serverVars(Running /\ LoopStep(c))
       /\ WF_serverVars(Running /\ conn[c] \in {"closeSent", "closed"} /\ ReadFails(c))
  /\ \A id \in 1 .. MaxSubs : WF_serverVars(Running /\ id \in SubIDs /\ SubStep(id))

ServerSpec == NewRPCStreams /\ [][ServerNext]_serverVars

----------------------------------------------------------------------------
\* Connections that ask for the streams at the same time set them up side by side,
\* but no subscription is notified of an event twice, or of an earlier one after a
\* later one (initSubscriptions, start).
NotifiedOnce ==
  \A id \in SubIDs : \A j, k \in DOMAIN told[id] : j < k => told[id][j] < told[id][k]

\* "error writing header, will drop peer" (subscribeNewHeads): when one subscription
\* cannot write, every other one of that connection ends too, though its goroutine
\* waits for events that may never come and the read loop may be serving a request.
PeerDropped ==
  \A id \in 1 .. MaxSubs :
    (id \in SubIDs /\ \E other \in SubIDs : Sub(other, "dropped") /\ subs[other].conn = subs[id].conn)
      ~> (crashed \/ (id \in SubIDs /\ subs[id].pc \in {"done", "dropped"}))

===============================================================================
