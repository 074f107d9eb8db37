----------------------------- MODULE MCRpcServer -----------------------------
(***************************************************************************)
(* The two services of the JSON-RPC server that follow the chain: the      *)
(* index of transactions and the websockets.  They share nothing, and a    *)
(* behaviour is of one of them.                                            *)
(***************************************************************************)
EXTENDS Indexer, Websockets, TLC

CONSTANTS c1, c2

VARIABLE part

\* A block without Ethereum transactions, and blocks that mix every way a
\* transaction can end.
MCBlocks == { << >>, <<"eventless", "executed">>,
              <<"cosmos", "exceeded", "dropped", "executed">> }

Events(heads, logs, txs) == [newHeads |-> heads, logs |-> logs, newPendingTransactions |-> txs]

\* Two connections that are the first to ask for the streams.
FirstUsers ==
  [asks |-> (c1 :> {"newHeads"}) @@ (c2 :> {"logs"}), lost |-> {},
   subs |-> 2, events |-> Events(2, 1, 0)]

\* One connection with two subscriptions, whose peer may be lost.
OnePeer ==
  [asks |-> (c1 :> {"newHeads", "newPendingTransactions"}) @@ (c2 :> {}), lost |-> {c1},
   subs |-> 2, events |-> Events(1, 0, 1)]

MCPlans == {FirstUsers, OnePeer}

MCVars == <<indexVars, serverVars, part>>

MCInit ==
  /\ IndexInit /\ NewRPCStreams
  /\ \/ part = "index" /\ plan = OnePeer
     \/ part = "server"

MCNext ==
  /\ UNCHANGED part
  /\ \/ part = "index" /\ IndexerNext /\ UNCHANGED serverVars
     \/ part = "server" /\ ServerNext /\ UNCHANGED indexVars

MCSpec == MCInit /\ [][MCNext]_MCVars /\ IndexFairness /\ ServerFairness

\* The index alone.
MCIndexing == MCInit /\ part = "index" /\ [][MCNext]_MCVars /\ IndexFairness

==============================================================================
