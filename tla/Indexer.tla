------------------------------ MODULE Indexer ------------------------------
(***************************************************************************)
(* The index of Ethereum transactions a node keeps beside the chain:       *)
(* indexer/kv_indexer.go (the database), server/indexer_service.go (the    *)
(* service that follows the chain) and server/indexer_cmd.go (the commands *)
(* that index past blocks while the node is down).                         *)
(*                                                                         *)
(* The service, the commands and the commits of the chain are separate     *)
(* processes; the node may stop at any step, and keeps the chain and the   *)
(* database.  A transaction is named by its block and position: that no    *)
(* Ethereum transaction is executed twice is NoReplay of EvmBlock.         *)
(***************************************************************************)
EXTENDS Integers, Sequences, FiniteSetsExt

CONSTANTS Blocks,       \* the contents a block may have: sequences of Kinds
          MaxHeight,    \* bound on the chain
          MaxStops      \* bound on the stops of the node

(* How a transaction of a block ended: an executed Ethereum transaction, one *)
(* without the events the indexer looks for, one that failed in an expected  *)
(* way, one dropped otherwise, or a Cosmos one.                              *)
Kinds == {"executed", "eventless", "exceeded", "dropped", "cosmos"}

ASSUME BlocksAssumption == Blocks \subseteq Seq(Kinds)

VARIABLES blocks,       \* the chain in the node's block store
          db,           \* entries <<height, eth index, position in the block>>
          missed,       \* history: heights the service failed to index
          mode, latestBlock, lastBlock, blockErr, i,    \* the service or command
          headers,      \* headers published to the service, not yet received
          stops

service == <<latestBlock, lastBlock, blockErr, headers>>
indexVars == <<blocks, db, missed, mode, latestBlock, lastBlock, blockErr, i, headers, stops>>

Height == Len(blocks)

----------------------------------------------------------------------------
(* The database. *)

TxSucessOrExpectedFailure(kind) == kind # "dropped"
isEthTx(kind) == kind # "cosmos"

(* ParseTxResult and GetTxByMsgIndex find what they need. *)
HasEvents(kind) == kind # "eventless"

Indexed(kind) == TxSucessOrExpectedFailure(kind) /\ isEthTx(kind) /\ HasEvents(kind)

(* IndexBlock numbers the Ethereum transactions from 0 and writes one batch. *)
EthIndex_Tx(block, p) == p - 1
EthIndex(block, p) == Cardinality({q \in 1..(p - 1) : Indexed(block[q])})
IndexBlock(h) ==
  {<<h, EthIndex(blocks[h], p), p>> : p \in {q \in DOMAIN blocks[h] : Indexed(blocks[h][q])}}

LoadFirstBlock == IF db = {} THEN -1 ELSE Min({e[1] : e \in db})
LoadLastBlock == IF db = {} THEN -1 ELSE Max({e[1] : e \in db})

(* The list eth_getBlock returns: positions of the block, in order. *)
EthMsgsFromCometBlock(block) ==
  SelectSeq([p \in DOMAIN block |-> p],
            LAMBDA p : TxSucessOrExpectedFailure(block[p]) /\ block[p] # "cosmos")

----------------------------------------------------------------------------
(* The node: up and committing blocks, or down. *)

NodeUp == mode \in {"up", "status", "subscribed", "loop", "scan"}
Subscribed == mode \in {"subscribed", "loop", "scan"}
Serving == mode \in {"loop", "scan"}

CommitBlock(b) ==
  /\ NodeUp
  /\ Height < MaxHeight
  /\ blocks' = Append(blocks, b)
  /\ headers' = IF Subscribed THEN Append(headers, Height + 1) ELSE headers
  /\ UNCHANGED <<db, missed, mode, latestBlock, lastBlock, blockErr, i, stops>>

StartNode ==
  /\ mode = "down"
  /\ mode' = "up"
  /\ UNCHANGED <<blocks, db, missed, service, i, stops>>

(* The node or a command ends at any step, and with it what is in memory. *)
Stop ==
  /\ mode # "down"
  /\ stops < MaxStops
  /\ mode' = "down"
  /\ latestBlock' = 0 /\ lastBlock' = 0 /\ blockErr' = FALSE
  /\ headers' = << >> /\ i' = 0
  /\ stops' = stops + 1
  /\ UNCHANGED <<blocks, db, missed>>

----------------------------------------------------------------------------
(* EVMIndexerService.OnStart, and the goroutine that receives headers. *)

Status ==
  /\ mode = "up"
  /\ mode' = "status"
  /\ latestBlock' = Height
  /\ UNCHANGED <<blocks, db, missed, lastBlock, blockErr, i, headers, stops>>

Subscribe ==
  /\ mode = "status"
  /\ mode' = "subscribed"
  /\ UNCHANGED <<blocks, db, missed, service, i, stops>>

(* latestBlock is written by the header goroutine and read by the loop with *)
(* no lock: every read may see the value of before or after.                *)
ReceiveHeader ==
  /\ headers # << >>
  /\ latestBlock' = Max({latestBlock, Head(headers)})
  /\ headers' = Tail(headers)
  /\ UNCHANGED <<blocks, db, missed, mode, lastBlock, blockErr, i, stops>>

(* An empty database makes the service begin after the latest block. *)
FirstLastBlock == IF LoadLastBlock = -1 THEN latestBlock ELSE LoadLastBlock
Resume ==
  /\ mode = "subscribed"
  /\ mode' = "loop"
  /\ lastBlock' = FirstLastBlock
  /\ UNCHANGED <<blocks, db, missed, latestBlock, blockErr, i, headers, stops>>

(* The wait for a signal or the time-out ends in the same test again, so the *)
(* loop is a guard; blockErr is not reset by the wait.                       *)
NothingToDo_Ahead == latestBlock <= lastBlock + 1 \/ blockErr
NothingToDo == latestBlock <= lastBlock \/ blockErr
EnterScan ==
  /\ mode = "loop"
  /\ ~NothingToDo
  /\ mode' = "scan"
  /\ i' = lastBlock + 1
  /\ UNCHANGED <<blocks, db, missed, service, stops>>

LeaveScan ==
  /\ mode = "scan"
  /\ i > latestBlock
  /\ mode' = "loop"
  /\ i' = 0
  /\ UNCHANGED <<blocks, db, missed, service, stops>>

(* Block or BlockResults fails: the loop is left with blockErr set. *)
FetchFails ==
  /\ mode = "scan"
  /\ i <= latestBlock
  /\ mode' = "loop"
  /\ blockErr' = TRUE
  /\ i' = 0
  /\ UNCHANGED <<blocks, db, missed, latestBlock, lastBlock, headers, stops>>

IndexNext ==
  /\ mode = "scan"
  /\ i <= latestBlock
  /\ db' = db \cup IndexBlock(i)
  /\ lastBlock' = i
  /\ missed' = missed \ {i}
  /\ blockErr' = FALSE
  /\ i' = i + 1
  /\ UNCHANGED <<blocks, mode, latestBlock, headers, stops>>

(* A failing batch is logged, and the service goes on to the next block. *)
IndexFails ==
  /\ mode = "scan"
  /\ i <= latestBlock
  /\ missed' = missed \cup {i}
  /\ lastBlock' = i
  /\ blockErr' = FALSE
  /\ i' = i + 1
  /\ UNCHANGED <<blocks, db, mode, latestBlock, headers, stops>>

----------------------------------------------------------------------------
(* The commands index-eth-tx backward and forward, which need the node down. *)
(* A command that fails at a block returns: Stop.                            *)

BackwardFrom_Skip == (IF LoadFirstBlock = -1 THEN Height ELSE LoadFirstBlock) - 2
BackwardFrom == (IF LoadFirstBlock = -1 THEN Height ELSE LoadFirstBlock) - 1
ForwardFrom == (IF LoadLastBlock = -1 THEN 0 ELSE LoadLastBlock) + 1

Backward ==
  /\ mode = "down"
  /\ mode' = "backward"
  /\ i' = BackwardFrom
  /\ UNCHANGED <<blocks, db, missed, service, stops>>

Forward ==
  /\ mode = "down"
  /\ mode' = "forward"
  /\ i' = ForwardFrom
  /\ UNCHANGED <<blocks, db, missed, service, stops>>

CommandStep ==
  /\ mode \in {"backward", "forward"}
  /\ i \in 1..Height
  /\ db' = db \cup IndexBlock(i)
  /\ i' = IF mode = "backward" THEN i - 1 ELSE i + 1
  /\ missed' = missed \ {i}
  /\ UNCHANGED <<blocks, mode, service, stops>>

CommandEnd ==
  /\ mode \in {"backward", "forward"}
  /\ i \notin 1..Height
  /\ mode' = "down"
  /\ i' = 0
  /\ UNCHANGED <<blocks, db, missed, service, stops>>

----------------------------------------------------------------------------
IndexInit ==
  /\ blocks = << >> /\ db = {} /\ missed = {}
  /\ mode = "down" /\ latestBlock = 0 /\ lastBlock = 0 /\ blockErr = FALSE /\ i = 0
  /\ headers = << >> /\ stops = 0

Command == Backward \/ Forward \/ CommandStep \/ CommandEnd

IndexerNext ==
  \/ \E b \in Blocks : CommitBlock(b)
  \/ StartNode \/ Stop
  \/ Status \/ Subscribe \/ ReceiveHeader \/ Resume
  \/ EnterScan \/ LeaveScan \/ FetchFails \/ IndexNext \/ IndexFails
  \/ Command

(* Goroutines that can run do run, and a fetch that is tried again and again *)
(* succeeds some time.                                                       *)
IndexFairness ==
  /\ WF_indexVars(ReceiveHeader) /\ WF_indexVars(Resume)
  /\ WF_indexVars(EnterScan) /\ WF_indexVars(LeaveScan)
  /\ SF_indexVars(IndexNext)

IndexSpec == IndexInit /\ [][IndexerNext]_indexVars

----------------------------------------------------------------------------
(* Whatever stops, restarts and commands there were, every block with        *)
(* Ethereum transactions between the first indexed one and the last one      *)
(* indexed or passed by the service is indexed, unless the service failed to *)
(* write it: "to avoid creating gaps in the indexer db" (NewIndexTxCmd).     *)
NoGap ==
  \A h \in 1..Height :
    /\ db # {}
    /\ LoadFirstBlock <= h
    /\ h <= LoadLastBlock \/ (Serving /\ h <= lastBlock)
    /\ h \notin missed
    => IndexBlock(h) \subseteq db

(* The number an entry gives a transaction is its place in the list of       *)
(* eth_getBlock, whichever transactions of the block were dropped, exceeded  *)
(* the block gas or were Cosmos ones, as long as none before it lacked its   *)
(* events: the list has that one (IndexBlock, EthMsgsFromCometBlock).        *)
IndexMatchesList ==
  \A e \in db :
    LET list == EthMsgsFromCometBlock(blocks[e[1]]) IN
      (\A q \in 1..(e[3] - 1) : HasEvents(blocks[e[1]][q]))
        => e[2] < Len(list) /\ list[e[2] + 1] = e[3]

(* Time and again the service has passed every block it has the header of,   *)
(* unless it stops or a fetch failed (OnStart, the loop); the chain comes to *)
(* an end, so that it need not race the blocks.                              *)
IndexCatchesUp == []<>(lastBlock >= latestBlock \/ ~Serving \/ blockErr)

(* The same of each block, after a failed fetch too: "in this case, wait     *)
(* before retrying the data fetching" (OnStart, the loop).                   *)
RetriesFetch ==
  \A h \in 1..MaxHeight :
    (Serving /\ latestBlock >= h) ~> (lastBlock >= h \/ ~Serving)
============================================================================
