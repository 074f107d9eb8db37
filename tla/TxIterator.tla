----------------------------- MODULE TxIterator -----------------------------
(***************************************************************************)
(* The building of a proposal: SelectBy goes through the transactions of   *)
(* the Ethereum pool and of the Cosmos pool, the better tip first, and     *)
(* hands each to a function that may stop it.                              *)
(*                                                                         *)
(* SelectBy holds the mutex of the mempool, so the pools stand still.  The *)
(* goroutine that follows the blocks does not take it: the header by which *)
(* Cosmos tips are computed may change between any two calls, while        *)
(* Ethereum tips keep to the base fee of the proposal's context.           *)
(***************************************************************************)
EXTENDS Integers, Sequences, FiniteSetsExt

CONSTANTS
  Senders,      \* accounts with Ethereum transactions
  EvmPools,     \* what may be pending: for each sender a sequence of [cap, tip, time]
  CosmosPools,  \* what the Cosmos pool may hold: sequences of gas prices
  BaseFees,
  NoFee,        \* there is no base fee, or no header to take it from
  MinTips,      \* settings of the least tip, NoFee for none
  MaxHeads      \* bound: changes of the base fee during a proposal

ASSUME TxIteratorAssumption ==
  /\ BaseFees \subseteq Nat /\ NoFee \notin BaseFees
  /\ MinTips \subseteq Nat \cup {NoFee}

VARIABLES
  evmTxs,       \* pending transactions by sender
  at,           \* at[s]: position of the head of s in the price heap, 0 without
  cosmosTxs,    \* gas prices of the Cosmos transactions, in the order of their pool
  cosmosAt,     \* position of the Cosmos iterator
  selectFee,    \* base fee of the context of the proposal
  headFee,      \* base fee of the current header
  heads,        \* how many times it changed during the proposal
  phase,        \* "idle", "tx", "next" or "done"
  offered,      \* what was handed out: <<sender, position>> or <<"cosmos", position>>
  stopped       \* whether the function stopped it

iteratorVars ==
  <<evmTxs, at, cosmosTxs, cosmosAt, selectFee, headFee, heads, phase, offered, stopped>>

-----------------------------------------------------------------------------
\* The Ethereum side.

\* The tip that is left to the proposer.
MinerTip(tx, fee) ==
  IF fee = NoFee \/ tx.cap - fee > tx.tip THEN tx.tip ELSE tx.cap - fee

\* newTxWithMinerFee has no error.
Affordable(tx, fee) == fee = NoFee \/ tx.cap >= fee

\* Pending caps the list of each account at the first tip that is too low.
Pending(pool, minTip, fee) ==
  [s \in Senders |->
     LET low == {i \in DOMAIN pool[s] : minTip # NoFee /\ MinerTip(pool[s][i], fee) < minTip}
     IN  IF low = {} THEN pool[s] ELSE SubSeq(pool[s], 1, Min(low) - 1)]

\* The heap begins with the first transaction of each account that can pay.
NewTransactionsByPriceAndNonce(txs, fee) ==
  [s \in Senders |-> IF txs[s] # <<>> /\ Affordable(txs[s][1], fee) THEN 1 ELSE 0]

InHeap == {s \in Senders : at[s] # 0}

HeadOf(s) == evmTxs[s][at[s]]

\* The order of the heap: the higher tip, then the earlier time.
Less(s, t) ==
  \/ MinerTip(HeadOf(s), selectFee) > MinerTip(HeadOf(t), selectFee)
  \/ /\ MinerTip(HeadOf(s), selectFee) = MinerTip(HeadOf(t), selectFee)
     /\ HeadOf(s).time < HeadOf(t).time

Peek == CHOOSE s \in InHeap : \A t \in InHeap \ {s} : Less(s, t)

\* Mutant: the rest of the account is given up.
Shift_Pop == [at EXCEPT ![Peek] = 0]

\* The next transaction of the same account takes the place of the head, if it
\* can pay; else the account is given up.
Shift ==
  [at EXCEPT ![Peek] =
     IF @ < Len(evmTxs[Peek]) /\ Affordable(evmTxs[Peek][@ + 1], selectFee) THEN @ + 1 ELSE 0]

-----------------------------------------------------------------------------
\* Both sides.

HasCosmos == cosmosAt <= Len(cosmosTxs)

\* The tip of a Cosmos transaction: zero for a price below the base fee.
CosmosTip(price, fee) ==
  IF fee = NoFee THEN price ELSE IF price < fee THEN 0 ELSE price - fee

\* Mutant: the price is compared with a tip.
shouldUseEVM_Price ==
  /\ InHeap # {}
  /\ HasCosmos => cosmosTxs[cosmosAt] <= MinerTip(HeadOf(Peek), selectFee)

\* An Ethereum transaction is next unless the Cosmos one leaves a higher tip.
shouldUseEVM ==
  /\ InHeap # {}
  /\ HasCosmos =>
       LET tip == CosmosTip(cosmosTxs[cosmosAt], headFee)
       IN  tip = 0 \/ tip <= MinerTip(HeadOf(Peek), selectFee)

\* hasMoreTransactions has none to offer.
NothingLeft(heap, position, txs) == position > Len(txs) /\ \A s \in Senders : heap[s] = 0

\* There is no iterator over two empty pools.
NewEVMMempoolIterator(heap, txs) == IF NothingLeft(heap, 1, txs) THEN "done" ELSE "tx"

\* The transaction that is handed out.  A pending one has been decoded and its
\* signature checked, so that its conversion succeeds.
PreferredTransaction == IF shouldUseEVM THEN <<Peek, at[Peek]>> ELSE <<"cosmos", cosmosAt>>

\* Which side gave the last transaction is computed again.
advanceCurrentIterator ==
  \/ shouldUseEVM /\ at' = Shift /\ UNCHANGED cosmosAt
  \/ ~shouldUseEVM /\ cosmosAt' = cosmosAt + 1 /\ UNCHANGED at

\* SelectBy: the base fee of the context, the pools, and the iterators over them.
SelectBy ==
  /\ phase = "idle"
  /\ selectFee' \in BaseFees \cup {NoFee}
  /\ \E pool \in EvmPools, minTip \in MinTips :
       evmTxs' = Pending(pool, minTip, selectFee')
  /\ at' = NewTransactionsByPriceAndNonce(evmTxs', selectFee')
  /\ cosmosTxs' \in CosmosPools
  /\ phase' = NewEVMMempoolIterator(at', cosmosTxs')
  /\ UNCHANGED <<cosmosAt, headFee, heads, offered, stopped>>

\* Tx, and the function that gets the transaction.
OfferTx ==
  /\ phase = "tx"
  /\ offered' = Append(offered, PreferredTransaction)
  /\ \/ phase' = "next" /\ UNCHANGED stopped
     \/ phase' = "done" /\ stopped' = TRUE
  /\ UNCHANGED <<evmTxs, at, cosmosTxs, cosmosAt, selectFee, headFee, heads>>

\* Next.
AdvanceIterator ==
  /\ phase = "next"
  /\ advanceCurrentIterator
  /\ phase' = IF NothingLeft(at', cosmosAt', cosmosTxs) THEN "done" ELSE "tx"
  /\ UNCHANGED <<evmTxs, cosmosTxs, selectFee, headFee, heads, offered, stopped>>

\* A block while the proposal is built.  Without a context the header is the
\* zero header, which has no base fee.
HeaderMoves ==
  /\ phase \in {"tx", "next"}
  /\ heads < MaxHeads
  /\ headFee' \in (BaseFees \cup {NoFee}) \ {headFee}
  /\ heads' = heads + 1
  /\ UNCHANGED <<evmTxs, at, cosmosTxs, cosmosAt, selectFee, phase, offered, stopped>>

IteratorInit ==
  /\ evmTxs = [s \in Senders |-> <<>>]
  /\ at = [s \in Senders |-> 0]
  /\ cosmosTxs = <<>>
  /\ cosmosAt = 1
  /\ selectFee = NoFee
  /\ headFee \in BaseFees \cup {NoFee}
  /\ heads = 0
  /\ phase = "idle"
  /\ offered = <<>>
  /\ stopped = FALSE

IteratorNext == SelectBy \/ OfferTx \/ AdvanceIterator \/ HeaderMoves

-----------------------------------------------------------------------------
\* Properties.

\* All that can be offered in the nonce order of its sender: a transaction that
\* cannot pay ends its sender's list.
Offerable ==
  {<<"cosmos", i>> : i \in DOMAIN cosmosTxs}
    \cup UNION {{<<s, i>> : i \in {j \in DOMAIN evmTxs[s] :
                                     \A k \in 1 .. j : Affordable(evmTxs[s][k], selectFee)}} :
                s \in Senders}

Given == {offered[i] : i \in DOMAIN offered}

\* What was passed over: offerable, not given, and before something given.
Skipped ==
  {tx \in Offerable \ Given : \E later \in Given : later[1] = tx[1] /\ later[2] > tx[2]}

\* A proposal gets the transactions of an account in the order of their nonces
\* and those of the Cosmos pool in its order.  While the base fee of the header
\* stands, whether or not it is that of the proposal, it gets each once and, if
\* it goes on to the end, all; each change of that base fee costs it one
\* transaction at most, and gives it one again at most.
OffersInOrder ==
  /\ Given \subseteq Offerable
  /\ \A i, j \in DOMAIN offered :
       i < j /\ offered[i][1] = offered[j][1] => offered[i][2] <= offered[j][2]
  /\ Len(offered) - Cardinality(Given) <= heads
  /\ Cardinality(Skipped) <= heads
  /\ (phase = "done" /\ ~stopped) => Cardinality(Offerable \ Given) <= heads

Before(i) == {offered[j] : j \in 1 .. i - 1}

TipOf(tx) ==
  IF tx[1] = "cosmos"
  THEN CosmosTip(cosmosTxs[tx[2]], selectFee)
  ELSE MinerTip(evmTxs[tx[1]][tx[2]], selectFee)

\* When the header has the base fee of the proposal, nothing is offered before
\* a transaction that pays more and whose predecessors have all been offered,
\* across both pools.
BestFirst ==
  (heads = 0 /\ headFee = selectFee) =>
    \A i, j \in DOMAIN offered :
      (i < j /\ (offered[j][2] > 1 => <<offered[j][1], offered[j][2] - 1>> \in Before(i))) =>
        TipOf(offered[i]) >= TipOf(offered[j])

\* "It determines which iterator (EVM or Cosmos) provided the current transaction
\* and advances that iterator accordingly" (Next).
AdvancesWhatWasOffered ==
  [][(phase = "next" /\ phase' # "next") =>
       (cosmosAt' # cosmosAt <=> offered[Len(offered)][1] = "cosmos")]_iteratorVars
=============================================================================
