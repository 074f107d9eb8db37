------------------------------- MODULE EvmBlock -------------------------------
(***************************************************************************)
(* The life of a block: BeginBlock sets the base fee, transactions pass    *)
(* the ante handler and run, EndBlock notes the gas for the next block.    *)
(*                                                                         *)
(* The effects of the ante handler stay when the messages fail, run out of *)
(* block gas or return an error: fee and nonce are gone.  What a contract  *)
(* does is a choice: the gas it uses and gives back, whether it and the    *)
(* hooks after it succeed, the logs, nonces that it uses of the sender.    *)
(* Sums of gas stay far below 2^63, which EndBlock checks.                 *)
(***************************************************************************)
EXTENDS FeeMarket, Totals, Sequences

CONSTANTS
  Accounts,
  Scenarios,        \* records [params, changes, maxGas, balance, ethTxs, cosmosTxs]
  IntrinsicGas,
  RefundQuotient,
  MaxNonce,         \* bound: 2^64 - 1 in the code
  MaxHeight         \* bound: blocks

EthTxs ==
  [from : Accounts, to : Accounts, nonce : Nat, gas : Nat, feeCap : Nat, tip : Nat,
   value : Nat, create : BOOLEAN]

CosmosTxs ==
  [from : Accounts, to : Accounts, nonce : Nat, gas : Nat, fee : Nat, tip : Nat, value : Nat]

ASSUME BlockAssumption ==
  /\ {IntrinsicGas, RefundQuotient} \subseteq Nat \ {0}
  /\ {MaxNonce, MaxHeight} \subseteq Nat
  /\ Scenarios \subseteq [params : Params, changes : SUBSET Params, maxGas : Nat,
                          balance : [Accounts -> Nat],
                          ethTxs : SUBSET EthTxs, cosmosTxs : SUBSET CosmosTxs]

VARIABLES
  scenario,
  height,
  phase,            \* between blocks, or in one
  params,           \* parameters of the fee market, the base fee among them
  blockGasWanted,   \* what the last EndBlock noted
  chain,            \* [balance, nonce, collector]: accounts and the fee collector
  block,            \* [gas, gasWanted, txIndex, logSize]: block gas meter, transient store
  executed,         \* history: receipts of the Ethereum transactions of the block
  due,              \* history: fees that the transactions of the block owe
  used              \* history: (sender, nonce) of every transaction taken into a block

vars == <<scenario, height, phase, params, blockGasWanted, chain, block, executed, due, used>>

EmptyBlock == [gas |-> 0, gasWanted |-> 0, txIndex |-> 0, logSize |-> 0]

Init ==
  /\ scenario \in Scenarios
  /\ height = 0 /\ phase = "between"
  /\ params = scenario.params
  /\ blockGasWanted = 0
  /\ chain = [balance |-> scenario.balance, nonce |-> [a \in Accounts |-> 0], collector |-> 0]
  /\ block = EmptyBlock
  /\ executed = <<>> /\ due = 0 /\ used = {}

----------------------------------------------------------------------------
\* Prices.

EffectivePrice(tx) == AtMost(tx.tip + GetBaseFee(params), tx.feeCap)

\* The price in the message that ApplyTransaction makes.
GasPrice(tx) == AtMost(tx.tip + KeeperBaseFee(params), tx.feeCap)

\* Of a Cosmos transaction, a decimal number.  The base fee counts here even if the
\* fee market is off.
CosmosFeeCap(tx) == (tx.fee * Precision) \div tx.gas

CosmosPrice(tx) == AtMost(tx.tip * Precision + params.baseFee, CosmosFeeCap(tx))

CosmosFee(tx) == Ceil(CosmosPrice(tx) * tx.gas)

----------------------------------------------------------------------------
\* The ante handlers.

\* baseapp runs no transaction once the block gas is used up.
BlockGasLeft == block.gas < scenario.maxGas

CheckGlobalFee(tx) == EffectivePrice(tx) * Precision >= params.minGasPrice

CheckSenderBalance(tx) == tx.gas * tx.feeCap + tx.value <= chain.balance[tx.from]

MonoAccepts(tx) ==
  /\ tx.tip <= tx.feeCap /\ tx.gas >= IntrinsicGas
  /\ tx.feeCap >= GetBaseFee(params)
  /\ CheckGlobalFee(tx)
  /\ CheckSenderBalance(tx)
  /\ tx.nonce = chain.nonce[tx.from] /\ tx.nonce < MaxNonce
  /\ tx.gas <= scenario.maxGas

CosmosAccepts(tx) ==
  /\ tx.gas > 0
  /\ tx.fee >= Ceil(params.minGasPrice * tx.gas)
  /\ CosmosFeeCap(tx) >= params.baseFee
  /\ CosmosFee(tx) <= chain.balance[tx.from]
  /\ tx.nonce = chain.nonce[tx.from] /\ tx.nonce < MaxNonce
  /\ tx.gas <= scenario.maxGas

\* The fee is taken and the nonce is used.
TakeFee(tx, fee) ==
  [chain EXCEPT !.balance[tx.from] = @ - fee, !.nonce[tx.from] = @ + 1, !.collector = @ + fee]

\* Gas is counted for the base fee only if there is one.
CheckGasWanted(tx) ==
  IF IsBaseFeeEnabled(params, height) THEN [block EXCEPT !.gasWanted = @ + tx.gas] ELSE block

----------------------------------------------------------------------------
\* Running an Ethereum transaction.

\* The EVM gives back a part of the gas; a share of the limit is charged at least.
GasUsed(tx, maxUsedGas, refund) ==
  AtLeast(maxUsedGas - refund, TruncateInt(tx.gas * MinGasMultiplier))

\* What was left goes back, at the price of the message.
RefundGas(c, tx, leftover) ==
  [c EXCEPT !.balance[tx.from] = @ + leftover * GasPrice(tx),
            !.collector = @ - leftover * GasPrice(tx)]

Pay(c, tx) ==
  [c EXCEPT !.balance = [a \in Accounts |->
      c.balance[a] - (IF a = tx.from THEN tx.value ELSE 0) + (IF a = tx.to THEN tx.value ELSE 0)]]

\* Mutant: a creation leaves the nonce where the ante handler found it.
SenderNonce_Reset(tx, extra) == IF tx.create THEN tx.nonce ELSE tx.nonce + 1 + extra

\* A creation sets the nonce of its sender at its end; a call of a sender with
\* delegated code may use more nonces.
SenderNonce(tx, extra) == IF tx.create THEN tx.nonce + 1 ELSE tx.nonce + 1 + extra

\* What a transaction leaves when it and the hooks succeed.
Success(c, tx, extra) == [Pay(c, tx) EXCEPT !.nonce[tx.from] = SenderNonce(tx, extra)]

Receipt(tx, gasUsed, logs) ==
  [index |-> block.txIndex, firstLog |-> block.logSize, logs |-> logs, gasUsed |-> gasUsed]

WithinBlockGas(gasUsed) == block.gas + gasUsed <= scenario.maxGas

\* Mutant: the ante handler takes the index already.
Counted_Index(tx, gas) == [CheckGasWanted(tx) EXCEPT !.gas = @ + gas, !.txIndex = @ + 1]

\* The gas asked for is noted in the ante handler, the gas used after the messages.
Counted(tx, gas) == [CheckGasWanted(tx) EXCEPT !.gas = @ + gas]

\* What holds of each transaction that passes the ante handler, for a fee that it owes.
Take(tx, fee) ==
  /\ phase = "in" /\ BlockGasLeft
  /\ used' = used \cup {[from |-> tx.from, nonce |-> tx.nonce]}
  /\ due' = due + fee
  /\ UNCHANGED <<scenario, height, phase, params, blockGasWanted>>

\* The transaction runs, with or without success; a failed one has no logs.
DeliverEthereumTx ==
  \E tx \in scenario.ethTxs : \E maxUsedGas \in IntrinsicGas .. tx.gas, success \in BOOLEAN :
  \E refund \in 0 .. maxUsedGas \div RefundQuotient, logs \in 0 .. 1, extra \in 0 .. 1 :
    LET gasUsed == GasUsed(tx, maxUsedGas, refund)
        paid == TakeFee(tx, tx.gas * EffectivePrice(tx))
        done == IF success THEN Success(paid, tx, extra) ELSE paid
        shown == IF success THEN logs ELSE 0
    IN  /\ MonoAccepts(tx) /\ WithinBlockGas(gasUsed)
        /\ Take(tx, gasUsed * EffectivePrice(tx))
        /\ chain' = RefundGas(done, tx, tx.gas - gasUsed)
        /\ block' = [Counted(tx, gasUsed) EXCEPT !.txIndex = @ + 1, !.logSize = @ + shown]
        /\ executed' = Append(executed, Receipt(tx, gasUsed, shown))

\* The messages fail: the block gas does not suffice, or an error is returned after
\* which all gas is consumed.  Only the effects of the ante handler stay.
FailEthereumTx ==
  \E tx \in scenario.ethTxs, gas \in 1 .. scenario.maxGas :
    /\ MonoAccepts(tx)
    /\ gas <= tx.gas /\ gas >= GasUsed(tx, IntrinsicGas, IntrinsicGas \div RefundQuotient)
    /\ gas < tx.gas => ~WithinBlockGas(gas)
    /\ Take(tx, tx.gas * EffectivePrice(tx))
    /\ chain' = TakeFee(tx, tx.gas * EffectivePrice(tx))
    /\ block' = Counted(tx, gas)
    /\ UNCHANGED executed

\* A Cosmos transaction that sends coins, or fails; its fee is not refunded.
DeliverCosmosTx ==
  \E tx \in scenario.cosmosTxs, success \in BOOLEAN : \E gas \in 1 .. tx.gas :
    LET paid == TakeFee(tx, CosmosFee(tx))
        sent == success /\ WithinBlockGas(gas) /\ tx.value <= paid.balance[tx.from]
    IN  /\ CosmosAccepts(tx)
        /\ Take(tx, CosmosFee(tx))
        /\ chain' = IF sent THEN Pay(paid, tx) ELSE paid
        /\ block' = Counted(tx, gas)
        /\ UNCHANGED executed

\* A transaction that the ante handler turns away leaves nothing but the gas it used.
RejectCosmosTx ==
  \E tx \in scenario.cosmosTxs : \E gas \in 1 .. tx.gas :
    /\ phase = "in" /\ BlockGasLeft /\ ~CosmosAccepts(tx)
    /\ block' = [block EXCEPT !.gas = @ + gas]
    /\ UNCHANGED <<scenario, height, phase, params, blockGasWanted, chain, executed, due, used>>

----------------------------------------------------------------------------
\* Blocks.

\* Last in BeginBlock, the fees of the last block are burned and distributed.
BeginBlock ==
  /\ phase = "between" /\ height < MaxHeight
  /\ height' = height + 1 /\ phase' = "in"
  /\ params' = [params EXCEPT !.baseFee =
                  CalculateBaseFee(params, height + 1, blockGasWanted, scenario.maxGas)]
  /\ chain' = [chain EXCEPT !.collector = 0]
  /\ block' = EmptyBlock
  /\ executed' = <<>> /\ due' = 0
  /\ UNCHANGED <<scenario, blockGasWanted, used>>

\* Proposals of x/gov that passed come first and may replace the parameters.
EndBlock ==
  /\ phase = "in" /\ phase' = "between"
  /\ params' \in {params} \cup scenario.changes
  /\ blockGasWanted' = UpdatedGasWanted(block.gasWanted, AtMost(block.gas, scenario.maxGas))
  /\ UNCHANGED <<scenario, height, chain, block, executed, due, used>>

Next ==
  \/ BeginBlock \/ EndBlock
  \/ DeliverEthereumTx \/ FailEthereumTx
  \/ DeliverCosmosTx \/ RejectCosmosTx

Spec == Init /\ [][Next]_vars

----------------------------------------------------------------------------
\* What was deducted for the gas limit less what was refunded is the price of the gas
\* used, at one price from the ante handler to RefundGas: the collector holds that, and
\* the whole fee of what failed after the ante handler.  Nobody pays what they do not
\* have: the ante handler keeps back what is sent and refunded later.
FeesExact ==
  /\ chain.collector = due
  /\ \A a \in Accounts : chain.balance[a] >= 0

\* A nonce that was used once is behind the account's nonce for good, whether the
\* transaction succeeded, failed, ran out of block gas, or created a contract.
NoReplay == \A u \in used : u.nonce < chain.nonce[u.from]

\* The receipts of a block add up, whatever failed between the transactions they
\* are of: they and their logs are numbered without gaps (SetTxIndexTransient,
\* SetLogSizeTransient), and what they say was used fits into the block's gas.
ReceiptsAddUp ==
  /\ block.txIndex = Len(executed)
  /\ \A i \in DOMAIN executed :
       /\ executed[i].index = i - 1
       /\ executed[i].firstLog = IF i = 1 THEN 0 ELSE executed[i - 1].firstLog + executed[i - 1].logs
  /\ Total([i \in DOMAIN executed |-> executed[i].gasUsed]) <= scenario.maxGas

\* With the fee market on, a block over the gas target raises the base fee of the next
\* one by a unit at least, and a block whose transactions used and asked for no more
\* than the target does not raise it, but to the minimum gas price.
BaseFeeFollowsGas ==
  [][LET target == GasTarget(scenario.maxGas)
     IN  BeginBlock /\ IsBaseFeeEnabled(params, height') /\ height' # params.enableHeight =>
           /\ AtMost(block.gas, scenario.maxGas) > target /\ target > 0 =>
                params'.baseFee >= params.baseFee + Precision
           /\ block.gas <= target /\ block.gasWanted <= target =>
                params'.baseFee <= AtLeast(params.baseFee, params.minGasPrice)]_vars

===============================================================================
