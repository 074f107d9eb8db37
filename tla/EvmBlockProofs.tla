---------------------------- MODULE EvmBlockProofs ----------------------------
(***************************************************************************)
(* What transactions pay, use and leave in their blocks, for any accounts, *)
(* prices, parameters and contents of blocks.                              *)
(***************************************************************************)
EXTENDS EvmBlock, TotalTheorems

Chains == [balance : [Accounts -> Nat], nonce : [Accounts -> Nat], collector : Nat]

Meters == [gas : Nat, gasWanted : Nat, txIndex : Nat, logSize : Nat]

Receipts == [index : Nat, firstLog : Nat, logs : Nat, gasUsed : Nat]

BlockTypeOK ==
  /\ scenario \in Scenarios
  /\ height \in Nat
  /\ phase \in {"between", "in"}
  /\ params \in Params
  /\ blockGasWanted \in Nat
  /\ chain \in Chains
  /\ block \in Meters
  /\ executed \in Seq(Receipts)
  /\ due \in Nat
  /\ used \subseteq [from : Accounts, nonce : Nat]

----------------------------------------------------------------------------
\* Arithmetic of prices.

\* A product of prices and gas grows with either.
LEMMA Products ==
  /\ \A a, b \in Nat : a * b \in Nat
  /\ \A a, b, c \in Nat : a <= b => c * a <= c * b
  /\ \A a, b, c \in Nat : (a - b) * c = a * c - b * c
  OBVIOUS

\* Rounding down leaves a number, not larger by a share of at most one.
LEMMA Quotients ==
  /\ \A a \in Nat, b \in Nat \ {0} : a \div b \in 0 .. a
  /\ \A a \in Nat, b \in Nat \ {0} : \A m \in 0 .. b : (a * m) \div b <= a
  OBVIOUS

\* What is assumed of the constants of x/feemarket, one by one.
LEMMA FeeMarketConstants ==
  /\ Precision \in Nat \ {0}
  /\ ElasticityMultiplier \in Nat \ {0}
  /\ BaseFeeChangeDenominator \in Nat \ {0}
  /\ MinGasMultiplier \in 0 .. Precision
  BY FeeMarketAssumption

\* The base fees that the ante handler and the keeper see are numbers, and the same.
LEMMA BaseFees ==
  ASSUME NEW p \in Params
  PROVE  GetBaseFee(p) \in Nat /\ KeeperBaseFee(p) = GetBaseFee(p)
<1>1. TruncateInt(p.baseFee) \in Nat
  BY FeeMarketConstants, Quotients DEF TruncateInt, Params
<1> QED
  BY <1>1 DEF GetBaseFee, KeeperBaseFee

\* The share of gas that is charged at least is part of the gas.
LEMMA Truncated ==
  ASSUME NEW gas \in Nat
  PROVE  TruncateInt(gas * MinGasMultiplier) \in 0 .. gas
<1>1. gas * MinGasMultiplier \in Nat
  BY Products, FeeMarketConstants
<1>2. (gas * MinGasMultiplier) \div Precision \in Nat
  BY <1>1, Quotients, FeeMarketConstants
<1>3. (gas * MinGasMultiplier) \div Precision <= gas
  BY Quotients, FeeMarketConstants
<1> QED
  BY <1>2, <1>3 DEF TruncateInt

\* The price is one from the ante handler to the refund, and not above the fee cap.
LEMMA OnePrice ==
  ASSUME BlockTypeOK, NEW tx \in EthTxs
  PROVE  /\ EffectivePrice(tx) \in Nat
         /\ EffectivePrice(tx) <= tx.feeCap
         /\ GasPrice(tx) = EffectivePrice(tx)
<1>1. GetBaseFee(params) \in Nat /\ KeeperBaseFee(params) = GetBaseFee(params)
  BY BaseFees DEF BlockTypeOK
<1>2. tx.tip \in Nat /\ tx.feeCap \in Nat
  BY DEF EthTxs
<1> QED
  BY <1>1, <1>2 DEF EffectivePrice, GasPrice, AtMost

\* The gas a transaction is charged is between what it used less the refund and
\* its limit.
LEMMA GasCharged ==
  ASSUME NEW tx \in EthTxs, NEW maxUsedGas \in 0 .. tx.gas, NEW refund \in 0 .. maxUsedGas
  PROVE  GasUsed(tx, maxUsedGas, refund) \in 0 .. tx.gas
<1>1. tx.gas \in Nat
  BY DEF EthTxs
<1>2. TruncateInt(tx.gas * MinGasMultiplier) \in 0 .. tx.gas
  BY <1>1, Truncated
<1> QED
  BY <1>1, <1>2 DEF GasUsed, AtLeast

----------------------------------------------------------------------------
\* The effects of a transaction on the accounts.

\* The ante handler takes a fee that the sender has.
LEMMA FeeTaken ==
  ASSUME BlockTypeOK, NEW tx, tx.from \in Accounts,
         NEW fee \in Nat, fee <= chain.balance[tx.from]
  PROVE  /\ TakeFee(tx, fee) \in Chains
         /\ TakeFee(tx, fee).balance[tx.from] = chain.balance[tx.from] - fee
         /\ TakeFee(tx, fee).collector = chain.collector + fee
         /\ TakeFee(tx, fee).nonce = [chain.nonce EXCEPT ![tx.from] = @ + 1]
<1> DEFINE b == [chain.balance EXCEPT ![tx.from] = @ - fee]
           n == [chain.nonce EXCEPT ![tx.from] = @ + 1]
<1>1. chain \in Chains
  BY DEF BlockTypeOK
<1>2. b \in [Accounts -> Nat] /\ b[tx.from] = chain.balance[tx.from] - fee
  BY <1>1 DEF Chains
<1>3. n \in [Accounts -> Nat]
  BY <1>1 DEF Chains
<1>4. TakeFee(tx, fee) = [chain EXCEPT !.balance = b, !.nonce = n, !.collector = @ + fee]
  BY <1>1 DEF TakeFee, Chains
<1>5. chain.collector + fee \in Nat
  BY <1>1 DEF Chains
<1> HIDE DEF b
<1> QED
  BY <1>1, <1>2, <1>3, <1>4, <1>5, Zenon DEF Chains

\* Coins move if the sender has them.
LEMMA Paid ==
  ASSUME NEW c \in Chains, NEW tx, tx.from \in Accounts, tx.to \in Accounts, tx.value \in Nat,
         tx.value <= c.balance[tx.from]
  PROVE  /\ Pay(c, tx) \in Chains
         /\ Pay(c, tx).collector = c.collector
         /\ Pay(c, tx).nonce = c.nonce
<1> DEFINE b == [a \in Accounts |->
      c.balance[a] - (IF a = tx.from THEN tx.value ELSE 0) + (IF a = tx.to THEN tx.value ELSE 0)]
<1>1. b \in [Accounts -> Nat]
  BY DEF Chains
<1>2. Pay(c, tx) = [c EXCEPT !.balance = b]
  BY DEF Pay
<1> HIDE DEF b
<1> QED
  BY <1>1, <1>2 DEF Chains

\* The state transition leaves the sender's nonce beyond that of the transaction.
LEMMA Succeeds ==
  ASSUME NEW c \in Chains, NEW tx \in EthTxs, NEW extra \in 0 .. 1,
         tx.value <= c.balance[tx.from]
  PROVE  /\ Success(c, tx, extra) \in Chains
         /\ Success(c, tx, extra).collector = c.collector
         /\ \E n \in Nat : /\ n > tx.nonce
                           /\ Success(c, tx, extra).nonce = [c.nonce EXCEPT ![tx.from] = n]
<1>1. tx.from \in Accounts /\ tx.to \in Accounts /\ tx.value \in Nat /\ tx.nonce \in Nat
  BY DEF EthTxs
<1>2. SenderNonce(tx, extra) \in Nat /\ SenderNonce(tx, extra) > tx.nonce
  BY <1>1 DEF SenderNonce
<1>3. /\ Pay(c, tx) \in Chains
      /\ Pay(c, tx).collector = c.collector
      /\ Pay(c, tx).nonce = c.nonce
  BY <1>1, Paid
<1>4. /\ Success(c, tx, extra) \in Chains
      /\ Success(c, tx, extra).collector = c.collector
      /\ Success(c, tx, extra).nonce = [c.nonce EXCEPT ![tx.from] = SenderNonce(tx, extra)]
  BY <1>1, <1>2, <1>3 DEF Success, Chains
<1> QED
  BY <1>2, <1>4

\* What is given back comes from the fee collector.
LEMMA Refunded ==
  ASSUME NEW c \in Chains, NEW tx, tx.from \in Accounts, NEW leftover,
         leftover * GasPrice(tx) \in Nat, leftover * GasPrice(tx) <= c.collector
  PROVE  /\ RefundGas(c, tx, leftover) \in Chains
         /\ RefundGas(c, tx, leftover).collector = c.collector - leftover * GasPrice(tx)
         /\ RefundGas(c, tx, leftover).nonce = c.nonce
<1> DEFINE r == leftover * GasPrice(tx)
           b == [c.balance EXCEPT ![tx.from] = @ + r]
<1>1. RefundGas(c, tx, leftover)
        = [c EXCEPT !.balance = b, !.collector = @ - r]
  BY DEF RefundGas, Chains
<1>2. r \in Nat /\ r <= c.collector
  OBVIOUS
<1> HIDE DEF r
<1>3. b \in [Accounts -> Nat]
  BY <1>2 DEF Chains
<1>4. c.collector - r \in Nat /\ c.nonce \in [Accounts -> Nat]
  BY <1>2 DEF Chains
<1> HIDE DEF b
<1>5. /\ RefundGas(c, tx, leftover) \in Chains
      /\ RefundGas(c, tx, leftover).collector = c.collector - r
      /\ RefundGas(c, tx, leftover).nonce = c.nonce
  BY <1>1, <1>3, <1>4, Zenon DEF Chains
<1> QED
  BY <1>5 DEF r

\* A nonce that is used once stays behind the nonce of its account.
LEMMA UsedStaysBehind ==
  ASSUME BlockTypeOK, NoReplay, NEW tx, tx.from \in Accounts, tx.nonce \in Nat,
         tx.nonce = chain.nonce[tx.from],
         used' = used \cup {[from |-> tx.from, nonce |-> tx.nonce]},
         NEW n \in Nat, n > tx.nonce, chain'.nonce = [chain.nonce EXCEPT ![tx.from] = n]
  PROVE  NoReplay' /\ used' \subseteq [from : Accounts, nonce : Nat]
<1>1. chain.nonce \in [Accounts -> Nat]
  BY DEF BlockTypeOK, Chains
<1>2. used \subseteq [from : Accounts, nonce : Nat]
  BY DEF BlockTypeOK
<1> QED
  BY <1>1, <1>2 DEF NoReplay
----------------------------------------------------------------------------
\* The meters of the block and its receipts.

\* The ante handler and the block gas meter count up, and number nothing.
LEMMA Metered ==
  ASSUME BlockTypeOK, NEW tx, tx.gas \in Nat, NEW gas \in Nat
  PROVE  /\ Counted(tx, gas) \in Meters
         /\ Counted(tx, gas).gas = block.gas + gas
         /\ Counted(tx, gas).txIndex = block.txIndex
         /\ Counted(tx, gas).logSize = block.logSize
<1>1. block \in Meters
  BY DEF BlockTypeOK
<1>2. /\ CheckGasWanted(tx) \in Meters
      /\ CheckGasWanted(tx).gas = block.gas
      /\ CheckGasWanted(tx).txIndex = block.txIndex
      /\ CheckGasWanted(tx).logSize = block.logSize
  BY <1>1 DEF CheckGasWanted, Meters
<1> QED
  BY <1>1, <1>2 DEF Counted, Meters

\* A receipt takes an index and the numbers of its logs, and uses no more gas.
LEMMA Indexed ==
  ASSUME NEW m \in Meters, NEW logs \in Nat
  PROVE  LET n == [m EXCEPT !.txIndex = @ + 1, !.logSize = @ + logs]
         IN  /\ n \in Meters /\ n.gas = m.gas
             /\ n.txIndex = m.txIndex + 1 /\ n.logSize = m.logSize + logs
<1>1. m.txIndex + 1 \in Nat /\ m.logSize + logs \in Nat
  BY DEF Meters
<1>2. \A i, k \in Nat : LET n == [m EXCEPT !.txIndex = i, !.logSize = k]
                        IN  n \in Meters /\ n.gas = m.gas /\ n.txIndex = i /\ n.logSize = k
  BY Zenon DEF Meters
<1> QED
  BY <1>1, <1>2, ZenonT(40)

GasOf(receipts) == Total([i \in DOMAIN receipts |-> receipts[i].gasUsed])

\* The gas of the receipts is a number, and grows by that of the receipt added.
LEMMA GasAppended ==
  ASSUME NEW receipts \in Seq(Receipts), NEW r \in Receipts
  PROVE  /\ GasOf(receipts) \in Nat
         /\ GasOf(Append(receipts, r)) = GasOf(receipts) + r.gasUsed
<1> DEFINE n == Len(receipts)
           longer == Append(receipts, r)
           f == [i \in 1 .. n |-> receipts[i].gasUsed]
           g == [i \in 1 .. n + 1 |-> longer[i].gasUsed]
<1>1. n \in Nat /\ DOMAIN receipts = 1 .. n /\ DOMAIN longer = 1 .. n + 1
  OBVIOUS
<1>2. /\ \A i \in 1 .. n : receipts[i] \in Receipts /\ longer[i] = receipts[i]
      /\ longer[n + 1] = r
  OBVIOUS
<1> HIDE DEF n, longer
<1>3. f \in [1 .. n -> Nat]
  BY <1>2 DEF Receipts
<1>4. g \in [1 .. n + 1 -> Nat] /\ g[n + 1] = r.gasUsed
  BY <1>1, <1>2 DEF Receipts
<1>5. f = [i \in 1 .. n |-> g[i]]
  BY <1>1, <1>2
<1>6. GasOf(receipts) = Total(f) /\ GasOf(longer) = Total(g)
  BY <1>1, Zenon DEF GasOf
<1> HIDE DEF f, g
<1>7. Total(f) \in Nat
  <2>1. 1 \in Int /\ n \in Int
    BY <1>1
  <2>2. IsFiniteSet(1 .. n)
    BY <2>1, FS_Interval
  <2> QED
    BY <1>3, <2>2, TotalNat, Zenon
<1>8. Total(g) = Total(f) + r.gasUsed
  BY <1>1, <1>4, <1>5, TotalOneMore, Zenon
<1> QED
  BY <1>6, <1>7, <1>8 DEF longer

----------------------------------------------------------------------------
\* The inductive invariant.

\* The receipts are numbered up to the counters of the block, and the gas they say
\* was used is part of what the block gas meter counted.
ReceiptsNumbered ==
  /\ block.txIndex = Len(executed)
  /\ \A i \in DOMAIN executed :
       /\ executed[i].index = i - 1
       /\ executed[i].firstLog = IF i = 1 THEN 0 ELSE executed[i - 1].firstLog + executed[i - 1].logs
  /\ block.logSize = IF executed = <<>> THEN 0
                     ELSE executed[Len(executed)].firstLog + executed[Len(executed)].logs
  /\ GasOf(executed) <= block.gas
  /\ GasOf(executed) <= scenario.maxGas

\* Between blocks, what was noted is of the block that ended.
GasNoted ==
  phase = "between" =>
    blockGasWanted = UpdatedGasWanted(block.gasWanted, AtMost(block.gas, scenario.maxGas))

BlockInv == BlockTypeOK /\ FeesExact /\ NoReplay /\ ReceiptsNumbered /\ GasNoted

\* What is assumed of a block and of its transactions.
LEMMA ScenarioFacts ==
  ASSUME BlockTypeOK
  PROVE  /\ scenario.params \in Params
         /\ scenario.changes \subseteq Params
         /\ scenario.maxGas \in Nat
         /\ scenario.balance \in [Accounts -> Nat]
         /\ scenario.ethTxs \subseteq EthTxs
         /\ scenario.cosmosTxs \subseteq CosmosTxs
<1>1. scenario \in [params : Params, changes : SUBSET Params, maxGas : Nat,
                    balance : [Accounts -> Nat],
                    ethTxs : SUBSET EthTxs, cosmosTxs : SUBSET CosmosTxs]
  BY BlockAssumption DEF BlockTypeOK
<1> QED
  BY <1>1

\* The change of the base fee is a number.
LEMMA DeltaNat ==
  ASSUME NEW wanted \in Nat, NEW target \in Nat \ {0}, NEW fee \in Nat
  PROVE  Delta(wanted, target, fee) \in Nat
<1> DEFINE distance == IF wanted > target THEN wanted - target ELSE target - wanted
<1>1. distance \in Nat
  OBVIOUS
<1> HIDE DEF distance
<1>2. distance * fee \in Nat
  BY <1>1, Products
<1>3. (distance * fee) \div target \in Nat
  BY <1>2, Quotients
<1>4. ((distance * fee) \div target) \div BaseFeeChangeDenominator \in Nat
  BY <1>3, FeeMarketConstants, Quotients
<1> QED
  BY <1>4 DEF Delta, distance

\* The base fee that BeginBlock sets is a number.
LEMMA BaseFeeNat ==
  ASSUME NEW p \in Params, NEW h \in Nat, NEW wanted \in Nat, NEW maxGas \in Nat
  PROVE  CalculateBaseFee(p, h, wanted, maxGas) \in Nat
<1> DEFINE target == GasTarget(maxGas)
<1>1. p.baseFee \in Nat /\ p.minGasPrice \in Nat
  BY DEF Params
<1>2. target \in Nat
  BY FeeMarketConstants, Quotients DEF GasTarget
<1>3. CalcGasBaseFee(wanted, target, p.baseFee, p.minGasPrice) \in Nat
  <2> HIDE DEF target
  <2>1. target # 0 => Delta(wanted, target, p.baseFee) \in Nat
    BY <1>1, <1>2, DeltaNat
  <2> QED
    BY <1>1, <1>2, <2>1, FeeMarketConstants DEF CalcGasBaseFee, AtLeast
<1> QED
  BY <1>1, <1>3 DEF CalculateBaseFee

\* The fee of a Cosmos transaction is a number.
LEMMA CosmosFeeNat ==
  ASSUME BlockTypeOK, NEW tx \in CosmosTxs, tx.gas > 0
  PROVE  CosmosFee(tx) \in Nat
<1>1. tx.gas \in Nat \ {0} /\ tx.fee \in Nat /\ tx.tip \in Nat /\ params.baseFee \in Nat
  BY DEF CosmosTxs, BlockTypeOK, Params
<1>2. tx.fee * Precision \in Nat /\ tx.tip * Precision \in Nat
  BY <1>1, Products, FeeMarketConstants
<1>3. CosmosFeeCap(tx) \in Nat
  BY <1>1, <1>2, Quotients DEF CosmosFeeCap
<1>4. CosmosPrice(tx) \in Nat
  BY <1>1, <1>2, <1>3 DEF CosmosPrice, AtMost
<1>5. CosmosPrice(tx) * tx.gas \in Nat
  BY <1>1, <1>4, Products
<1>6. CosmosPrice(tx) * tx.gas + Precision - 1 \in Nat
  BY <1>5, FeeMarketConstants
<1>7. (CosmosPrice(tx) * tx.gas + Precision - 1) \div Precision \in Nat
  BY <1>6, FeeMarketConstants, Quotients
<1> QED
  BY <1>7 DEF CosmosFee, Ceil

\* A receipt that a transaction adds has the next numbers.
LEMMA ReceiptAdded ==
  ASSUME BlockTypeOK, ReceiptsNumbered,
         NEW tx, NEW gasUsed \in Nat, NEW logs \in Nat, WithinBlockGas(gasUsed),
         executed' = Append(executed, Receipt(tx, gasUsed, logs)),
         block'.gas = block.gas + gasUsed,
         block'.txIndex = block.txIndex + 1,
         block'.logSize = block.logSize + logs,
         scenario' = scenario
  PROVE  ReceiptsNumbered' /\ executed' \in Seq(Receipts)
<1> DEFINE r == Receipt(tx, gasUsed, logs)
           n == Len(executed)
<1>1. block \in Meters /\ executed \in Seq(Receipts) /\ n \in Nat
  BY DEF BlockTypeOK
<1>2. /\ r \in Receipts
      /\ r.index = block.txIndex /\ r.firstLog = block.logSize
      /\ r.logs = logs /\ r.gasUsed = gasUsed
  BY <1>1 DEF Receipt, Receipts, Meters
<1>3. executed' = Append(executed, r)
  OBVIOUS
<1> HIDE DEF r
<1>4. /\ executed' \in Seq(Receipts) /\ Len(executed') = n + 1 /\ DOMAIN executed' = 1 .. n + 1
      /\ DOMAIN executed = 1 .. n
      /\ \A i \in 1 .. n : executed'[i] = executed[i]
      /\ executed'[n + 1] = r
      /\ executed' # <<>>
  BY <1>1, <1>2, <1>3
<1>5. GasOf(executed) \in Nat /\ GasOf(executed') = GasOf(executed) + gasUsed
  BY <1>1, <1>2, <1>3, GasAppended
<1>6. block.gas \in Nat /\ block.txIndex = n /\ scenario.maxGas \in Nat
  BY <1>1, ScenarioFacts DEF Meters, ReceiptsNumbered
<1>7. GasOf(executed') <= block'.gas /\ GasOf(executed') <= scenario'.maxGas
  BY <1>5, <1>6 DEF ReceiptsNumbered, WithinBlockGas
<1>8. executed = <<>> <=> n = 0
  BY <1>1
<1>9. ASSUME NEW i \in 1 .. n + 1
      PROVE  /\ executed'[i].index = i - 1
             /\ executed'[i].firstLog
                  = IF i = 1 THEN 0 ELSE executed'[i - 1].firstLog + executed'[i - 1].logs
  <2>1. CASE i \in 1 .. n
    <3>1. executed'[i] = executed[i] /\ (i # 1 => executed'[i - 1] = executed[i - 1])
      BY <1>1, <1>4, <2>1
    <3> QED
      BY <1>4, <2>1, <3>1, SMTT(30) DEF ReceiptsNumbered
  <2>2. CASE i = n + 1
    <3>1. n # 0 => executed'[i - 1] = executed[n]
      <4>1. i - 1 = n /\ (n # 0 => n \in 1 .. n)
        BY <1>1, <2>2
      <4> QED
        BY <1>4, <4>1
    <3>2. executed'[i].index = n /\ executed'[i].firstLog = block.logSize
      BY <1>2, <1>4, <1>6, <2>2
    <3> QED
      BY <1>1, <1>8, <2>2, <3>1, <3>2 DEF ReceiptsNumbered
  <2> QED
    BY <1>1, <2>1, <2>2
<1>10. block'.logSize = executed'[Len(executed')].firstLog + executed'[Len(executed')].logs
  BY <1>2, <1>4
<1> QED
  BY <1>4, <1>6, <1>7, <1>9, <1>10, Zenon DEF ReceiptsNumbered

\* Without a new receipt the numbers stay, as the gas meter goes on.
LEMMA ReceiptsStay ==
  ASSUME BlockTypeOK, ReceiptsNumbered,
         UNCHANGED <<executed, scenario>>,
         block'.txIndex = block.txIndex, block'.logSize = block.logSize,
         NEW gas \in Nat, block'.gas = block.gas + gas
  PROVE  ReceiptsNumbered'
<1>1. GasOf(executed) \in Nat /\ block.gas \in Nat
  <2>1. [index |-> 0, firstLog |-> 0, logs |-> 0, gasUsed |-> 0] \in Receipts
    BY DEF Receipts
  <2> QED
    BY <2>1, GasAppended DEF BlockTypeOK, Meters
<1>2. GasOf(executed') <= block'.gas
  BY <1>1 DEF ReceiptsNumbered
<1> QED
  BY <1>2 DEF ReceiptsNumbered
----------------------------------------------------------------------------
\* The invariant holds, step by step.

\* What passes the ante handler pays for all its gas and what it sends.
LEMMA AnteAccepts ==
  ASSUME BlockTypeOK, NEW tx \in EthTxs, MonoAccepts(tx)
  PROVE  /\ tx.gas * EffectivePrice(tx) \in Nat
         /\ tx.gas * EffectivePrice(tx) + tx.value <= chain.balance[tx.from]
<1>1. /\ tx.gas \in Nat /\ tx.feeCap \in Nat /\ tx.value \in Nat
      /\ chain.balance[tx.from] \in Nat
  BY DEF EthTxs, BlockTypeOK, Chains
<1>2. EffectivePrice(tx) \in Nat /\ EffectivePrice(tx) <= tx.feeCap
  BY OnePrice
<1>3. /\ tx.gas * EffectivePrice(tx) \in Nat /\ tx.gas * tx.feeCap \in Nat
      /\ tx.gas * EffectivePrice(tx) <= tx.gas * tx.feeCap
  BY <1>1, <1>2, Products
<1>4. tx.gas * tx.feeCap + tx.value <= chain.balance[tx.from]
  BY DEF MonoAccepts, CheckSenderBalance
<1> QED
  BY <1>1, <1>3, <1>4

\* A transaction that runs pays for the gas it is charged: what the ante handler took
\* less what is refunded.
LEMMA DeliverKeeps ==
  ASSUME BlockInv, DeliverEthereumTx
  PROVE  BlockInv'
<1> USE DEF BlockInv
<1> DEFINE Runs(tx, maxUsedGas, success, refund, logs, extra) ==
      LET gasUsed == GasUsed(tx, maxUsedGas, refund)
          paid == TakeFee(tx, tx.gas * EffectivePrice(tx))
          done == IF success THEN Success(paid, tx, extra) ELSE paid
          shown == IF success THEN logs ELSE 0
      IN  /\ MonoAccepts(tx) /\ WithinBlockGas(gasUsed)
          /\ Take(tx, gasUsed * EffectivePrice(tx))
          /\ chain' = RefundGas(done, tx, tx.gas - gasUsed)
          /\ block' = [Counted(tx, gasUsed) EXCEPT !.txIndex = @ + 1, !.logSize = @ + shown]
          /\ executed' = Append(executed, Receipt(tx, gasUsed, shown))
<1>A. PICK tx \in scenario.ethTxs : \E maxUsedGas \in IntrinsicGas .. tx.gas, success \in BOOLEAN :
        \E refund \in 0 .. maxUsedGas \div RefundQuotient, logs \in 0 .. 1, extra \in 0 .. 1 :
          Runs(tx, maxUsedGas, success, refund, logs, extra)
  BY ZenonT(40) DEF DeliverEthereumTx
<1>B. PICK maxUsedGas \in IntrinsicGas .. tx.gas, success \in BOOLEAN :
        \E refund \in 0 .. maxUsedGas \div RefundQuotient, logs \in 0 .. 1, extra \in 0 .. 1 :
          Runs(tx, maxUsedGas, success, refund, logs, extra)
  BY <1>A, ZenonT(40)
<1>1. PICK refund \in 0 .. maxUsedGas \div RefundQuotient, logs \in 0 .. 1, extra \in 0 .. 1 :
        Runs(tx, maxUsedGas, success, refund, logs, extra)
  BY <1>B, Zenon
<1> DEFINE gasUsed == GasUsed(tx, maxUsedGas, refund)
           price == EffectivePrice(tx)
           paid == TakeFee(tx, tx.gas * price)
           done == IF success THEN Success(paid, tx, extra) ELSE paid
           shown == IF success THEN logs ELSE 0
<1>2. /\ MonoAccepts(tx) /\ WithinBlockGas(gasUsed)
      /\ Take(tx, gasUsed * price)
      /\ chain' = RefundGas(done, tx, tx.gas - gasUsed)
      /\ block' = [Counted(tx, gasUsed) EXCEPT !.txIndex = @ + 1, !.logSize = @ + shown]
      /\ executed' = Append(executed, Receipt(tx, gasUsed, shown))
  BY <1>1
<1>3. tx \in EthTxs
  BY ScenarioFacts
<1>4. /\ tx.from \in Accounts /\ tx.gas \in Nat /\ tx.value \in Nat /\ tx.nonce \in Nat
  BY <1>3 DEF EthTxs
<1>5. gasUsed \in 0 .. tx.gas
  <2>1. IntrinsicGas \in Nat /\ RefundQuotient \in Nat \ {0}
    BY BlockAssumption
  <2>2. maxUsedGas \in 0 .. tx.gas
    BY <1>4, <2>1
  <2>3. maxUsedGas \div RefundQuotient \in 0 .. maxUsedGas
    BY <2>1, <2>2, <1>4, Quotients
  <2>4. refund \in 0 .. maxUsedGas
    BY <2>2, <2>3
  <2> QED
    BY <1>3, <2>2, <2>4, GasCharged
<1>6. shown \in Nat
  OBVIOUS
<1>7. price \in Nat /\ GasPrice(tx) = price
  BY <1>3, OnePrice
<1>8. tx.gas * price \in Nat /\ tx.gas * price + tx.value <= chain.balance[tx.from]
  BY <1>2, <1>3, AnteAccepts
<1>9. chain \in Chains /\ chain.balance[tx.from] \in Nat /\ chain.collector \in Nat
  BY <1>4 DEF BlockTypeOK, Chains
<1>10. tx.gas * price <= chain.balance[tx.from]
  BY <1>4, <1>8, <1>9
<1>11. /\ paid \in Chains
       /\ paid.balance[tx.from] = chain.balance[tx.from] - tx.gas * price
       /\ paid.collector = chain.collector + tx.gas * price
       /\ paid.nonce = [chain.nonce EXCEPT ![tx.from] = @ + 1]
  BY <1>4, <1>8, <1>10, FeeTaken
<1>12. tx.nonce = chain.nonce[tx.from]
  BY <1>2 DEF MonoAccepts
<1>13. /\ done \in Chains /\ done.collector = paid.collector
       /\ \E n \in Nat : n > tx.nonce /\ done.nonce = [chain.nonce EXCEPT ![tx.from] = n]
  <2> HIDE DEF paid, price
  <2>1. CASE success
    <3>1. tx.value <= paid.balance[tx.from]
      BY <1>4, <1>8, <1>9, <1>11
    <3>2. /\ Success(paid, tx, extra) \in Chains
          /\ Success(paid, tx, extra).collector = paid.collector
          /\ \E n \in Nat : n > tx.nonce
                            /\ Success(paid, tx, extra).nonce = [paid.nonce EXCEPT ![tx.from] = n]
      BY <1>3, <1>11, <3>1, Succeeds
    <3>3. \A n \in Nat : [paid.nonce EXCEPT ![tx.from] = n] = [chain.nonce EXCEPT ![tx.from] = n]
      BY <1>4, <1>9, <1>11 DEF Chains
    <3>4. done = Success(paid, tx, extra)
      BY <2>1
    <3> QED
      BY <3>2, <3>3, <3>4
  <2>2. CASE ~success
    <3>1. done = paid
      BY <2>2
    <3>2. tx.nonce + 1 \in Nat /\ tx.nonce + 1 > tx.nonce
      BY <1>4
    <3> QED
      BY <1>11, <1>12, <3>1, <3>2
  <2> QED
    BY <2>1, <2>2, Zenon
<1>14. /\ (tx.gas - gasUsed) * price = tx.gas * price - gasUsed * price
       /\ gasUsed * price \in Nat /\ (tx.gas - gasUsed) * price \in Nat
  <2> HIDE DEF price, gasUsed
  <2>1. tx.gas - gasUsed \in Nat /\ gasUsed \in Nat
    BY <1>4, <1>5
  <2> QED
    BY <1>4, <1>7, <2>1, Products
<1>15. (tx.gas - gasUsed) * GasPrice(tx) = (tx.gas - gasUsed) * price
  BY <1>7
<1> HIDE DEF gasUsed, price, paid, done, shown
<1>16. (tx.gas - gasUsed) * price <= done.collector
  BY <1>8, <1>9, <1>11, <1>13, <1>14
<1>17. /\ chain' \in Chains
       /\ chain'.collector = done.collector - (tx.gas - gasUsed) * price
       /\ chain'.nonce = done.nonce
  BY <1>2, <1>4, <1>13, <1>14, <1>15, <1>16, Refunded, SMTT(30)
<1>18. /\ used' = used \cup {[from |-> tx.from, nonce |-> tx.nonce]}
       /\ due' = due + gasUsed * price
       /\ phase = "in"
       /\ UNCHANGED <<scenario, height, phase, params, blockGasWanted>>
  BY <1>2 DEF Take
<1>19. chain'.collector = due'
  BY <1>8, <1>9, <1>11, <1>13, <1>14, <1>17, <1>18, SMTT(30) DEF FeesExact
<1>20. FeesExact'
  BY <1>17, <1>19, SMTT(30) DEF FeesExact, Chains
<1>21. NoReplay' /\ used' \subseteq [from : Accounts, nonce : Nat]
  BY <1>4, <1>12, <1>13, <1>17, <1>18, UsedStaysBehind, SMTT(30)
<1>22. /\ Counted(tx, gasUsed) \in Meters
       /\ Counted(tx, gasUsed).gas = block.gas + gasUsed
       /\ Counted(tx, gasUsed).txIndex = block.txIndex
       /\ Counted(tx, gasUsed).logSize = block.logSize
  BY <1>4, <1>5, Metered, SMTT(30)
<1>23. /\ block' \in Meters
       /\ block'.gas = block.gas + gasUsed
       /\ block'.txIndex = block.txIndex + 1
       /\ block'.logSize = block.logSize + shown
  BY <1>2, <1>6, <1>22, Indexed, ZenonT(40)
<1>24. ReceiptsNumbered' /\ executed' \in Seq(Receipts)
  <2>1. gasUsed \in Nat
    BY <1>5
  <2> QED
    BY <1>2, <1>6, <1>18, <1>23, <2>1, ReceiptAdded
<1>25. GasNoted'
  BY <1>18 DEF GasNoted
<1>26. due' \in Nat
  BY <1>14, <1>18 DEF BlockTypeOK
<1>27. BlockTypeOK'
  BY <1>17, <1>18, <1>21, <1>23, <1>24, <1>26 DEF BlockTypeOK
<1> QED
  BY <1>20, <1>21, <1>24, <1>25, <1>27, SMTT(30)

\* A transaction whose messages fail pays for its whole limit.
LEMMA FailKeeps ==
  ASSUME BlockInv, FailEthereumTx
  PROVE  BlockInv'
<1> USE DEF BlockInv
<1>1. PICK tx \in scenario.ethTxs, gas \in 1 .. scenario.maxGas :
        /\ MonoAccepts(tx)
        /\ Take(tx, tx.gas * EffectivePrice(tx))
        /\ chain' = TakeFee(tx, tx.gas * EffectivePrice(tx))
        /\ block' = Counted(tx, gas)
        /\ UNCHANGED executed
  BY DEF FailEthereumTx
<1> DEFINE fee == tx.gas * EffectivePrice(tx)
<1>2. tx \in EthTxs /\ gas \in Nat
  BY ScenarioFacts
<1>3. tx.from \in Accounts /\ tx.gas \in Nat /\ tx.value \in Nat /\ tx.nonce \in Nat
  BY <1>2 DEF EthTxs
<1>4. chain \in Chains /\ chain.balance[tx.from] \in Nat /\ chain.nonce[tx.from] \in Nat
  BY <1>3 DEF BlockTypeOK, Chains
<1>5. fee \in Nat /\ fee + tx.value <= chain.balance[tx.from]
  BY <1>1, <1>2, AnteAccepts
<1>6. /\ chain' = TakeFee(tx, fee)
      /\ used' = used \cup {[from |-> tx.from, nonce |-> tx.nonce]}
      /\ due' = due + fee
      /\ phase = "in"
      /\ UNCHANGED <<scenario, height, phase, params, blockGasWanted, executed>>
  BY <1>1 DEF Take
<1> HIDE DEF fee
<1>7. fee <= chain.balance[tx.from]
  BY <1>3, <1>4, <1>5, SMTT(30)
<1>8. /\ chain' \in Chains /\ chain'.collector = chain.collector + fee
      /\ chain'.nonce = [chain.nonce EXCEPT ![tx.from] = @ + 1]
  BY <1>3, <1>5, <1>6, <1>7, FeeTaken, SMTT(30)
<1>9. tx.nonce = chain.nonce[tx.from]
  BY <1>1 DEF MonoAccepts
<1>10. NoReplay' /\ used' \subseteq [from : Accounts, nonce : Nat]
  <2>1. /\ tx.nonce + 1 \in Nat /\ tx.nonce + 1 > tx.nonce
        /\ chain'.nonce = [chain.nonce EXCEPT ![tx.from] = tx.nonce + 1]
    BY <1>3, <1>8, <1>9, SMTT(30)
  <2> QED
    BY <1>3, <1>6, <1>9, <2>1, UsedStaysBehind
<1>11. FeesExact'
  BY <1>6, <1>8, SMTT(30) DEF FeesExact, Chains
<1>12. /\ block' \in Meters
       /\ block'.gas = block.gas + gas
       /\ block'.txIndex = block.txIndex
       /\ block'.logSize = block.logSize
  BY <1>1, <1>2, <1>3, Metered, SMTT(30)
<1>13. ReceiptsNumbered'
  BY <1>2, <1>6, <1>12, ReceiptsStay, SMTT(30)
<1>14. GasNoted'
  BY <1>6 DEF GasNoted
<1>15. BlockTypeOK'
  BY <1>5, <1>6, <1>8, <1>10, <1>12 DEF BlockTypeOK
<1> QED
  BY <1>10, <1>11, <1>13, <1>14, <1>15
\* A Cosmos transaction pays its fee, whether it sends its coins or fails.
LEMMA CosmosKeeps ==
  ASSUME BlockInv, DeliverCosmosTx
  PROVE  BlockInv'
<1> USE DEF BlockInv
<1>1. PICK tx \in scenario.cosmosTxs, success \in BOOLEAN : \E gas \in 1 .. tx.gas :
        LET paid == TakeFee(tx, CosmosFee(tx))
            sent == success /\ WithinBlockGas(gas) /\ tx.value <= paid.balance[tx.from]
        IN  /\ CosmosAccepts(tx)
            /\ Take(tx, CosmosFee(tx))
            /\ chain' = IF sent THEN Pay(paid, tx) ELSE paid
            /\ block' = Counted(tx, gas)
            /\ UNCHANGED executed
  BY DEF DeliverCosmosTx
<1> DEFINE fee == CosmosFee(tx)
           paid == TakeFee(tx, fee)
<1>2. PICK gas \in 1 .. tx.gas :
        /\ CosmosAccepts(tx)
        /\ Take(tx, fee)
        /\ \/ tx.value <= paid.balance[tx.from] /\ chain' = Pay(paid, tx)
           \/ chain' = paid
        /\ block' = Counted(tx, gas)
        /\ UNCHANGED executed
  BY <1>1
<1>3. tx \in CosmosTxs
  BY ScenarioFacts
<1>4. /\ tx.from \in Accounts /\ tx.to \in Accounts
      /\ tx.gas \in Nat /\ tx.value \in Nat /\ tx.nonce \in Nat
  BY <1>3 DEF CosmosTxs
<1>5. gas \in Nat /\ tx.gas > 0
  BY <1>4
<1>6. fee \in Nat /\ fee <= chain.balance[tx.from]
  BY <1>2, <1>3, <1>5, CosmosFeeNat DEF CosmosAccepts
<1>7. tx.nonce = chain.nonce[tx.from]
  BY <1>2 DEF CosmosAccepts
<1> HIDE DEF fee
<1>8. /\ paid \in Chains /\ paid.collector = chain.collector + fee
      /\ paid.nonce = [chain.nonce EXCEPT ![tx.from] = @ + 1]
  BY <1>4, <1>6, FeeTaken, SMTT(30)
<1> HIDE DEF paid
<1>9. chain' \in Chains /\ chain'.collector = paid.collector /\ chain'.nonce = paid.nonce
  BY <1>2, <1>4, <1>8, Paid, SMTT(30)
<1>10. /\ used' = used \cup {[from |-> tx.from, nonce |-> tx.nonce]}
       /\ due' = due + fee
       /\ phase = "in"
       /\ UNCHANGED <<scenario, height, phase, params, blockGasWanted, executed>>
  BY <1>2, SMTT(30) DEF Take
<1>11. NoReplay' /\ used' \subseteq [from : Accounts, nonce : Nat]
  <2>1. /\ tx.nonce + 1 \in Nat /\ tx.nonce + 1 > tx.nonce
        /\ chain'.nonce = [chain.nonce EXCEPT ![tx.from] = tx.nonce + 1]
    BY <1>4, <1>7, <1>8, <1>9, SMTT(30)
  <2> QED
    BY <1>4, <1>7, <1>10, <2>1, UsedStaysBehind, SMTT(30)
<1>12. FeesExact'
  BY <1>8, <1>9, <1>10, SMTT(30) DEF FeesExact, Chains
<1>13. /\ block' \in Meters
       /\ block'.gas = block.gas + gas
       /\ block'.txIndex = block.txIndex
       /\ block'.logSize = block.logSize
  BY <1>2, <1>4, <1>5, Metered
<1>14. ReceiptsNumbered'
  BY <1>5, <1>10, <1>13, ReceiptsStay, SMTT(30)
<1>15. GasNoted'
  BY <1>10 DEF GasNoted
<1>16. BlockTypeOK'
  BY <1>6, <1>9, <1>10, <1>11, <1>13 DEF BlockTypeOK
<1> QED
  BY <1>11, <1>12, <1>14, <1>15, <1>16, SMTT(30)

\* What the ante handler turns away leaves nothing but its gas.
LEMMA RejectKeeps ==
  ASSUME BlockInv, RejectCosmosTx
  PROVE  BlockInv'
<1> USE DEF BlockInv
<1>1. PICK tx \in scenario.cosmosTxs : \E gas \in 1 .. tx.gas :
        /\ phase = "in"
        /\ block' = [block EXCEPT !.gas = @ + gas]
        /\ UNCHANGED <<scenario, height, phase, params, blockGasWanted, chain, executed, due, used>>
  BY DEF RejectCosmosTx
<1>2. PICK gas \in 1 .. tx.gas :
        /\ phase = "in"
        /\ block' = [block EXCEPT !.gas = @ + gas]
        /\ UNCHANGED <<scenario, height, phase, params, blockGasWanted, chain, executed, due, used>>
  BY <1>1
<1>3. gas \in Nat
  BY ScenarioFacts DEF CosmosTxs
<1>4. /\ block' \in Meters
      /\ block'.gas = block.gas + gas
      /\ block'.txIndex = block.txIndex
      /\ block'.logSize = block.logSize
  BY <1>2, <1>3, SMTT(30) DEF BlockTypeOK, Meters
<1>5. ReceiptsNumbered'
  BY <1>2, <1>3, <1>4, ReceiptsStay
<1>6. BlockTypeOK'
  BY <1>2, <1>4 DEF BlockTypeOK
<1> QED
  BY <1>2, <1>5, <1>6 DEF FeesExact, NoReplay, GasNoted

\* A block begins empty, with a base fee that is a number.
LEMMA BeginKeeps ==
  ASSUME BlockInv, BeginBlock
  PROVE  BlockInv'
<1> USE DEF BlockInv
<1> DEFINE fee == CalculateBaseFee(params, height + 1, blockGasWanted, scenario.maxGas)
<1>1. fee \in Nat
  <2>1. height + 1 \in Nat /\ params \in Params /\ blockGasWanted \in Nat
    BY DEF BlockTypeOK
  <2>2. scenario.maxGas \in Nat
    BY ScenarioFacts
  <2> QED
    BY <2>1, <2>2, BaseFeeNat, Zenon
<1>2. /\ height' = height + 1 /\ phase' = "in" /\ params' = [params EXCEPT !.baseFee = fee]
      /\ chain' = [chain EXCEPT !.collector = 0]
      /\ block' = EmptyBlock /\ executed' = <<>> /\ due' = 0
      /\ UNCHANGED <<scenario, blockGasWanted, used>>
  BY DEF BeginBlock
<1> HIDE DEF fee
<1>3. params' \in Params
  BY <1>1, <1>2 DEF BlockTypeOK, Params
<1>4. chain' \in Chains /\ chain'.collector = 0 /\ chain'.nonce = chain.nonce
  BY <1>2, ZenonT(40) DEF BlockTypeOK, Chains
<1>5. BlockTypeOK'
  BY <1>2, <1>3, <1>4 DEF BlockTypeOK, EmptyBlock, Meters
<1>6. FeesExact' /\ NoReplay'
  BY <1>2, <1>4 DEF FeesExact, NoReplay, Chains
<1>7. GasOf(<<>>) = 0
  BY TotalEmpty DEF GasOf
<1>8. ReceiptsNumbered'
  BY <1>2, <1>7, ScenarioFacts DEF ReceiptsNumbered, EmptyBlock
<1> QED
  BY <1>2, <1>5, <1>6, <1>8 DEF GasNoted

\* The end of a block notes its gas.
LEMMA EndKeeps ==
  ASSUME BlockInv, EndBlock
  PROVE  BlockInv'
<1> USE DEF BlockInv
<1>1. /\ phase' = "between"
      /\ params' \in {params} \cup scenario.changes
      /\ blockGasWanted' = UpdatedGasWanted(block.gasWanted, AtMost(block.gas, scenario.maxGas))
      /\ UNCHANGED <<scenario, height, chain, block, executed, due, used>>
  BY DEF EndBlock
<1>2. params' \in Params
  BY <1>1, ScenarioFacts DEF BlockTypeOK
<1>3. blockGasWanted' \in Nat
  <2>1. block.gasWanted \in Nat /\ block.gas \in Nat /\ scenario.maxGas \in Nat
    BY ScenarioFacts DEF BlockTypeOK, Meters
  <2>2. TruncateInt(block.gasWanted * MinGasMultiplier) \in Nat
    BY <2>1, Truncated
  <2> QED
    BY <1>1, <2>1, <2>2 DEF UpdatedGasWanted, AtLeast, AtMost
<1>4. BlockTypeOK'
  BY <1>1, <1>2, <1>3 DEF BlockTypeOK
<1> QED
  BY <1>1, <1>4, SMTT(30) DEF FeesExact, NoReplay, ReceiptsNumbered, GasNoted

\* The invariant holds at the start.
LEMMA BlockInvInit == Init => BlockInv
<1> SUFFICES ASSUME Init PROVE BlockInv
  OBVIOUS
<1>1. scenario \in [params : Params, changes : SUBSET Params, maxGas : Nat,
                    balance : [Accounts -> Nat],
                    ethTxs : SUBSET EthTxs, cosmosTxs : SUBSET CosmosTxs]
  BY BlockAssumption DEF Init
<1>2. BlockTypeOK
  BY <1>1 DEF Init, BlockTypeOK, EmptyBlock, Meters, Chains
<1>3. FeesExact /\ NoReplay
  BY <1>1 DEF Init, FeesExact, NoReplay
<1>4. GasOf(<<>>) = 0
  BY TotalEmpty DEF GasOf
<1>5. ReceiptsNumbered
  BY <1>1, <1>4 DEF Init, ReceiptsNumbered, EmptyBlock
<1>6. TruncateInt(0 * MinGasMultiplier) = 0
  BY Truncated
<1>7. GasNoted
  BY <1>1, <1>6 DEF Init, GasNoted, EmptyBlock, UpdatedGasWanted, AtLeast, AtMost
<1> QED
  BY <1>2, <1>3, <1>5, <1>7 DEF BlockInv

\* Every step keeps the invariant.
LEMMA BlockInvNext == BlockInv /\ [Next]_vars => BlockInv'
<1> SUFFICES ASSUME BlockInv, [Next]_vars PROVE BlockInv'
  OBVIOUS
<1>1. CASE Next
  BY <1>1, BeginKeeps, EndKeeps, DeliverKeeps, FailKeeps, CosmosKeeps, RejectKeeps, SMTT(30) DEF Next
<1>2. CASE UNCHANGED vars
  BY <1>2 DEF vars, BlockInv, BlockTypeOK, FeesExact, NoReplay, ReceiptsNumbered, GasNoted
<1> QED
  BY <1>1, <1>2

\* The invariant holds of every block of every chain.
THEOREM BlockInvariant == Spec => []BlockInv
  BY BlockInvInit, BlockInvNext, PTL DEF Spec

\* What the code keeps are numbers and parameters in their ranges: no balance, fee or
\* base fee goes below zero.
THEOREM BlockTypeCorrect == Spec => []BlockTypeOK
<1>1. BlockInv => BlockTypeOK
  BY DEF BlockInv
<1> QED
  BY <1>1, BlockInvariant, PTL

\* The fee collector holds the price of the gas that was charged, and nobody pays
\* what they do not have (DeductFees, RefundGas).
THEOREM FeesAreExact == Spec => []FeesExact
<1>1. BlockInv => FeesExact
  BY DEF BlockInv
<1> QED
  BY <1>1, BlockInvariant, PTL

\* A nonce that was used is behind the nonce of its account for good
\* (IncrementNonce, ApplyMessageWithConfig).
THEOREM NonceUsedOnce == Spec => []NoReplay
<1>1. BlockInv => NoReplay
  BY SMTT(30) DEF BlockInv
<1> QED
  BY <1>1, BlockInvariant, PTL

\* The receipts of a block are numbered without gaps, and so are their logs; their
\* gas fits into the block (SetTxIndexTransient, SetLogSizeTransient).
THEOREM ReceiptsOfBlock == Spec => []ReceiptsAddUp
<1>1. BlockInv => ReceiptsAddUp
  BY DEF BlockInv, ReceiptsNumbered, ReceiptsAddUp, GasOf
<1> QED
  BY <1>1, BlockInvariant, PTL

\* The base fee rises after a block above the gas target and does not rise, but to the
\* minimum, after one that is not (CalculateBaseFee).
THEOREM BaseFeeOfNextBlock == Spec => BaseFeeFollowsGas
<1> DEFINE target == GasTarget(scenario.maxGas)
           Follows == BeginBlock /\ IsBaseFeeEnabled(params, height') /\ height' # params.enableHeight =>
             /\ AtMost(block.gas, scenario.maxGas) > target /\ target > 0 =>
                  params'.baseFee >= params.baseFee + Precision
             /\ block.gas <= target /\ block.gasWanted <= target =>
                  params'.baseFee <= AtLeast(params.baseFee, params.minGasPrice)
<1>1. BlockInv /\ [Next]_vars => [Follows]_vars
  <2> SUFFICES ASSUME BlockInv, BeginBlock,
                      IsBaseFeeEnabled(params, height'), height' # params.enableHeight
               PROVE  Follows
    OBVIOUS
  <2> DEFINE wanted == blockGasWanted
             delta == Delta(wanted, target, params.baseFee)
             low == TruncateInt(block.gasWanted * MinGasMultiplier)
  <2>1. /\ params.baseFee \in Nat /\ params.minGasPrice \in Nat
        /\ block.gas \in Nat /\ block.gasWanted \in Nat /\ wanted \in Nat
    BY DEF BlockInv, BlockTypeOK, Params, Meters
  <2>2. scenario.maxGas \in Nat /\ target \in Nat
    BY ScenarioFacts, FeeMarketConstants, Quotients DEF BlockInv, GasTarget
  <2>3. low \in 0 .. block.gasWanted
    BY <2>1, Truncated
  <2>4. wanted = AtLeast(low, AtMost(block.gas, scenario.maxGas))
    BY DEF BlockInv, GasNoted, BeginBlock, UpdatedGasWanted
  <2>5. params'.baseFee = CalcGasBaseFee(wanted, target, params.baseFee, params.minGasPrice)
    BY DEF BeginBlock, CalculateBaseFee, BlockInv, BlockTypeOK, Params
  <2>6. ASSUME target # 0 PROVE delta \in Nat
    BY <2>1, <2>2, <2>6, DeltaNat, Zenon
  <2> HIDE DEF target, delta, low
  <2>7. ASSUME AtMost(block.gas, scenario.maxGas) > target, target > 0
        PROVE  params'.baseFee >= params.baseFee + Precision
    <3>1. wanted > target
      BY <2>1, <2>2, <2>3, <2>4, <2>7 DEF AtLeast, AtMost
    <3> QED
      BY <2>1, <2>2, <2>5, <2>6, <2>7, <3>1, FeeMarketConstants DEF CalcGasBaseFee, AtLeast, delta
  <2>8. ASSUME block.gas <= target, block.gasWanted <= target
        PROVE  params'.baseFee <= AtLeast(params.baseFee, params.minGasPrice)
    <3>1. wanted <= target
      BY <2>1, <2>2, <2>3, <2>4, <2>8 DEF AtLeast, AtMost
    <3> QED
      BY <2>1, <2>2, <2>5, <2>6, <3>1 DEF CalcGasBaseFee, AtLeast, delta
  <2> QED
    BY <2>7, <2>8
<1>2. BaseFeeFollowsGas <=> [][Follows]_vars
  BY DEF BaseFeeFollowsGas
<1> HIDE DEF Follows
<1> QED
  BY <1>1, <1>2, BlockInvariant, PTL DEF Spec
=============================================================================
