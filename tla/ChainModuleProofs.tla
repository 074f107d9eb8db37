-------------------------- MODULE ChainModuleProofs --------------------------
(***************************************************************************)
(* The modules of the chain whose operators governance whitelists, for any *)
(* operators: the stops of x/circuit and x/ibcbreaker hold for any         *)
(* transactions and proposals, and x/valrewards pays what it set aside for *)
(* any validators, powers and settings.                                    *)
(***************************************************************************)
EXTENDS Gates, ValRewards, TotalTheorems

----------------------------------------------------------------------------
\* The stops.

\* The types of all variables, for any transactions of such messages (Spec).
THEOREM GatesTypeCorrect == Spec => []TypeOK
<1>1. Init => TypeOK
  BY DEF Init, TypeOK, GateStates, Types, Restricted
<1>2. TypeOK /\ [Next]_vars => TypeOK'
  <2> SUFFICES ASSUME TypeOK, [Next]_vars PROVE TypeOK'
    OBVIOUS
  <2> USE GatesAssumption
  <2>1. ASSUME NEW r \in {"cosmos", "evm", "gov"}, NEW msgs \in Seq(Messages), Begin(r, msgs)
        PROVE  TypeOK'
    BY <2>1 DEF Begin, TypeOK
  <2>2. CASE DeliverTx
    BY <2>1, <2>2 DEF DeliverTx
  <2>3. CASE DeliverEthereumTx
    <3>1. PICK a \in Accounts, type \in {"Transfer", "Other"} :
            Begin("evm", <<EthereumMsg(a, type)>>)
      BY <2>3 DEF DeliverEthereumTx
    <3>2. EthereumMsg(a, type) \in Messages
      BY DEF EthereumMsg, Messages, Types, Restricted, Components
    <3>3. <<EthereumMsg(a, type)>> \in Seq(Messages)
      BY <3>2
    <3> QED
      BY <2>1, <3>1, <3>3, Zenon
  <2>4. CASE EndBlocker
    BY <2>1, <2>4 DEF EndBlocker
  <2>5. CASE RunMsg
    <3>1. Head(pending) \in Messages /\ Tail(pending) \in Seq(Messages)
      BY <2>5 DEF RunMsg, TypeOK
    <3>2. After(Head(pending)) \in GateStates
      BY <3>1, Zenon DEF After, TypeOK, GateStates, Messages
    <3> QED
      BY <2>5, <3>1, <3>2 DEF RunMsg, TypeOK, GateStates, Messages
  <2>6. CASE FailMsg
    BY <2>6 DEF FailMsg, TypeOK
  <2>7. CASE UNCHANGED vars
    BY <2>7 DEF vars, TypeOK
  <2> QED
    BY <2>2, <2>3, <2>4, <2>5, <2>6, <2>7 DEF Next
<1> QED
  BY <1>1, <1>2, PTL DEF Spec

\* A stopped system always has an operator left (UpdateParams and UpdateCircuit
\* of x/circuit, and the undoing of a transaction).
THEOREM OperatorRemains == Spec => []OperatorCanRestore
<1>1. Init => OperatorCanRestore
  BY DEF Init, OperatorCanRestore
<1>2. TypeOK /\ OperatorCanRestore /\ [Next]_vars => OperatorCanRestore'
  <2> SUFFICES ASSUME TypeOK, OperatorCanRestore, [Next]_vars PROVE OperatorCanRestore'
    OBVIOUS
  <2>1. CASE DeliverTx \/ DeliverEthereumTx \/ EndBlocker
    BY <2>1, Zenon DEF DeliverTx, DeliverEthereumTx, EndBlocker, Begin, OperatorCanRestore
  <2>2. CASE RunMsg
    <3>1. Head(pending) \in Messages
      BY <2>2 DEF RunMsg, TypeOK
    <3>2. ~gates'.system => gates'.whitelist["circuit"] # {}
      BY <2>2, <3>1 DEF RunMsg, Succeeds, After, CanUpdateParams, IsWhitelisted,
                        OperatorCanRestore, TypeOK, GateStates, Messages, Types, Restricted,
                        Components
    <3> QED
      BY <2>2, <3>2 DEF RunMsg, OperatorCanRestore
  <2>3. CASE FailMsg
    BY <2>3 DEF FailMsg, OperatorCanRestore
  <2>4. CASE UNCHANGED vars
    BY <2>4 DEF vars, OperatorCanRestore
  <2> QED
    BY <2>1, <2>2, <2>3, <2>4 DEF Next
<1> QED
  BY <1>1, <1>2, GatesTypeCorrect, PTL DEF Spec

\* A transfer runs under open gates only, on every route (Transfer of
\* x/ibc/transfer).
THEOREM TransfersAreGated == Spec => []TransfersGated
<1>1. Init => TransfersGated
  BY DEF Init, TransfersGated
<1>2. TransfersGated /\ [Next]_vars => TransfersGated'
  <2> SUFFICES ASSUME TransfersGated, [Next]_vars PROVE TransfersGated'
    OBVIOUS
  <2>1. CASE RunMsg
    BY <2>1 DEF RunMsg, Succeeds, CanTransfer, TransfersGated
  <2>2. CASE UNCHANGED ran
    BY <2>2 DEF TransfersGated
  <2> QED
    BY <2>1, <2>2, Zenon DEF Next, DeliverTx, DeliverEthereumTx, EndBlocker, Begin, FailMsg, vars
<1> QED
  BY <1>1, <1>2, PTL DEF Spec

\* What ante let through when the system was stopped: the switch, and nothing
\* else, is still to run.
OnlySwitchPending ==
  ~begun.system /\ route # "gov" =>
    \A i \in 1 .. Len(pending) : pending[i].type = "UpdateCircuit"

\* A transaction that began after the stop runs the switch only
\* (CircuitAvailableDecorator).
THEOREM SystemStopIsKept == Spec => SystemStopHolds
<1>1. Init => OnlySwitchPending
  BY DEF Init, OnlySwitchPending
<1>2. TypeOK /\ OnlySwitchPending /\ [Next]_vars => OnlySwitchPending'
  <2> SUFFICES ASSUME TypeOK, OnlySwitchPending, [Next]_vars PROVE OnlySwitchPending'
    OBVIOUS
  <2>1. CASE DeliverTx
    BY <2>1, GatesAssumption
       DEF DeliverTx, Begin, AnteHandle, CircuitAvailable, OnlySwitchPending
  <2>2. CASE DeliverEthereumTx
    BY <2>2 DEF DeliverEthereumTx, EthereumMsg, Begin, AnteHandle, CircuitAvailable,
                OnlySwitchPending
  <2>3. CASE EndBlocker
    BY <2>3 DEF EndBlocker, Begin, OnlySwitchPending
  <2>4. CASE RunMsg
    BY <2>4 DEF RunMsg, OnlySwitchPending, TypeOK
  <2>5. CASE FailMsg
    BY <2>5 DEF FailMsg, OnlySwitchPending
  <2>6. CASE UNCHANGED vars
    BY <2>6 DEF vars, OnlySwitchPending
  <2> QED
    BY <2>1, <2>2, <2>3, <2>4, <2>5, <2>6 DEF Next
<1>3. TypeOK /\ OnlySwitchPending
        => [RunMsg /\ ran'.type # "UpdateCircuit" /\ route # "gov" => begun.system]_vars
  <2> SUFFICES ASSUME TypeOK, OnlySwitchPending, RunMsg, ran'.type # "UpdateCircuit",
                      route # "gov"
               PROVE  begun.system
    OBVIOUS
  <2>1. pending[1] = Head(pending) /\ 1 \in 1 .. Len(pending)
    BY DEF RunMsg, TypeOK
  <2> QED
    BY <2>1 DEF RunMsg, OnlySwitchPending, TypeOK, GateStates
<1> QED
  BY <1>1, <1>2, <1>3, GatesTypeCorrect, PTL DEF Spec, SystemStopHolds

\* What ante let through on the Cosmos route when IBC was stopped.
NoRestrictedPending ==
  ~begun.ibc /\ route = "cosmos" =>
    \A i \in 1 .. Len(pending) : pending[i].type \notin Restricted

\* A transaction that began after IBC was stopped runs no restricted message,
\* however it is wrapped (IbcAvailableDecorator).
THEOREM IbcStopIsKept == Spec => IbcStopHolds
<1>1. Init => NoRestrictedPending
  BY DEF Init, NoRestrictedPending
<1>2. TypeOK /\ NoRestrictedPending /\ [Next]_vars => NoRestrictedPending'
  <2> SUFFICES ASSUME TypeOK, NoRestrictedPending, [Next]_vars PROVE NoRestrictedPending'
    OBVIOUS
  <2>1. CASE DeliverTx
    BY <2>1, GatesAssumption
       DEF DeliverTx, Begin, AnteHandle, IbcAvailable, containsRestrictedIbcMsg,
           NoRestrictedPending
  <2>2. CASE DeliverEthereumTx \/ EndBlocker
    BY <2>2 DEF DeliverEthereumTx, EndBlocker, Begin, NoRestrictedPending
  <2>3. CASE RunMsg
    BY <2>3 DEF RunMsg, NoRestrictedPending, TypeOK
  <2>4. CASE FailMsg
    BY <2>4 DEF FailMsg, NoRestrictedPending
  <2>5. CASE UNCHANGED vars
    BY <2>5 DEF vars, NoRestrictedPending
  <2> QED
    BY <2>1, <2>2, <2>3, <2>4, <2>5 DEF Next
<1>3. TypeOK /\ NoRestrictedPending
        => [RunMsg /\ ran'.type \in Restricted /\ ~gates.ibc /\ route = "cosmos"
              => begun.ibc]_vars
  <2> SUFFICES ASSUME TypeOK, NoRestrictedPending, RunMsg, ran'.type \in Restricted,
                      route = "cosmos"
               PROVE  begun.ibc
    OBVIOUS
  <2>1. pending[1] = Head(pending) /\ 1 \in 1 .. Len(pending)
    BY DEF RunMsg, TypeOK
  <2> QED
    BY <2>1 DEF RunMsg, NoRestrictedPending, TypeOK, GateStates
<1> QED
  BY <1>1, <1>2, <1>3, GatesTypeCorrect, PTL DEF Spec, IbcStopHolds

----------------------------------------------------------------------------
\* The rewards of an epoch.

Settings ==
  [blocksInEpoch   : MinBlocksInEpoch .. MaxBlocksInEpoch,
   rewardsPerEpoch : MinRewardsPerEpoch .. MaxRewardsPerEpoch,
   rewardingPaused : BOOLEAN]

Rows == UNION {[D -> Nat] : D \in SUBSET Validators}

Amounts == [Validators -> Nat]

RewardTypeOK ==
  /\ scenario \in Scenarios
  /\ height \in Nat
  /\ current \in Settings /\ next \in Settings
  /\ epochState \in [currentEpoch : Epochs, blocksIntoCurrentEpoch : Nat]
  /\ epochToPay \in Epochs
  /\ points \in [Epochs -> Rows]
  /\ outstanding \in [Epochs -> Amounts]
  /\ pool \in Nat
  /\ known \subseteq Validators
  /\ hist \in [inForce : [0 .. epochState.currentEpoch -> Settings],
               claimed : [Epochs -> Amounts]]

----------------------------------------------------------------------------
\* The arithmetic of points and payments.

\* What is assumed of the settings and the numbers, one by one.
LEMMA RewardConstants ==
  /\ MinBlocksInEpoch \in Nat \ {0} /\ MaxBlocksInEpoch \in Nat \ {0}
  /\ MinRewardsPerEpoch \in Nat /\ MaxRewardsPerEpoch \in Nat
  /\ Precision \in Nat \ {0}
  /\ PowerPoints \in Nat /\ ProposerBonusPoints \in Nat
  /\ MaxEpoch \in Nat
  BY SettingsAssumption, ArithmeticAssumption, ScenarioAssumption

\* Products and quotients of numbers are numbers.
LEMMA NatArithmetic ==
  /\ \A a, b \in Nat : a * b \in Nat
  /\ \A a \in Nat, b \in Nat \ {0} : a \div b \in Nat /\ (a \div b) * b <= a
  OBVIOUS

\* A fraction of a whole, rounded down, and the rewards by this fraction, rounded down
\* again, are not above the exact share.
LEMMA ShareRoundedDown ==
  ASSUME NEW r \in Nat, NEW p \in Nat, NEW q \in Nat \ {0}, NEW t \in Nat \ {0}
  PROVE  /\ (r * ((p * q) \div t)) \div q \in Nat
         /\ ((r * ((p * q) \div t)) \div q) * t <= r * p
<1> DEFINE a == (p * q) \div t
           b == (r * a) \div q
<1>1. a \in Nat /\ a * t <= p * q
  BY NatArithmetic
<1> HIDE DEF a
<1>2. b \in Nat /\ b * q <= r * a
  BY <1>1, NatArithmetic
<1> HIDE DEF b
<1>3. \A x, y, z \in Nat : x <= y => x * z <= y * z
  OBVIOUS
<1>4. (b * q) * t <= (r * a) * t
  BY <1>1, <1>2, <1>3, NatArithmetic
<1>5. r * (a * t) <= r * (p * q)
  <2>1. \A x, y, z \in Nat : x <= y => z * x <= z * y
    OBVIOUS
  <2> QED
    BY <1>1, <2>1, NatArithmetic
<1>6. /\ (b * q) * t = (b * t) * q /\ (r * a) * t = r * (a * t)
      /\ r * (p * q) = (r * p) * q
  <2>1. \A x, y, z \in Nat : (x * y) * z = (x * z) * y /\ (x * y) * z = x * (y * z)
    OBVIOUS
  <2> QED
    BY <1>1, <1>2, <2>1
<1>7. (b * t) * q <= (r * p) * q
  <2>1. \A w, x, y \in Nat : w <= x /\ x <= y => w <= y
    OBVIOUS
  <2>2. (b * q) * t \in Nat /\ (r * a) * t \in Nat /\ r * (p * q) \in Nat
    BY <1>1, <1>2, NatArithmetic
  <2> QED
    BY <1>4, <1>5, <1>6, <2>1, <2>2
<1>8. \A x, y \in Nat : x * q <= y * q => x <= y
  OBVIOUS
<1>9. b * t <= r * p
  BY <1>1, <1>2, <1>7, <1>8, NatArithmetic
<1> QED
  BY <1>2, <1>9 DEF a, b

\* Rows are functions of some of the validators.
LEMMA RowsAre ==
  \A rows : rows \in Rows <=> DOMAIN rows \subseteq Validators /\ rows \in [DOMAIN rows -> Nat]
  BY Zenon DEF Rows

\* The total of the points is a number.
LEMMA PointsTotal ==
  ASSUME NEW rows \in Rows
  PROVE  IsFiniteSet(DOMAIN rows) /\ Total(rows) \in Nat
<1>1. DOMAIN rows \subseteq Validators /\ rows \in [DOMAIN rows -> Nat]
  BY RowsAre
<1>2. IsFiniteSet(DOMAIN rows)
  BY <1>1, ArithmeticAssumption, FS_Subset
<1> QED
  BY <1>1, <1>2, TotalNat

\* A block adds points to the rows.
LEMMA PointsAreRows ==
  ASSUME NEW rows \in Rows, NEW settings, NEW commit \in Commits, known \subseteq Validators
  PROVE  processValidatorsPoints(rows, settings, commit) \in Rows
<1> DEFINE votes      == {v \in Validators : commit.power[v] > 0}
           totalPower == Total(commit.power)
           earned(v)  == VotePoints(commit.power[v], totalPower)
                           + (IF v = commit.proposer THEN ProposerBonusPoints ELSE 0)
           D          == DOMAIN rows \cup (votes \cap known)
           new        == [v \in D |-> IF v \in votes \cap known
                                        THEN GetValidatorPoints(rows, v) + earned(v)
                                        ELSE rows[v]]
<1>1. commit.power \in [Validators -> Nat]
  BY ArithmeticAssumption
<1>2. totalPower \in Nat
  BY <1>1, ArithmeticAssumption, TotalNat
<1>3. DOMAIN rows \subseteq Validators /\ rows \in [DOMAIN rows -> Nat]
  BY RowsAre
<1>4. ASSUME totalPower # 0, NEW v \in Validators
      PROVE  earned(v) \in Nat
  <2> HIDE DEF totalPower
  <2>1. commit.power[v] * Precision \in Nat
    BY <1>1, NatArithmetic, RewardConstants
  <2>2. (commit.power[v] * Precision) \div totalPower \in Nat
    BY <1>2, <1>4, <2>1, NatArithmetic
  <2>3. ((commit.power[v] * Precision) \div totalPower) * PowerPoints \in Nat
    BY <2>2, NatArithmetic, RewardConstants
  <2>4. VotePoints(commit.power[v], totalPower) \in Nat
    BY <2>3, NatArithmetic, RewardConstants DEF VotePoints
  <2> QED
    BY <2>4, RewardConstants
<1>5. D \subseteq Validators
  BY <1>3
<1>6. processValidatorsPoints(rows, settings, commit)
        = IF PointsPaused(settings) \/ totalPower = 0 THEN rows ELSE new
  BY DEF processValidatorsPoints
<1>7. ASSUME totalPower # 0 PROVE new \in [D -> Nat]
  <2> HIDE DEF earned, totalPower, votes
  <2>1. \A v \in D : GetValidatorPoints(rows, v) \in Nat
    BY <1>3 DEF GetValidatorPoints
  <2>2. \A v \in D : v \notin votes \cap known => v \in DOMAIN rows
    OBVIOUS
  <2>3. \A v \in D : earned(v) \in Nat
    BY <1>4, <1>5, <1>7
  <2> QED
    BY <1>3, <2>1, <2>2, <2>3
<1>8. ASSUME totalPower # 0 PROVE new \in Rows
  <2> HIDE DEF D, totalPower
  <2>1. DOMAIN new = D
    OBVIOUS
  <2> HIDE DEF new
  <2> QED
    BY <1>5, <1>7, <1>8, <2>1, RowsAre
<1> HIDE DEF new, totalPower
<1> QED
  BY <1>6, <1>8

\* Nothing is zero in total.
LEMMA NothingTotal == Nothing \in Amounts /\ Total(Nothing) = 0
<1>1. Nothing \in Amounts
  BY DEF Nothing, Amounts
<1>2. {} \in SUBSET Validators /\ \A v \in Validators \ {} : Nothing[v] = 0
  BY DEF Nothing
<1>3. Total(Nothing) = Total([v \in {} |-> Nothing[v]])
  BY <1>1, <1>2, TotalZeros, ZenonT(40) DEF Amounts
<1>4. Total([v \in {} |-> Nothing[v]]) = 0
  BY TotalEmpty
<1> QED
  BY <1>1, <1>3, <1>4

\* The rewards of an epoch: no more is paid than the settings say.
LEMMA PaymentsWithinRewards ==
  ASSUME NEW rows \in Rows, NEW settings \in Settings
  PROVE  LET paid == processValidatorsRewards(Nothing, rows, settings)
         IN  /\ paid \in Amounts
             /\ Total(paid) <= settings.rewardsPerEpoch
             /\ rows = NoRows => paid = Nothing
<1> DEFINE total == Total(rows)
           r == settings.rewardsPerEpoch
           share(v) == Payment(r, PaymentFraction(rows[v], total))
           paid == processValidatorsRewards(Nothing, rows, settings)
           f == [v \in DOMAIN rows |-> share(v)]
<1>1. r \in Nat
  BY RewardConstants DEF Settings
<1>2. total \in Nat /\ IsFiniteSet(DOMAIN rows)
  BY PointsTotal
<1>3. DOMAIN rows \subseteq Validators /\ rows \in [DOMAIN rows -> Nat]
  BY RowsAre
<1>4. Nothing \in Amounts /\ Total(Nothing) = 0
  BY NothingTotal
<1>5. CASE total = 0
  <2>1. paid = Nothing
    BY <1>5 DEF processValidatorsRewards
  <2> QED
    BY <1>1, <1>4, <2>1
<1>6. CASE total # 0
  <2>1. \A v \in DOMAIN rows : share(v) \in Nat /\ share(v) * total <= r * rows[v]
    <3> HIDE DEF total, r
    <3> SUFFICES ASSUME NEW v \in DOMAIN rows
                 PROVE  share(v) \in Nat /\ share(v) * total <= r * rows[v]
      OBVIOUS
    <3>1. rows[v] \in Nat /\ total \in Nat \ {0} /\ Precision \in Nat \ {0}
      BY <1>2, <1>3, <1>6, RewardConstants
    <3>2. share(v) = (r * ((rows[v] * Precision) \div total)) \div Precision
      BY DEF Payment, PaymentFraction
    <3> QED
      BY <1>1, <3>1, <3>2, ShareRoundedDown, SMTT(30)
  <2>2. paid = [v \in Validators |-> IF v \in DOMAIN rows THEN share(v) ELSE 0]
    <3>1. ValidateRewardsPerEpoch(r)
      BY DEF ValidateRewardsPerEpoch, Settings
    <3>2. paid = [v \in Validators |->
                    IF v \in DOMAIN rows THEN share(v) ELSE Nothing[v]]
      BY <1>6, <3>1 DEF processValidatorsRewards, PaidValidators
    <3> QED
      BY <3>2 DEF Nothing
  <2> HIDE DEF share, paid, total, r
  <2>3. paid \in Amounts
    BY <2>1, <2>2 DEF Amounts
  <2>4. f = [v \in DOMAIN rows |-> paid[v]] /\ f \in [DOMAIN rows -> Nat]
    BY <1>3, <2>1, <2>2
  <2>5. Total(paid) = Total(f)
    <3>1. \A v \in Validators \ DOMAIN rows : paid[v] = 0
      BY <2>2
    <3>2. Total(paid) = Total([v \in DOMAIN rows |-> paid[v]])
      BY <1>3, <2>3, <3>1, TotalZeros, ZenonT(40) DEF Amounts
    <3> QED
      BY <2>4, <3>2
  <2>6. Total(f) * total <= r * total
    <3>1. \A v \in DOMAIN rows : f[v] * total <= r * rows[v]
      BY <2>1
    <3> HIDE DEF f
    <3>2. Total(f) * total <= r * Total(rows)
      BY <1>1, <1>2, <1>3, <2>4, <3>1, TotalShares
    <3> QED
      BY <3>2 DEF total
  <2>7. Total(f) \in Nat
    BY <1>2, <2>4, TotalNat
  <2>8. Total(f) <= r
    <3>1. \A x, y \in Nat, t \in Nat \ {0} : x * t <= y * t => x <= y
      OBVIOUS
    <3> HIDE DEF f
    <3> QED
      BY <1>1, <1>2, <1>6, <2>6, <2>7, <3>1
  <2>9. rows # NoRows
    <3>1. Total(NoRows) = 0
      BY TotalEmpty DEF NoRows
    <3> QED
      BY <1>6, <3>1 DEF total
  <2>10. paid \in Amounts /\ Total(paid) <= r /\ (rows = NoRows => paid = Nothing)
    BY <2>3, <2>5, <2>8, <2>9
  <2> QED
    BY <2>10 DEF paid, r
<1> QED
  BY <1>5, <1>6
----------------------------------------------------------------------------
\* The inductive invariant.

\* An epoch that has not begun has no points; one that is not completed owes nothing
\* and has paid nothing; the settings of the running epoch are the ones it began with,
\* and if these pause the rewards it has no points.
EpochsInOrder ==
  LET e == epochState.currentEpoch
  IN  /\ epochState.blocksIntoCurrentEpoch < current.blocksInEpoch
      /\ epochToPay = e
      /\ \A k \in Epochs : k > e => points[k] = NoRows
      /\ \A k \in Epochs : k >= e => outstanding[k] = Nothing /\ hist.claimed[k] = Nothing
      /\ hist.inForce[e] = current
      /\ current.rewardingPaused => points[e] = NoRows

RewardInv == RewardTypeOK /\ EpochsInOrder /\ EpochBudget

\* Settings in the ranges of the code are valid.
LEMMA SettingsAreValid == \A s \in Settings : Validate(s)
  BY DEF Settings, Validate, ValidateBlocksInEpoch, ValidateRewardsPerEpoch

\* The invariant holds when the chain starts.
LEMMA RewardInvInit == RewardInit => RewardInv
<1> SUFFICES ASSUME RewardInit PROVE RewardInv
  OBVIOUS
<1>1. current \in Settings /\ next \in Settings /\ current.blocksInEpoch \in Nat \ {0}
  BY SettingsAssumption, RewardConstants DEF RewardInit, Settings
<1>2. NoRows \in Rows /\ Nothing \in Amounts
  BY RowsAre, Zenon DEF NoRows, Nothing, Amounts
<1>3. 0 \in Epochs /\ 0 .. 0 = {0}
  BY RewardConstants DEF Epochs
<1>4. epochState.currentEpoch = 0 /\ epochState.blocksIntoCurrentEpoch = 0
  BY DEF RewardInit
<1>5. hist \in [inForce : [0 .. 0 -> Settings], claimed : [Epochs -> Amounts]]
  BY <1>1, <1>2, <1>3 DEF RewardInit
<1>6. RewardTypeOK
  BY <1>1, <1>2, <1>3, <1>4, <1>5 DEF RewardInit, RewardTypeOK
<1>7. EpochsInOrder
  BY <1>1, <1>3, <1>4 DEF RewardInit, EpochsInOrder
<1>8. EpochBudget
  BY <1>4 DEF EpochBudget, Completed
<1> QED
  BY <1>6, <1>7, <1>8 DEF RewardInv

\* What an epoch allocates stays if its rows and the settings it began with do.
LEMMA BudgetStays ==
  ASSUME EpochBudget, epochState' = epochState,
         \A e \in Completed : Allocated(e)' = Allocated(e) /\ hist'.inForce[e] = hist.inForce[e]
  PROVE  EpochBudget'
  BY DEF EpochBudget, Completed, Budget

\* A block adds points, and the one that fills its epoch pays its rewards.
LEMMA BeginBlockerKeeps ==
  ASSUME RewardInv, NEW commit \in Commits, BeginBlocker(commit), UNCHANGED scenario
  PROVE  RewardInv' /\ \A k \in Completed : Allocated(k)' = Allocated(k)
<1> USE DEF RewardInv
<1>0. PICK e : e = epochState.currentEpoch
  OBVIOUS
<1> DEFINE rows   == processValidatorsPoints(points[e], current, commit)
           blocks == epochState.blocksIntoCurrentEpoch + 1
<1>1. /\ e \in Epochs /\ e + 1 \in Epochs /\ e \in Nat /\ e # e + 1
      /\ epochState.blocksIntoCurrentEpoch \in Nat
      /\ \A k \in Epochs : k \in Nat
  <2>1. e \in Epochs /\ epochState.blocksIntoCurrentEpoch \in Nat
    BY <1>0 DEF RewardTypeOK
  <2>2. e < MaxEpoch
    BY <1>0 DEF BeginBlocker
  <2> QED
    BY <2>1, <2>2, RewardConstants DEF Epochs
<1>2. points[e] \in Rows
  BY <1>1 DEF RewardTypeOK
<1>3. rows \in Rows
  BY <1>2, PointsAreRows DEF RewardTypeOK
<1>4. current.rewardingPaused => rows = NoRows
  BY <1>0 DEF processValidatorsPoints, PointsPaused, EpochsInOrder
<1>5. /\ height' = height + 1
      /\ points' = [points EXCEPT ![e] = rows]
      /\ hist' = [hist EXCEPT !.inForce = [k \in 0 .. epochState'.currentEpoch |->
                      IF k = epochState'.currentEpoch THEN current' ELSE hist.inForce[k]]]
      /\ UNCHANGED <<whitelist, pool, known, scenario>>
  BY <1>0 DEF BeginBlocker
<1>6. points' \in [Epochs -> Rows] /\ points'[e] = rows
      /\ \A k \in Epochs : k # e => points'[k] = points[k]
  BY <1>1, <1>3, <1>5 DEF RewardTypeOK
<1>7. hist.inForce \in [0 .. e -> Settings] /\ hist.claimed \in [Epochs -> Amounts]
  BY <1>0 DEF RewardTypeOK
<1>8. outstanding \in [Epochs -> Amounts]
  BY DEF RewardTypeOK
<1> HIDE DEF rows
<1>9. CASE ~EpochEnds(blocks, current)
  <2>1. /\ epochState' = [epochState EXCEPT !.blocksIntoCurrentEpoch = blocks]
        /\ UNCHANGED <<outstanding, epochToPay, current, next>>
    BY <1>0, <1>9 DEF BeginBlocker
  <2>2. /\ epochState' \in [currentEpoch : Epochs, blocksIntoCurrentEpoch : Nat]
        /\ epochState'.currentEpoch = e /\ epochState'.blocksIntoCurrentEpoch = blocks
    BY <1>0, <1>1, <2>1, SMTT(30) DEF RewardTypeOK
  <2>3. /\ hist' \in [inForce : [0 .. e -> Settings], claimed : [Epochs -> Amounts]]
        /\ hist'.inForce = hist.inForce /\ hist'.claimed = hist.claimed
    <3>1. hist.inForce[e] = current
      BY <1>0 DEF EpochsInOrder
    <3>2. [k \in 0 .. e |-> IF k = e THEN current' ELSE hist.inForce[k]] = hist.inForce
      BY <1>7, <2>1, <3>1, Zenon
    <3> QED
      BY <1>5, <1>7, <2>2, <3>2 DEF RewardTypeOK
  <2>4. blocks < current'.blocksInEpoch
    <3>1. current.blocksInEpoch \in Nat
      BY RewardConstants DEF RewardTypeOK, Settings
    <3> QED
      BY <1>1, <1>9, <2>1, <3>1 DEF EpochEnds
  <2>5. RewardTypeOK'
    BY <1>5, <1>6, <2>1, <2>2, <2>3 DEF RewardTypeOK
  <2>6. EpochsInOrder'
    <3>1. \A k \in Epochs : k > e => points'[k] = NoRows
      BY <1>0, <1>1, <1>6 DEF EpochsInOrder
    <3>2. \A k \in Epochs : k >= e => outstanding'[k] = Nothing /\ hist'.claimed[k] = Nothing
      BY <1>0, <2>1, <2>3 DEF EpochsInOrder
    <3>3. hist'.inForce[e] = current' /\ epochToPay' = e
      BY <1>0, <2>1, <2>3 DEF EpochsInOrder
    <3>4. current'.rewardingPaused => points'[e] = NoRows
      BY <1>4, <1>6, <2>1
    <3> QED
      BY <2>2, <2>4, <3>1, <3>2, <3>3, <3>4 DEF EpochsInOrder
  <2>7. \A k \in Completed : Allocated(k)' = Allocated(k)
    BY <2>1, <2>3, SMTT(30) DEF Allocated
  <2>8. EpochBudget'
    BY <1>0, <2>2, <2>3, <2>7, SMTT(30) DEF EpochBudget, Completed, Budget
  <2> QED
    BY <2>5, <2>6, <2>7, <2>8
<1>10. CASE EpochEnds(blocks, current)
  <2> DEFINE paid == processValidatorsRewards(Nothing, rows, current)
  <2>1. /\ outstanding' = [outstanding EXCEPT ![e] = processValidatorsRewards(@, rows, current)]
        /\ epochToPay' = e + 1
        /\ epochState' = [currentEpoch |-> e + 1, blocksIntoCurrentEpoch |-> 0]
        /\ current' = PromotedSettings
        /\ next' = PromotedSettings
    BY <1>0, <1>10 DEF BeginBlocker, rows
  <2>2. PromotedSettings \in Settings
    BY SettingsAreValid DEF PromotedSettings, RewardTypeOK
  <2>3. outstanding[e] = Nothing /\ hist.claimed[e] = Nothing
    BY <1>0, <1>1 DEF EpochsInOrder
  <2>4. /\ paid \in Amounts /\ Total(paid) <= current.rewardsPerEpoch
        /\ rows = NoRows => paid = Nothing
    BY <1>3, PaymentsWithinRewards DEF RewardTypeOK
  <2>5. outstanding' = [outstanding EXCEPT ![e] = paid]
    BY <2>1, <2>3
  <2> HIDE DEF paid
  <2>6. /\ outstanding' \in [Epochs -> Amounts] /\ outstanding'[e] = paid
        /\ \A k \in Epochs : k # e => outstanding'[k] = outstanding[k]
    BY <1>1, <1>8, <2>4, <2>5
  <2>7. /\ hist' \in [inForce : [0 .. e + 1 -> Settings], claimed : [Epochs -> Amounts]]
        /\ hist'.claimed = hist.claimed /\ hist'.inForce[e + 1] = current'
        /\ \A k \in 0 .. e : hist'.inForce[k] = hist.inForce[k]
    <3> DEFINE force == [k \in 0 .. e + 1 |-> IF k = e + 1 THEN current' ELSE hist.inForce[k]]
    <3>1. force \in [0 .. e + 1 -> Settings]
      BY <1>1, <1>7, <2>1, <2>2
    <3>2. force[e + 1] = current' /\ \A k \in 0 .. e : force[k] = hist.inForce[k]
      BY <1>1
    <3>3. hist' = [hist EXCEPT !.inForce = force]
      BY <1>5, <2>1
    <3> HIDE DEF force
    <3> QED
      BY <3>1, <3>2, <3>3, SMTT(30) DEF RewardTypeOK
  <2>8. epochState'.currentEpoch = e + 1 /\ epochState'.blocksIntoCurrentEpoch = 0
    BY <2>1
  <2>9. epochState' \in [currentEpoch : Epochs, blocksIntoCurrentEpoch : Nat]
    BY <1>1, <2>1
  <2>10. RewardTypeOK'
    <3>1. hist' \in [inForce : [0 .. epochState'.currentEpoch -> Settings],
                     claimed : [Epochs -> Amounts]]
      BY <2>7, <2>8
    <3>2. height' \in Nat /\ pool' \in Nat /\ known' \subseteq Validators /\ scenario' \in Scenarios
      BY <1>5 DEF RewardTypeOK
    <3>3. current' \in Settings /\ next' \in Settings /\ epochToPay' \in Epochs
      BY <1>1, <2>1, <2>2, SMTT(30)
    <3> QED
      BY <1>6, <2>6, <2>9, <3>1, <3>2, <3>3, SMTT(30) DEF RewardTypeOK
  <2>11. EpochsInOrder'
    <3>1. current'.blocksInEpoch \in Nat \ {0}
      BY <2>1, <2>2, RewardConstants DEF Settings
    <3>2. \A k \in Epochs : k >= e + 1 => k > e /\ k >= e /\ k # e
      BY <1>1, SMTT(30)
    <3>3. \A k \in Epochs : k >= e + 1 => /\ points'[k] = NoRows
                                          /\ outstanding'[k] = Nothing
                                          /\ hist'.claimed[k] = Nothing
      BY <1>0, <1>6, <2>6, <2>7, <3>2, SMTT(30) DEF EpochsInOrder
    <3> QED
      BY <1>1, <2>1, <2>7, <2>8, <3>1, <3>3, SMTT(30) DEF EpochsInOrder
  <2>12. \A k \in Completed : Allocated(k)' = Allocated(k)
    <3>1. \A k \in Completed : k \in Epochs /\ k # e
      BY <1>0, <1>1, RewardConstants DEF Completed, Epochs
    <3> QED
      BY <2>6, <2>7, <3>1 DEF Allocated
  <2>13. Allocated(e)' = paid
    <3>1. Allocated(e)' = [v \in Validators |-> outstanding'[e][v] + hist'.claimed[e][v]]
      BY <1>1, <2>8, SMTT(30) DEF Allocated
    <3>2. \A v \in Validators : hist'.claimed[e][v] = 0 /\ paid[v] \in Nat
      BY <2>3, <2>4, <2>7 DEF Nothing, Amounts
    <3>3. [v \in Validators |-> outstanding'[e][v] + hist'.claimed[e][v]] = paid
      BY <2>4, <2>6, <3>2 DEF Amounts
    <3> QED
      BY <3>1, <3>3, SMTT(30)
  <2>14. EpochBudget'
    <3> SUFFICES ASSUME NEW k \in 0 .. e
                 PROVE  Total(Allocated(k)') <= Budget(k)'
      BY <1>1, <2>8 DEF EpochBudget, Completed
    <3>1. CASE k = e
      <4>1. Budget(e)' = IF current.rewardingPaused THEN 0 ELSE current.rewardsPerEpoch
        <5>1. hist.inForce[e] = current
          BY <1>0 DEF EpochsInOrder
        <5>2. hist'.inForce[e] = hist.inForce[e]
          BY <1>1, <2>7
        <5> QED
          BY <5>1, <5>2, SMTT(30) DEF Budget
      <4>2. current.rewardingPaused => paid = Nothing
        BY <1>4, <2>4
      <4>3. Total(Nothing) = 0
        BY NothingTotal
      <4> QED
        BY <2>4, <2>13, <3>1, <4>1, <4>2, <4>3
    <3>2. CASE k # e
      <4>1. k \in Completed
        BY <1>0, <1>1, <3>2, SMTT(30) DEF Completed
      <4>2. Budget(k)' = Budget(k)
        BY <2>7 DEF Budget
      <4> QED
        BY <2>12, <4>1, <4>2 DEF EpochBudget
    <3> QED
      BY <3>1, <3>2
  <2> QED
    BY <2>10, <2>11, <2>12, <2>14
<1> QED
  BY <1>9, <1>10
\* A claim moves an amount from what an epoch owes to what it has paid.
LEMMA ClaimMoves ==
  ASSUME RewardInv, NEW v \in Validators, NEW e \in Epochs, ClaimRewards(v, e)
  PROVE  /\ outstanding' = [outstanding EXCEPT ![e] = [outstanding[e] EXCEPT ![v] = 0]]
         /\ outstanding' \in [Epochs -> Amounts]
         /\ outstanding[e][v] \in Nat /\ outstanding[e][v] > 0
         /\ pool' = pool - outstanding[e][v] /\ pool' \in Nat
         /\ hist'.inForce = hist.inForce
         /\ hist'.claimed \in [Epochs -> Amounts]
         /\ hist' \in [inForce : [0 .. epochState.currentEpoch -> Settings],
                       claimed : [Epochs -> Amounts]]
         /\ \A k \in Epochs : k # e => hist'.claimed[k] = hist.claimed[k]
         /\ \A k \in Epochs : Allocated(k)' = Allocated(k)
<1> DEFINE reward == outstanding[e][v]
           paid == [hist.claimed EXCEPT ![e] = [hist.claimed[e] EXCEPT ![v] = hist.claimed[e][v] + reward]]
<1>1. outstanding \in [Epochs -> Amounts] /\ hist.claimed \in [Epochs -> Amounts] /\ pool \in Nat
  BY DEF RewardInv, RewardTypeOK
<1>2. /\ outstanding[e] \in Amounts /\ hist.claimed[e] \in Amounts
      /\ reward \in Nat /\ hist.claimed[e][v] \in Nat
  BY <1>1 DEF Amounts
<1>3. /\ reward > 0 /\ pool >= reward /\ pool' = pool - reward
      /\ outstanding' = [outstanding EXCEPT ![e][v] = 0]
      /\ hist' = [hist EXCEPT !.claimed[e][v] = @ + reward]
  BY DEF ClaimRewards, AfterClaim
<1>4. outstanding' = [outstanding EXCEPT ![e] = [outstanding[e] EXCEPT ![v] = 0]]
  BY <1>1, <1>3
<1>5. hist' = [hist EXCEPT !.claimed = paid]
  BY <1>1, <1>3 DEF RewardInv, RewardTypeOK
<1> HIDE DEF reward
<1>6. [outstanding[e] EXCEPT ![v] = 0] \in Amounts
  BY <1>2 DEF Amounts
<1>7. outstanding' \in [Epochs -> Amounts]
  BY <1>1, <1>4, <1>6
<1>8. paid \in [Epochs -> Amounts] /\ \A k \in Epochs : k # e => paid[k] = hist.claimed[k]
  <2>1. [hist.claimed[e] EXCEPT ![v] = hist.claimed[e][v] + reward] \in Amounts
    BY <1>2, SMTT(30) DEF Amounts
  <2> QED
    BY <1>1, <2>1
<1>9. \A k \in Epochs, w \in Validators :
        outstanding'[k][w] + paid[k][w] = outstanding[k][w] + hist.claimed[k][w]
  <2> SUFFICES ASSUME NEW k \in Epochs, NEW w \in Validators
               PROVE  outstanding'[k][w] + paid[k][w] = outstanding[k][w] + hist.claimed[k][w]
    BY SMTT(30)
  <2>1. CASE k # e
    BY <1>1, <1>4, <1>8, <2>1, SMTT(30)
  <2>2. CASE k = e /\ w # v
    <3>1. outstanding'[k][w] = outstanding[k][w] /\ paid[k][w] = hist.claimed[k][w]
      BY <1>1, <1>2, <1>4, <2>2, SMTT(30) DEF Amounts
    <3> QED
      BY <3>1, SMTT(30)
  <2>3. CASE k = e /\ w = v
    <3>1. outstanding'[k][w] = 0 /\ paid[k][w] = hist.claimed[e][v] + reward
      BY <1>1, <1>2, <1>4, <2>3 DEF Amounts
    <3> QED
      BY <1>2, <2>3, <3>1, SMTT(30) DEF reward
  <2> QED
    BY <2>1, <2>2, <2>3, SMTT(30)
<1> HIDE DEF paid
<1>10. /\ hist'.inForce = hist.inForce /\ hist'.claimed = paid
       /\ hist' \in [inForce : [0 .. epochState.currentEpoch -> Settings],
                     claimed : [Epochs -> Amounts]]
  BY <1>5, <1>8, SMTT(30) DEF RewardInv, RewardTypeOK
<1>11. \A k \in Epochs : Allocated(k)' = Allocated(k)
  <2> SUFFICES ASSUME NEW k \in Epochs PROVE Allocated(k)' = Allocated(k)
    BY SMTT(30)
  <2>1. \A w \in Validators :
          outstanding'[k][w] + hist'.claimed[k][w] = outstanding[k][w] + hist.claimed[k][w]
    BY <1>9, <1>10
  <2> QED
    BY <2>1 DEF Allocated
<1>12. pool' \in Nat
  BY <1>1, <1>2, <1>3 DEF reward
<1> QED
  BY <1>2, <1>3, <1>4, <1>7, <1>8, <1>10, <1>11, <1>12, ZenonT(40) DEF reward

\* A claim keeps the invariant, and what is allocated to every epoch.
LEMMA ClaimKeeps ==
  ASSUME RewardInv, NEW v \in Validators, NEW e \in Epochs, ClaimRewards(v, e), UNCHANGED scenario
  PROVE  RewardInv' /\ \A k \in Completed : Allocated(k)' = Allocated(k)
<1>1. UNCHANGED <<height, current, next, epochState, epochToPay, points, known, scenario>>
  BY SMTT(30) DEF ClaimRewards
<1>2. RewardTypeOK'
  BY <1>1, ClaimMoves, SMTT(30) DEF RewardInv, RewardTypeOK
<1>3. ~(e >= epochState.currentEpoch)
  <2>1. outstanding[e][v] > 0
    BY DEF ClaimRewards
  <2>2. outstanding[e] # Nothing
    BY <2>1 DEF Nothing
  <2> QED
    BY <2>2 DEF RewardInv, EpochsInOrder
<1>4. \A k \in Epochs : k >= epochState.currentEpoch =>
        outstanding'[k] = Nothing /\ hist'.claimed[k] = Nothing
  <2> SUFFICES ASSUME NEW k \in Epochs, k >= epochState.currentEpoch
               PROVE  outstanding'[k] = Nothing /\ hist'.claimed[k] = Nothing
    OBVIOUS
  <2>1. k # e
    BY <1>3
  <2>2. outstanding'[k] = outstanding[k] /\ hist'.claimed[k] = hist.claimed[k]
    BY <2>1, ClaimMoves DEF RewardInv, RewardTypeOK
  <2> QED
    BY <2>2 DEF RewardInv, EpochsInOrder
<1>5. hist'.inForce = hist.inForce
  BY ClaimMoves, SMTT(30)
<1>6. EpochsInOrder'
  BY <1>1, <1>4, <1>5 DEF RewardInv, EpochsInOrder
<1>7. \A k \in Completed : k \in Epochs
  BY RewardConstants DEF RewardInv, RewardTypeOK, Completed, Epochs
<1>8. \A k \in Completed : Allocated(k)' = Allocated(k)
  BY <1>7, ClaimMoves, SMTT(30)
<1>9. EpochBudget'
  BY <1>1, <1>5, <1>8, BudgetStays DEF RewardInv
<1> QED
  BY <1>2, <1>6, <1>8, <1>9 DEF RewardInv

\* Steps that touch neither the rows nor the epoch.
LEMMA OthersKeep ==
  ASSUME RewardInv, height' \in Nat, next' \in Settings, pool' \in Nat, known' \subseteq Validators,
         UNCHANGED <<current, epochState, epochToPay, points, outstanding, hist, scenario>>
  PROVE  RewardInv' /\ \A k \in Completed : Allocated(k)' = Allocated(k)
<1>1. RewardTypeOK'
  BY SMTT(30) DEF RewardInv, RewardTypeOK
<1>2. EpochsInOrder'
  BY DEF RewardInv, EpochsInOrder
<1>3. \A k \in Completed : Allocated(k)' = Allocated(k)
  BY DEF Allocated
<1>4. EpochBudget'
  BY <1>3, BudgetStays DEF RewardInv
<1> QED
  BY <1>1, <1>2, <1>3, <1>4 DEF RewardInv

\* Staged settings are in the ranges.
LEMMA StagedSettings ==
  ASSUME RewardInv, NEW signer, NEW settings, StageSettings(signer, settings),
         \/ \E n : settings = [next EXCEPT !.blocksInEpoch = n]
         \/ \E n : settings = [next EXCEPT !.rewardsPerEpoch = n]
         \/ \E b \in BOOLEAN : settings = [next EXCEPT !.rewardingPaused = b]
  PROVE  next' \in Settings
<1>1. next \in Settings
  BY DEF RewardInv, RewardTypeOK
<1>2. next' = settings /\ Validate(settings)
  BY DEF StageSettings
<1>3. settings \in Settings
  BY <1>1, <1>2, SMTT(30) DEF Settings, Validate, ValidateBlocksInEpoch, ValidateRewardsPerEpoch
<1> QED
  BY <1>2, <1>3

\* Every step keeps the invariant, and what was allocated to completed epochs.
LEMMA RewardStep ==
  ASSUME RewardInv, RewardNext
  PROVE  RewardInv' /\ \A k \in Completed : Allocated(k)' = Allocated(k)
<1>1. /\ height \in Nat /\ next \in Settings /\ pool \in Nat /\ known \subseteq Validators
      /\ scenario \in Scenarios
  BY SMTT(30) DEF RewardInv, RewardTypeOK
<1>2. CASE FirstBlock
  BY <1>1, <1>2, OthersKeep DEF FirstBlock, RewardNext
<1>3. CASE \E commit \in Commits : BeginBlocker(commit)
  BY <1>3, BeginBlockerKeeps, SMTT(30) DEF RewardNext
<1>4. CASE \E w \in SUBSET scenario.signers : UpdateParams(w)
  BY <1>1, <1>4, OthersKeep DEF UpdateParams, RewardNext
<1>5. CASE \E s \in scenario.signers, n \in BlocksInputs : SetBlocksInEpoch(s, n)
  <2>1. PICK s \in scenario.signers, n \in BlocksInputs :
          StageSettings(s, [next EXCEPT !.blocksInEpoch = n])
    BY <1>5 DEF SetBlocksInEpoch
  <2>2. next' \in Settings
    BY <2>1, StagedSettings
  <2> QED
    BY <1>1, <2>1, <2>2, OthersKeep DEF StageSettings, RewardNext
<1>6. CASE \E s \in scenario.signers, n \in RewardsInputs : SetRewardsPerEpoch(s, n)
  <2>1. PICK s \in scenario.signers, n \in RewardsInputs :
          StageSettings(s, [next EXCEPT !.rewardsPerEpoch = n])
    BY <1>6 DEF SetRewardsPerEpoch
  <2>2. next' \in Settings
    BY <2>1, StagedSettings
  <2> QED
    BY <1>1, <2>1, <2>2, OthersKeep DEF StageSettings, RewardNext
<1>7. CASE \E s \in scenario.signers, b \in BOOLEAN : SetRewardingPaused(s, b)
  <2>1. PICK s \in scenario.signers, b \in BOOLEAN :
          StageSettings(s, [next EXCEPT !.rewardingPaused = b])
    BY <1>7 DEF SetRewardingPaused
  <2>2. next' \in Settings
    BY <2>1, StagedSettings, SMTT(30)
  <2> QED
    BY <1>1, <2>1, <2>2, OthersKeep DEF StageSettings, RewardNext
<1>8. CASE \E v \in Validators, e \in Epochs : ClaimRewards(v, e)
  BY <1>8, ClaimKeeps, SMTT(30) DEF RewardNext
<1>9. CASE \E n \in scenario.deposits : DepositRewardsPool(n)
  <2>1. PICK n \in scenario.deposits : DepositRewardsPool(n)
    BY <1>9
  <2>2. pool' \in Nat
    BY <1>1, <2>1, ScenarioAssumption, SMTT(30) DEF DepositRewardsPool
  <2> QED
    BY <1>1, <2>1, <2>2, OthersKeep DEF DepositRewardsPool, RewardNext
<1>10. CASE \E v \in scenario.leavers : StakingChanges(v)
  <2>1. PICK v \in scenario.leavers : StakingChanges(v)
    BY <1>10
  <2>2. known' \subseteq Validators
    BY <1>1, <2>1, ScenarioAssumption, SMTT(30) DEF StakingChanges
  <2> QED
    BY <1>1, <2>1, <2>2, OthersKeep DEF StakingChanges, RewardNext
<1>11. CASE \E h \in {0, height} : ExportImport(h)
  <2>1. PICK h \in {0, height} : ExportImport(h)
    BY <1>11
  <2>2. height' \in Nat
    BY <1>1, <2>1 DEF ExportImport
  <2> QED
    BY <1>1, <2>1, <2>2, OthersKeep DEF ExportImport, RewardNext
<1> QED
  BY <1>2, <1>3, <1>4, <1>5, <1>6, <1>7, <1>8, <1>9, <1>10, <1>11, SMTT(30) DEF RewardNext

\* Every step or stutter keeps them.
LEMMA RewardInvNext ==
  ASSUME RewardInv, [RewardNext]_rewardVars
  PROVE  RewardInv' /\ \A k \in Completed : Allocated(k)' = Allocated(k)
<1>1. CASE UNCHANGED rewardVars
  BY <1>1, OthersKeep DEF rewardVars, RewardInv, RewardTypeOK
<1> QED
  BY <1>1, RewardStep, SMTT(30)

\* The invariant holds on every chain.
THEOREM RewardInvariant == RewardSpec => []RewardInv
<1>1. RewardInv /\ [RewardNext]_rewardVars => RewardInv'
  BY RewardInvNext
<1> QED
  BY <1>1, RewardInvInit, PTL DEF RewardSpec

\* No epoch pays and owes more than the budget it began with, for any split of the
\* points (processValidatorsRewards).
THEOREM BudgetIsKept == RewardSpec => []EpochBudget
<1>1. RewardInv => EpochBudget
  BY DEF RewardInv
<1> QED
  BY <1>1, RewardInvariant, PTL

\* The state is at any time one that GenesisState.Validate accepts.
THEOREM ExportAlwaysValidates == RewardSpec => []ExportValidates
<1>1. RewardInv => ExportValidates
  <2> SUFFICES ASSUME RewardInv PROVE GenesisValidate
    BY DEF ExportValidates
  <2>1. Validate(current) /\ Validate(next)
    BY SettingsAreValid DEF RewardInv, RewardTypeOK
  <2>2. epochState.blocksIntoCurrentEpoch \in 0 .. current.blocksInEpoch - 1
    <3>1. epochState.blocksIntoCurrentEpoch \in Nat /\ current.blocksInEpoch \in Nat
      BY RewardConstants DEF RewardInv, RewardTypeOK, Settings
    <3> QED
      BY <3>1 DEF RewardInv, EpochsInOrder
  <2>3. epochState.currentEpoch \in Nat /\ \A e \in Epochs : e \in Nat
    BY RewardConstants DEF RewardInv, RewardTypeOK, Epochs
  <2>4. epochToPay <= epochState.currentEpoch
    BY <2>3 DEF RewardInv, EpochsInOrder
  <2>5. ASSUME NEW e \in Epochs, e > epochState.currentEpoch
        PROVE  points[e] = NoRows /\ outstanding[e] = Nothing
    <3>1. e >= epochState.currentEpoch
      BY <2>3, <2>5
    <3> QED
      BY <2>5, <3>1 DEF RewardInv, EpochsInOrder
  <2> QED
    BY <2>1, <2>2, <2>4, <2>5 DEF GenesisValidate
<1> QED
  BY <1>1, RewardInvariant, PTL

\* Nothing is allocated to an epoch after it is completed.
THEOREM SettledForGood == RewardSpec => SettledOnce
<1> DEFINE Kept == \A e \in Completed : Allocated(e)' = Allocated(e)
<1>1. RewardInv /\ [RewardNext]_rewardVars => [Kept]_rewardVars
  BY RewardInvNext
<1>2. SettledOnce <=> [][Kept]_rewardVars
  BY DEF SettledOnce
<1> HIDE DEF Kept
<1> QED
  BY <1>1, <1>2, RewardInvariant, PTL DEF RewardSpec

\* A claim takes from the pool what it takes from the sum of what is owed.
LEMMA ClaimKeepsCover ==
  ASSUME RewardInv, NEW v \in Validators, NEW e \in Epochs, ClaimRewards(v, e),
         validateOutstandingRewardsFunding
  PROVE  validateOutstandingRewardsFunding'
<1> DEFINE owed == [k \in Epochs |-> OutstandingOf(k)]
           reward == outstanding[e][v]
           less == Total([outstanding[e] EXCEPT ![v] = 0])
<1>1. outstanding \in [Epochs -> Amounts] /\ pool \in Nat
  BY DEF RewardInv, RewardTypeOK
<1>2. IsFiniteSet(Validators) /\ IsFiniteSet(Epochs)
  BY ArithmeticAssumption, RewardConstants, FS_Interval DEF Epochs
<1>3. \A k \in Epochs : outstanding[k] \in [Validators -> Nat]
  BY <1>1 DEF Amounts
<1>4. \A k \in Epochs : Total(outstanding[k]) \in Nat
  BY <1>2, <1>3, TotalNat
<1>5. owed \in [Epochs -> Nat] /\ owed[e] = Total(outstanding[e])
  BY <1>4 DEF OutstandingOf
<1>6. [outstanding[e] EXCEPT ![v] = 0] \in [Validators -> Nat]
  BY <1>3
<1>7. less \in Nat
  BY <1>2, <1>6, TotalNat
<1>8. less = Total(outstanding[e]) - reward + 0
  <2>1. 0 \in Nat /\ outstanding[e] \in [Validators -> Nat]
    BY <1>3
  <2> QED
    BY <1>2, <2>1, TotalExcept, Zenon
<1>9. [k \in Epochs |-> OutstandingOf(k)]' = [owed EXCEPT ![e] = less]
  <2>1. outstanding' = [outstanding EXCEPT ![e] = [outstanding[e] EXCEPT ![v] = 0]]
    BY ClaimMoves
  <2>2. \A k \in Epochs : OutstandingOf(k)' = IF k = e THEN less ELSE OutstandingOf(k)
    BY <1>1, <2>1, SMTT(30) DEF OutstandingOf
  <2>3. [owed EXCEPT ![e] = less] = [k \in Epochs |-> IF k = e THEN less ELSE OutstandingOf(k)]
    BY ZenonT(40)
  <2> HIDE DEF owed, less
  <2> QED
    BY <2>2, <2>3
<1> HIDE DEF owed, less
<1>10. Total([owed EXCEPT ![e] = less]) = Total(owed) - owed[e] + less
  <2>1. owed \in [Epochs -> Nat] /\ IsFiniteSet(Epochs)
    BY <1>2, <1>5
  <2> QED
    BY <1>7, <2>1, TotalExcept, Zenon
<1>11. Total(owed) \in Nat
  BY <1>2, <1>5, TotalNat
<1>12. Total(owed) <= pool
  BY DEF validateOutstandingRewardsFunding, owed
<1>13. reward \in Nat /\ pool' = pool - reward
  BY ClaimMoves
<1> HIDE DEF reward
<1>14. Total([owed EXCEPT ![e] = less]) <= pool'
  BY <1>1, <1>4, <1>5, <1>7, <1>8, <1>10, <1>11, <1>12, <1>13
<1> QED
  BY <1>9, <1>14 DEF validateOutstandingRewardsFunding

\* Only a payout can leave the pool short of what is owed.
THEOREM PoolStaysFunded == RewardSpec => OnlyPayoutUnfunds
<1> DEFINE Covers == validateOutstandingRewardsFunding /\ epochState' = epochState
                       => validateOutstandingRewardsFunding'
<1>1. RewardInv /\ [RewardNext]_rewardVars => [Covers]_rewardVars
  <2> SUFFICES ASSUME RewardInv, RewardNext,
                      validateOutstandingRewardsFunding, epochState' = epochState
               PROVE  validateOutstandingRewardsFunding'
    OBVIOUS
  <2>1. epochState \in [currentEpoch : Epochs, blocksIntoCurrentEpoch : Nat] /\ pool \in Nat
        /\ scenario \in Scenarios
    BY DEF RewardInv, RewardTypeOK
  <2>2. ASSUME UNCHANGED outstanding, pool' \in Nat, pool' >= pool
        PROVE  validateOutstandingRewardsFunding'
    <3> DEFINE t == Total([e \in Epochs |-> OutstandingOf(e)])
    <3>1. t' = t
      BY <2>2 DEF OutstandingOf
    <3>2. t \in Nat
      <4>1. IsFiniteSet(Validators) /\ IsFiniteSet(Epochs)
        BY ArithmeticAssumption, RewardConstants, FS_Interval DEF Epochs
      <4>2. \A e \in Epochs : outstanding[e] \in [Validators -> Nat]
        BY DEF RewardInv, RewardTypeOK, Amounts
      <4>3. [e \in Epochs |-> OutstandingOf(e)] \in [Epochs -> Nat]
        BY <4>1, <4>2, TotalNat DEF OutstandingOf
      <4> QED
        BY <4>1, <4>3, TotalNat
    <3>3. t <= pool
      BY DEF validateOutstandingRewardsFunding
    <3> HIDE DEF t
    <3>4. t' <= pool'
      BY <2>1, <2>2, <3>1, <3>2, <3>3
    <3> QED
      BY <3>4 DEF t, validateOutstandingRewardsFunding
  <2>3. ASSUME NEW commit \in Commits, BeginBlocker(commit) PROVE FALSE
    <3>1. epochState.currentEpoch \in Nat /\ epochState.blocksIntoCurrentEpoch \in Nat
      BY <2>1, RewardConstants DEF Epochs
    <3>2. \/ epochState'.currentEpoch = epochState.currentEpoch + 1
          \/ epochState'.blocksIntoCurrentEpoch = epochState.blocksIntoCurrentEpoch + 1
      BY <2>1, <2>3, SMTT(30) DEF BeginBlocker
    <3> QED
      BY <3>1, <3>2
  <2>4. ASSUME NEW n \in scenario.deposits, DepositRewardsPool(n)
        PROVE  UNCHANGED outstanding /\ pool' \in Nat /\ pool' >= pool
    BY <2>1, <2>4, ScenarioAssumption DEF DepositRewardsPool
  <2>5. \/ UNCHANGED <<outstanding, pool>>
        \/ \E commit \in Commits : BeginBlocker(commit)
        \/ \E v \in Validators, e \in Epochs : ClaimRewards(v, e)
        \/ \E n \in scenario.deposits : DepositRewardsPool(n)
    BY Zenon DEF RewardNext, FirstBlock, UpdateParams, StageSettings, SetBlocksInEpoch,
           SetRewardsPerEpoch, SetRewardingPaused, StakingChanges, ExportImport
  <2>6. CASE UNCHANGED <<outstanding, pool>>
    BY <2>1, <2>2, <2>6
  <2> QED
    BY <2>2, <2>3, <2>4, <2>5, <2>6, ClaimKeepsCover
<1>2. OnlyPayoutUnfunds <=> [][Covers]_rewardVars
  BY DEF OnlyPayoutUnfunds
<1> HIDE DEF Covers
<1> QED
  BY <1>1, <1>2, RewardInvariant, PTL DEF RewardSpec

=============================================================================
