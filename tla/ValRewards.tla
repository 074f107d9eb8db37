----------------------------- MODULE ValRewards -----------------------------
(***************************************************************************)
(* x/valrewards: validators earn points in every block, at the end of an   *)
(* epoch the rewards of the epoch are split by points into outstanding     *)
(* rewards, and these are claimed, once, from a pool that anyone may fill. *)
(*                                                                         *)
(* Settings are staged: a message changes the settings of the next epoch.  *)
(* A message of a transaction and the block hook are one action each.      *)
(***************************************************************************)
EXTENDS Totals

CONSTANTS
  Validators,          \* operators
  MinBlocksInEpoch, MaxBlocksInEpoch,
  MinRewardsPerEpoch, MaxRewardsPerEpoch,
  DefaultRewardSettings,
  Precision,           \* units in 1 of a fixed-point number
  PowerPoints,         \* points of a block for all of the voting power
  ProposerBonusPoints,
  Commits,             \* [power, proposer] of the blocks that may come
  BlocksInputs,        \* values that a message may ask for
  RewardsInputs,
  Scenarios,           \* [signers, deposits, leavers]: accounts that may be whitelisted,
                       \* deposits, and validators that x/staking may forget
  MaxEpoch,            \* bound: the chain is not followed beyond this epoch
  MaxPool              \* bound: no deposits beyond this

ASSUME SettingsAssumption ==
  /\ {MinBlocksInEpoch, MaxBlocksInEpoch} \subseteq Nat \ {0}
  /\ {MinRewardsPerEpoch, MaxRewardsPerEpoch} \subseteq Nat
  /\ DefaultRewardSettings \in
       [blocksInEpoch   : MinBlocksInEpoch .. MaxBlocksInEpoch,
        rewardsPerEpoch : MinRewardsPerEpoch .. MaxRewardsPerEpoch,
        rewardingPaused : BOOLEAN]

ASSUME ArithmeticAssumption ==
  /\ Precision \in Nat \ {0}
  /\ {PowerPoints, ProposerBonusPoints} \subseteq Nat
  /\ IsFiniteSet(Validators)
  /\ Commits \subseteq [power : [Validators -> Nat], proposer : Validators]

ASSUME ScenarioAssumption ==
  /\ MaxEpoch \in Nat
  /\ BlocksInputs \cup RewardsInputs \subseteq Nat
  /\ \A s \in Scenarios : s.deposits \subseteq Nat /\ s.leavers \subseteq Validators

VARIABLES
  height,       \* of the last block that was begun
  whitelist,    \* params.whitelist
  current,      \* current_reward_settings
  next,         \* next_reward_settings
  epochState,
  epochToPay,
  points,       \* points[e]: the rows of epoch e, a function of some validators
  outstanding,  \* outstanding[e][v]; a row that is missing counts as zero
  pool,         \* the coins of the module account
  known,        \* the validators that x/staking knows
  hist,         \* history: what happened so far, read by no action
  scenario      \* what users and x/staking may do in this behaviour

rewardVars == <<height, whitelist, current, next, epochState, epochToPay, points,
                outstanding, pool, known, hist, scenario>>

Epochs == 0 .. MaxEpoch

NoRows == [v \in {} |-> 0]

Nothing == [v \in Validators |-> 0]

ValidateBlocksInEpoch(n) == n \in MinBlocksInEpoch .. MaxBlocksInEpoch

ValidateRewardsPerEpoch(n) == n \in MinRewardsPerEpoch .. MaxRewardsPerEpoch

Validate(s) ==
  /\ ValidateBlocksInEpoch(s.blocksInEpoch)
  /\ ValidateRewardsPerEpoch(s.rewardsPerEpoch)

RewardInit ==
  /\ scenario \in Scenarios
  /\ height = 0
  /\ whitelist \in SUBSET scenario.signers
  /\ current = DefaultRewardSettings
  /\ next = current
  /\ epochState = [currentEpoch |-> 0, blocksIntoCurrentEpoch |-> 0]
  /\ epochToPay = 0
  /\ points = [e \in Epochs |-> NoRows]
  /\ outstanding = [e \in Epochs |-> Nothing]
  /\ pool = 0
  /\ known = Validators
  /\ hist = [inForce   |-> [e \in {0} |-> current],
             claimed   |-> [e \in Epochs |-> Nothing]]

-----------------------------------------------------------------------------
(* Points. *)

GetValidatorPoints(rows, v) == IF v \in DOMAIN rows THEN rows[v] ELSE 0

VotePoints(power, totalPower) ==
  (((power * Precision) \div totalPower) * PowerPoints) \div Precision

PointsPaused(settings) == settings.rewardingPaused

\* Every validator with a vote in the last commit, whether it signed or not,
\* earns points by its power; the proposer, if it has a vote, a bonus.
processValidatorsPoints(rows, settings, commit) ==
  LET votes      == {v \in Validators : commit.power[v] > 0}
      totalPower == Total(commit.power)
      earned(v)  == VotePoints(commit.power[v], totalPower)
                      + (IF v = commit.proposer THEN ProposerBonusPoints ELSE 0)
  IN  IF PointsPaused(settings) \/ totalPower = 0 THEN rows
      ELSE [v \in DOMAIN rows \cup (votes \cap known) |->
              IF v \in votes \cap known
                THEN GetValidatorPoints(rows, v) + earned(v)
                ELSE rows[v]]

-----------------------------------------------------------------------------
(* The end of an epoch. *)

PaymentFraction(p, total) == (p * Precision) \div total

\* Mutant: the payment is rounded up.
Payment_RoundedUp(rewards, fraction) ==
  (rewards * fraction + Precision - 1) \div Precision

Payment(rewards, fraction) == (rewards * fraction) \div Precision

PaidValidators(rows) == DOMAIN rows

\* The outstanding rewards of the completed epoch, given the rows of its points.
processValidatorsRewards(before, rows, settings) ==
  LET total == Total(rows)
  IN  IF ~ValidateRewardsPerEpoch(settings.rewardsPerEpoch) \/ total = 0 THEN before
      ELSE [v \in Validators |->
              IF v \in PaidValidators(rows)
                THEN Payment(settings.rewardsPerEpoch, PaymentFraction(rows[v], total))
                ELSE before[v]]

\* Mutant: an epoch never ends with the block that fills it.
EpochEnds_OffByOne(blocks, settings) == blocks > settings.blocksInEpoch

EpochEnds(blocks, settings) == blocks >= settings.blocksInEpoch

PromotedSettings ==
  IF Validate(next) THEN next
  ELSE IF Validate(current) THEN current ELSE DefaultRewardSettings

\* The hook does nothing in the first block of a chain.
FirstBlock ==
  /\ height = 0
  /\ height' = 1
  /\ UNCHANGED <<whitelist, current, next, epochState, epochToPay, points,
                 outstanding, pool, known, hist>>

BeginBlocker(commit) ==
  LET e      == epochState.currentEpoch
      rows   == processValidatorsPoints(points[e], current, commit)
      blocks == epochState.blocksIntoCurrentEpoch + 1
  IN  /\ height > 0
      /\ e < MaxEpoch
      /\ height' = height + 1
      /\ points' = [points EXCEPT ![e] = rows]
      /\ IF EpochEnds(blocks, current)
           THEN /\ outstanding' = [outstanding EXCEPT
                     ![e] = processValidatorsRewards(@, rows, current)]
                /\ epochToPay' = e + 1
                /\ epochState' = [currentEpoch           |-> e + 1,
                                  blocksIntoCurrentEpoch |-> 0]
                /\ current' = PromotedSettings
                /\ next' = PromotedSettings
           ELSE /\ epochState' = [epochState EXCEPT !.blocksIntoCurrentEpoch = blocks]
                /\ UNCHANGED <<outstanding, epochToPay, current, next>>
      /\ hist' = [hist EXCEPT !.inForce = [k \in 0 .. epochState'.currentEpoch |->
                      IF k = epochState'.currentEpoch THEN current' ELSE @[k]]]
      /\ UNCHANGED <<whitelist, pool, known>>

-----------------------------------------------------------------------------
(* Messages.  A message that fails changes nothing. *)

UpdateParams(w) ==
  /\ whitelist' = w
  /\ UNCHANGED <<height, current, next, epochState, epochToPay, points,
                 outstanding, pool, known, hist>>

StageSettings(signer, settings) ==
  /\ signer \in whitelist
  /\ Validate(settings)
  /\ next' = settings
  /\ UNCHANGED <<height, whitelist, current, epochState, epochToPay, points,
                 outstanding, pool, known, hist>>

SetBlocksInEpoch(signer, n) ==
  StageSettings(signer, [next EXCEPT !.blocksInEpoch = n])

SetRewardsPerEpoch(signer, n) ==
  StageSettings(signer, [next EXCEPT !.rewardsPerEpoch = n])

SetRewardingPaused(signer, b) ==
  StageSettings(signer, [next EXCEPT !.rewardingPaused = b])

\* Mutant: the outstanding reward is not zeroed.
AfterClaim_Kept(reward) == reward

AfterClaim(reward) == 0

\* Mutant: the rewards of the epoch are paid, and the operator's are cleared.
ClaimRewards_Epoch(operator, e) ==
  LET reward == Total(outstanding[e])
  IN  /\ operator \in known
      /\ outstanding[e][operator] > 0
      /\ pool >= reward
      /\ outstanding' = [outstanding EXCEPT ![e][operator] = AfterClaim(@)]
      /\ pool' = pool - reward
      /\ hist' = [hist EXCEPT !.claimed[e][operator] = @ + reward]
      /\ UNCHANGED <<height, whitelist, current, next, epochState, epochToPay,
                     points, known>>

\* Anyone may trigger the claim of an operator; a message and the precompile
\* share it.
ClaimRewards(operator, e) ==
  LET reward == outstanding[e][operator]
  IN  /\ operator \in known
      /\ reward > 0
      /\ pool >= reward
      /\ outstanding' = [outstanding EXCEPT ![e][operator] = AfterClaim(@)]
      /\ pool' = pool - reward
      /\ hist' = [hist EXCEPT !.claimed[e][operator] = @ + reward]
      /\ UNCHANGED <<height, whitelist, current, next, epochState, epochToPay,
                     points, known>>

DepositRewardsPool(n) ==
  /\ pool + n <= MaxPool
  /\ pool' = pool + n
  /\ UNCHANGED <<height, whitelist, current, next, epochState, epochToPay,
                 points, outstanding, known, hist>>

\* x/staking forgets a validator that has no delegations left, and an operator
\* may create its validator again.
StakingChanges(v) ==
  /\ known' = IF v \in known THEN known \ {v} ELSE known \cup {v}
  /\ UNCHANGED <<height, whitelist, current, next, epochState, epochToPay,
                 points, outstanding, pool, hist>>

-----------------------------------------------------------------------------
(* Export of the state and the start of a new chain from it. *)

GenesisValidate ==
  /\ Validate(current)
  /\ Validate(next)
  /\ epochState.blocksIntoCurrentEpoch \in 0 .. current.blocksInEpoch - 1
  /\ epochToPay <= epochState.currentEpoch
  /\ \A e \in Epochs :
       e > epochState.currentEpoch => points[e] = NoRows /\ outstanding[e] = Nothing

OutstandingOf(e) == Total(outstanding[e])

validateOutstandingRewardsFunding ==
  Total([e \in Epochs |-> OutstandingOf(e)]) <= pool

CrossGenesisValidate ==
  \A e \in Epochs :
    /\ DOMAIN points[e] \subseteq known
    /\ {v \in Validators : outstanding[e][v] > 0} \subseteq known

\* The new chain starts at the next height, or at zero ("for zero height").
ExportImport(h) ==
  /\ GenesisValidate
  /\ validateOutstandingRewardsFunding
  /\ CrossGenesisValidate
  /\ height' = h
  /\ UNCHANGED <<whitelist, current, next, epochState, epochToPay, points,
                 outstanding, pool, known, hist>>

RewardNext ==
  /\ \/ FirstBlock
     \/ \E commit \in Commits : BeginBlocker(commit)
     \/ \E w \in SUBSET scenario.signers : UpdateParams(w)
     \/ \E s \in scenario.signers, n \in BlocksInputs : SetBlocksInEpoch(s, n)
     \/ \E s \in scenario.signers, n \in RewardsInputs : SetRewardsPerEpoch(s, n)
     \/ \E s \in scenario.signers, b \in BOOLEAN : SetRewardingPaused(s, b)
     \/ \E v \in Validators, e \in Epochs : ClaimRewards(v, e)
     \/ \E n \in scenario.deposits : DepositRewardsPool(n)
     \/ \E v \in scenario.leavers : StakingChanges(v)
     \/ \E h \in {0, height} : ExportImport(h)
  /\ UNCHANGED scenario

RewardSpec == RewardInit /\ [][RewardNext]_rewardVars

-----------------------------------------------------------------------------
(* Properties. *)

\* Every state that is exported is one that GenesisState.Validate accepts: in
\* particular an epoch is never overdue, even if the next one is made shorter, and
\* no row belongs to an epoch that has not begun.
ExportValidates == GenesisValidate

Allocated(e) == [v \in Validators |-> outstanding[e][v] + hist.claimed[e][v]]

Completed == 0 .. epochState.currentEpoch - 1

\* The rewards_per_epoch in force when the epoch began, nothing if it began paused.
Budget(e) == IF hist.inForce[e].rewardingPaused THEN 0 ELSE hist.inForce[e].rewardsPerEpoch

\* What an epoch has paid and still owes never exceeds the budget it began with,
\* whatever was staged, claimed or restarted since: neither the settings nor the pause
\* take effect while it runs, and the truncated shares of processValidatorsRewards
\* do not add up to more.
EpochBudget ==
  \A e \in Completed : Total(Allocated(e)) <= Budget(e)

\* Once an epoch is completed its rewards are settled: a claim moves an amount
\* from owed to paid, and nothing (a later payout, a restart, a validator that
\* leaves and comes back) allocates to that epoch again.
SettledOnce ==
  [][\A e \in Completed : Allocated(e)' = Allocated(e)]_rewardVars

\* If the pool covers all that is owed it goes on doing so until the next payout:
\* no order of claims, deposits and departures leaves a later claim uncovered.
OnlyPayoutUnfunds ==
  [][validateOutstandingRewardsFunding /\ epochState' = epochState
       => validateOutstandingRewardsFunding']_rewardVars

=============================================================================
