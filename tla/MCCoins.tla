------------------------------- MODULE MCCoins -------------------------------
(***************************************************************************)
(* The modules that hold coins for others: the reserve behind the          *)
(* fractions of x/precisebank and the pool of x/valrewards.  They share    *)
(* nothing, and a behaviour is of one of them.                             *)
(***************************************************************************)
EXTENDS PreciseBank, ValRewards, TLC

CONSTANTS u1, u2, evm, feecoll, v1, v2, admin

VARIABLE part

\* Two users, the x/vm and fee collector modules.
MCUsers == {u1, u2}
MCModules == {evm, feecoll}
MCMinters == {evm}
MCBurners == {evm, feecoll}

\* Claims, deposits and departures with fixed settings, and changes of the settings
\* without them.
MCScenarios ==
  {[signers |-> {}, deposits |-> {6}, leavers |-> {v1}],
   [signers |-> {admin}, deposits |-> {}, leavers |-> {}]}

\* One vote of three, one of two, a validator alone, and no votes.
MCCommits ==
  {[power |-> (v1 :> 1 @@ v2 :> 2), proposer |-> v1],
   [power |-> (v1 :> 1 @@ v2 :> 1), proposer |-> v1],
   [power |-> (v1 :> 0 @@ v2 :> 3), proposer |-> v2],
   [power |-> (v1 :> 0 @@ v2 :> 0), proposer |-> v1]}

MCDefaultRewardSettings ==
  [blocksInEpoch |-> 2, rewardsPerEpoch |-> 8, rewardingPaused |-> FALSE]

----------------------------------------------------------------------------
MCVars == <<vars, rewardVars, part>>

MCInit ==
  /\ Init /\ RewardInit
  /\ \/ part = "precisebank" /\ scenario.signers = {}
     \/ part = "valrewards" /\ ledger.supply = 0

MCNext ==
  /\ UNCHANGED part
  /\ \/ part = "precisebank" /\ Next /\ UNCHANGED rewardVars
     \/ part = "valrewards" /\ RewardNext /\ UNCHANGED vars

MCSpec == MCInit /\ [][MCNext]_MCVars

==============================================================================
