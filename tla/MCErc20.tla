------------------------------ MODULE MCErc20 ------------------------------
(***************************************************************************)
(* Two users.  In one scenario they have a foreign token and an IBC        *)
(* channel, in the other they have the ERC20 extension of a coin.          *)
(***************************************************************************)
EXTENDS Erc20IBC, Erc20Extension, TLC

CONSTANTS alice, bob

VARIABLE scenario

MCvars == <<vars, extensionVars, scenario>>

MCTokens == alice :> 2 @@ bob :> 0

\* A contract may keep a part of what it moves, charge the sender on top, or move
\* nothing and say so.
MCBehaviours ==
  {[moves |-> TRUE, keeps |-> 1, charges |-> 0, says |-> TRUE],
   [moves |-> TRUE, keeps |-> 0, charges |-> 1, says |-> TRUE],
   [moves |-> FALSE, keeps |-> 0, charges |-> 0, says |-> FALSE]}

\* A contract that answers false while it is not to be used.
MCRefusal == {[moves |-> FALSE, keeps |-> 0, charges |-> 0, says |-> FALSE]}

MCInit ==
  /\ scenario \in {"token", "voucher"}
  /\ Init(MCTokens)
  /\ ExtensionInit

MCNext ==
  \/ /\ scenario = "token"
     /\ Next
     /\ UNCHANGED <<extensionVars, scenario>>
  \/ /\ scenario = "voucher"
     /\ ExtensionNext \/ ((UpdateParams \/ SetSendEnabled) /\ UNCHANGED extensionVars)
     /\ UNCHANGED <<ibcVars, scenario>>

MCSpec == MCInit /\ [][MCNext]_MCvars /\ Fairness
=============================================================================
