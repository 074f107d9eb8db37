--------------------------- MODULE Erc20Extension ---------------------------
(***************************************************************************)
(* A coin that came over IBC and its ERC20 extension: the first packet     *)
(* registers a token pair and a dynamic precompile at the pair's address,  *)
(* through which the coin is an ERC20 token.  There is one balance, that   *)
(* of x/bank; the allowances are in the store of x/erc20.                  *)
(***************************************************************************)
EXTENDS Erc20

CONSTANT
  MaxVouchers    \* bound: coins that come over IBC

VARIABLES
  voucherPair,   \* the stored token pair: "none", "enabled" or "disabled"
  dynamic,       \* whether the address of the pair is a dynamic precompile
  balance,       \* balance[u]: coins of u
  allowance      \* allowance[o][s]: what s may spend of o

extensionVars == <<voucherPair, dynamic, balance, allowance>>

\* The coins of a packet are minted; a denomination without a pair is registered
\* and gets its precompile.  A module that is disabled lets the packet pass.
OnRecvVoucher(u, amt) ==
  /\ Total(balance) + amt <= MaxVouchers
  /\ voucherPair' = IF IsERC20Enabled /\ voucherPair = "none" THEN "enabled" ELSE voucherPair
  /\ dynamic' = (dynamic \/ voucherPair' # voucherPair)
  /\ balance' = [balance EXCEPT ![u] = @ + amt]
  /\ signer' = {}
  /\ UNCHANGED allowance

\* Mutant: the keeper does not look at the pair.
SetAnyAllowance(o, s, value) == allowance' = [allowance EXCEPT ![o][s] = value]

\* The keeper stores an allowance for a pair that is enabled only.
SetAllowance(o, s, value) ==
  /\ voucherPair = "enabled"
  /\ allowance' = [allowance EXCEPT ![o][s] = value]

\* approve of the precompile, which is there whether the pair is enabled or not.
\* Without an allowance, approving zero does nothing.
Approve(o, s, value) ==
  /\ dynamic
  /\ IF allowance[o][s] = 0 /\ value = 0
     THEN UNCHANGED allowance
     ELSE SetAllowance(o, s, value)
  /\ signer' = {o}
  /\ UNCHANGED <<voucherPair, dynamic, balance>>

\* The Send message of x/bank.
Send(from, to, amt) ==
  /\ sendEnabled
  /\ balance[from] >= amt
  /\ balance' = Moved(balance, from, to, amt, amt)

\* transfer of the precompile does not ask whether the pair is enabled.
TransferVoucher(u, to, amt) ==
  /\ dynamic
  /\ Send(u, to, amt)
  /\ signer' = {u}
  /\ UNCHANGED <<voucherPair, dynamic, allowance>>

\* transferFrom of the precompile: the allowance is reduced, also when the spender is
\* the owner, and then the coins move.
TransferFrom(spender, from, to, amt) ==
  /\ dynamic
  /\ allowance[from][spender] >= amt
  /\ SetAllowance(from, spender, allowance[from][spender] - amt)
  /\ Send(from, to, amt)
  /\ signer' = {spender}
  /\ UNCHANGED <<voucherPair, dynamic>>

ToggleVoucher ==
  /\ IsERC20Enabled
  /\ voucherPair # "none"
  /\ voucherPair' = IF voucherPair = "enabled" THEN "disabled" ELSE "enabled"
  /\ signer' = {}
  /\ UNCHANGED <<dynamic, balance, allowance>>

ExtensionInit ==
  /\ voucherPair = "none"
  /\ dynamic = FALSE
  /\ balance = [u \in Users |-> 0]
  /\ allowance = [o \in Users |-> [s \in Users |-> 0]]

\* Steps of the extension; they leave the rest of module Erc20 alone.
ExtensionNext ==
  /\ \/ \E u, v \in Users, amt \in Amounts :
          \/ OnRecvVoucher(u, amt)
          \/ TransferVoucher(u, v, amt)
          \/ \E w \in Users : TransferFrom(u, v, w, amt)
     \/ \E o, s \in Users, value \in Amounts \cup {0} : Approve(o, s, value)
     \/ ToggleVoucher
  /\ UNCHANGED <<governed, contract, ledger>>

\* x/bank and the parameters of the module may change between them.
ExtensionSpec ==
  /\ \E tokens \in [Users -> Nat] : Erc20Init(tokens)
  /\ ExtensionInit
  /\ [][ExtensionNext \/ ((UpdateParams \/ SetSendEnabled) /\ UNCHANGED extensionVars)
        ]_<<erc20Vars, extensionVars>>

\* Coins leave an account only when it calls, or when the caller uses up as much
\* of an allowance as the coins it takes; allowances grow only when their owner
\* calls; and as long as the pair is disabled nobody takes coins of others,
\* though the owner can still transfer.
OwnerConsents ==
  [][\A o \in Users :
       /\ \A s \in Users : allowance'[o][s] > allowance[o][s] => signer' = {o}
       /\ balance'[o] < balance[o] =>
            \/ signer' = {o}
            \/ /\ voucherPair = "enabled"
               /\ \E s \in signer' : allowance[o][s] - allowance'[o][s] = balance[o] - balance'[o]
    ]_<<erc20Vars, extensionVars>>
=============================================================================
