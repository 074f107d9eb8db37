-------------------------------- MODULE Erc20 --------------------------------
(***************************************************************************)
(* x/erc20: the pair of an ERC20 contract that exists outside of the       *)
(* module and the bank coin that stands for its tokens.  Tokens that are   *)
(* converted rest at the module's account, and coins are minted for them.  *)
(*                                                                         *)
(* The contract is foreign code.  It may be paused, it may destroy itself, *)
(* and its transfer may do other things than an ERC20 transfer does.       *)
(*                                                                         *)
(* A message that fails leaves no trace, so only its success is a step.    *)
(* Inside the IBC callbacks a conversion that fails may leave what it did  *)
(* before; its result therefore carries the ledger it ended with.          *)
(***************************************************************************)
EXTENDS Totals

CONSTANTS
  Users,        \* accounts that sign messages
  Amounts,      \* amounts of conversions and transfers
  Behaviours    \* what the contract's transfer may do besides an ERC20 transfer

Module == "erc20"        \* the account of the module
Escrow == "escrow"       \* the account of the IBC channel
Isolated == "isolated"   \* the receiver of packets with a destination callback

Holders == Users \cup {Module, Escrow, Isolated}

Owners == Users \cup {Isolated}   \* who owns what they hold

\* What a call of transfer does that does not revert: whether it moves tokens,
\* how many it keeps of them, how many it charges the sender on top, and whether
\* it reports success (by its return value or, when it returns nothing, by a
\* Transfer event).
Plain == [moves |-> TRUE, keeps |-> 0, charges |-> 0, says |-> TRUE]

\* What a transfer may cost.
Costs == {k + c : k \in {0} \cup {b.keeps : b \in Behaviours},
                  c \in {0} \cup {b.charges : b \in Behaviours}}

ASSUME Erc20Assumption ==
  /\ IsFiniteSet(Users)
  /\ Amounts \subseteq Nat \ {0}
  /\ Behaviours \subseteq [moves : BOOLEAN, keeps : {0, 1}, charges : {0, 1}, says : BOOLEAN]
  /\ {Module, Escrow, Isolated} \cap Users = {}

VARIABLES
  params,       \* [EnableErc20, PermissionlessRegistration]
  pair,         \* the stored token pair: "none", "enabled" or "disabled"
  metadata,     \* whether x/bank has metadata of the coin
  sendEnabled,  \* whether x/bank lets the coin be sent
  contract,     \* "live", "paused" or "gone"
  ledger,       \* [coin, token, charged]: balances of the coin and of the token,
                \* and (history) what the contract charged the module's account
  signer        \* history: the accounts whose message the last step executed

governed == <<params, pair, metadata, sendEnabled>>

erc20Vars == <<governed, contract, ledger, signer>>

\* Balances after one account gives and another gets, which may be less.
Moved(balances, from, to, gives, gets) ==
  [h \in DOMAIN balances |->
     balances[h] - (IF h = from THEN gives ELSE 0) + (IF h = to THEN gets ELSE 0)]

MoveCoin(L, from, to, amt) == [L EXCEPT !.coin = Moved(L.coin, from, to, amt, amt)]

MintCoins(L, to, amt) == [L EXCEPT !.coin[to] = @ + amt]

BurnCoins(L, from, amt) == [L EXCEPT !.coin[from] = @ - amt]

\* Results of a conversion: the ledger it ends with, and whether it used up the
\* gas of the transaction.
Done(L) == [ok |-> TRUE, ledger |-> L, spent |-> FALSE]

Failed(L) == [ok |-> FALSE, ledger |-> L, spent |-> FALSE]

\* The balances after a transfer that the contract executes in its way.
Executed(L, b, from, to, amt) ==
  LET gives == (IF b.moves THEN amt ELSE 0) + b.charges
      gets == IF b.moves THEN amt - b.keeps ELSE 0
  IN [L EXCEPT !.token = Moved(L.token, from, to, gives, gets),
               !.charged = IF from = Module THEN @ + b.charges ELSE @]

\* CallEVM of transfer: the possible results.  A call that reverts changes
\* nothing, and consumes all the gas that is left.
CallTransfer(L, from, to, amt) ==
  {IF contract # "live" \/ L.token[from] < amt + b.charges
   THEN [ok |-> FALSE, ledger |-> L, spent |-> TRUE]
   ELSE [ok |-> b.says, ledger |-> Executed(L, b, from, to, amt), spent |-> FALSE] :
     b \in Behaviours \cup {Plain}}

-----------------------------------------------------------------------------
\* The keeper.

IsERC20Enabled == params.EnableErc20

\* Users and the isolated address are not blocked in x/bank, module accounts
\* are.
MintingEnabled(receiver) ==
  /\ IsERC20Enabled
  /\ pair = "enabled"
  /\ receiver \notin {Module, Escrow}
  /\ sendEnabled

\* GetAccountWithoutBalance finds an account with code.
HasCode == contract # "gone"

\* Mutant: coins are minted for what the contract says, not for what arrived.
MintUnchecked(L, amt, receiver, sender) ==
  {IF r.ok THEN Done(MintCoins(r.ledger, receiver, amt))
   ELSE [r EXCEPT !.ok = FALSE] : r \in CallTransfer(L, sender, Module, amt)}

\* Tokens go to the module, and when all of them arrived coins are minted.
ConvertERC20IntoCoinsForNativeToken(L, amt, receiver, sender) ==
  {IF r.ok /\ r.ledger.token[Module] = L.token[Module] + amt
   THEN Done(MintCoins(r.ledger, receiver, amt))
   ELSE [r EXCEPT !.ok = FALSE] : r \in CallTransfer(L, sender, Module, amt)}

\* Mutant: the error of the escrow is dropped, and who lacks the coins is paid.
ReleaseUnpaid(L, amt, receiver, sender) ==
  IF ~HasCode
  THEN {Failed(L)}
  ELSE IF L.coin[sender] < amt
  THEN CallTransfer(L, Module, receiver, amt)
  ELSE {IF r.ok THEN Done(BurnCoins(r.ledger, Module, amt))
        ELSE [r EXCEPT !.ok = FALSE] :
          r \in CallTransfer(MoveCoin(L, sender, Module, amt), Module, receiver, amt)}

\* Coins go to the module, tokens to the receiver, and when all of them arrived
\* the coins are burned.  BalanceOf fails on a contract without code.
ConvertCoinNativeERC20(L, amt, receiver, sender) ==
  IF ~HasCode \/ L.coin[sender] < amt
  THEN {Failed(L)}
  ELSE {IF r.ok /\ r.ledger.token[receiver] = L.token[receiver] + amt
        THEN Done(BurnCoins(r.ledger, Module, amt))
        ELSE [r EXCEPT !.ok = FALSE] :
          r \in CallTransfer(MoveCoin(L, sender, Module, amt), Module, receiver, amt)}

\* A message deletes the pair of a contract without code, and succeeds.  The
\* metadata stays.
DeleteTokenPair ==
  /\ pair' = "none"
  /\ UNCHANGED <<params, metadata, sendEnabled, contract, ledger>>

-----------------------------------------------------------------------------
\* Messages.

\* A conversion r that succeeded.
Apply(r) ==
  /\ r.ok
  /\ ledger' = r.ledger
  /\ UNCHANGED <<governed, contract>>

ConvertERC20(u, receiver, amt) ==
  /\ MintingEnabled(receiver)
  /\ signer' = {u}
  /\ \/ ~HasCode /\ DeleteTokenPair
     \/ /\ HasCode
        /\ \E r \in ConvertERC20IntoCoinsForNativeToken(ledger, amt, receiver, u) : Apply(r)

ConvertCoin(u, receiver, amt) ==
  /\ MintingEnabled(receiver)
  /\ signer' = {u}
  /\ \/ ~HasCode /\ DeleteTokenPair
     \/ /\ HasCode
        /\ \E r \in ConvertCoinNativeERC20(ledger, amt, receiver, u) : Apply(r)

\* Governance may always register, others when the parameters say so.  The
\* contract is asked for its name, and the coin must have no metadata yet.
RegisterERC20(permitted) ==
  /\ params.PermissionlessRegistration \/ permitted
  /\ IsERC20Enabled
  /\ pair = "none"
  /\ HasCode
  /\ ~metadata
  /\ pair' = "enabled"
  /\ metadata' = TRUE
  /\ signer' = {}
  /\ UNCHANGED <<params, sendEnabled, contract, ledger>>

ToggleConversion ==
  /\ IsERC20Enabled
  /\ pair # "none"
  /\ pair' = IF pair = "enabled" THEN "disabled" ELSE "enabled"
  /\ signer' = {}
  /\ UNCHANGED <<params, metadata, sendEnabled, contract, ledger>>

UpdateParams ==
  /\ params' \in [EnableErc20 : BOOLEAN, PermissionlessRegistration : BOOLEAN]
  /\ signer' = {}
  /\ UNCHANGED <<pair, metadata, sendEnabled, contract, ledger>>

-----------------------------------------------------------------------------
\* What is not the module's: x/bank and the contract.

SetSendEnabled ==
  /\ sendEnabled' = ~sendEnabled
  /\ signer' = {}
  /\ UNCHANGED <<params, pair, metadata, contract, ledger>>

BankSend(u, v, amt) ==
  /\ sendEnabled
  /\ ledger.coin[u] >= amt
  /\ ledger' = MoveCoin(ledger, u, v, amt)
  /\ signer' = {u}
  /\ UNCHANGED <<governed, contract>>

\* A user's own call of the contract; the module may be the recipient.
TokenTransfer(u, to, amt) ==
  /\ \E r \in CallTransfer(ledger, u, to, amt) : ~r.spent /\ ledger' = r.ledger
  /\ signer' = {u}
  /\ UNCHANGED <<governed, contract>>

PauseContract ==
  /\ contract' \in {"live", "paused"} \ {contract}
  /\ HasCode
  /\ signer' = {}
  /\ UNCHANGED <<governed, ledger>>

DestroyContract ==
  /\ HasCode
  /\ contract' = "gone"
  /\ ledger' = [ledger EXCEPT !.token = [h \in Holders |-> 0]]
  /\ signer' = {}
  /\ UNCHANGED governed

\* The holders have tokens, and nothing is registered.
Erc20Init(tokens) ==
  /\ params = [EnableErc20 |-> TRUE, PermissionlessRegistration |-> TRUE]
  /\ pair = "none"
  /\ metadata = FALSE
  /\ sendEnabled = TRUE
  /\ contract = "live"
  /\ ledger = [coin |-> [h \in Holders |-> 0],
               token |-> [h \in Holders |-> IF h \in Users THEN tokens[h] ELSE 0],
               charged |-> 0]
  /\ signer = {}

\* Steps in which no packet takes part.
Erc20Next ==
  \/ \E u, v \in Users, amt \in Amounts :
       \/ ConvertERC20(u, v, amt)
       \/ ConvertCoin(u, v, amt)
       \/ u # v /\ BankSend(u, v, amt)
       \/ u # v /\ TokenTransfer(u, v, amt)
  \/ \E u \in Users, amt \in Amounts :
       \/ ConvertCoin(u, Isolated, amt)
       \/ TokenTransfer(u, Isolated, amt)
       \/ TokenTransfer(u, Module, amt)
  \/ RegisterERC20(FALSE)
  \/ RegisterERC20(TRUE)
  \/ ToggleConversion
  \/ UpdateParams
  \/ SetSendEnabled
  \/ PauseContract
  \/ DestroyContract
=============================================================================
