----------------------------- MODULE PreciseBank -----------------------------
(***************************************************************************)
(* x/precisebank in the application: the messages and module calls that    *)
(* reach its keeper.                                                       *)
(*                                                                         *)
(* One action is one call, made by a message or a block hook, which takes  *)
(* effect as a whole or (on an error or a panic) not at all.               *)
(***************************************************************************)
EXTENDS PreciseLedger

CONSTANTS
  EVM,           \* the module account of x/vm
  FeeCollector,  \* the module account the fees are paid to
  MaxAmount,     \* bound: the largest amount in one call
  MaxSupply      \* bound: no more integer coins than this are minted

ASSUME ModulesAssumption ==
  /\ EVM \in Minters \cap Burners
  /\ FeeCollector \in Burners

ASSUME BoundsAssumption == MaxAmount \in Nat /\ MaxSupply \in Nat

VARIABLE ledger

vars == <<ledger>>

Amounts == {c \in [integer : 0 .. MaxAmount, extended : 0 .. MaxAmount] :
              c.integer * ConversionFactor + c.extended \in 1 .. MaxAmount}

Extended(n) == [integer |-> 0, extended |-> n]

-----------------------------------------------------------------------------
(* Genesis. *)

\* The fractions and the remainder of a genesis file add up to a whole number of
\* coins, the ones that the file gives the reserve.
GenesisBalanced(L) ==
  Total(L.fractional) + L.remainder = L.bank[Reserve] * ConversionFactor

GenesisLedgers ==
  {L \in [bank       : [Holders -> 0 .. MaxSupply],
          supply     : 0 .. MaxSupply,
          fractional : [Holders -> Fractions],
          remainder  : Fractions] :
     /\ L.supply = Total(L.bank)
     /\ L.fractional[Reserve] = 0}

\* InitGenesis also lets a genesis without fractions and remainder pass, with a
\* warning, when the reserve holds coins; those would back nothing.
Init == ledger \in GenesisLedgers /\ GenesisBalanced(ledger)

-----------------------------------------------------------------------------
(* Messages and module calls. *)

MsgSend(from, to, c) ==
  /\ to \notin BlockedAddrs
  /\ CanSendCoins(ledger, from, to, c)
  /\ ledger' = SendCoins(ledger, from, to, c)

SendCoinsFromAccountToModule(from, m, c) ==
  /\ m # Reserve
  /\ CanSendCoins(ledger, from, m, c)
  /\ ledger' = SendCoins(ledger, from, m, c)

SendCoinsFromModuleToAccount(m, to, c) ==
  /\ m # Reserve
  /\ to \notin BlockedAddrs
  /\ CanSendCoins(ledger, m, to, c)
  /\ ledger' = SendCoins(ledger, m, to, c)

\* No module of the application sends from the reserve.
SendCoinsFromModuleToModule(from, to, c) ==
  /\ to # Reserve
  /\ CanSendCoins(ledger, from, to, c)
  /\ ledger' = SendCoins(ledger, from, to, c)

ModuleMint(m, c) ==
  /\ CanMintCoins(ledger, m, c)
  /\ ledger' = MintCoins(ledger, m, c)
  /\ ledger'.supply <= MaxSupply

ModuleBurn(m, c) ==
  /\ CanBurnCoins(ledger, m, c)
  /\ ledger' = BurnCoins(ledger, m, c)

\* x/vm writes back a balance that the EVM has changed: what was gained is minted
\* by the x/vm module and sent to the account, what was lost is sent to the x/vm
\* module and burned.
MintAmountToAccount(a, n) ==
  LET minted == MintCoins(ledger, EVM, Extended(n))
  IN  /\ CanMintCoins(ledger, EVM, Extended(n))
      /\ a \notin BlockedAddrs
      /\ CanSendCoins(minted, EVM, a, Extended(n))
      /\ ledger' = SendCoins(minted, EVM, a, Extended(n))
      /\ ledger'.supply <= MaxSupply

BurnAmountFromAccount(a, n) ==
  LET sent == SendCoins(ledger, a, EVM, Extended(n))
  IN  /\ CanSendCoins(ledger, a, EVM, Extended(n))
      /\ CanBurnCoins(sent, EVM, Extended(n))
      /\ ledger' = BurnCoins(sent, EVM, Extended(n))

SetBalance(a, amount) ==
  LET current == GetBalance(ledger, a)
  IN  \/ amount > current /\ MintAmountToAccount(a, amount - current)
      \/ amount < current /\ BurnAmountFromAccount(a, current - amount)

\* x/feeburn, at the start of every block, burns the fees of the block before.
FeeBurnBeginBlock ==
  LET fees == Extended(GetBalance(ledger, FeeCollector))
  IN  /\ fees.extended > 0
      /\ CanBurnCoins(ledger, FeeCollector, fees)
      /\ ledger' = BurnCoins(ledger, FeeCollector, fees)

Next ==
  \/ \E from \in Users, to \in Holders, c \in Amounts : MsgSend(from, to, c)
  \/ \E from \in Users, m \in ModuleAccounts, c \in Amounts :
       SendCoinsFromAccountToModule(from, m, c)
  \/ \E m \in ModuleAccounts, to \in Holders, c \in Amounts :
       SendCoinsFromModuleToAccount(m, to, c)
  \/ \E from \in Modules, to \in ModuleAccounts, c \in Amounts :
       SendCoinsFromModuleToModule(from, to, c)
  \/ \E m \in ModuleAccounts, c \in Amounts : ModuleMint(m, c) \/ ModuleBurn(m, c)
  \/ \E a \in Holders, amount \in 0 .. MaxAmount : SetBalance(a, amount)
  \/ FeeBurnBeginBlock

Spec == Init /\ [][Next]_vars

-----------------------------------------------------------------------------
(* Properties. *)

\* NormalizedStateInvariant: fractions and the remainder stay below the conversion
\* factor (SetFractionalBalance and SetRemainderAmount would panic), and the
\* reserve never gets a fraction of its own.
TypeOK == ledger \in Ledger /\ ledger.fractional[Reserve] = 0

\* ReserveBackingInvariant: the integer coins of the reserve back the fractions
\* of all the accounts and the remainder, to the last extended coin.
ReserveBacking ==
  Total(ledger.fractional) + ledger.remainder
    = ledger.bank[Reserve] * ConversionFactor

\* A transfer goes through exactly when the sender's extended balance covers it:
\* the checks that x/bank makes on the integer coins alone neither refuse a
\* covered transfer nor let an uncovered one through, and the carry out of the
\* reserve never panics.
SendIffFunded ==
  \A from, to \in Accounts, n \in 1 .. MaxAmount :
    from # to =>
      (CanSendExtendedCoins(ledger, from, to, n) <=> GetBalance(ledger, from) >= n)

\* Minting never fails, and burning fails only for lack of funds of the module:
\* the reserve always has the coin that a carry or an overflow takes from it.
MintAndBurnBacked ==
  \A m \in Modules, n \in 1 .. MaxAmount :
    /\ CanMintExtendedCoin(ledger, m, n)
    /\ CanBurnExtendedCoin(ledger, m, n) <=> GetBalance(ledger, m) >= n

\* The block hook of x/feeburn can always burn all the fees there are; an error
\* there would stop the chain.
FeeBurnSucceeds ==
  CanBurnCoins(ledger, FeeCollector, Extended(GetBalance(ledger, FeeCollector)))

ExtendedView == INSTANCE ExtendedLedger
  WITH balance <- [a \in Accounts |-> GetBalance(ledger, a)],
       supply  <- ledger.supply * ConversionFactor - ledger.remainder

\* The keeper's calls, whatever they do to integer coins, fractions, reserve and
\* remainder, are transfers, mints and burns of an ordinary ledger of extended
\* coins.
RefinesExtendedLedger == ExtendedView!Spec
=============================================================================
