---------------------------- MODULE PreciseLedger ----------------------------
(***************************************************************************)
(* The ledger behind x/precisebank, and the keeper's operations on it.     *)
(*                                                                         *)
(* x/bank holds whole ("integer") coins; x/precisebank splits each of them *)
(* into ConversionFactor extended coins.  The extended balance of an       *)
(* account is                                                              *)
(*      bank[a] * ConversionFactor + fractional[a],                        *)
(* the fractions of all the accounts are backed by the integer coins of    *)
(* the Reserve (the module account of x/precisebank), and "remainder" is   *)
(* the part of the reserve that backs no account.                          *)
(*                                                                         *)
(* The operations are operators from ledgers to ledgers, so that a handler *)
(* that makes several keeper calls composes them.  For each operation Op,  *)
(* CanOp says that Op neither returns an error nor panics; when it does,   *)
(* the message that made the call is rolled back as a whole (by the cache  *)
(* context the message runs in).                                           *)
(***************************************************************************)
EXTENDS Totals

CONSTANTS
  Users,            \* addresses that are not module accounts
  Modules,          \* module accounts other than the reserve
  Reserve,          \* the module account of x/precisebank
  Minters,          \* modules with the Minter permission
  Burners,          \* modules with the Burner permission
  ConversionFactor  \* extended coins in one integer coin

ASSUME ConversionFactorAssumption == ConversionFactor \in Nat \ {0}

ASSUME AccountsAssumption ==
  /\ IsFiniteSet(Users)
  /\ IsFiniteSet(Modules)
  /\ Users \cap Modules = {}
  /\ Reserve \notin Users \cup Modules
  /\ Minters \subseteq Modules
  /\ Burners \subseteq Modules

Accounts == Users \cup Modules

Holders == Accounts \cup {Reserve}

ModuleAccounts == Modules \cup {Reserve}

\* Module accounts may not be paid by a user's message.
BlockedAddrs == ModuleAccounts

Fractions == 0 .. (ConversionFactor - 1)

Ledger == [bank       : [Holders -> Nat],
           supply     : Nat,
           fractional : [Holders -> Fractions],
           remainder  : Fractions]

\* sdk.Coins over the two denominations: the integer coins, which pass through
\* to x/bank, and the extended coins.
Coins == [integer : Nat, extended : Nat]

-----------------------------------------------------------------------------
(* x/bank, for the integer denomination. *)

BankSendCoins(L, from, to, n) ==
  LET debited == [L EXCEPT !.bank[from] = @ - n]
  IN  [debited EXCEPT !.bank[to] = @ + n]

BankMintCoins(L, m, n) ==
  [L EXCEPT !.bank[m] = @ + n, !.supply = @ + n]

BankBurnCoins(L, m, n) ==
  [L EXCEPT !.bank[m] = @ - n, !.supply = @ - n]

-----------------------------------------------------------------------------
(* Views. *)

\* The reserve is shown as empty: its coins are the fractions of the others.
GetBalance(L, a) ==
  IF a = Reserve THEN 0
  ELSE L.bank[a] * ConversionFactor + L.fractional[a]

-----------------------------------------------------------------------------
(* Transfers. *)

IntegerPart(amt) == amt \div ConversionFactor

FractionalPart(amt) == amt % ConversionFactor

NeedsBorrow(current, f) == current < f

NeedsCarry(current, f) == current + f >= ConversionFactor

subFromFractionalBalance(current, f) ==
  IF NeedsBorrow(current, f) THEN current - f + ConversionFactor
                             ELSE current - f

addToFractionalBalance(current, f) ==
  IF NeedsCarry(current, f) THEN current + f - ConversionFactor
                            ELSE current + f

\* Mutant: a transfer to oneself is treated as any other.
IsSelfTransfer_Never(from, to) == FALSE

IsSelfTransfer(from, to) == from = to

\* A fraction the sender lacks is taken from one more of its integer coins, and
\* a fraction the recipient has no room for becomes one more integer coin.  If
\* both happen that coin goes straight across, otherwise it goes to, or comes
\* from, the reserve.
sendExtendedCoins(L, from, to, amt) ==
  LET f      == FractionalPart(amt)
      borrow == NeedsBorrow(L.fractional[from], f)
      carry  == NeedsCarry(L.fractional[to], f)
      direct == IntegerPart(amt) + (IF borrow /\ carry THEN 1 ELSE 0)
      L1     == BankSendCoins(L, from, to, direct)
      L2     == IF borrow /\ ~carry THEN BankSendCoins(L1, from, Reserve, 1)
                ELSE IF carry /\ ~borrow THEN BankSendCoins(L1, Reserve, to, 1)
                ELSE L1
  IN  IF Reserve \in {from, to} THEN BankSendCoins(L, from, to, IntegerPart(amt))
      ELSE IF IsSelfTransfer(from, to) THEN L
      ELSE [L2 EXCEPT
              !.fractional[from] = subFromFractionalBalance(L.fractional[from], f),
              !.fractional[to]   = addToFractionalBalance(L.fractional[to], f)]

\* Mutant: the coin that a borrow takes is not asked for.
IntegerCoinsNeeded_NoBorrow(amt, borrow) == IntegerPart(amt)

IntegerCoinsNeeded(amt, borrow) ==
  IntegerPart(amt) + (IF borrow THEN 1 ELSE 0)

\* The carry out of the reserve panics where the sends return an error.
CanSendExtendedCoins(L, from, to, amt) ==
  LET f      == FractionalPart(amt)
      borrow == NeedsBorrow(L.fractional[from], f)
      carry  == NeedsCarry(L.fractional[to], f)
  IN  IF Reserve \in {from, to} THEN L.bank[from] >= IntegerPart(amt)
      ELSE \/ IsSelfTransfer(from, to)
           \/ /\ L.bank[from] >= IntegerCoinsNeeded(amt, borrow)
              /\ carry /\ ~borrow => L.bank[Reserve] >= 1

\* The coins that x/precisebank does not manage go first.
SendCoins(L, from, to, c) ==
  sendExtendedCoins(BankSendCoins(L, from, to, c.integer), from, to, c.extended)

CanSendCoins(L, from, to, c) ==
  /\ L.bank[from] >= c.integer
  /\ c.extended > 0 =>
       CanSendExtendedCoins(BankSendCoins(L, from, to, c.integer),
                            from, to, c.extended)

-----------------------------------------------------------------------------
(* Minting and burning. *)

\* Mutant: the reserve gets no coin when the remainder is too small.
MintsToReserve_Never(short, carried) == FALSE

MintsToReserve(short, carried) == short /\ ~carried

\* A minted fraction is taken out of the remainder; if the remainder is too
\* small the reserve gets one more coin.  If the module's fraction overflows as
\* well, that coin is minted to the module instead.
mintExtendedCoin(L, m, amt) ==
  LET f       == FractionalPart(amt)
      carried == NeedsCarry(L.fractional[m], f)
      short   == L.remainder < f
      L1 == IF carried /\ ~short THEN BankSendCoins(L, Reserve, m, 1) ELSE L
      L2 == BankMintCoins(L1, m,
              IntegerPart(amt) + (IF carried /\ short THEN 1 ELSE 0))
      L3 == IF MintsToReserve(short, carried) THEN BankMintCoins(L2, Reserve, 1) ELSE L2
  IN  [L3 EXCEPT
         !.fractional[m] = addToFractionalBalance(@, f),
         !.remainder     = IF short THEN @ - f + ConversionFactor ELSE @ - f]

CanMintExtendedCoin(L, m, amt) ==
  LET f == FractionalPart(amt)
  IN  NeedsCarry(L.fractional[m], f) /\ L.remainder >= f => L.bank[Reserve] >= 1

MintCoins(L, m, c) ==
  mintExtendedCoin(BankMintCoins(L, m, c.integer), m, c.extended)

CanMintCoins(L, m, c) ==
  /\ m \in Minters
  /\ c.extended > 0 =>
       CanMintExtendedCoin(BankMintCoins(L, m, c.integer), m, c.extended)

\* Mutant: a full remainder burns a coin of the reserve even when the module's
\* own coin is burned for the borrow.
BurnsFromReserve_Always(overflow, borrow) == overflow

BurnsFromReserve(overflow, borrow) == overflow /\ ~borrow

\* A burned fraction is added to the remainder; if the remainder fills up, one
\* coin of the reserve is burned.  If the module's fraction is too small as
\* well, the module's coin is burned instead of being lent to the reserve.
burnExtendedCoin(L, m, amt) ==
  LET f        == FractionalPart(amt)
      borrow   == NeedsBorrow(L.fractional[m], f)
      overflow == NeedsCarry(L.remainder, f)
      L1 == IF borrow /\ ~overflow THEN BankSendCoins(L, m, Reserve, 1) ELSE L
      L2 == IF BurnsFromReserve(overflow, borrow) THEN BankBurnCoins(L1, Reserve, 1) ELSE L1
      L3 == BankBurnCoins(L2, m,
              IntegerPart(amt) + (IF borrow /\ overflow THEN 1 ELSE 0))
  IN  [L3 EXCEPT
         !.fractional[m] = subFromFractionalBalance(@, f),
         !.remainder     = IF overflow THEN @ + f - ConversionFactor ELSE @ + f]

CanBurnExtendedCoin(L, m, amt) ==
  LET f        == FractionalPart(amt)
      borrow   == NeedsBorrow(L.fractional[m], f)
      overflow == NeedsCarry(L.remainder, f)
  IN  /\ BurnsFromReserve(overflow, borrow) => L.bank[Reserve] >= 1
      /\ L.bank[m] >= IntegerCoinsNeeded(amt, borrow)

BurnCoins(L, m, c) ==
  burnExtendedCoin(BankBurnCoins(L, m, c.integer), m, c.extended)

CanBurnCoins(L, m, c) ==
  /\ m \in Burners
  /\ L.bank[m] >= c.integer
  /\ c.extended > 0 =>
       CanBurnExtendedCoin(BankBurnCoins(L, m, c.integer), m, c.extended)
=============================================================================
