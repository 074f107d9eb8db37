-------------------------- MODULE PreciseBankProofs --------------------------
(***************************************************************************)
(* Proofs about x/precisebank: the reserve backs the fractions exactly, and *)
(* so no call fails for lack of a coin in the reserve, and every call is a  *)
(* transfer, a mint or a burn of an ordinary ledger of extended coins.     *)
(***************************************************************************)
EXTENDS PreciseBank, TotalTheorems

-----------------------------------------------------------------------------
(* The integer coins. *)

\* A ledger of the right type in which x/bank's supply is the sum of its
\* balances.
Sound(L) == L \in Ledger /\ L.supply = Total(L.bank)

\* There are finitely many accounts to sum over.
LEMMA HoldersFinite == IsFiniteSet(Holders)
<1>1. IsFiniteSet(Users \cup Modules)
  BY AccountsAssumption, FS_Union, Zenon
<1>2. IsFiniteSet({Reserve})
  BY FS_Singleton, Zenon
<1> QED
  BY <1>1, <1>2, FS_Union, Zenon DEF Holders, Accounts

\* x/bank's transfer changes two balances and nothing else.
LEMMA BankSendSound ==
  ASSUME NEW L, Sound(L), NEW from \in Holders, NEW to \in Holders,
         NEW n \in Nat, n <= L.bank[from]
  PROVE  /\ Sound(BankSendCoins(L, from, to, n))
         /\ BankSendCoins(L, from, to, n).fractional = L.fractional
         /\ BankSendCoins(L, from, to, n).remainder = L.remainder
         /\ BankSendCoins(L, from, to, n).supply = L.supply
         /\ BankSendCoins(L, from, to, n).bank
              = [[L.bank EXCEPT ![from] = @ - n] EXCEPT ![to] = @ + n]
<1> DEFINE M == BankSendCoins(L, from, to, n)
           f == [L.bank EXCEPT ![from] = L.bank[from] - n]
           g == [f EXCEPT ![to] = f[to] + n]
<1>1. L.bank \in [Holders -> Nat] /\ L.bank[from] - n \in Nat /\ L.bank[from] \in Nat
  BY DEF Sound, Ledger
<1>2. f \in [Holders -> Nat]
  BY <1>1
<1>3. Total(f) = Total(L.bank) - L.bank[from] + (L.bank[from] - n)
  BY <1>1, HoldersFinite, TotalExcept, Zenon
<1> HIDE DEF f
<1>4. f[to] \in Nat /\ f[to] + n \in Nat
  BY <1>2
<1>5. g \in [Holders -> Nat]
  BY <1>2, <1>4
<1>6. Total(g) = Total(f) - f[to] + (f[to] + n)
  BY <1>2, <1>4, HoldersFinite, TotalExcept, Zenon
<1>7. Total(L.bank) \in Nat /\ Total(f) \in Nat
  BY <1>1, <1>2, HoldersFinite, TotalNat
<1> HIDE DEF g
<1>8. Total(g) = Total(L.bank)
  BY <1>1, <1>3, <1>4, <1>6, <1>7
<1>9. M = [L EXCEPT !.bank = g]
  <2> DEFINE D == [L EXCEPT !.bank[from] = @ - n]
  <2>1. D = [L EXCEPT !.bank = f] /\ D \in Ledger /\ D.bank = f
    BY <1>1, <1>2 DEF f, Sound, Ledger
  <2>2. M = [D EXCEPT !.bank[to] = @ + n]
    BY DEF BankSendCoins
  <2> HIDE DEF D
  <2>3. M = [D EXCEPT !.bank = g]
    BY <1>2, <2>1, <2>2 DEF g, Ledger
  <2> QED
    BY <1>5, <2>1, <2>3, Zenon DEF Sound, Ledger
<1>10. M \in Ledger /\ M.bank = g /\ M.supply = L.supply
       /\ M.fractional = L.fractional /\ M.remainder = L.remainder
  BY <1>5, <1>9 DEF Sound, Ledger
<1> QED
  BY <1>8, <1>10 DEF Sound, f, g

\* Sending coins takes them from the one balance and adds them to the other.
LEMMA SendsAmount ==
  ASSUME NEW L, Sound(L), NEW from \in Holders, NEW to \in Holders, from # to,
         NEW n \in Nat, n <= L.bank[from]
  PROVE  /\ Sound(BankSendCoins(L, from, to, n))
         /\ BankSendCoins(L, from, to, n).fractional = L.fractional
         /\ BankSendCoins(L, from, to, n).remainder = L.remainder
         /\ BankSendCoins(L, from, to, n).bank[from] = L.bank[from] - n
         /\ BankSendCoins(L, from, to, n).bank[to] = L.bank[to] + n
<1>1. L.bank \in [Holders -> Nat]
  BY DEF Sound, Ledger
<1>2. PICK M : M = BankSendCoins(L, from, to, n)
  OBVIOUS
<1>3. /\ Sound(M) /\ M.fractional = L.fractional /\ M.remainder = L.remainder
      /\ M.bank = [[L.bank EXCEPT ![from] = @ - n] EXCEPT ![to] = @ + n]
  BY <1>2, BankSendSound, SMTT(30)
<1>4. M.bank[from] = L.bank[from] - n /\ M.bank[to] = L.bank[to] + n
  BY <1>1, <1>3
<1> QED
  BY <1>2, <1>3, <1>4, Zenon

\* Minting adds to one balance and to the supply.
LEMMA BankMintSound ==
  ASSUME NEW L, Sound(L), NEW m \in Holders, NEW n \in Nat
  PROVE  /\ Sound(BankMintCoins(L, m, n))
         /\ BankMintCoins(L, m, n).fractional = L.fractional
         /\ BankMintCoins(L, m, n).remainder = L.remainder
         /\ BankMintCoins(L, m, n).bank = [L.bank EXCEPT ![m] = @ + n]
<1> DEFINE M == BankMintCoins(L, m, n)
           g == [L.bank EXCEPT ![m] = L.bank[m] + n]
<1>1. /\ L.bank \in [Holders -> Nat]
      /\ L.bank[m] \in Nat /\ L.bank[m] + n \in Nat
      /\ L.supply \in Nat /\ L.supply + n \in Nat
  BY DEF Sound, Ledger
<1>2. g \in [Holders -> Nat]
  BY <1>1
<1>3. Total(g) = Total(L.bank) - L.bank[m] + (L.bank[m] + n)
  BY <1>1, HoldersFinite, TotalExcept, ZenonT(40)
<1> HIDE DEF g
<1>4. Total(L.bank) \in Nat
  BY <1>1, HoldersFinite, TotalNat
<1>5. M = [L EXCEPT !.bank = g, !.supply = L.supply + n]
  BY <1>1 DEF BankMintCoins, g, Sound, Ledger
<1>6. M \in Ledger /\ M.bank = g /\ M.supply = L.supply + n
      /\ M.fractional = L.fractional /\ M.remainder = L.remainder
  BY <1>1, <1>2, <1>5, Zenon DEF Sound, Ledger
<1>7. Total(g) = L.supply + n
  BY <1>1, <1>3, <1>4 DEF Sound
<1> QED
  BY <1>6, <1>7 DEF Sound, g

\* Burning takes from one balance and from the supply.
LEMMA BankBurnSound ==
  ASSUME NEW L, Sound(L), NEW m \in Holders, NEW n \in Nat, n <= L.bank[m]
  PROVE  /\ Sound(BankBurnCoins(L, m, n))
         /\ BankBurnCoins(L, m, n).fractional = L.fractional
         /\ BankBurnCoins(L, m, n).remainder = L.remainder
         /\ BankBurnCoins(L, m, n).bank = [L.bank EXCEPT ![m] = @ - n]
<1> DEFINE M == BankBurnCoins(L, m, n)
           g == [L.bank EXCEPT ![m] = L.bank[m] - n]
<1>1. /\ L.bank \in [Holders -> Nat]
      /\ L.bank[m] \in Nat /\ L.bank[m] - n \in Nat
      /\ L.supply \in Nat
  BY DEF Sound, Ledger
<1>2. g \in [Holders -> Nat]
  BY <1>1
<1>3. Total(g) = Total(L.bank) - L.bank[m] + (L.bank[m] - n)
  BY <1>1, HoldersFinite, TotalExcept, ZenonT(40)
<1> HIDE DEF g
<1>4. Total(L.bank) \in Nat /\ L.bank[m] <= Total(L.bank)
  BY <1>1, HoldersFinite, TotalNat, TotalAtLeast
<1>5. M = [L EXCEPT !.bank = g, !.supply = L.supply - n]
  BY <1>1 DEF BankBurnCoins, g, Sound, Ledger
<1>6. L.supply - n \in Nat /\ Total(g) = L.supply - n
  BY <1>1, <1>3, <1>4 DEF Sound
<1>7. M \in Ledger /\ M.bank = g /\ M.supply = L.supply - n
      /\ M.fractional = L.fractional /\ M.remainder = L.remainder
  BY <1>2, <1>5, <1>6, Zenon DEF Sound, Ledger
<1> QED
  BY <1>6, <1>7 DEF Sound, g

-----------------------------------------------------------------------------
(* Arithmetic on integer coins and fractions. *)

\* An amount is its integer part, in extended coins, and its fraction.
LEMMA Parts ==
  ASSUME NEW amt \in Nat
  PROVE  /\ IntegerPart(amt) \in Nat
         /\ FractionalPart(amt) \in Fractions
         /\ amt = IntegerPart(amt) * ConversionFactor + FractionalPart(amt)
<1> DEFINE C == ConversionFactor
<1>1. C \in Nat /\ C > 0
  BY ConversionFactorAssumption
<1>2. amt \div C \in Nat
  BY <1>1
<1>3. amt % C \in 0 .. (C - 1)
  BY <1>1
<1>4. amt = (amt \div C) * C + (amt % C)
  BY <1>1
<1> QED
  BY <1>2, <1>3, <1>4 DEF IntegerPart, FractionalPart, Fractions

\* Comparing two amounts is comparing their integer parts, after one coin has
\* been set aside if the fraction needs a borrow.
LEMMA CompareByParts ==
  ASSUME NEW b \in Nat, NEW i \in Nat, NEW x \in Fractions, NEW f \in Fractions
  PROVE  b * ConversionFactor + x >= i * ConversionFactor + f
           <=> b >= i + (IF x < f THEN 1 ELSE 0)
<1> DEFINE C == ConversionFactor
<1>1. C \in Nat /\ C > 0
  BY ConversionFactorAssumption
<1>2. x \in Nat /\ f \in Nat /\ x < C /\ f < C
  BY <1>1 DEF Fractions
<1>3. \A p, q \in Nat : p >= q + 1 => p * C >= q * C + C
  <2> SUFFICES ASSUME NEW p \in Nat, NEW q \in Nat, p >= q + 1
               PROVE  p * C >= q * C + C
    OBVIOUS
  <2>1. (p - q - 1) * C >= 0
    BY <1>1
  <2> QED
    BY <1>1, <2>1
<1>4. b * C \in Nat /\ i * C \in Nat
  BY <1>1
<1>5. CASE b >= i + 1
  <2>1. b * C >= i * C + C
    BY <1>3, <1>5
  <2> QED
    BY <1>1, <1>2, <1>4, <1>5, <2>1
<1>6. CASE b = i
  BY <1>1, <1>2, <1>4, <1>6
<1>7. CASE i >= b + 1
  <2>1. i * C >= b * C + C
    BY <1>3, <1>7
  <2> QED
    BY <1>1, <1>2, <1>4, <1>7, <2>1
<1> QED
  BY <1>5, <1>6, <1>7

\* One coin more or less in the reserve is ConversionFactor extended coins.
LEMMA OneCoin ==
  ASSUME NEW b \in Int
  PROVE  /\ (b + 1) * ConversionFactor = b * ConversionFactor + ConversionFactor
         /\ (b - 1) * ConversionFactor = b * ConversionFactor - ConversionFactor
         /\ b * ConversionFactor \in Int
BY ConversionFactorAssumption

-----------------------------------------------------------------------------
(* Every operation keeps the reserve backing the fractions. *)

\* The inductive invariant, of a ledger.
Backed(L) ==
  /\ Sound(L)
  /\ L.fractional[Reserve] = 0
  /\ Total(L.fractional) + L.remainder = L.bank[Reserve] * ConversionFactor

\* A borrow or a carry leaves a fraction a fraction.
LEMMA NewFraction ==
  ASSUME NEW x \in Fractions, NEW f \in Fractions
  PROVE  /\ subFromFractionalBalance(x, f) \in Fractions
         /\ addToFractionalBalance(x, f) \in Fractions
         /\ subFromFractionalBalance(x, f)
              = x - f + (IF NeedsBorrow(x, f) THEN ConversionFactor ELSE 0)
         /\ addToFractionalBalance(x, f)
              = x + f - (IF NeedsCarry(x, f) THEN ConversionFactor ELSE 0)
BY ConversionFactorAssumption
   DEF Fractions, subFromFractionalBalance, addToFractionalBalance,
       NeedsBorrow, NeedsCarry

\* The fractions of a ledger are numbers.
LEMMA FractionsAreNat ==
  ASSUME NEW L \in Ledger
  PROVE  /\ L.fractional \in [Holders -> Nat]
         /\ Total(L.fractional) \in Nat
<1>1. Fractions \subseteq Nat
  BY ConversionFactorAssumption DEF Fractions
<1>2. L.fractional \in [Holders -> Nat]
  BY <1>1, Zenon DEF Ledger
<1> QED
  BY <1>2, HoldersFinite, TotalNat

\* Coins that x/bank moves between other accounts than the reserve leave the
\* backing as it is.
LEMMA PassthroughBacked ==
  ASSUME NEW L, Backed(L), NEW from \in Accounts, NEW to \in Accounts,
         NEW n \in Nat, n <= L.bank[from]
  PROVE  Backed(BankSendCoins(L, from, to, n))
<1> DEFINE M == BankSendCoins(L, from, to, n)
<1>1. from \in Holders /\ to \in Holders /\ Reserve \in Holders
      /\ from # Reserve /\ to # Reserve
  BY AccountsAssumption DEF Holders, Accounts
<1>2. /\ Sound(M) /\ M.fractional = L.fractional /\ M.remainder = L.remainder
      /\ M.bank = [[L.bank EXCEPT ![from] = @ - n] EXCEPT ![to] = @ + n]
  BY <1>1, BankSendSound DEF Backed
<1>3. M.bank[Reserve] = L.bank[Reserve]
  BY <1>1, <1>2 DEF Backed, Sound, Ledger
<1> HIDE DEF M
<1>4. Backed(M)
  BY <1>2, <1>3 DEF Backed
<1> QED
  BY <1>4 DEF M

\* Changing two fractions and the remainder changes the sum that the reserve has
\* to back by as much.
LEMMA TotalExceptTwo ==
  ASSUME NEW L \in Ledger, NEW a \in Holders, NEW b \in Holders, a # b,
         NEW x \in Fractions, NEW y \in Fractions
  PROVE  LET g == [[L.fractional EXCEPT ![a] = x] EXCEPT ![b] = y]
         IN  /\ g \in [Holders -> Fractions]
             /\ Total(g) = Total(L.fractional)
                             - L.fractional[a] - L.fractional[b] + x + y
<1> DEFINE f == [L.fractional EXCEPT ![a] = x]
           g == [f EXCEPT ![b] = y]
<1>1. x \in Nat /\ y \in Nat
  BY ConversionFactorAssumption DEF Fractions
<1>2. L.fractional \in [Holders -> Nat] /\ Total(L.fractional) \in Nat
  BY FractionsAreNat
<1>3. g \in [Holders -> Fractions]
  BY DEF Ledger
<1>4. f \in [Holders -> Nat] /\ f[b] = L.fractional[b]
  BY <1>1, <1>2
<1>5. Total(f) = Total(L.fractional) - L.fractional[a] + x
  BY <1>1, <1>2, HoldersFinite, TotalExcept, Zenon
<1> HIDE DEF f
<1>6. Total(g) = Total(f) - f[b] + y
  BY <1>1, <1>4, HoldersFinite, TotalExcept, Zenon
<1>7. L.fractional[a] \in Nat /\ L.fractional[b] \in Nat /\ Total(f) \in Nat
  BY <1>2, <1>4, HoldersFinite, TotalNat
<1> HIDE DEF g
<1>8. Total(g) = Total(L.fractional) - L.fractional[a] - L.fractional[b] + x + y
  BY <1>1, <1>2, <1>4, <1>5, <1>6, <1>7
<1> QED
  BY <1>3, <1>8 DEF f, g

\* sendExtendedCoins between two accounts.
LEMMA SendExtendedBacked ==
  ASSUME NEW L, Backed(L), NEW from \in Accounts, NEW to \in Accounts,
         NEW amt \in Nat, CanSendExtendedCoins(L, from, to, amt)
  PROVE  Backed(sendExtendedCoins(L, from, to, amt))
<1> DEFINE C      == ConversionFactor
           f      == FractionalPart(amt)
           x      == L.fractional[from]
           y      == L.fractional[to]
           borrow == NeedsBorrow(x, f)
           carry  == NeedsCarry(y, f)
           direct == IntegerPart(amt) + (IF borrow /\ carry THEN 1 ELSE 0)
           L1     == BankSendCoins(L, from, to, direct)
           L2     == IF borrow /\ ~carry THEN BankSendCoins(L1, from, Reserve, 1)
                     ELSE IF carry /\ ~borrow THEN BankSendCoins(L1, Reserve, to, 1)
                     ELSE L1
           M      == sendExtendedCoins(L, from, to, amt)
<1>1. from \in Holders /\ to \in Holders /\ Reserve \in Holders
      /\ from # Reserve /\ to # Reserve
  BY AccountsAssumption DEF Holders, Accounts
<1>2. IntegerPart(amt) \in Nat /\ f \in Fractions
  BY Parts
<1>3. Sound(L) /\ L \in Ledger
  BY DEF Backed, Sound
<1>4. x \in Fractions /\ y \in Fractions /\ L.bank \in [Holders -> Nat]
  BY <1>1, <1>3 DEF Ledger
<1>5. CASE from = to
  BY <1>1, <1>5 DEF sendExtendedCoins, IsSelfTransfer
<1>6. CASE from # to
  <2>1. /\ L.bank[from] >= IntegerPart(amt) + (IF borrow THEN 1 ELSE 0)
        /\ carry /\ ~borrow => L.bank[Reserve] >= 1
    BY <1>1, <1>6 DEF CanSendExtendedCoins, IntegerCoinsNeeded, IsSelfTransfer
  <2>2. direct \in Nat /\ direct <= L.bank[from]
    BY <1>1, <1>2, <1>4, <2>1
  <2>3. /\ Sound(L1) /\ L1.fractional = L.fractional /\ L1.remainder = L.remainder
        /\ L1.bank = [[L.bank EXCEPT ![from] = @ - direct] EXCEPT ![to] = @ + direct]
    BY <1>1, <1>3, <2>2, BankSendSound, SMTT(30)
  <2>4. L1.bank[Reserve] = L.bank[Reserve] /\ L1.bank[from] = L.bank[from] - direct
    BY <1>1, <1>4, <1>6, <2>3
  <2>5. /\ Sound(L2) /\ L2.fractional = L.fractional /\ L2.remainder = L.remainder
        /\ L2.bank[Reserve] = L.bank[Reserve]
             + (IF borrow /\ ~carry THEN 1 ELSE 0)
             - (IF carry /\ ~borrow THEN 1 ELSE 0)
    <3> HIDE DEF L1, direct, borrow, carry, f, x, y
    <3>1. 1 \in Nat /\ L1.bank \in [Holders -> Nat] /\ L.bank[Reserve] \in Nat
      BY <1>1, <1>4, <2>3, SMTT(30) DEF Sound, Ledger
    <3>2. CASE borrow /\ ~carry
      <4>1. 1 <= L1.bank[from]
        BY <1>1, <1>2, <1>4, <2>1, <2>4, <3>2 DEF direct
      <4>2. L2 = BankSendCoins(L1, from, Reserve, 1)
        BY <3>2
      <4>3. /\ Sound(L2) /\ L2.fractional = L1.fractional /\ L2.remainder = L1.remainder
            /\ L2.bank = [[L1.bank EXCEPT ![from] = @ - 1] EXCEPT ![Reserve] = @ + 1]
        BY <1>1, <2>3, <3>1, <4>1, <4>2, BankSendSound, SMTT(30)
      <4>4. L2.bank[Reserve] = L1.bank[Reserve] + 1
        BY <1>1, <3>1, <4>3, SMTT(30)
      <4> QED
        BY <2>3, <2>4, <3>1, <3>2, <4>3, <4>4, SMTT(30)
    <3>3. CASE carry /\ ~borrow
      <4>1. 1 <= L1.bank[Reserve]
        BY <2>1, <2>4, <3>3
      <4>2. L2 = BankSendCoins(L1, Reserve, to, 1)
        BY <3>3
      <4>3. /\ Sound(L2) /\ L2.fractional = L1.fractional /\ L2.remainder = L1.remainder
            /\ L2.bank = [[L1.bank EXCEPT ![Reserve] = @ - 1] EXCEPT ![to] = @ + 1]
        BY <1>1, <2>3, <3>1, <4>1, <4>2, BankSendSound, SMTT(30)
      <4>4. L2.bank[Reserve] = L1.bank[Reserve] - 1
        BY <1>1, <3>1, <4>3
      <4> QED
        BY <2>3, <2>4, <3>1, <3>3, <4>3, <4>4, SMTT(30)
    <3>4. CASE ~(borrow /\ ~carry) /\ ~(carry /\ ~borrow)
      <4>1. L2 = L1
        BY <3>4, Zenon
      <4> HIDE DEF L2
      <4>2. L2.bank[Reserve] = L.bank[Reserve] + 0 - 0
        BY <2>4, <3>1, <4>1
      <4> QED
        BY <2>3, <3>4, <4>1, <4>2
    <3> QED
      BY <3>2, <3>3, <3>4
  <2> DEFINE newX == subFromFractionalBalance(x, f)
             newY == addToFractionalBalance(y, f)
             g    == [[L.fractional EXCEPT ![from] = newX] EXCEPT ![to] = newY]
  <2>6. /\ newX \in Fractions /\ newY \in Fractions
        /\ newX = x - f + (IF borrow THEN C ELSE 0)
        /\ newY = y + f - (IF carry THEN C ELSE 0)
    BY <1>2, <1>4, NewFraction
  <2>7. M = [L2 EXCEPT !.fractional[from] = newX, !.fractional[to] = newY]
    BY <1>1, <1>6, Zenon DEF sendExtendedCoins, IsSelfTransfer
  <2> HIDE DEF L2, newX, newY, borrow, carry, M
  <2>8. g \in [Holders -> Fractions]
        /\ Total(g) = Total(L.fractional) - x - y + newX + newY
    BY <1>1, <1>3, <1>6, <2>6, TotalExceptTwo, SMTT(30)
  <2>9. /\ M \in Ledger /\ M.bank = L2.bank /\ M.supply = L2.supply
        /\ M.fractional = g /\ M.remainder = L.remainder
    BY <2>5, <2>7, <2>8, Zenon DEF Sound, Ledger
  <2>10. Total(g) + L.remainder = L2.bank[Reserve] * C
    <3>1. /\ Total(L.fractional) \in Nat /\ L.remainder \in Nat /\ f \in Nat
          /\ x \in Nat /\ y \in Nat /\ C \in Nat /\ L.bank[Reserve] \in Nat
      BY <1>1, <1>2, <1>3, <1>4, FractionsAreNat, ConversionFactorAssumption
         DEF Ledger, Fractions
    <3>2. Total(L.fractional) + L.remainder = L.bank[Reserve] * C
      BY DEF Backed
    <3>3. /\ (L.bank[Reserve] + 1) * C = L.bank[Reserve] * C + C
          /\ (L.bank[Reserve] - 1) * C = L.bank[Reserve] * C - C
      <4>1. L.bank[Reserve] \in Int
        BY <3>1
      <4> QED
        BY <4>1, OneCoin, Zenon
    <3> DEFINE P == L.bank[Reserve] * C
    <3>4. P \in Int
      BY <3>1
    <3> HIDE DEF x, y, f, C, g, P
    <3>5. Total(L.fractional) + L.remainder = P
      BY <3>2 DEF P
    <3>6. Total(g) = Total(L.fractional)
             + (IF borrow THEN C ELSE 0) - (IF carry THEN C ELSE 0)
      <4> DEFINE u == IF borrow THEN C ELSE 0
                 v == IF carry THEN C ELSE 0
      <4>1. u \in Int /\ v \in Int
        BY <3>1
      <4>2. newX = x - f + u /\ newY = y + f - v
        BY <2>6
      <4>3. Total(g) = Total(L.fractional) - x - y + newX + newY
        BY <2>8
      <4> HIDE DEF u, v
      <4>4. Total(g) = Total(L.fractional) + u - v
        BY <3>1, <4>1, <4>2, <4>3
      <4> QED
        BY <4>4 DEF u, v
    <3>7. Total(g) + L.remainder
             = P + (IF borrow THEN C ELSE 0) - (IF carry THEN C ELSE 0)
      BY <3>1, <3>4, <3>5, <3>6
    <3>8. CASE borrow /\ ~carry
      <4>1. L2.bank[Reserve] = L.bank[Reserve] + 1
        BY <2>5, <3>1, <3>8
      <4>2. Total(g) + L.remainder = P + C
        BY <3>1, <3>4, <3>7, <3>8
      <4> QED
        BY <3>3, <4>1, <4>2 DEF P
    <3>9. CASE carry /\ ~borrow
      <4>1. L2.bank[Reserve] = L.bank[Reserve] - 1
        BY <2>5, <3>1, <3>9
      <4>2. Total(g) + L.remainder = P - C
        BY <3>1, <3>4, <3>7, <3>9
      <4> QED
        BY <3>3, <4>1, <4>2 DEF P
    <3>10. CASE ~(borrow /\ ~carry) /\ ~(carry /\ ~borrow)
      <4>1. L2.bank[Reserve] = L.bank[Reserve]
        BY <2>5, <3>1, <3>10
      <4>2. Total(g) + L.remainder = P
        BY <3>1, <3>4, <3>7, <3>10
      <4> QED
        BY <4>1, <4>2 DEF P
    <3> QED
      BY <3>8, <3>9, <3>10
  <2>11. g[Reserve] = 0
    BY <1>1, <1>3 DEF Backed, Ledger
  <2>12. Sound(M)
    BY <2>5, <2>9 DEF Sound
  <2>13. Backed(M)
    BY <2>9, <2>10, <2>11, <2>12 DEF Backed
  <2> QED
    BY <2>13 DEF M
<1> QED
  BY <1>5, <1>6

\* A transfer of nothing is no transfer.
LEMMA ZeroAmount ==
  ASSUME NEW x \in Fractions
  PROVE  /\ IntegerPart(0) = 0 /\ FractionalPart(0) = 0
         /\ ~NeedsBorrow(x, 0) /\ ~NeedsCarry(x, 0)
<1>1. ConversionFactor \in Nat /\ ConversionFactor > 0
  BY ConversionFactorAssumption
<1>2. IntegerPart(0) = 0 /\ FractionalPart(0) = 0
  BY <1>1 DEF IntegerPart, FractionalPart
<1> QED
  BY <1>1, <1>2 DEF Fractions, NeedsBorrow, NeedsCarry

\* SendCoins sends the integer coins and then the extended coins, and both sends go
\* through.
LEMMA SendCoinsInParts ==
  ASSUME NEW L, Backed(L), NEW from \in Accounts, NEW to \in Accounts,
         NEW c \in Coins, CanSendCoins(L, from, to, c)
  PROVE  LET M == BankSendCoins(L, from, to, c.integer)
         IN  /\ c.integer \in Nat /\ c.extended \in Nat /\ c.integer <= L.bank[from]
             /\ Backed(M)
             /\ CanSendExtendedCoins(M, from, to, c.extended)
             /\ SendCoins(L, from, to, c) = sendExtendedCoins(M, from, to, c.extended)
<1> DEFINE M == BankSendCoins(L, from, to, c.integer)
<1>1. c.integer \in Nat /\ c.extended \in Nat
  BY DEF Coins
<1>2. c.integer <= L.bank[from]
  <2>1. L.bank[from] >= c.integer /\ L.bank[from] \in Nat
    BY DEF CanSendCoins, Backed, Sound, Ledger, Holders
  <2> QED
    BY <1>1, <2>1
<1>3. Backed(M)
  BY <1>1, <1>2, PassthroughBacked
<1>4. CanSendExtendedCoins(M, from, to, c.extended)
  <2>1. CASE c.extended > 0
    BY <2>1 DEF CanSendCoins
  <2>2. CASE c.extended = 0
    <3> HIDE DEF M
    <3>1. /\ M.bank \in [Holders -> Nat] /\ M.fractional \in [Holders -> Fractions]
          /\ from \in Holders /\ to \in Holders
      BY <1>3 DEF Backed, Sound, Ledger, Holders
    <3>2. M.bank[from] >= 0
      BY <3>1
    <3>3. /\ IntegerPart(0) = 0 /\ FractionalPart(0) = 0
          /\ ~NeedsBorrow(M.fractional[from], 0) /\ ~NeedsCarry(M.fractional[to], 0)
      BY <3>1, ZeroAmount
    <3>4. CanSendExtendedCoins(M, from, to, 0)
      BY <3>2, <3>3 DEF CanSendExtendedCoins, IntegerCoinsNeeded
    <3> QED
      BY <2>2, <3>4
  <2> QED
    BY <1>1, <2>1, <2>2
<1>5. SendCoins(L, from, to, c) = sendExtendedCoins(M, from, to, c.extended)
  BY DEF SendCoins
<1> QED
  BY <1>1, <1>2, <1>3, <1>4, <1>5, Zenon

\* SendCoins between two accounts.
LEMMA SendCoinsBacked ==
  ASSUME NEW L, Backed(L), NEW from \in Accounts, NEW to \in Accounts,
         NEW c \in Coins, CanSendCoins(L, from, to, c)
  PROVE  Backed(SendCoins(L, from, to, c))
<1> DEFINE M == BankSendCoins(L, from, to, c.integer)
<1>1. /\ c.extended \in Nat /\ Backed(M) /\ CanSendExtendedCoins(M, from, to, c.extended)
      /\ SendCoins(L, from, to, c) = sendExtendedCoins(M, from, to, c.extended)
  BY SendCoinsInParts, Zenon
<1> HIDE DEF M
<1> QED
  BY <1>1, SendExtendedBacked

\* Changing one fraction changes the sum that the reserve has to back by as much.
LEMMA FractionExcept ==
  ASSUME NEW L \in Ledger, NEW a \in Holders, NEW x \in Fractions
  PROVE  /\ [L.fractional EXCEPT ![a] = x] \in [Holders -> Fractions]
         /\ Total([L.fractional EXCEPT ![a] = x])
              = Total(L.fractional) - L.fractional[a] + x
<1>1. x \in Nat
  BY ConversionFactorAssumption DEF Fractions
<1>2. L.fractional \in [Holders -> Nat]
  BY FractionsAreNat
<1>3. Total([L.fractional EXCEPT ![a] = x]) = Total(L.fractional) - L.fractional[a] + x
  BY <1>1, <1>2, HoldersFinite, TotalExcept, Zenon
<1> QED
  BY <1>3 DEF Ledger

\* A ledger whose integer coins have moved as the new fraction and the new
\* remainder require is backed.
LEMMA RebalancedBacked ==
  ASSUME NEW L, Backed(L), NEW M, Sound(M), NEW m \in Modules,
         NEW x \in Fractions, NEW r \in Fractions, NEW d \in {-1, 0, 1},
         M.fractional = L.fractional,
         M.bank[Reserve] = L.bank[Reserve] + d,
         x - L.fractional[m] + r - L.remainder
           = (IF d = 1 THEN ConversionFactor
              ELSE IF d = 0 THEN 0 ELSE -ConversionFactor)
  PROVE  Backed([M EXCEPT !.fractional[m] = x, !.remainder = r])
<1> DEFINE N == [M EXCEPT !.fractional[m] = x, !.remainder = r]
           C == ConversionFactor
           g == [L.fractional EXCEPT ![m] = x]
<1>1. m \in Holders /\ Reserve \in Holders /\ m # Reserve
  BY AccountsAssumption DEF Holders, Accounts
<1>2. L \in Ledger
  BY DEF Backed, Sound
<1>3. g \in [Holders -> Fractions] /\ Total(g) = Total(L.fractional) - L.fractional[m] + x
  BY <1>1, <1>2, FractionExcept, SMTT(30)
<1>4. N \in Ledger /\ N.bank = M.bank /\ N.supply = M.supply
      /\ N.fractional = g /\ N.remainder = r
  BY <1>3, Zenon DEF Sound, Ledger
<1>5. g[Reserve] = 0
  BY <1>1, <1>2 DEF Backed, Ledger
<1>6. Total(g) + r = M.bank[Reserve] * C
  <2>1. /\ Total(L.fractional) \in Nat /\ L.remainder \in Nat /\ r \in Nat /\ x \in Nat
        /\ L.fractional[m] \in Nat /\ C \in Nat /\ L.bank[Reserve] \in Int
    BY <1>1, <1>2, FractionsAreNat, ConversionFactorAssumption, SMTT(30) DEF Ledger, Fractions
  <2>2. Total(L.fractional) + L.remainder = L.bank[Reserve] * C
    BY DEF Backed
  <2>3. /\ (L.bank[Reserve] + 1) * C = L.bank[Reserve] * C + C
        /\ (L.bank[Reserve] - 1) * C = L.bank[Reserve] * C - C
    BY <2>1, OneCoin, Zenon
  <2> DEFINE P == L.bank[Reserve] * C
             D == x - L.fractional[m] + r - L.remainder
  <2>4. P \in Int /\ Total(L.fractional) + L.remainder = P
    BY <2>1, <2>2
  <2> HIDE DEF g, P
  <2>5. Total(g) + r = P + D
    BY <1>3, <2>1, <2>4
  <2>6. D = (IF d = 1 THEN C ELSE IF d = 0 THEN 0 ELSE -C)
    OBVIOUS
  <2> HIDE DEF D, C
  <2>7. CASE d = 1
    <3>1. Total(g) + r = P + C
      BY <2>5, <2>6, <2>7
    <3> QED
      BY <2>3, <2>7, <3>1 DEF P
  <2>8. CASE d = 0
    <3>1. Total(g) + r = P
      BY <2>4, <2>5, <2>6, <2>8
    <3>2. M.bank[Reserve] = L.bank[Reserve]
      BY <2>1, <2>8
    <3> QED
      BY <3>1, <3>2 DEF P
  <2>9. CASE d = -1
    <3>1. Total(g) + r = P - C
      BY <2>1, <2>4, <2>5, <2>6, <2>9
    <3>2. M.bank[Reserve] = L.bank[Reserve] - 1
      BY <2>1, <2>9
    <3> QED
      BY <2>3, <3>1, <3>2 DEF P
  <2> QED
    BY <2>7, <2>8, <2>9
<1> HIDE DEF N, g
<1>7. Backed(N)
  BY <1>4, <1>5, <1>6 DEF Backed, Sound
<1> QED
  BY <1>7 DEF N

\* mintExtendedCoin.
LEMMA MintExtendedBacked ==
  ASSUME NEW L, Backed(L), NEW m \in Modules, NEW amt \in Nat,
         CanMintExtendedCoin(L, m, amt)
  PROVE  Backed(mintExtendedCoin(L, m, amt))
<1> DEFINE C       == ConversionFactor
           f       == FractionalPart(amt)
           i       == IntegerPart(amt)
           carried == NeedsCarry(L.fractional[m], f)
           short   == L.remainder < f
           n       == i + (IF carried /\ short THEN 1 ELSE 0)
           L1      == IF carried /\ ~short THEN BankSendCoins(L, Reserve, m, 1) ELSE L
           L2      == BankMintCoins(L1, m, n)
           L3      == IF MintsToReserve(short, carried)
                        THEN BankMintCoins(L2, Reserve, 1) ELSE L2
           x       == addToFractionalBalance(L.fractional[m], f)
           r       == IF short THEN L.remainder - f + C ELSE L.remainder - f
           d       == IF carried /\ ~short THEN -1 ELSE IF short /\ ~carried THEN 1 ELSE 0
<1>1. m \in Holders /\ Reserve \in Holders /\ m # Reserve /\ 1 \in Nat
  BY AccountsAssumption DEF Holders, Accounts
<1>2. i \in Nat /\ f \in Fractions
  BY Parts
<1>3. Sound(L) /\ L \in Ledger /\ L.bank \in [Holders -> Nat]
      /\ L.fractional[m] \in Fractions /\ L.remainder \in Fractions
  BY <1>1 DEF Backed, Sound, Ledger
<1>4. C \in Nat /\ C > 0 /\ f \in Nat /\ f < C
      /\ L.fractional[m] \in Nat /\ L.remainder \in Nat /\ L.remainder < C
  BY <1>2, <1>3, ConversionFactorAssumption DEF Fractions
<1>5. x \in Fractions /\ x = L.fractional[m] + f - (IF carried THEN C ELSE 0)
  BY <1>2, <1>3, NewFraction
<1>6. r \in Fractions
  BY <1>4 DEF Fractions
<1>7. carried /\ ~short => 1 <= L.bank[Reserve]
  <2>1. carried /\ L.remainder >= f => L.bank[Reserve] >= 1
    BY DEF CanMintExtendedCoin
  <2> HIDE DEF carried, f
  <2> QED
    BY <1>1, <1>3, <1>4, <2>1
<1>8. mintExtendedCoin(L, m, amt)
        = [L3 EXCEPT !.fractional[m] = addToFractionalBalance(@, f),
                     !.remainder = IF short THEN @ - f + C ELSE @ - f]
  BY Zenon DEF mintExtendedCoin
<1>9. n \in Nat
  BY <1>2
<1> HIDE DEF carried, f, i, short, n, x, r, C
<1>10. /\ Sound(L1) /\ L1.fractional = L.fractional /\ L1.remainder = L.remainder
       /\ L1.bank[Reserve] = L.bank[Reserve] + (IF carried /\ ~short THEN -1 ELSE 0)
  <2>1. CASE carried /\ ~short
    <3>1. L1 = BankSendCoins(L, Reserve, m, 1)
      BY <2>1
    <3> HIDE DEF L1
    <3>2. 1 <= L.bank[Reserve]
      BY <1>7, <2>1
    <3>3. /\ Sound(L1) /\ L1.fractional = L.fractional /\ L1.remainder = L.remainder
          /\ L1.bank[Reserve] = L.bank[Reserve] - 1
      BY <1>1, <1>3, <3>1, <3>2, SendsAmount, SMTT(30)
    <3>4. L.bank[Reserve] \in Int
      BY <1>1, <1>3
    <3> QED
      BY <2>1, <3>3, <3>4
  <2>2. CASE ~(carried /\ ~short)
    <3>1. L1 = L
      BY <2>2
    <3> HIDE DEF L1
    <3>2. L1.bank[Reserve] = L.bank[Reserve] + 0
      BY <1>1, <1>3, <3>1
    <3> QED
      BY <1>3, <2>2, <3>1, <3>2
  <2> QED
    BY <2>1, <2>2
<1> HIDE DEF L1
<1>11. /\ Sound(L2) /\ L2.fractional = L.fractional /\ L2.remainder = L.remainder
       /\ L2.bank[Reserve] = L1.bank[Reserve]
  <2>1. /\ Sound(L2) /\ L2.fractional = L1.fractional /\ L2.remainder = L1.remainder
        /\ L2.bank = [L1.bank EXCEPT ![m] = @ + n]
    BY <1>1, <1>9, <1>10, BankMintSound, SMTT(30)
  <2> QED
    BY <1>1, <1>10, <2>1 DEF Sound, Ledger
<1> HIDE DEF L2
<1>12. /\ Sound(L3) /\ L3.fractional = L.fractional /\ L3.remainder = L.remainder
       /\ L3.bank[Reserve] = L.bank[Reserve] + d
  <2>1. L2.bank \in [Holders -> Nat] /\ L.bank[Reserve] \in Nat
    BY <1>1, <1>3, <1>11 DEF Sound, Ledger
  <2>2. CASE short /\ ~carried
    <3>1. L3 = BankMintCoins(L2, Reserve, 1)
      BY <2>2 DEF MintsToReserve
    <3> HIDE DEF L3
    <3>2. /\ Sound(L3) /\ L3.fractional = L2.fractional /\ L3.remainder = L2.remainder
          /\ L3.bank = [L2.bank EXCEPT ![Reserve] = @ + 1]
      BY <1>1, <1>11, <3>1, BankMintSound, SMTT(30)
    <3>3. L3.bank[Reserve] = L2.bank[Reserve] + 1
      BY <1>1, <2>1, <3>2
    <3> QED
      BY <1>10, <1>11, <2>1, <2>2, <3>2, <3>3, SMTT(30)
  <2>3. CASE ~(short /\ ~carried)
    <3>1. L3 = L2
      BY <2>3 DEF MintsToReserve
    <3> HIDE DEF L3
    <3> QED
      BY <1>10, <1>11, <2>1, <2>3, <3>1
  <2> QED
    BY <2>2, <2>3
<1> HIDE DEF L3
<1>13. mintExtendedCoin(L, m, amt) = [L3 EXCEPT !.fractional[m] = x, !.remainder = r]
  BY <1>1, <1>8, <1>12 DEF x, r, Sound, Ledger
<1>14. d \in {-1, 0, 1}
  OBVIOUS
<1>15. x - L.fractional[m] + r - L.remainder
         = (IF d = 1 THEN ConversionFactor
            ELSE IF d = 0 THEN 0 ELSE -ConversionFactor)
  BY <1>4, <1>5, SMTT(30) DEF r, C
<1> HIDE DEF d
<1>16. Backed([L3 EXCEPT !.fractional[m] = x, !.remainder = r])
  BY <1>5, <1>6, <1>12, <1>14, <1>15, RebalancedBacked, ZenonT(60)
<1> QED
  BY <1>13, <1>16

\* burnExtendedCoin.
LEMMA BurnExtendedBacked ==
  ASSUME NEW L, Backed(L), NEW m \in Modules, NEW amt \in Nat,
         CanBurnExtendedCoin(L, m, amt)
  PROVE  Backed(burnExtendedCoin(L, m, amt))
<1> DEFINE C        == ConversionFactor
           f        == FractionalPart(amt)
           i        == IntegerPart(amt)
           borrow   == NeedsBorrow(L.fractional[m], f)
           overflow == NeedsCarry(L.remainder, f)
           n        == i + (IF borrow /\ overflow THEN 1 ELSE 0)
           L1       == IF borrow /\ ~overflow THEN BankSendCoins(L, m, Reserve, 1) ELSE L
           L2       == IF BurnsFromReserve(overflow, borrow)
                         THEN BankBurnCoins(L1, Reserve, 1) ELSE L1
           L3       == BankBurnCoins(L2, m, n)
           x        == subFromFractionalBalance(L.fractional[m], f)
           r        == IF overflow THEN L.remainder + f - C ELSE L.remainder + f
           d        == IF borrow /\ ~overflow THEN 1 ELSE IF overflow /\ ~borrow THEN -1 ELSE 0
<1>1. m \in Holders /\ Reserve \in Holders /\ m # Reserve /\ 1 \in Nat
  BY AccountsAssumption DEF Holders, Accounts
<1>2. i \in Nat /\ f \in Fractions
  BY Parts
<1>3. Sound(L) /\ L \in Ledger /\ L.bank \in [Holders -> Nat]
      /\ L.fractional[m] \in Fractions /\ L.remainder \in Fractions
  BY <1>1 DEF Backed, Sound, Ledger
<1>4. C \in Nat /\ C > 0 /\ f \in Nat /\ f < C
      /\ L.fractional[m] \in Nat /\ L.remainder \in Nat /\ L.remainder < C
      /\ L.bank[m] \in Nat /\ L.bank[Reserve] \in Nat
  BY <1>1, <1>2, <1>3, ConversionFactorAssumption, SMTT(30) DEF Fractions
<1>5. x \in Fractions /\ x = L.fractional[m] - f + (IF borrow THEN C ELSE 0)
  BY <1>2, <1>3, NewFraction
<1>6. r \in Fractions /\ r = L.remainder + f - (IF overflow THEN C ELSE 0)
  BY <1>4, SMTT(30) DEF Fractions, NeedsCarry
<1>7. /\ overflow /\ ~borrow => L.bank[Reserve] >= 1
      /\ L.bank[m] >= i + (IF borrow THEN 1 ELSE 0)
  BY DEF CanBurnExtendedCoin, BurnsFromReserve, IntegerCoinsNeeded
<1>8. burnExtendedCoin(L, m, amt)
        = [L3 EXCEPT !.fractional[m] = subFromFractionalBalance(@, f),
                     !.remainder = IF overflow THEN @ + f - C ELSE @ + f]
  BY Zenon DEF burnExtendedCoin
<1>9. n \in Nat
  BY <1>2, SMTT(30)
<1> HIDE DEF borrow, overflow, f, i, n, x, r, C
<1>10. /\ Sound(L1) /\ L1.fractional = L.fractional /\ L1.remainder = L.remainder
       /\ L1.bank[Reserve] = L.bank[Reserve] + (IF borrow /\ ~overflow THEN 1 ELSE 0)
       /\ L1.bank[m] = L.bank[m] - (IF borrow /\ ~overflow THEN 1 ELSE 0)
  <2>1. CASE borrow /\ ~overflow
    <3>1. L1 = BankSendCoins(L, m, Reserve, 1)
      BY <2>1
    <3> HIDE DEF L1
    <3>2. 1 <= L.bank[m]
      BY <1>2, <1>4, <1>7, <2>1, SMTT(30)
    <3>3. /\ Sound(L1) /\ L1.fractional = L.fractional /\ L1.remainder = L.remainder
          /\ L1.bank[Reserve] = L.bank[Reserve] + 1 /\ L1.bank[m] = L.bank[m] - 1
      BY <1>1, <1>3, <3>1, <3>2, SendsAmount, SMTT(30)
    <3> QED
      BY <2>1, <3>3
  <2>2. CASE ~(borrow /\ ~overflow)
    <3>1. L1 = L
      BY <2>2
    <3> HIDE DEF L1
    <3>2. L1.bank[Reserve] = L.bank[Reserve] + 0 /\ L1.bank[m] = L.bank[m] - 0
      BY <1>4, <3>1
    <3> QED
      BY <1>3, <2>2, <3>1, <3>2
  <2> QED
    BY <2>1, <2>2
<1> HIDE DEF L1
<1>11. /\ Sound(L2) /\ L2.fractional = L.fractional /\ L2.remainder = L.remainder
       /\ L2.bank[Reserve] = L.bank[Reserve] + d
       /\ L2.bank[m] = L1.bank[m]
  <2>1. L1.bank \in [Holders -> Nat]
    BY <1>10 DEF Sound, Ledger
  <2>2. CASE overflow /\ ~borrow
    <3>1. L2 = BankBurnCoins(L1, Reserve, 1)
      BY <2>2 DEF BurnsFromReserve
    <3> HIDE DEF L2
    <3>2. L1.bank[Reserve] = L.bank[Reserve] /\ 1 <= L1.bank[Reserve]
      BY <1>4, <1>7, <1>10, <2>2
    <3>3. /\ Sound(L2) /\ L2.fractional = L1.fractional /\ L2.remainder = L1.remainder
          /\ L2.bank = [L1.bank EXCEPT ![Reserve] = @ - 1]
      BY <1>1, <1>10, <3>1, <3>2, BankBurnSound, SMTT(30)
    <3>4. L2.bank[Reserve] = L.bank[Reserve] + -1 /\ L2.bank[m] = L1.bank[m]
      BY <1>1, <1>4, <2>1, <3>2, <3>3, SMTT(30)
    <3> QED
      BY <1>10, <2>2, <3>3, <3>4
  <2>3. CASE ~(overflow /\ ~borrow)
    <3>1. L2 = L1
      BY <2>3 DEF BurnsFromReserve
    <3> HIDE DEF L2
    <3> QED
      BY <1>4, <1>10, <2>3, <3>1, SMTT(30)
  <2> QED
    BY <2>2, <2>3
<1> HIDE DEF L2
<1>12. /\ Sound(L3) /\ L3.fractional = L.fractional /\ L3.remainder = L.remainder
       /\ L3.bank[Reserve] = L.bank[Reserve] + d
  <2>1. n <= L2.bank[m]
    BY <1>2, <1>4, <1>7, <1>10, <1>11, SMTT(30) DEF n
  <2>2. /\ Sound(L3) /\ L3.fractional = L2.fractional /\ L3.remainder = L2.remainder
        /\ L3.bank = [L2.bank EXCEPT ![m] = @ - n]
    BY <1>1, <1>9, <1>11, <2>1, BankBurnSound, SMTT(30)
  <2>3. L3.bank[Reserve] = L2.bank[Reserve]
    BY <1>1, <1>11, <2>2 DEF Sound, Ledger
  <2> HIDE DEF d
  <2> QED
    BY <1>11, <2>2, <2>3
<1> HIDE DEF L3
<1>13. burnExtendedCoin(L, m, amt) = [L3 EXCEPT !.fractional[m] = x, !.remainder = r]
  BY <1>1, <1>8, <1>12 DEF x, r, Sound, Ledger
<1>14. d \in {-1, 0, 1}
  OBVIOUS
<1>15. x - L.fractional[m] + r - L.remainder
         = (IF d = 1 THEN ConversionFactor
            ELSE IF d = 0 THEN 0 ELSE -ConversionFactor)
  BY <1>4, <1>5, <1>6 DEF C
<1> HIDE DEF d
<1>16. Backed([L3 EXCEPT !.fractional[m] = x, !.remainder = r])
  BY <1>5, <1>6, <1>12, <1>14, <1>15, RebalancedBacked, ZenonT(60)
<1> QED
  BY <1>13, <1>16

\* MintCoins mints the integer coins and then the extended coins.
LEMMA MintCoinsInParts ==
  ASSUME NEW L, Backed(L), NEW m, NEW c \in Coins, CanMintCoins(L, m, c)
  PROVE  LET M == BankMintCoins(L, m, c.integer)
         IN  /\ m \in Modules /\ c.integer \in Nat /\ c.extended \in Nat
             /\ Backed(M)
             /\ CanMintExtendedCoin(M, m, c.extended)
             /\ MintCoins(L, m, c) = mintExtendedCoin(M, m, c.extended)
<1> DEFINE M == BankMintCoins(L, m, c.integer)
<1>1. c.integer \in Nat /\ c.extended \in Nat
  BY DEF Coins
<1>2. m \in Modules /\ m \in Holders /\ Reserve \in Holders /\ m # Reserve
  BY AccountsAssumption DEF CanMintCoins, Holders, Accounts
<1>3. Backed(M)
  <2>1. /\ Sound(M) /\ M.fractional = L.fractional /\ M.remainder = L.remainder
        /\ M.bank = [L.bank EXCEPT ![m] = @ + c.integer]
    BY <1>1, <1>2, BankMintSound, SMTT(30) DEF Backed
  <2>2. M.bank[Reserve] = L.bank[Reserve]
    BY <1>2, <2>1 DEF Backed, Sound, Ledger
  <2> HIDE DEF M
  <2> QED
    BY <2>1, <2>2 DEF Backed
<1>4. CanMintExtendedCoin(M, m, c.extended)
  <2>1. CASE c.extended > 0
    BY <2>1 DEF CanMintCoins
  <2>2. CASE c.extended = 0
    <3> HIDE DEF M
    <3>1. M.fractional[m] \in Fractions
      BY <1>2, <1>3 DEF Backed, Sound, Ledger
    <3>2. FractionalPart(0) = 0 /\ ~NeedsCarry(M.fractional[m], 0)
      BY <3>1, ZeroAmount
    <3> QED
      BY <2>2, <3>2 DEF CanMintExtendedCoin
  <2> QED
    BY <1>1, <2>1, <2>2
<1>5. MintCoins(L, m, c) = mintExtendedCoin(M, m, c.extended)
  BY DEF MintCoins
<1> QED
  BY <1>1, <1>2, <1>3, <1>4, <1>5, Zenon

\* MintCoins to a module.
LEMMA MintCoinsBacked ==
  ASSUME NEW L, Backed(L), NEW m, NEW c \in Coins, CanMintCoins(L, m, c)
  PROVE  m \in Modules /\ Backed(MintCoins(L, m, c))
<1> DEFINE M == BankMintCoins(L, m, c.integer)
<1>1. /\ m \in Modules /\ c.extended \in Nat /\ Backed(M)
      /\ CanMintExtendedCoin(M, m, c.extended)
      /\ MintCoins(L, m, c) = mintExtendedCoin(M, m, c.extended)
  BY MintCoinsInParts, Zenon
<1> HIDE DEF M
<1> QED
  BY <1>1, MintExtendedBacked, Zenon

\* Integer coins of a module that x/bank burns leave the backing as it is.
LEMMA PassthroughBurnBacked ==
  ASSUME NEW L, Backed(L), NEW m \in Modules, NEW n \in Nat, n <= L.bank[m]
  PROVE  /\ Backed(BankBurnCoins(L, m, n))
         /\ BankBurnCoins(L, m, n).fractional = L.fractional
         /\ BankBurnCoins(L, m, n).bank = [L.bank EXCEPT ![m] = @ - n]
<1> DEFINE M == BankBurnCoins(L, m, n)
<1>1. m \in Holders /\ Reserve \in Holders /\ m # Reserve
  BY AccountsAssumption DEF Holders, Accounts
<1>2. /\ Sound(M) /\ M.fractional = L.fractional /\ M.remainder = L.remainder
      /\ M.bank = [L.bank EXCEPT ![m] = @ - n]
  BY <1>1, BankBurnSound, SMTT(30) DEF Backed
<1>3. M.bank[Reserve] = L.bank[Reserve]
  BY <1>1, <1>2 DEF Backed, Sound, Ledger
<1> HIDE DEF M
<1>4. Backed(M)
  BY <1>2, <1>3 DEF Backed
<1> QED
  BY <1>2, <1>4 DEF M

\* BurnCoins burns the integer coins and then the extended coins.
LEMMA BurnCoinsInParts ==
  ASSUME NEW L, Backed(L), NEW m, NEW c \in Coins, CanBurnCoins(L, m, c)
  PROVE  LET M == BankBurnCoins(L, m, c.integer)
         IN  /\ m \in Modules /\ c.integer \in Nat /\ c.extended \in Nat
             /\ c.integer <= L.bank[m]
             /\ Backed(M)
             /\ CanBurnExtendedCoin(M, m, c.extended)
             /\ BurnCoins(L, m, c) = burnExtendedCoin(M, m, c.extended)
<1> DEFINE M == BankBurnCoins(L, m, c.integer)
<1>1. c.integer \in Nat /\ c.extended \in Nat
  BY DEF Coins
<1>2. m \in Modules /\ m \in Holders /\ Reserve \in Holders /\ m # Reserve
  BY AccountsAssumption DEF CanBurnCoins, Holders, Accounts
<1>3. c.integer <= L.bank[m] /\ Backed(M)
  <2>1. c.integer <= L.bank[m]
    BY <1>1, <1>2 DEF CanBurnCoins, Backed, Sound, Ledger
  <2> QED
    BY <1>1, <1>2, <2>1, PassthroughBurnBacked, Zenon
<1>4. CanBurnExtendedCoin(M, m, c.extended)
  <2>1. CASE c.extended > 0
    BY <2>1 DEF CanBurnCoins
  <2>2. CASE c.extended = 0
    <3> HIDE DEF M
    <3>1. /\ M.fractional[m] \in Fractions /\ M.remainder \in Fractions
          /\ M.bank[m] \in Nat
      BY <1>2, <1>3 DEF Backed, Sound, Ledger
    <3>2. /\ FractionalPart(0) = 0 /\ IntegerPart(0) = 0
          /\ ~NeedsBorrow(M.fractional[m], 0) /\ ~NeedsCarry(M.remainder, 0)
      BY <3>1, ZeroAmount
    <3> QED
      BY <2>2, <3>1, <3>2, SMTT(30)
         DEF CanBurnExtendedCoin, IntegerCoinsNeeded, BurnsFromReserve
  <2> QED
    BY <1>1, <2>1, <2>2
<1>5. BurnCoins(L, m, c) = burnExtendedCoin(M, m, c.extended)
  BY DEF BurnCoins
<1> QED
  BY <1>1, <1>2, <1>3, <1>4, <1>5, Zenon

\* BurnCoins of a module.
LEMMA BurnCoinsBacked ==
  ASSUME NEW L, Backed(L), NEW m, NEW c \in Coins, CanBurnCoins(L, m, c)
  PROVE  m \in Modules /\ Backed(BurnCoins(L, m, c))
<1> DEFINE M == BankBurnCoins(L, m, c.integer)
<1>1. /\ m \in Modules /\ c.extended \in Nat /\ Backed(M)
      /\ CanBurnExtendedCoin(M, m, c.extended)
      /\ BurnCoins(L, m, c) = burnExtendedCoin(M, m, c.extended)
  BY BurnCoinsInParts, Zenon
<1> HIDE DEF M
<1> QED
  BY <1>1, BurnExtendedBacked, Zenon

-----------------------------------------------------------------------------
(* The application. *)

\* Every amount of a call is a pair of coins, and so is every amount of
\* extended coins.
LEMMA AmountsAreCoins ==
  /\ Amounts \subseteq Coins
  /\ \A n \in Nat : Extended(n) \in Coins
BY BoundsAssumption DEF Amounts, Coins, Extended

\* Extended balances are numbers.
LEMMA BalanceNat ==
  ASSUME NEW L, Backed(L), NEW a \in Holders
  PROVE  GetBalance(L, a) \in Nat
<1>1. L.bank[a] \in Nat /\ L.fractional[a] \in Nat /\ ConversionFactor \in Nat
  BY ConversionFactorAssumption DEF Backed, Sound, Ledger, Fractions
<1>2. L.bank[a] * ConversionFactor \in Nat
  BY <1>1
<1> QED
  BY <1>1, <1>2 DEF GetBalance

\* The balanced genesis files are backed.
LEMMA InitBacked == Init => Backed(ledger)
<1> SUFFICES ASSUME Init PROVE Backed(ledger)
  OBVIOUS
<1>1. ledger \in Ledger
  BY BoundsAssumption DEF Init, GenesisLedgers, Ledger
<1> QED
  BY <1>1 DEF Init, GenesisLedgers, GenesisBalanced, Backed, Sound

\* Every call keeps the ledger backed: one step per action.
LEMMA NextBacked == Backed(ledger) /\ [Next]_vars => Backed(ledger)'
<1> SUFFICES ASSUME Backed(ledger), [Next]_vars PROVE Backed(ledger')
  BY DEF Backed, Sound
<1>1. /\ Users \subseteq Accounts /\ Modules \subseteq Accounts
      /\ Holders = Accounts \cup {Reserve} /\ ModuleAccounts = Modules \cup {Reserve}
      /\ Holders \ BlockedAddrs \subseteq Users
      /\ EVM \in Modules /\ FeeCollector \in Modules
  BY AccountsAssumption, ModulesAssumption
     DEF Accounts, Holders, ModuleAccounts, BlockedAddrs
<1>2. ASSUME NEW from \in Users, NEW to \in Holders, NEW c \in Amounts,
             MsgSend(from, to, c)
      PROVE  Backed(ledger')
  BY <1>1, <1>2, SendCoinsBacked, AmountsAreCoins DEF MsgSend
<1>3. ASSUME NEW from \in Users, NEW m \in ModuleAccounts, NEW c \in Amounts,
             SendCoinsFromAccountToModule(from, m, c)
      PROVE  Backed(ledger')
  BY <1>1, <1>3, SendCoinsBacked, AmountsAreCoins DEF SendCoinsFromAccountToModule
<1>4. ASSUME NEW m \in ModuleAccounts, NEW to \in Holders, NEW c \in Amounts,
             SendCoinsFromModuleToAccount(m, to, c)
      PROVE  Backed(ledger')
  BY <1>1, <1>4, SendCoinsBacked, AmountsAreCoins DEF SendCoinsFromModuleToAccount
<1>5. ASSUME NEW from \in Modules, NEW to \in ModuleAccounts, NEW c \in Amounts,
             SendCoinsFromModuleToModule(from, to, c)
      PROVE  Backed(ledger')
  BY <1>1, <1>5, SendCoinsBacked, AmountsAreCoins DEF SendCoinsFromModuleToModule
<1>6. ASSUME NEW m \in ModuleAccounts, NEW c \in Amounts, ModuleMint(m, c)
      PROVE  Backed(ledger')
  BY <1>6, MintCoinsBacked, AmountsAreCoins DEF ModuleMint
<1>7. ASSUME NEW m \in ModuleAccounts, NEW c \in Amounts, ModuleBurn(m, c)
      PROVE  Backed(ledger')
  BY <1>7, BurnCoinsBacked, AmountsAreCoins DEF ModuleBurn
<1>8. ASSUME NEW a \in Holders, NEW amount \in 0 .. MaxAmount, SetBalance(a, amount)
      PROVE  Backed(ledger')
  <2> DEFINE current == GetBalance(ledger, a)
  <2>1. amount \in Nat /\ current \in Nat
    BY BalanceNat, BoundsAssumption
  <2>2. CASE amount > current /\ MintAmountToAccount(a, amount - current)
    <3> DEFINE c      == Extended(amount - current)
               minted == MintCoins(ledger, EVM, c)
    <3>1. amount - current \in Nat
      BY <2>1, <2>2
    <3> HIDE DEF current
    <3>2. c \in Coins
      BY <3>1, AmountsAreCoins
    <3>3. /\ CanMintCoins(ledger, EVM, c) /\ a \notin BlockedAddrs
          /\ CanSendCoins(minted, EVM, a, c)
          /\ ledger' = SendCoins(minted, EVM, a, c)
      BY <2>2 DEF MintAmountToAccount
    <3> HIDE DEF c
    <3>4. Backed(minted)
      BY <3>2, <3>3, MintCoinsBacked
    <3> HIDE DEF minted
    <3> QED
      BY <1>1, <3>2, <3>3, <3>4, SendCoinsBacked
  <2>3. CASE amount < current /\ BurnAmountFromAccount(a, current - amount)
    <3> DEFINE c    == Extended(current - amount)
               sent == SendCoins(ledger, a, EVM, c)
    <3>1. current - amount \in Nat
      BY <2>1, <2>3
    <3>2. a \in Accounts
      BY <1>1, <2>1, <2>3, SMTT(30) DEF GetBalance
    <3> HIDE DEF current
    <3>3. c \in Coins
      BY <3>1, AmountsAreCoins
    <3>4. /\ CanSendCoins(ledger, a, EVM, c) /\ CanBurnCoins(sent, EVM, c)
          /\ ledger' = BurnCoins(sent, EVM, c)
      BY <2>3 DEF BurnAmountFromAccount
    <3> HIDE DEF c
    <3>5. Backed(sent)
      BY <1>1, <3>2, <3>3, <3>4, SendCoinsBacked
    <3> HIDE DEF sent
    <3> QED
      BY <3>3, <3>4, <3>5, BurnCoinsBacked
  <2> QED
    BY <1>8, <2>2, <2>3 DEF SetBalance
<1>9. ASSUME FeeBurnBeginBlock
      PROVE  Backed(ledger')
  <2> DEFINE c == Extended(GetBalance(ledger, FeeCollector))
  <2>1. c \in Coins
    BY <1>1, BalanceNat, AmountsAreCoins
  <2>2. CanBurnCoins(ledger, FeeCollector, c) /\ ledger' = BurnCoins(ledger, FeeCollector, c)
    BY <1>9 DEF FeeBurnBeginBlock
  <2> HIDE DEF c
  <2> QED
    BY <2>1, <2>2, BurnCoinsBacked
<1>10. ASSUME UNCHANGED vars
       PROVE  Backed(ledger')
  BY <1>10 DEF vars
<1> QED
  BY <1>2, <1>3, <1>4, <1>5, <1>6, <1>7, <1>8, <1>9, <1>10, SMTT(30) DEF Next

\* The ledger of every reachable state is backed.
THEOREM BackedAlways == Spec => []Backed(ledger)
<1>1. Init => Backed(ledger)
  BY InitBacked
<1>2. Backed(ledger) /\ [Next]_vars => Backed(ledger)'
  BY NextBacked
<1> QED
  BY <1>1, <1>2, PTL DEF Spec

\* Fractions and the remainder stay below the conversion factor, balances and the
\* supply never become negative, and the reserve gets no fraction, whatever the
\* accounts, the amounts and the conversion factor are.
THEOREM TypeCorrect == Spec => []TypeOK
<1>1. Backed(ledger) => TypeOK
  BY DEF Backed, Sound, TypeOK
<1> QED
  BY <1>1, BackedAlways, PTL

\* The reserve backs the fractions and the remainder exactly, whatever the
\* accounts, the amounts and the conversion factor are.
THEOREM ReserveAlwaysBacks == Spec => []ReserveBacking
<1>1. Backed(ledger) => ReserveBacking
  BY DEF Backed, ReserveBacking
<1> QED
  BY <1>1, BackedAlways, PTL

-----------------------------------------------------------------------------
(* No call fails for lack of a coin in the reserve. *)

\* A reserve that has something to back has a coin.
LEMMA ReserveHasACoin ==
  ASSUME NEW L, Backed(L), Total(L.fractional) + L.remainder > 0
  PROVE  L.bank[Reserve] >= 1
<1>1. L.bank[Reserve] \in Nat /\ ConversionFactor \in Nat
  BY ConversionFactorAssumption DEF Backed, Sound, Ledger, Holders
<1>2. L.bank[Reserve] # 0
  BY <1>1 DEF Backed
<1> QED
  BY <1>1, <1>2

\* An extended balance covers an amount exactly when the integer coins do, one of
\* them set aside for a borrow.
LEMMA FundedByParts ==
  ASSUME NEW L, Backed(L), NEW a \in Accounts, NEW n \in Nat
  PROVE  GetBalance(L, a) >= n
           <=> L.bank[a] >= IntegerCoinsNeeded(n,
                              NeedsBorrow(L.fractional[a], FractionalPart(n)))
<1> DEFINE i == IntegerPart(n)
           f == FractionalPart(n)
           b == L.bank[a]
           x == L.fractional[a]
<1>1. i \in Nat /\ f \in Fractions /\ n = i * ConversionFactor + f
  BY Parts
<1>2. b \in Nat /\ x \in Fractions
  BY DEF Backed, Sound, Ledger, Holders
<1>3. GetBalance(L, a) = b * ConversionFactor + x
  BY AccountsAssumption DEF GetBalance, Accounts
<1> HIDE DEF i, f, b, x
<1>4. b * ConversionFactor + x >= i * ConversionFactor + f
        <=> b >= i + (IF x < f THEN 1 ELSE 0)
  BY <1>1, <1>2, CompareByParts
<1>5. IntegerCoinsNeeded(n, NeedsBorrow(x, f)) = i + (IF x < f THEN 1 ELSE 0)
  BY DEF IntegerCoinsNeeded, NeedsBorrow, i
<1>6. GetBalance(L, a) >= n <=> b >= IntegerCoinsNeeded(n, NeedsBorrow(x, f))
  BY <1>1, <1>3, <1>4, <1>5, SMTT(30)
<1> QED
  BY <1>6 DEF b, x, f

\* A transfer between two accounts goes through exactly when it is funded: the
\* carry out of the reserve never panics.
LEMMA BackedSendIffFunded == Backed(ledger) => SendIffFunded
<1> SUFFICES ASSUME Backed(ledger), NEW from \in Accounts, NEW to \in Accounts,
                    NEW n \in 1 .. MaxAmount, from # to
             PROVE  CanSendExtendedCoins(ledger, from, to, n)
                      <=> GetBalance(ledger, from) >= n
  BY DEF SendIffFunded
<1> DEFINE f      == FractionalPart(n)
           x      == ledger.fractional[from]
           y      == ledger.fractional[to]
           borrow == NeedsBorrow(x, f)
           carry  == NeedsCarry(y, f)
<1>1. n \in Nat
  BY BoundsAssumption
<1>2. from \in Holders /\ to \in Holders /\ from # Reserve /\ to # Reserve
  BY AccountsAssumption DEF Holders, Accounts
<1>3. CanSendExtendedCoins(ledger, from, to, n)
        <=> /\ ledger.bank[from] >= IntegerCoinsNeeded(n, borrow)
            /\ carry /\ ~borrow => ledger.bank[Reserve] >= 1
  BY <1>2 DEF CanSendExtendedCoins, IsSelfTransfer
<1>4. carry /\ ~borrow => ledger.bank[Reserve] >= 1
  <2> SUFFICES ASSUME carry, ~borrow PROVE ledger.bank[Reserve] >= 1
    OBVIOUS
  <2>1. /\ x \in Nat /\ y \in Nat /\ ledger.remainder \in Nat /\ f \in Nat
        /\ ConversionFactor \in Nat /\ ConversionFactor > 0
    BY <1>1, <1>2, Parts, ConversionFactorAssumption, SMTT(30)
       DEF Backed, Sound, Ledger, Fractions
  <2>2. ledger.fractional \in [Holders -> Nat] /\ Total(ledger.fractional) \in Nat
    BY FractionsAreNat, SMTT(30) DEF Backed, Sound
  <2>3. x + y <= Total(ledger.fractional)
    BY <1>2, <2>2, HoldersFinite, TotalAtLeastTwo
  <2>4. x + y >= ConversionFactor
    BY <2>1 DEF NeedsBorrow, NeedsCarry
  <2> HIDE DEF x, y
  <2>5. Total(ledger.fractional) + ledger.remainder > 0
    BY <2>1, <2>2, <2>3, <2>4, SMTT(30)
  <2> QED
    BY <2>5, ReserveHasACoin
<1>5. GetBalance(ledger, from) >= n
        <=> ledger.bank[from] >= IntegerCoinsNeeded(n, borrow)
  BY <1>1, FundedByParts, SMTT(30)
<1> QED
  BY <1>3, <1>4, <1>5

\* A mint never fails and a burn fails only for lack of funds: the reserve has the
\* coin that a carry or a full remainder takes from it.
LEMMA ModuleCallsFunded ==
  ASSUME NEW L, Backed(L), NEW m \in Modules, NEW n \in Nat
  PROVE  /\ CanMintExtendedCoin(L, m, n)
         /\ CanBurnExtendedCoin(L, m, n) <=> GetBalance(L, m) >= n
<1> DEFINE f == FractionalPart(n)
           x == L.fractional[m]
           r == L.remainder
<1>1. m \in Accounts /\ m \in Holders
  BY DEF Accounts, Holders
<1>2. /\ x \in Nat /\ r \in Nat /\ f \in Nat
      /\ ConversionFactor \in Nat /\ ConversionFactor > 0
  <2>1. x \in Fractions /\ r \in Fractions
    BY <1>1 DEF Backed, Sound, Ledger
  <2>2. f \in Fractions
    BY Parts
  <2> QED
    BY <2>1, <2>2, ConversionFactorAssumption, SMTT(30) DEF Fractions
<1>3. L.fractional \in [Holders -> Nat] /\ Total(L.fractional) \in Nat
  BY FractionsAreNat DEF Backed, Sound
<1>4. x <= Total(L.fractional)
  BY <1>1, <1>3, HoldersFinite, TotalAtLeast
<1>5. x + r >= ConversionFactor => L.bank[Reserve] >= 1
  BY <1>2, <1>3, <1>4, ReserveHasACoin, SMTT(30)
<1>6. CanMintExtendedCoin(L, m, n)
  BY <1>2, <1>5 DEF CanMintExtendedCoin, NeedsCarry
<1>7. BurnsFromReserve(NeedsCarry(r, f), NeedsBorrow(x, f)) => L.bank[Reserve] >= 1
  BY <1>2, <1>5 DEF BurnsFromReserve, NeedsCarry, NeedsBorrow
<1>8. GetBalance(L, m) >= n <=> L.bank[m] >= IntegerCoinsNeeded(n, NeedsBorrow(x, f))
  BY <1>1, FundedByParts, SMTT(30)
<1> QED
  BY <1>6, <1>7, <1>8 DEF CanBurnExtendedCoin

\* Every transfer of extended coins between two accounts goes through exactly when
\* the sender's extended balance covers it.
THEOREM SendAlwaysIffFunded == Spec => []SendIffFunded
BY BackedSendIffFunded, BackedAlways, PTL

\* Minting extended coins never fails, and burning them fails only for lack of
\* funds of the module.
THEOREM MintAndBurnAlwaysBacked == Spec => []MintAndBurnBacked
<1>1. Backed(ledger) => MintAndBurnBacked
  BY ModuleCallsFunded, BoundsAssumption DEF MintAndBurnBacked
<1> QED
  BY <1>1, BackedAlways, PTL

\* The block hook that burns the fees never returns the error that would stop the
\* chain.
THEOREM FeeBurnAlwaysSucceeds == Spec => []FeeBurnSucceeds
<1>1. Backed(ledger) => FeeBurnSucceeds
  <2> SUFFICES ASSUME Backed(ledger) PROVE FeeBurnSucceeds
    OBVIOUS
  <2> DEFINE n == GetBalance(ledger, FeeCollector)
             M == BankBurnCoins(ledger, FeeCollector, 0)
  <2>1. FeeCollector \in Modules /\ FeeCollector \in Holders /\ FeeCollector \in Burners
    BY AccountsAssumption, ModulesAssumption DEF Holders, Accounts
  <2>2. n \in Nat
    BY <2>1, BalanceNat
  <2>3. ledger.bank[FeeCollector] \in Nat /\ 0 \in Nat
    BY <2>1 DEF Backed, Sound, Ledger
  <2>4. /\ Backed(M) /\ M.fractional = ledger.fractional
        /\ M.bank = [ledger.bank EXCEPT ![FeeCollector] = @ - 0]
    BY <2>1, <2>3, PassthroughBurnBacked, SMTT(30)
  <2>5. GetBalance(M, FeeCollector) = n
    <3>1. M.bank[FeeCollector] = ledger.bank[FeeCollector]
      BY <2>1, <2>3, <2>4, SMTT(30) DEF Backed, Sound, Ledger
    <3> QED
      BY <2>4, <3>1 DEF GetBalance
  <2> HIDE DEF n
  <2>6. CanBurnExtendedCoin(M, FeeCollector, n)
    <3> HIDE DEF M
    <3> QED
      BY <2>1, <2>2, <2>4, <2>5, ModuleCallsFunded, SMTT(30)
  <2>7. CanBurnCoins(ledger, FeeCollector, Extended(n))
    BY <2>1, <2>3, <2>6, SMTT(30) DEF CanBurnCoins, Extended
  <2> QED
    BY <2>7 DEF FeeBurnSucceeds, n
<1> QED
  BY <1>1, BackedAlways, PTL

-----------------------------------------------------------------------------
(* The keeper's calls are those of an ordinary ledger of extended coins. *)

\* The extended coins there are.
ExtendedSupply(L) == L.supply * ConversionFactor - L.remainder

\* v extended coins have gone from one account to another.
Sent(L, M, from, to, v) ==
  /\ \A a \in Accounts :
       GetBalance(M, a) = GetBalance(L, a) - (IF a = from THEN v ELSE 0)
                                           + (IF a = to THEN v ELSE 0)
  /\ ExtendedSupply(M) = ExtendedSupply(L)

\* An account and the supply have v extended coins more, or fewer if v is negative.
Issued(L, M, m, v) ==
  /\ \A a \in Accounts : GetBalance(M, a) = GetBalance(L, a) + (IF a = m THEN v ELSE 0)
  /\ ExtendedSupply(M) = ExtendedSupply(L) + v

\* The extended balances and supply of a backed ledger are numbers, and no account is
\* the reserve.
LEMMA ExtendedNat ==
  ASSUME NEW L, Backed(L)
  PROVE  /\ \A a \in Accounts :
              /\ a \in Holders /\ a # Reserve
              /\ L.bank[a] \in Nat /\ L.fractional[a] \in Fractions
              /\ GetBalance(L, a) \in Nat
              /\ GetBalance(L, a) = L.bank[a] * ConversionFactor + L.fractional[a]
         /\ ExtendedSupply(L) \in Nat
<1>1. L \in Ledger /\ Reserve \in Holders /\ L.bank \in [Holders -> Nat]
      /\ L.supply \in Nat /\ L.remainder \in Nat /\ L.bank[Reserve] \in Nat
      /\ ConversionFactor \in Nat
  BY ConversionFactorAssumption DEF Backed, Sound, Ledger, Holders, Fractions
<1>2. ASSUME NEW a \in Accounts
      PROVE  /\ a \in Holders /\ a # Reserve
             /\ L.bank[a] \in Nat /\ L.fractional[a] \in Fractions
             /\ GetBalance(L, a) \in Nat
             /\ GetBalance(L, a) = L.bank[a] * ConversionFactor + L.fractional[a]
  <2>1. a \in Holders /\ a # Reserve
    BY AccountsAssumption DEF Holders, Accounts
  <2>2. L.bank[a] \in Nat /\ L.fractional[a] \in Fractions
    BY <1>1, <2>1 DEF Ledger
  <2>3. GetBalance(L, a) \in Nat
    BY <2>1, BalanceNat
  <2> QED
    BY <2>1, <2>2, <2>3 DEF GetBalance
<1>3. ExtendedSupply(L) \in Nat
  <2>1. L.bank[Reserve] <= L.supply
    BY <1>1, HoldersFinite, TotalAtLeast DEF Backed, Sound
  <2>2. L.bank[Reserve] * ConversionFactor <= L.supply * ConversionFactor
    <3>1. (L.supply - L.bank[Reserve]) * ConversionFactor >= 0
      BY <1>1, <2>1
    <3> QED
      BY <1>1, <3>1
  <2>3. Total(L.fractional) \in Nat
    BY <1>1, FractionsAreNat
  <2>4. L.remainder <= L.bank[Reserve] * ConversionFactor
    BY <1>1, <2>3 DEF Backed
  <2>5. L.bank[Reserve] * ConversionFactor \in Nat /\ L.supply * ConversionFactor \in Nat
    BY <1>1
  <2> QED
    BY <1>1, <2>2, <2>4, <2>5, SMTT(30) DEF ExtendedSupply
<1> QED
  BY <1>2, <1>3

\* Taking an amount from integer coins and a fraction, with a borrow where the fraction
\* is too small, takes the amount; adding one with a carry adds it.
LEMMA ByParts ==
  ASSUME NEW b \in Int, NEW i \in Nat, NEW x \in Fractions, NEW f \in Fractions
  PROVE  /\ (b - (i + (IF NeedsBorrow(x, f) THEN 1 ELSE 0))) * ConversionFactor
               + subFromFractionalBalance(x, f)
              = (b * ConversionFactor + x) - (i * ConversionFactor + f)
         /\ (b + (i + (IF NeedsCarry(x, f) THEN 1 ELSE 0))) * ConversionFactor
               + addToFractionalBalance(x, f)
              = b * ConversionFactor + x + (i * ConversionFactor + f)
<1> DEFINE C == ConversionFactor
<1>1. C \in Nat /\ x \in Nat /\ f \in Nat
  BY ConversionFactorAssumption DEF Fractions
<1>2. /\ (b - (i + 1)) * C = b * C - i * C - C /\ (b - (i + 0)) * C = b * C - i * C
      /\ (b + (i + 1)) * C = b * C + i * C + C /\ (b + (i + 0)) * C = b * C + i * C
  BY <1>1
<1>3. b * C \in Int /\ i * C \in Int
  BY <1>1
<1>4. PICK B \in Int, I \in Int : B = b * C /\ I = i * C
  BY <1>3
<1>5. /\ (b - (i + 1)) * C = B - I - C /\ (b - (i + 0)) * C = B - I
      /\ (b + (i + 1)) * C = B + I + C /\ (b + (i + 0)) * C = B + I
  BY <1>2, <1>4
<1> HIDE DEF C
<1>6. (b - (i + (IF NeedsBorrow(x, f) THEN 1 ELSE 0))) * C + subFromFractionalBalance(x, f)
        = (B + x) - (I + f)
  <2>1. CASE NeedsBorrow(x, f)
    <3>1. subFromFractionalBalance(x, f) = x - f + C
      BY <2>1 DEF subFromFractionalBalance, C
    <3>2. (b - (i + (IF NeedsBorrow(x, f) THEN 1 ELSE 0))) * C = B - I - C
      BY <1>5, <2>1
    <3> QED
      BY <1>1, <3>1, <3>2
  <2>2. CASE ~NeedsBorrow(x, f)
    <3>1. subFromFractionalBalance(x, f) = x - f
      BY <2>2 DEF subFromFractionalBalance
    <3>2. (b - (i + (IF NeedsBorrow(x, f) THEN 1 ELSE 0))) * C = B - I
      BY <1>5, <2>2
    <3> QED
      BY <1>1, <3>1, <3>2
  <2> QED
    BY <2>1, <2>2
<1>7. (b + (i + (IF NeedsCarry(x, f) THEN 1 ELSE 0))) * C + addToFractionalBalance(x, f)
        = B + x + (I + f)
  <2>1. CASE NeedsCarry(x, f)
    <3>1. addToFractionalBalance(x, f) = x + f - C
      BY <2>1 DEF addToFractionalBalance, C
    <3>2. (b + (i + (IF NeedsCarry(x, f) THEN 1 ELSE 0))) * C = B + I + C
      BY <1>5, <2>1
    <3> QED
      BY <1>1, <3>1, <3>2
  <2>2. CASE ~NeedsCarry(x, f)
    <3>1. addToFractionalBalance(x, f) = x + f
      BY <2>2 DEF addToFractionalBalance
    <3>2. (b + (i + (IF NeedsCarry(x, f) THEN 1 ELSE 0))) * C = B + I
      BY <1>5, <2>2
    <3> QED
      BY <1>1, <3>1, <3>2
  <2> QED
    BY <2>1, <2>2
<1> QED
  BY <1>4, <1>6, <1>7 DEF C

\* The ledger M has the fractions and the remainder of L.
SameFractions(L, M) ==
  Sound(M) /\ M.fractional = L.fractional /\ M.remainder = L.remainder

\* Among the accounts of S, one has d integer coins less and another e more.
BankMoved(S, L, M, from, to, d, e) ==
  /\ SameFractions(L, M) /\ M.supply = L.supply
  /\ M.bank[from] = L.bank[from] - d /\ M.bank[to] = L.bank[to] + e
  /\ \A a \in S \ {from, to} : M.bank[a] = L.bank[a]

\* x/bank's transfer, account by account.
LEMMA BankSendMoves ==
  ASSUME NEW L, Sound(L), NEW from \in Holders, NEW to \in Holders, from # to,
         NEW n \in Nat, n <= L.bank[from]
  PROVE  BankMoved(Holders, L, BankSendCoins(L, from, to, n), from, to, n, n)
<1>1. L.bank \in [Holders -> Nat]
  BY DEF Sound, Ledger
<1>2. PICK M : M = BankSendCoins(L, from, to, n)
  OBVIOUS
<1>3. /\ Sound(M) /\ M.fractional = L.fractional /\ M.remainder = L.remainder
      /\ M.supply = L.supply
      /\ M.bank = [[L.bank EXCEPT ![from] = @ - n] EXCEPT ![to] = @ + n]
  BY <1>2, BankSendSound, SMTT(30)
<1>4. /\ M.bank[from] = L.bank[from] - n /\ M.bank[to] = L.bank[to] + n
      /\ \A a \in Holders \ {from, to} : M.bank[a] = L.bank[a]
  BY <1>1, <1>3, SMTT(30)
<1>5. BankMoved(Holders, L, M, from, to, n, n)
  BY <1>3, <1>4, SMTT(30) DEF BankMoved, SameFractions
<1> QED
  BY <1>2, <1>5

\* What sendExtendedCoins does to the integer coins.
SendsOver(L, from, to, i, borrow, carry) ==
  LET L1 == BankSendCoins(L, from, to, i + (IF borrow /\ carry THEN 1 ELSE 0))
  IN  IF borrow /\ ~carry THEN BankSendCoins(L1, from, Reserve, 1)
      ELSE IF carry /\ ~borrow THEN BankSendCoins(L1, Reserve, to, 1)
      ELSE L1

\* The borrow costs the sender one integer coin, the carry gives the recipient one,
\* whether or not they pass the reserve.
LEMMA SendExtendedBank ==
  ASSUME NEW L, Backed(L), NEW from \in Accounts, NEW to \in Accounts, from # to,
         NEW i \in Nat, NEW borrow \in BOOLEAN, NEW carry \in BOOLEAN,
         L.bank[from] >= i + (IF borrow THEN 1 ELSE 0),
         carry /\ ~borrow => L.bank[Reserve] >= 1
  PROVE  BankMoved(Accounts, L, SendsOver(L, from, to, i, borrow, carry), from, to,
                   i + (IF borrow THEN 1 ELSE 0), i + (IF carry THEN 1 ELSE 0))
<1>1. from \in Holders /\ to \in Holders /\ Reserve \in Holders
      /\ from # Reserve /\ to # Reserve /\ \A a \in Accounts : a \in Holders /\ a # Reserve
  BY AccountsAssumption DEF Holders, Accounts
<1>2. Sound(L) /\ \A a \in Holders : L.bank[a] \in Nat
  BY DEF Backed, Sound, Ledger
<1>3. PICK direct \in Nat : direct = i + (IF borrow /\ carry THEN 1 ELSE 0)
  OBVIOUS
<1>4. direct <= L.bank[from]
  BY <1>1, <1>2, <1>3
<1>5. PICK L1 : L1 = BankSendCoins(L, from, to, direct)
  OBVIOUS
<1>6. BankMoved(Holders, L, L1, from, to, direct, direct)
  BY <1>1, <1>2, <1>3, <1>4, <1>5, BankSendMoves, ZenonT(40)
<1>7. Sound(L1) /\ \A a \in Holders : L1.bank[a] \in Nat
  BY <1>6 DEF BankMoved, SameFractions, Sound, Ledger
<1>8. PICK L2 : L2 = SendsOver(L, from, to, i, borrow, carry)
  OBVIOUS
<1>9. L2 = IF borrow /\ ~carry THEN BankSendCoins(L1, from, Reserve, 1)
           ELSE IF carry /\ ~borrow THEN BankSendCoins(L1, Reserve, to, 1)
           ELSE L1
  BY <1>3, <1>5, <1>8, Zenon DEF SendsOver
<1>10. CASE borrow /\ ~carry
  <2>1. L2 = BankSendCoins(L1, from, Reserve, 1) /\ 1 \in Nat
    BY <1>9, <1>10, SMTT(30)
  <2>2. direct = i /\ 1 <= L1.bank[from]
    BY <1>1, <1>2, <1>3, <1>6, <1>10 DEF BankMoved
  <2>3. BankMoved(Holders, L1, L2, from, Reserve, 1, 1)
    BY <1>1, <1>7, <2>1, <2>2, BankSendMoves, ZenonT(40)
  <2>4. BankMoved(Accounts, L, L2, from, to, i + 1, i + 0)
    <3>1. SameFractions(L, L2) /\ L2.supply = L.supply
      BY <1>6, <2>3, SMTT(30) DEF BankMoved, SameFractions
    <3>2. L2.bank[from] = L.bank[from] - (i + 1) /\ L2.bank[to] = L.bank[to] + (i + 0)
      BY <1>1, <1>2, <1>6, <2>2, <2>3, SMTT(30) DEF BankMoved
    <3>3. \A a \in Accounts \ {from, to} : L2.bank[a] = L.bank[a]
      BY <1>1, <1>6, <2>3 DEF BankMoved
    <3> QED
      BY <3>1, <3>2, <3>3, SMTT(30) DEF BankMoved
  <2> QED
    BY <1>8, <1>10, <2>4, ZenonT(40)
<1>11. CASE carry /\ ~borrow
  <2>1. L2 = BankSendCoins(L1, Reserve, to, 1) /\ 1 \in Nat
    BY <1>9, <1>11, SMTT(30)
  <2>2. direct = i /\ 1 <= L1.bank[Reserve]
    BY <1>1, <1>2, <1>3, <1>6, <1>11, SMTT(30) DEF BankMoved
  <2>3. BankMoved(Holders, L1, L2, Reserve, to, 1, 1)
    BY <1>1, <1>7, <2>1, <2>2, BankSendMoves, ZenonT(40)
  <2>4. BankMoved(Accounts, L, L2, from, to, i + 0, i + 1)
    <3>1. SameFractions(L, L2) /\ L2.supply = L.supply
      BY <1>6, <2>3, SMTT(30) DEF BankMoved, SameFractions
    <3>2. L2.bank[from] = L.bank[from] - (i + 0) /\ L2.bank[to] = L.bank[to] + (i + 1)
      BY <1>1, <1>2, <1>6, <2>2, <2>3, SMTT(30) DEF BankMoved
    <3>3. \A a \in Accounts \ {from, to} : L2.bank[a] = L.bank[a]
      BY <1>1, <1>6, <2>3, SMTT(30) DEF BankMoved
    <3> QED
      BY <3>1, <3>2, <3>3, SMTT(30) DEF BankMoved
  <2> QED
    BY <1>8, <1>11, <2>4, ZenonT(40)
<1>12. CASE borrow = carry
  <2>1. L2 = L1
    BY <1>9, <1>12
  <2>2. direct = i + (IF borrow THEN 1 ELSE 0) /\ direct = i + (IF carry THEN 1 ELSE 0)
    BY <1>3, <1>12, SMTT(30)
  <2>3. BankMoved(Accounts, L, L2, from, to, direct, direct)
    BY <1>1, <1>6, <2>1 DEF BankMoved
  <2> QED
    BY <1>8, <2>2, <2>3, SMTT(30)
<1> QED
  BY <1>10, <1>11, <1>12, SMTT(30)

\* sendExtendedCoins moves exactly the amount.
LEMMA SendExtendedMoves ==
  ASSUME NEW L, Backed(L), NEW from \in Accounts, NEW to \in Accounts,
         NEW amt \in Nat, CanSendExtendedCoins(L, from, to, amt),
         NEW M, M = sendExtendedCoins(L, from, to, amt)
  PROVE  Sent(L, M, from, to, amt)
<1> DEFINE f      == FractionalPart(amt)
           i      == IntegerPart(amt)
           x      == L.fractional[from]
           y      == L.fractional[to]
           borrow == NeedsBorrow(x, f)
           carry  == NeedsCarry(y, f)
<1>1. Backed(M)
  BY SendExtendedBacked
<1>2. \A a \in Accounts :
        /\ a \in Holders /\ a # Reserve
        /\ L.bank[a] \in Nat /\ L.fractional[a] \in Fractions /\ GetBalance(L, a) \in Nat
        /\ GetBalance(L, a) = L.bank[a] * ConversionFactor + L.fractional[a]
        /\ GetBalance(M, a) = M.bank[a] * ConversionFactor + M.fractional[a]
  BY <1>1, ExtendedNat, Zenon
<1>3. i \in Nat /\ f \in Fractions /\ amt = i * ConversionFactor + f
  BY Parts
<1>4. CASE from = to
  <2>1. M = L
    BY <1>2, <1>4 DEF sendExtendedCoins, IsSelfTransfer
  <2> QED
    BY <1>2, <1>4, <2>1 DEF Sent
<1>5. CASE from # to
  <2>1. borrow \in BOOLEAN /\ carry \in BOOLEAN
    BY SMTT(30) DEF NeedsBorrow, NeedsCarry
  <2>2. /\ L.bank[from] >= i + (IF borrow THEN 1 ELSE 0)
        /\ carry /\ ~borrow => L.bank[Reserve] >= 1
    BY <1>2, <1>5 DEF CanSendExtendedCoins, IntegerCoinsNeeded, IsSelfTransfer
  <2> DEFINE newX == subFromFractionalBalance(x, f)
             newY == addToFractionalBalance(y, f)
  <2> DEFINE L2 == SendsOver(L, from, to, i, borrow, carry)
  <2>3. M = [L2 EXCEPT !.fractional[from] = newX, !.fractional[to] = newY]
    BY <1>2, <1>5, ZenonT(40) DEF sendExtendedCoins, IsSelfTransfer, SendsOver
  <2>4. newX \in Fractions /\ newY \in Fractions
    BY <1>2, <1>3, NewFraction
  <2>5. /\ (L.bank[from] - (i + (IF borrow THEN 1 ELSE 0))) * ConversionFactor + newX
             = (L.bank[from] * ConversionFactor + x) - (i * ConversionFactor + f)
        /\ (L.bank[to] + (i + (IF carry THEN 1 ELSE 0))) * ConversionFactor + newY
             = L.bank[to] * ConversionFactor + y + (i * ConversionFactor + f)
    <3>1. L.bank[from] \in Int /\ L.bank[to] \in Int /\ x \in Fractions /\ y \in Fractions
      BY <1>2
    <3> QED
      BY <1>3, <3>1, ByParts, ZenonT(40)
  <2> HIDE DEF borrow, carry, newX, newY, i, f
  <2>6. BankMoved(Accounts, L, L2, from, to,
                  i + (IF borrow THEN 1 ELSE 0), i + (IF carry THEN 1 ELSE 0))
    BY <1>3, <1>5, <2>1, <2>2, SendExtendedBank, Zenon
  <2> HIDE DEF L2
  <2>7. /\ M.bank = L2.bank /\ M.supply = L.supply /\ M.remainder = L.remainder
        /\ M.fractional[from] = newX /\ M.fractional[to] = newY
        /\ \A a \in Accounts \ {from, to} : M.fractional[a] = L.fractional[a]
    BY <1>2, <1>5, <2>3, <2>4, <2>6 DEF BankMoved, SameFractions, Sound, Ledger
  <2>8. GetBalance(M, from) = GetBalance(L, from) - amt
    <3>1. GetBalance(M, from)
            = (L.bank[from] - (i + (IF borrow THEN 1 ELSE 0))) * ConversionFactor + newX
      BY <1>2, <2>6, <2>7, ZenonT(40) DEF BankMoved
    <3> QED
      BY <1>2, <1>3, <2>5, <3>1, Zenon
  <2>9. GetBalance(M, to) = GetBalance(L, to) + amt
    <3>1. GetBalance(M, to)
            = (L.bank[to] + (i + (IF carry THEN 1 ELSE 0))) * ConversionFactor + newY
      BY <1>2, <2>6, <2>7, ZenonT(40) DEF BankMoved
    <3> QED
      BY <1>2, <1>3, <2>5, <3>1, Zenon
  <2>10. \A a \in Accounts \ {from, to} : GetBalance(M, a) = GetBalance(L, a)
    BY <1>2, <2>6, <2>7 DEF BankMoved
  <2>11. ExtendedSupply(M) = ExtendedSupply(L)
    BY <2>7, SMTT(30) DEF ExtendedSupply
  <2>12. ASSUME NEW a \in Accounts
         PROVE  GetBalance(M, a) = GetBalance(L, a) - (IF a = from THEN amt ELSE 0)
                                                    + (IF a = to THEN amt ELSE 0)
    BY <1>2, <1>5, <2>8, <2>9, <2>10, SMTT(30)
  <2> QED
    BY <2>11, <2>12 DEF Sent
<1> QED
  BY <1>4, <1>5

\* Transfers between the same two accounts add up.
LEMMA SentTwice ==
  ASSUME NEW L, Backed(L), NEW M, NEW N, NEW from, NEW to, NEW v \in Int, NEW w \in Int,
         Sent(L, M, from, to, v), Sent(M, N, from, to, w)
  PROVE  Sent(L, N, from, to, v + w)
<1>1. \A a \in Accounts : GetBalance(L, a) \in Nat
  BY ExtendedNat
<1>2. ExtendedSupply(N) = ExtendedSupply(L)
  BY DEF Sent
<1>3. ASSUME NEW a \in Accounts
      PROVE  GetBalance(N, a) = GetBalance(L, a) - (IF a = from THEN v + w ELSE 0)
                                                 + (IF a = to THEN v + w ELSE 0)
  <2>1. PICK p \in Nat : p = GetBalance(L, a)
    BY <1>1
  <2>2. PICK q : q = GetBalance(M, a)
    OBVIOUS
  <2>3. /\ q = p - (IF a = from THEN v ELSE 0) + (IF a = to THEN v ELSE 0)
        /\ GetBalance(N, a) = q - (IF a = from THEN w ELSE 0) + (IF a = to THEN w ELSE 0)
    BY <2>1, <2>2, SMTT(30) DEF Sent
  <2> QED
    BY <2>1, <2>3
<1> QED
  BY <1>2, <1>3, SMTT(30) DEF Sent

\* x/bank's transfer moves ConversionFactor extended coins for every integer coin.
LEMMA BankSendSent ==
  ASSUME NEW L, Backed(L), NEW from \in Accounts, NEW to \in Accounts,
         NEW n \in Nat, n <= L.bank[from]
  PROVE  Sent(L, BankSendCoins(L, from, to, n), from, to, n * ConversionFactor)
<1> DEFINE C == ConversionFactor
<1>1. PICK M : M = BankSendCoins(L, from, to, n)
  OBVIOUS
<1>2. Backed(M)
  BY <1>1, PassthroughBacked
<1>3. \A a \in Accounts :
        /\ a \in Holders /\ L.bank[a] \in Nat /\ L.fractional[a] \in Fractions
        /\ GetBalance(L, a) \in Nat
        /\ GetBalance(L, a) = L.bank[a] * C + L.fractional[a]
        /\ GetBalance(M, a) = M.bank[a] * C + M.fractional[a]
  BY <1>2, ExtendedNat, Zenon
<1>4. C \in Nat /\ Fractions \subseteq Nat
  BY ConversionFactorAssumption DEF Fractions
<1>5. Sound(L) /\ L.bank \in [Holders -> Nat]
  BY SMTT(30) DEF Backed, Sound, Ledger
<1>6. /\ M.fractional = L.fractional /\ M.remainder = L.remainder /\ M.supply = L.supply
      /\ M.bank = [[L.bank EXCEPT ![from] = @ - n] EXCEPT ![to] = @ + n]
  BY <1>1, <1>3, <1>5, BankSendSound, SMTT(30)
<1>7. n * C \in Nat
  BY <1>4, SMTT(30)
<1>8. ASSUME NEW a \in Accounts
      PROVE  GetBalance(M, a) = GetBalance(L, a) - (IF a = from THEN n * C ELSE 0)
                                                 + (IF a = to THEN n * C ELSE 0)
  <2>1. PICK b \in Nat, x \in Nat : b = L.bank[a] /\ x = L.fractional[a]
    BY <1>3, <1>4, Zenon
  <2>2. b * C \in Nat /\ (b - n) * C = b * C - n * C /\ (b + n) * C = b * C + n * C
    BY <1>4, SMTT(30)
  <2>3. GetBalance(L, a) = b * C + x /\ GetBalance(M, a) = M.bank[a] * C + x
    BY <1>3, <1>6, <2>1, SMTT(30)
  <2>4. PICK B \in Nat, k \in Nat : B = b * C /\ k = n * C
    BY <1>7, <2>2
  <2>5. CASE a = from /\ a = to
    <3>1. M.bank[a] = b
      BY <1>3, <1>5, <1>6, <2>1, <2>5, SMTT(30)
    <3>2. GetBalance(M, a) = B + x /\ GetBalance(L, a) = B + x
      BY <2>3, <2>4, <3>1, SMTT(30)
    <3> QED
      BY <2>4, <2>5, <3>2, SMTT(30)
  <2>6. CASE a = from /\ a # to
    <3>1. M.bank[a] = b - n
      BY <1>3, <1>5, <1>6, <2>1, <2>6, SMTT(30)
    <3>2. GetBalance(M, a) = (B - k) + x /\ GetBalance(L, a) = B + x
      BY <2>2, <2>3, <2>4, <3>1, SMTT(30)
    <3> QED
      BY <2>4, <2>6, <3>2, SMTT(30)
  <2>7. CASE a # from /\ a = to
    <3>1. M.bank[a] = b + n
      BY <1>3, <1>5, <1>6, <2>1, <2>7, SMTT(30)
    <3>2. GetBalance(M, a) = (B + k) + x /\ GetBalance(L, a) = B + x
      BY <2>2, <2>3, <2>4, <3>1, SMTT(30)
    <3> QED
      BY <2>4, <2>7, <3>2, SMTT(30)
  <2>8. CASE a # from /\ a # to
    <3>1. M.bank[a] = b
      BY <1>3, <1>5, <1>6, <2>1, <2>8, SMTT(30)
    <3>2. GetBalance(M, a) = B + x /\ GetBalance(L, a) = B + x
      BY <2>3, <2>4, <3>1
    <3> QED
      BY <2>4, <2>8, <3>2, SMTT(30)
  <2> QED
    BY <2>5, <2>6, <2>7, <2>8, SMTT(30)
<1>9. ExtendedSupply(M) = ExtendedSupply(L)
  BY <1>6 DEF ExtendedSupply
<1> QED
  BY <1>1, <1>8, <1>9, SMTT(30) DEF Sent

\* What coins are worth, in extended coins.
Worth(c) == c.integer * ConversionFactor + c.extended

\* Coins are worth a number of extended coins.
LEMMA WorthNat == \A c \in Coins : Worth(c) \in Nat
<1> SUFFICES ASSUME NEW c \in Coins PROVE Worth(c) \in Nat
  OBVIOUS
<1>1. c.integer \in Nat /\ c.extended \in Nat /\ ConversionFactor \in Nat
  BY ConversionFactorAssumption DEF Coins
<1>2. c.integer * ConversionFactor \in Nat
  BY <1>1
<1> QED
  BY <1>1, <1>2 DEF Worth

\* SendCoins moves what the coins are worth.
LEMMA SendCoinsMoves ==
  ASSUME NEW L, Backed(L), NEW from \in Accounts, NEW to \in Accounts,
         NEW c \in Coins, CanSendCoins(L, from, to, c)
  PROVE  Sent(L, SendCoins(L, from, to, c), from, to, Worth(c))
<1> DEFINE M == BankSendCoins(L, from, to, c.integer)
           N == SendCoins(L, from, to, c)
<1>1. /\ c.integer \in Nat /\ c.extended \in Nat /\ c.integer <= L.bank[from]
      /\ Backed(M) /\ CanSendExtendedCoins(M, from, to, c.extended)
      /\ N = sendExtendedCoins(M, from, to, c.extended)
  BY SendCoinsInParts, ZenonT(40)
<1>2. Sent(L, M, from, to, c.integer * ConversionFactor)
  BY <1>1, BankSendSent, SMTT(30)
<1> HIDE DEF M, N
<1>3. Sent(M, N, from, to, c.extended)
  BY <1>1, SendExtendedMoves, SMTT(30)
<1>4. c.integer * ConversionFactor \in Int /\ c.extended \in Int
  BY <1>1, ConversionFactorAssumption
<1>5. Sent(L, N, from, to, c.integer * ConversionFactor + c.extended)
  BY <1>2, <1>3, <1>4, SentTwice, SMTT(30)
<1> QED
  BY <1>5 DEF N, Worth

\* Among the accounts of S, m has d integer coins more, and the supply has e more.
BankIssued(S, L, M, m, d, e) ==
  /\ SameFractions(L, M) /\ M.supply = L.supply + e
  /\ M.bank[m] = L.bank[m] + d
  /\ \A a \in S \ {m} : M.bank[a] = L.bank[a]

\* x/bank's mint and burn, account by account.
LEMMA BankMintIssues ==
  ASSUME NEW L, Sound(L), NEW m \in Holders, NEW n \in Nat
  PROVE  BankIssued(Holders, L, BankMintCoins(L, m, n), m, n, n)
<1>1. L.bank \in [Holders -> Nat] /\ L \in Ledger
  BY DEF Sound, Ledger
<1>2. PICK M : M = BankMintCoins(L, m, n)
  OBVIOUS
<1>3. /\ Sound(M) /\ M.fractional = L.fractional /\ M.remainder = L.remainder
      /\ M.bank = [L.bank EXCEPT ![m] = @ + n]
  BY <1>2, BankMintSound
<1>4. M.supply = L.supply + n
  BY <1>1, <1>2, SMTT(30) DEF BankMintCoins, Ledger
<1>5. M.bank[m] = L.bank[m] + n /\ \A a \in Holders \ {m} : M.bank[a] = L.bank[a]
  BY <1>1, <1>3, SMTT(30)
<1>6. BankIssued(Holders, L, M, m, n, n)
  BY <1>3, <1>4, <1>5, SMTT(30) DEF BankIssued, SameFractions
<1> QED
  BY <1>2, <1>6

\* x/bank burns from one balance and from the supply.
LEMMA BankBurnIssues ==
  ASSUME NEW L, Sound(L), NEW m \in Holders, NEW n \in Nat, n <= L.bank[m]
  PROVE  BankIssued(Holders, L, BankBurnCoins(L, m, n), m, -n, -n)
<1>1. L.bank \in [Holders -> Nat] /\ L \in Ledger /\ L.supply \in Nat
  BY DEF Sound, Ledger
<1>2. PICK M : M = BankBurnCoins(L, m, n)
  OBVIOUS
<1>3. /\ Sound(M) /\ M.fractional = L.fractional /\ M.remainder = L.remainder
      /\ M.bank = [L.bank EXCEPT ![m] = @ - n]
  BY <1>2, BankBurnSound
<1>4. M.supply = L.supply - n
  BY <1>1, <1>2 DEF BankBurnCoins, Ledger
<1>5. M.supply = L.supply + (-n)
  BY <1>1, <1>4
<1>6. M.bank[m] = L.bank[m] + (-n) /\ \A a \in Holders \ {m} : M.bank[a] = L.bank[a]
  BY <1>1, <1>3
<1>7. BankIssued(Holders, L, M, m, -n, -n)
  BY <1>3, <1>5, <1>6, SMTT(30) DEF BankIssued, SameFractions
<1> QED
  BY <1>2, <1>7

\* Changes of the integer coins of one account add up.
LEMMA IssuedOnTop ==
  ASSUME NEW L, Sound(L), NEW M, NEW N, NEW m \in Accounts,
         NEW d \in Int, NEW e \in Int, NEW p \in Int, NEW q \in Int,
         BankIssued(Accounts, L, M, m, d, e), BankIssued(Accounts, M, N, m, p, q)
  PROVE  BankIssued(Accounts, L, N, m, d + p, e + q)
<1>1. L.bank[m] \in Nat /\ L.supply \in Nat
  BY DEF Sound, Ledger, Holders
<1>2. SameFractions(L, N)
  BY DEF BankIssued, SameFractions
<1>3. M.supply = L.supply + e /\ N.supply = M.supply + q
  BY DEF BankIssued
<1>4. M.bank[m] = L.bank[m] + d /\ N.bank[m] = M.bank[m] + p
  BY DEF BankIssued
<1>5. N.supply = L.supply + (e + q)
  BY <1>1, <1>3, SMTT(30)
<1>6. N.bank[m] = L.bank[m] + (d + p)
  BY <1>1, <1>4, SMTT(30)
<1>7. \A a \in Accounts \ {m} : N.bank[a] = L.bank[a]
  BY DEF BankIssued
<1> QED
  BY <1>2, <1>5, <1>6, <1>7, SMTT(30) DEF BankIssued

\* What stays in the ledger, what the reserve gives or gets, and what is minted to or
\* burned from the reserve, seen from the accounts.
LEMMA SeenFromAccounts ==
  ASSUME NEW L, Sound(L), NEW M, NEW m \in Accounts
  PROVE  /\ BankIssued(Accounts, L, L, m, 0, 0)
         /\ BankMoved(Holders, L, M, Reserve, m, 1, 1) => BankIssued(Accounts, L, M, m, 1, 0)
         /\ BankMoved(Holders, L, M, m, Reserve, 1, 1) => BankIssued(Accounts, L, M, m, -1, 0)
         /\ \A e \in Int : BankIssued(Holders, L, M, Reserve, e, e)
                             => BankIssued(Accounts, L, M, m, 0, e)
         /\ \A e \in Int : BankIssued(Holders, L, M, m, e, e)
                             => BankIssued(Accounts, L, M, m, e, e)
<1>1. L.bank[m] \in Nat /\ L.supply \in Nat
  BY DEF Sound, Ledger, Holders
<1>2. m \in Holders /\ m # Reserve /\ \A a \in Accounts : a \in Holders /\ a # Reserve
  BY AccountsAssumption DEF Holders, Accounts
<1>3. BankIssued(Accounts, L, L, m, 0, 0)
  BY <1>1 DEF BankIssued, SameFractions
<1>4. ASSUME BankMoved(Holders, L, M, Reserve, m, 1, 1)
      PROVE  BankIssued(Accounts, L, M, m, 1, 0)
  <2>1. M.supply = L.supply + 0 /\ SameFractions(L, M) /\ M.bank[m] = L.bank[m] + 1
    BY <1>1, <1>4, SMTT(30) DEF BankMoved
  <2>2. \A a \in Accounts \ {m} : M.bank[a] = L.bank[a]
    BY <1>2, <1>4, SMTT(30) DEF BankMoved
  <2> QED
    BY <2>1, <2>2, SMTT(30) DEF BankIssued
<1>5. ASSUME BankMoved(Holders, L, M, m, Reserve, 1, 1)
      PROVE  BankIssued(Accounts, L, M, m, -1, 0)
  <2>1. M.supply = L.supply + 0 /\ SameFractions(L, M) /\ M.bank[m] = L.bank[m] + (-1)
    BY <1>1, <1>5, SMTT(30) DEF BankMoved
  <2>2. \A a \in Accounts \ {m} : M.bank[a] = L.bank[a]
    BY <1>2, <1>5, SMTT(30) DEF BankMoved
  <2> QED
    BY <2>1, <2>2, SMTT(30) DEF BankIssued
<1>6. ASSUME NEW e \in Int, BankIssued(Holders, L, M, Reserve, e, e)
      PROVE  BankIssued(Accounts, L, M, m, 0, e)
  <2>1. M.supply = L.supply + e /\ SameFractions(L, M)
    BY <1>6, SMTT(30) DEF BankIssued
  <2>2. M.bank[m] = L.bank[m] + 0 /\ \A a \in Accounts \ {m} : M.bank[a] = L.bank[a]
    BY <1>1, <1>2, <1>6, SMTT(30) DEF BankIssued
  <2> QED
    BY <2>1, <2>2, SMTT(30) DEF BankIssued
<1>7. ASSUME NEW e \in Int, BankIssued(Holders, L, M, m, e, e)
      PROVE  BankIssued(Accounts, L, M, m, e, e)
  BY <1>2, <1>7 DEF BankIssued
<1> QED
  BY <1>3, <1>4, <1>5, <1>6, <1>7, SMTT(30)

\* What mintExtendedCoin does to the integer coins.
MintsOver(L, m, i, carried, short) ==
  LET L1 == IF carried /\ ~short THEN BankSendCoins(L, Reserve, m, 1) ELSE L
      L2 == BankMintCoins(L1, m, i + (IF carried /\ short THEN 1 ELSE 0))
  IN  IF MintsToReserve(short, carried) THEN BankMintCoins(L2, Reserve, 1) ELSE L2

\* The carry gives the module one integer coin, and a remainder that is too small
\* the supply, whether or not it is the same coin.
LEMMA MintExtendedBank ==
  ASSUME NEW L, Backed(L), NEW m \in Modules, NEW i \in Nat,
         NEW carried \in BOOLEAN, NEW short \in BOOLEAN,
         carried /\ ~short => L.bank[Reserve] >= 1
  PROVE  BankIssued(Accounts, L, MintsOver(L, m, i, carried, short), m,
                    i + (IF carried THEN 1 ELSE 0), i + (IF short THEN 1 ELSE 0))
<1>1. m \in Accounts /\ m \in Holders /\ Reserve \in Holders /\ m # Reserve
  BY AccountsAssumption DEF Holders, Accounts
<1>2. Sound(L) /\ L.bank[Reserve] \in Nat
  BY <1>1, SMTT(30) DEF Backed, Sound, Ledger
<1>3. PICK n \in Nat : n = i + (IF carried /\ short THEN 1 ELSE 0)
  OBVIOUS
<1>4. PICK u \in 0 .. 1 : u = IF carried /\ ~short THEN 1 ELSE 0
  OBVIOUS
<1>5. PICK w \in 0 .. 1 : w = IF short /\ ~carried THEN 1 ELSE 0
  OBVIOUS
<1>6. PICK L1 : L1 = IF carried /\ ~short THEN BankSendCoins(L, Reserve, m, 1) ELSE L
  OBVIOUS
<1>7. PICK L2 : L2 = BankMintCoins(L1, m, n)
  OBVIOUS
<1>8. PICK L3 : L3 = MintsOver(L, m, i, carried, short)
  OBVIOUS
<1>9. L3 = IF short /\ ~carried THEN BankMintCoins(L2, Reserve, 1) ELSE L2
  BY <1>3, <1>6, <1>7, <1>8, ZenonT(40) DEF MintsOver, MintsToReserve
<1>10. BankIssued(Accounts, L, L1, m, u, 0)
  <2>1. CASE carried /\ ~short
    <3>1. L1 = BankSendCoins(L, Reserve, m, 1) /\ u = 1 /\ 1 \in Nat /\ 1 <= L.bank[Reserve]
      BY <1>2, <1>4, <1>6, <2>1
    <3>2. BankMoved(Holders, L, L1, Reserve, m, 1, 1)
      BY <1>1, <1>2, <3>1, BankSendMoves, ZenonT(40)
    <3> QED
      BY <1>1, <1>2, <3>1, <3>2, SeenFromAccounts, ZenonT(40)
  <2>2. CASE ~(carried /\ ~short)
    <3>1. L1 = L /\ u = 0
      BY <1>4, <1>6, <2>2
    <3> QED
      BY <1>1, <1>2, <3>1, SeenFromAccounts, ZenonT(40)
  <2> QED
    BY <2>1, <2>2
<1>11. BankIssued(Accounts, L1, L2, m, n, n)
  <2>1. Sound(L1)
    BY <1>10 DEF BankIssued, SameFractions
  <2>2. BankIssued(Holders, L1, L2, m, n, n)
    BY <1>1, <1>7, <2>1, BankMintIssues, ZenonT(40)
  <2>3. n \in Int
    OBVIOUS
  <2> QED
    BY <1>1, <2>1, <2>2, <2>3, SeenFromAccounts, ZenonT(40)
<1>12. BankIssued(Accounts, L2, L3, m, 0, w)
  <2>1. Sound(L2)
    BY <1>11 DEF BankIssued, SameFractions
  <2>2. CASE short /\ ~carried
    <3>1. L3 = BankMintCoins(L2, Reserve, 1) /\ w = 1 /\ 1 \in Nat /\ 1 \in Int
      BY <1>5, <1>9, <2>2
    <3>2. BankIssued(Holders, L2, L3, Reserve, 1, 1)
      BY <1>1, <2>1, <3>1, BankMintIssues, ZenonT(40)
    <3> QED
      BY <1>1, <2>1, <3>1, <3>2, SeenFromAccounts, ZenonT(40)
  <2>3. CASE ~(short /\ ~carried)
    <3>1. L3 = L2 /\ w = 0
      BY <1>5, <1>9, <2>3, SMTT(30)
    <3> QED
      BY <1>1, <2>1, <3>1, SeenFromAccounts, ZenonT(40)
  <2> QED
    BY <2>2, <2>3, SMTT(30)
<1>13. u \in Int /\ n \in Int /\ w \in Int /\ 0 \in Int /\ u + n \in Int /\ 0 + n \in Int
  OBVIOUS
<1>14. BankIssued(Accounts, L, L2, m, u + n, 0 + n)
  BY <1>1, <1>2, <1>10, <1>11, <1>13, IssuedOnTop, ZenonT(40)
<1>15. BankIssued(Accounts, L, L3, m, u + n + 0, 0 + n + w)
  BY <1>1, <1>2, <1>12, <1>13, <1>14, IssuedOnTop, ZenonT(40)
<1>16. /\ u + n + 0 = i + (IF carried THEN 1 ELSE 0)
       /\ 0 + n + w = i + (IF short THEN 1 ELSE 0)
  BY <1>3, <1>4, <1>5, SMTT(30)
<1> QED
  BY <1>8, <1>15, <1>16, ZenonT(40)

\* What burnExtendedCoin does to the integer coins.
BurnsOver(L, m, i, borrow, overflow) ==
  LET L1 == IF borrow /\ ~overflow THEN BankSendCoins(L, m, Reserve, 1) ELSE L
      L2 == IF BurnsFromReserve(overflow, borrow) THEN BankBurnCoins(L1, Reserve, 1) ELSE L1
  IN  BankBurnCoins(L2, m, i + (IF borrow /\ overflow THEN 1 ELSE 0))

\* The borrow costs the module one integer coin, and a remainder that fills up the
\* supply, whether or not it is the same coin.
LEMMA BurnExtendedBank ==
  ASSUME NEW L, Backed(L), NEW m \in Modules, NEW i \in Nat,
         NEW borrow \in BOOLEAN, NEW overflow \in BOOLEAN,
         overflow /\ ~borrow => L.bank[Reserve] >= 1,
         L.bank[m] >= i + (IF borrow THEN 1 ELSE 0)
  PROVE  BankIssued(Accounts, L, BurnsOver(L, m, i, borrow, overflow), m,
                    -(i + (IF borrow THEN 1 ELSE 0)), -(i + (IF overflow THEN 1 ELSE 0)))
<1>1. m \in Accounts /\ m \in Holders /\ Reserve \in Holders /\ m # Reserve
  BY AccountsAssumption, SMTT(30) DEF Holders, Accounts
<1>2. Sound(L) /\ L.bank[Reserve] \in Nat /\ L.bank[m] \in Nat
  BY <1>1 DEF Backed, Sound, Ledger
<1>3. PICK n \in Nat : n = i + (IF borrow /\ overflow THEN 1 ELSE 0)
  OBVIOUS
<1>4. PICK u \in {-1, 0} : u = IF borrow /\ ~overflow THEN -1 ELSE 0
  OBVIOUS
<1>5. PICK w \in {-1, 0} : w = IF overflow /\ ~borrow THEN -1 ELSE 0
  OBVIOUS
<1>6. PICK L1 : L1 = IF borrow /\ ~overflow THEN BankSendCoins(L, m, Reserve, 1) ELSE L
  OBVIOUS
<1>7. PICK L2 : L2 = IF overflow /\ ~borrow THEN BankBurnCoins(L1, Reserve, 1) ELSE L1
  OBVIOUS
<1>8. PICK L3 : L3 = BurnsOver(L, m, i, borrow, overflow)
  OBVIOUS
<1>9. L3 = BankBurnCoins(L2, m, n)
  BY <1>3, <1>6, <1>7, <1>8, ZenonT(40) DEF BurnsOver, BurnsFromReserve
<1>10. BankIssued(Accounts, L, L1, m, u, 0)
  <2>1. CASE borrow /\ ~overflow
    <3>1. L1 = BankSendCoins(L, m, Reserve, 1) /\ u = -1 /\ 1 \in Nat /\ 1 <= L.bank[m]
      BY <1>2, <1>4, <1>6, <2>1, SMTT(30)
    <3>2. BankMoved(Holders, L, L1, m, Reserve, 1, 1)
      BY <1>1, <1>2, <3>1, BankSendMoves, ZenonT(40)
    <3> QED
      BY <1>1, <1>2, <3>1, <3>2, SeenFromAccounts, ZenonT(40)
  <2>2. CASE ~(borrow /\ ~overflow)
    <3>1. L1 = L /\ u = 0
      BY <1>4, <1>6, <2>2, SMTT(30)
    <3> QED
      BY <1>1, <1>2, <3>1, SeenFromAccounts, ZenonT(40)
  <2> QED
    BY <2>1, <2>2
<1>11. BankIssued(Accounts, L1, L2, m, 0, w)
  <2>1. Sound(L1)
    BY <1>10 DEF BankIssued, SameFractions
  <2>2. CASE overflow /\ ~borrow
    <3>1. /\ L2 = BankBurnCoins(L1, Reserve, 1) /\ L1 = L /\ w = -1
          /\ 1 \in Nat /\ -1 \in Int /\ 1 <= L1.bank[Reserve]
      BY <1>2, <1>5, <1>6, <1>7, <2>2, SMTT(30)
    <3>2. BankIssued(Holders, L1, L2, Reserve, -1, -1)
      BY <1>1, <2>1, <3>1, BankBurnIssues, ZenonT(40)
    <3> QED
      BY <1>1, <2>1, <3>1, <3>2, SeenFromAccounts, ZenonT(40)
  <2>3. CASE ~(overflow /\ ~borrow)
    <3>1. L2 = L1 /\ w = 0
      BY <1>5, <1>7, <2>3, SMTT(30)
    <3> QED
      BY <1>1, <2>1, <3>1, SeenFromAccounts, ZenonT(40)
  <2> QED
    BY <2>2, <2>3, SMTT(30)
<1>12. u \in Int /\ -n \in Int /\ w \in Int /\ 0 \in Int /\ u + 0 \in Int /\ 0 + w \in Int
  OBVIOUS
<1>13. BankIssued(Accounts, L, L2, m, u + 0, 0 + w)
  BY <1>1, <1>2, <1>10, <1>11, <1>12, IssuedOnTop, ZenonT(40)
<1>14. BankIssued(Accounts, L2, L3, m, -n, -n)
  <2>1. Sound(L2) /\ L2.bank[m] = L.bank[m] + (u + 0)
    BY <1>13, SMTT(30) DEF BankIssued, SameFractions
  <2>2. n <= L2.bank[m]
    BY <1>2, <1>3, <1>4, <2>1
  <2>3. BankIssued(Holders, L2, L3, m, -n, -n)
    BY <1>1, <1>9, <2>1, <2>2, BankBurnIssues, ZenonT(40)
  <2> QED
    BY <1>1, <1>12, <2>1, <2>3, SeenFromAccounts, ZenonT(40)
<1>15. BankIssued(Accounts, L, L3, m, (u + 0) + (-n), (0 + w) + (-n))
  BY <1>1, <1>2, <1>12, <1>13, <1>14, IssuedOnTop, ZenonT(40)
<1>16. /\ (u + 0) + (-n) = -(i + (IF borrow THEN 1 ELSE 0))
       /\ (0 + w) + (-n) = -(i + (IF overflow THEN 1 ELSE 0))
  BY <1>3, <1>4, <1>5, SMTT(30)
<1> QED
  BY <1>8, <1>15, <1>16, ZenonT(40)

\* A remainder from which a minted fraction is taken, or to which a burned one is
\* added, with or without a coin that the supply gains or loses for it.
LEMMA SupplyByParts ==
  ASSUME NEW s \in Nat, NEW i \in Nat, NEW r \in Fractions, NEW f \in Fractions
  PROVE  /\ (s + (i + 1)) * ConversionFactor - (r - f + ConversionFactor)
              = (s * ConversionFactor - r) + (i * ConversionFactor + f)
         /\ (s + (i + 0)) * ConversionFactor - (r - f)
              = (s * ConversionFactor - r) + (i * ConversionFactor + f)
         /\ (s + -(i + 1)) * ConversionFactor - (r + f - ConversionFactor)
              = (s * ConversionFactor - r) + -(i * ConversionFactor + f)
         /\ (s + -(i + 0)) * ConversionFactor - (r + f)
              = (s * ConversionFactor - r) + -(i * ConversionFactor + f)
<1> DEFINE C == ConversionFactor
<1>1. C \in Nat /\ r \in Nat /\ f \in Nat
  BY ConversionFactorAssumption DEF Fractions
<1>2. /\ (s + (i + 1)) * C = s * C + i * C + C /\ (s + (i + 0)) * C = s * C + i * C
      /\ (s + -(i + 1)) * C = s * C - i * C - C /\ (s + -(i + 0)) * C = s * C - i * C
  BY <1>1
<1>3. PICK S \in Int, I \in Int : S = s * C /\ I = i * C
  BY <1>1
<1>4. /\ (s + (i + 1)) * C = S + I + C /\ (s + (i + 0)) * C = S + I
      /\ (s + -(i + 1)) * C = S - I - C /\ (s + -(i + 0)) * C = S - I
  BY <1>2, <1>3, SMTT(30)
<1> HIDE DEF C
<1>5. /\ (s + (i + 1)) * C - (r - f + C) = (S - r) + (I + f)
      /\ (s + (i + 0)) * C - (r - f) = (S - r) + (I + f)
      /\ (s + -(i + 1)) * C - (r + f - C) = (S - r) + -(I + f)
      /\ (s + -(i + 0)) * C - (r + f) = (S - r) + -(I + f)
  BY <1>1, <1>4
<1> QED
  BY <1>3, <1>5 DEF C

\* A ledger with a new fraction of m and a new remainder, and the integer coins for
\* them, has v extended coins more.
LEMMA IssuedByParts ==
  ASSUME NEW L, Backed(L), NEW K, NEW M, Backed(M), NEW m \in Modules,
         NEW d, NEW e, NEW x \in Fractions, NEW r \in Fractions, NEW v \in Int,
         BankIssued(Accounts, L, K, m, d, e),
         M = [K EXCEPT !.fractional[m] = x, !.remainder = r],
         (L.bank[m] + d) * ConversionFactor + x
           = (L.bank[m] * ConversionFactor + L.fractional[m]) + v,
         (L.supply + e) * ConversionFactor - r
           = (L.supply * ConversionFactor - L.remainder) + v
  PROVE  Issued(L, M, m, v)
<1>1. m \in Accounts
  BY DEF Accounts
<1>2. \A a \in Accounts :
        /\ a \in Holders /\ GetBalance(L, a) \in Nat
        /\ GetBalance(L, a) = L.bank[a] * ConversionFactor + L.fractional[a]
        /\ GetBalance(M, a) = M.bank[a] * ConversionFactor + M.fractional[a]
  BY ExtendedNat, Zenon
<1>3. /\ M.bank = K.bank /\ M.supply = K.supply /\ M.remainder = r
      /\ M.fractional[m] = x
      /\ \A a \in Accounts \ {m} : M.fractional[a] = L.fractional[a]
  BY <1>1, <1>2 DEF BankIssued, SameFractions, Sound, Ledger
<1>4. GetBalance(M, m) = GetBalance(L, m) + v
  BY <1>1, <1>2, <1>3, ZenonT(40) DEF BankIssued
<1>5. \A a \in Accounts \ {m} : GetBalance(M, a) = GetBalance(L, a)
  BY <1>2, <1>3 DEF BankIssued
<1>6. ExtendedSupply(M) = ExtendedSupply(L) + v
  BY <1>3, Zenon DEF BankIssued, ExtendedSupply
<1>7. ASSUME NEW a \in Accounts
      PROVE  GetBalance(M, a) = GetBalance(L, a) + (IF a = m THEN v ELSE 0)
  BY <1>2, <1>4, <1>5
<1> QED
  BY <1>6, <1>7 DEF Issued

\* mintExtendedCoin issues exactly the amount.
LEMMA MintExtendedIssues ==
  ASSUME NEW L, Backed(L), NEW m \in Modules, NEW amt \in Nat,
         CanMintExtendedCoin(L, m, amt),
         NEW M, M = mintExtendedCoin(L, m, amt)
  PROVE  Issued(L, M, m, amt)
<1> DEFINE f       == FractionalPart(amt)
           i       == IntegerPart(amt)
           carried == NeedsCarry(L.fractional[m], f)
           short   == L.remainder < f
           K       == MintsOver(L, m, i, carried, short)
           x       == addToFractionalBalance(L.fractional[m], f)
           r       == IF short THEN L.remainder - f + ConversionFactor ELSE L.remainder - f
           d       == i + (IF carried THEN 1 ELSE 0)
           e       == i + (IF short THEN 1 ELSE 0)
<1>1. Backed(M)
  BY MintExtendedBacked
<1>2. m \in Accounts /\ m \in Holders /\ Reserve \in Holders
  BY DEF Accounts, Holders
<1>3. /\ L.bank[m] \in Nat /\ L.fractional[m] \in Fractions /\ L.bank[Reserve] \in Nat
      /\ L.supply \in Nat /\ L.remainder \in Fractions
  BY <1>2 DEF Backed, Sound, Ledger
<1>4. i \in Nat /\ f \in Fractions /\ amt = i * ConversionFactor + f
  BY Parts, SMTT(30)
<1>5. L.remainder \in Nat /\ f \in Nat /\ f < ConversionFactor /\ L.remainder < ConversionFactor
      /\ ConversionFactor \in Nat
  BY <1>3, <1>4, ConversionFactorAssumption DEF Fractions
<1>6. M = [K EXCEPT !.fractional[m] = addToFractionalBalance(@, f),
                    !.remainder = IF short THEN @ - f + ConversionFactor ELSE @ - f]
  BY Zenon DEF mintExtendedCoin, MintsOver
<1>7. carried \in BOOLEAN /\ short \in BOOLEAN
  BY DEF NeedsCarry
<1>8. carried /\ ~short => L.bank[Reserve] >= 1
  <2>1. carried /\ L.remainder >= f => L.bank[Reserve] >= 1
    BY DEF CanMintExtendedCoin
  <2>2. ~short => L.remainder >= f
    BY <1>5, SMTT(30)
  <2> QED
    BY <2>1, <2>2, ZenonT(40)
<1>9. x \in Fractions
  BY <1>3, <1>4, NewFraction, SMTT(30)
<1>10. r \in Fractions
  BY <1>5 DEF Fractions
<1>11. (L.bank[m] + d) * ConversionFactor + x
         = (L.bank[m] * ConversionFactor + L.fractional[m]) + amt
  <2>1. L.bank[m] \in Int
    BY <1>3
  <2>2. (L.bank[m] + d) * ConversionFactor + x
          = (L.bank[m] * ConversionFactor + L.fractional[m]) + (i * ConversionFactor + f)
    BY <1>3, <1>4, <2>1, ByParts, ZenonT(40)
  <2> HIDE DEF i, f, x, d
  <2> QED
    BY <1>4, <2>2, ZenonT(40)
<1>12. (L.supply + e) * ConversionFactor - r
         = (L.supply * ConversionFactor - L.remainder) + amt
  <2>1. (L.supply + e) * ConversionFactor - r
          = (L.supply * ConversionFactor - L.remainder) + (i * ConversionFactor + f)
    <3> HIDE DEF i, f, short
    <3>1. L.supply \in Nat /\ L.remainder \in Fractions /\ i \in Nat /\ f \in Fractions
      BY <1>3, <1>4
    <3>2. CASE short
      <4>1. e = i + 1 /\ r = L.remainder - f + ConversionFactor
        BY <3>2
      <4>2. (L.supply + (i + 1)) * ConversionFactor - (L.remainder - f + ConversionFactor)
              = (L.supply * ConversionFactor - L.remainder) + (i * ConversionFactor + f)
        BY <3>1, SupplyByParts, ZenonT(40)
      <4> HIDE DEF e, r
      <4> QED
        BY <4>1, <4>2, Zenon
    <3>3. CASE ~short
      <4>1. e = i + 0 /\ r = L.remainder - f
        BY <3>3
      <4>2. (L.supply + (i + 0)) * ConversionFactor - (L.remainder - f)
              = (L.supply * ConversionFactor - L.remainder) + (i * ConversionFactor + f)
        BY <3>1, SupplyByParts, ZenonT(40)
      <4> HIDE DEF e, r
      <4> QED
        BY <4>1, <4>2, Zenon
    <3> QED
      BY <3>2, <3>3
  <2> HIDE DEF i, f, r, e
  <2> QED
    BY <1>4, <2>1, Zenon
<1>13. amt \in Int
  OBVIOUS
<1> HIDE DEF carried, short, f, i
<1>14. BankIssued(Accounts, L, K, m, d, e)
  BY <1>4, <1>7, <1>8, MintExtendedBank, Zenon
<1> HIDE DEF K
<1>15. M = [K EXCEPT !.fractional[m] = x, !.remainder = r]
  <2>1. K \in Ledger /\ K.fractional = L.fractional /\ K.remainder = L.remainder
    BY <1>14 DEF BankIssued, SameFractions, Sound
  <2> QED
    BY <1>2, <1>6, <2>1 DEF Ledger
<1> HIDE DEF x, r, d, e
<1> QED
  BY <1>1, <1>9, <1>10, <1>11, <1>12, <1>13, <1>14, <1>15, IssuedByParts, ZenonT(40)

\* burnExtendedCoin takes back exactly the amount.
LEMMA BurnExtendedIssues ==
  ASSUME NEW L, Backed(L), NEW m \in Modules, NEW amt \in Nat,
         CanBurnExtendedCoin(L, m, amt),
         NEW M, M = burnExtendedCoin(L, m, amt)
  PROVE  Issued(L, M, m, -amt)
<1> DEFINE f        == FractionalPart(amt)
           i        == IntegerPart(amt)
           borrow   == NeedsBorrow(L.fractional[m], f)
           overflow == NeedsCarry(L.remainder, f)
           K        == BurnsOver(L, m, i, borrow, overflow)
           x        == subFromFractionalBalance(L.fractional[m], f)
           r        == IF overflow THEN L.remainder + f - ConversionFactor ELSE L.remainder + f
           d        == -(i + (IF borrow THEN 1 ELSE 0))
           e        == -(i + (IF overflow THEN 1 ELSE 0))
<1>1. Backed(M)
  BY BurnExtendedBacked
<1>2. m \in Accounts /\ m \in Holders /\ Reserve \in Holders
  BY DEF Accounts, Holders
<1>3. /\ L.bank[m] \in Nat /\ L.fractional[m] \in Fractions /\ L.bank[Reserve] \in Nat
      /\ L.supply \in Nat /\ L.remainder \in Fractions
  BY <1>2 DEF Backed, Sound, Ledger
<1>4. i \in Nat /\ f \in Fractions /\ amt = i * ConversionFactor + f
  BY Parts
<1>5. L.remainder \in Nat /\ f \in Nat /\ f < ConversionFactor /\ L.remainder < ConversionFactor
      /\ ConversionFactor \in Nat /\ L.fractional[m] \in Nat
  BY <1>3, <1>4, ConversionFactorAssumption DEF Fractions
<1>6. M = [K EXCEPT !.fractional[m] = subFromFractionalBalance(@, f),
                    !.remainder = IF overflow THEN @ + f - ConversionFactor ELSE @ + f]
  BY Zenon DEF burnExtendedCoin, BurnsOver
<1>7. borrow \in BOOLEAN /\ overflow \in BOOLEAN
  BY SMTT(30) DEF NeedsCarry, NeedsBorrow
<1>8. /\ overflow /\ ~borrow => L.bank[Reserve] >= 1
      /\ L.bank[m] >= i + (IF borrow THEN 1 ELSE 0)
  BY SMTT(30) DEF CanBurnExtendedCoin, BurnsFromReserve, IntegerCoinsNeeded
<1>9. x \in Fractions
  BY <1>3, <1>4, NewFraction, SMTT(30)
<1>10. r \in Fractions
  BY <1>5 DEF Fractions, NeedsCarry
<1>11. (L.bank[m] + d) * ConversionFactor + x
         = (L.bank[m] * ConversionFactor + L.fractional[m]) + -amt
  <2>1. L.bank[m] \in Int
    BY <1>3
  <2>2. (L.bank[m] - (i + (IF borrow THEN 1 ELSE 0))) * ConversionFactor + x
          = (L.bank[m] * ConversionFactor + L.fractional[m]) - amt
    <3>1. (L.bank[m] - (i + (IF borrow THEN 1 ELSE 0))) * ConversionFactor + x
            = (L.bank[m] * ConversionFactor + L.fractional[m]) - (i * ConversionFactor + f)
      BY <1>3, <1>4, <2>1, ByParts, ZenonT(40)
    <3> HIDE DEF i, f, x, borrow
    <3> QED
      BY <1>4, <3>1, Zenon
  <2>3. L.bank[m] + d = L.bank[m] - (i + (IF borrow THEN 1 ELSE 0))
    BY <1>3, <1>4
  <2>4. L.bank[m] * ConversionFactor \in Int
    BY <1>3, <1>5, SMTT(30)
  <2>5. (L.bank[m] * ConversionFactor + L.fractional[m]) - amt
          = (L.bank[m] * ConversionFactor + L.fractional[m]) + -amt
    BY <1>5, <2>4
  <2> QED
    BY <2>2, <2>3, <2>5, ZenonT(40)
<1>12. (L.supply + e) * ConversionFactor - r
         = (L.supply * ConversionFactor - L.remainder) + -amt
  <2>1. (L.supply + e) * ConversionFactor - r
          = (L.supply * ConversionFactor - L.remainder) + -(i * ConversionFactor + f)
    <3> HIDE DEF i, f, overflow
    <3>1. L.supply \in Nat /\ L.remainder \in Fractions /\ i \in Nat /\ f \in Fractions
      BY <1>3, <1>4
    <3>2. CASE overflow
      <4>1. e = -(i + 1) /\ r = L.remainder + f - ConversionFactor
        BY <3>2
      <4>2. (L.supply + -(i + 1)) * ConversionFactor - (L.remainder + f - ConversionFactor)
              = (L.supply * ConversionFactor - L.remainder) + -(i * ConversionFactor + f)
        BY <3>1, SupplyByParts, ZenonT(40)
      <4> HIDE DEF e, r
      <4> QED
        BY <4>1, <4>2, Zenon
    <3>3. CASE ~overflow
      <4>1. e = -(i + 0) /\ r = L.remainder + f
        BY <3>3
      <4>2. (L.supply + -(i + 0)) * ConversionFactor - (L.remainder + f)
              = (L.supply * ConversionFactor - L.remainder) + -(i * ConversionFactor + f)
        BY <3>1, SupplyByParts, ZenonT(40)
      <4> HIDE DEF e, r
      <4> QED
        BY <4>1, <4>2, Zenon
    <3> QED
      BY <3>2, <3>3, SMTT(30)
  <2> HIDE DEF i, f, r, e
  <2> QED
    BY <1>4, <2>1, ZenonT(40)
<1>13. -amt \in Int
  OBVIOUS
<1> HIDE DEF borrow, overflow, f, i
<1>14. BankIssued(Accounts, L, K, m, d, e)
  BY <1>4, <1>7, <1>8, BurnExtendedBank, Zenon
<1> HIDE DEF K
<1>15. M = [K EXCEPT !.fractional[m] = x, !.remainder = r]
  <2>1. K \in Ledger /\ K.fractional = L.fractional /\ K.remainder = L.remainder
    BY <1>14 DEF BankIssued, SameFractions, Sound
  <2> QED
    BY <1>2, <1>6, <2>1, SMTT(30) DEF Ledger
<1> HIDE DEF x, r, d, e
<1> QED
  BY <1>1, <1>9, <1>10, <1>11, <1>12, <1>13, <1>14, <1>15, IssuedByParts, ZenonT(40)

\* Integer coins that x/bank mints, or burns when n is negative, are ConversionFactor
\* extended coins each.
LEMMA PassthroughIssues ==
  ASSUME NEW L, Backed(L), NEW M, Backed(M), NEW m \in Modules, NEW n \in Int,
         BankIssued(Holders, L, M, m, n, n)
  PROVE  Issued(L, M, m, n * ConversionFactor)
<1> DEFINE C == ConversionFactor
           v == n * C
<1>1. m \in Accounts /\ m \in Holders
  BY DEF Accounts, Holders
<1>2. Sound(L) /\ BankIssued(Accounts, L, M, m, n, n)
  BY <1>1, SeenFromAccounts, ZenonT(40) DEF Backed
<1>3. /\ L.bank[m] \in Nat /\ L.fractional[m] \in Fractions /\ L.fractional[m] \in Nat
      /\ L.supply \in Nat /\ L.remainder \in Fractions /\ L.remainder \in Nat /\ C \in Nat
  BY <1>1, ConversionFactorAssumption, SMTT(30) DEF Backed, Sound, Ledger, Fractions
<1>4. M \in Ledger /\ M.fractional = L.fractional /\ M.remainder = L.remainder
  BY <1>2 DEF BankIssued, SameFractions, Sound
<1>5. M = [M EXCEPT !.fractional[m] = L.fractional[m], !.remainder = L.remainder]
  BY <1>1, <1>4, ZenonT(40) DEF Ledger
<1>6. /\ v \in Int /\ L.bank[m] * C \in Int /\ L.supply * C \in Int
      /\ (L.bank[m] + n) * C = L.bank[m] * C + v /\ (L.supply + n) * C = L.supply * C + v
  BY <1>3, SMTT(30)
<1> HIDE DEF v
<1>7. (L.bank[m] + n) * C + L.fractional[m] = (L.bank[m] * C + L.fractional[m]) + v
  BY <1>3, <1>6, SMTT(30)
<1>8. (L.supply + n) * C - L.remainder = (L.supply * C - L.remainder) + v
  BY <1>3, <1>6
<1>9. Issued(L, M, m, v)
  BY <1>2, <1>3, <1>5, <1>6, <1>7, <1>8, IssuedByParts, ZenonT(40)
<1> QED
  BY <1>9 DEF v

\* What is issued to one account adds up.
LEMMA IssuedTwice ==
  ASSUME NEW L, Backed(L), NEW M, NEW N, NEW m, NEW v \in Int, NEW w \in Int,
         Issued(L, M, m, v), Issued(M, N, m, w)
  PROVE  Issued(L, N, m, v + w)
<1>1. ExtendedSupply(L) \in Nat /\ \A a \in Accounts : GetBalance(L, a) \in Nat
  BY ExtendedNat
<1>2. ExtendedSupply(N) = ExtendedSupply(L) + (v + w)
  BY <1>1 DEF Issued
<1>3. ASSUME NEW a \in Accounts
      PROVE  GetBalance(N, a) = GetBalance(L, a) + (IF a = m THEN v + w ELSE 0)
  BY <1>1 DEF Issued
<1> QED
  BY <1>2, <1>3, SMTT(30) DEF Issued

\* MintCoins issues what the coins are worth.
LEMMA MintCoinsIssues ==
  ASSUME NEW L, Backed(L), NEW m, NEW c \in Coins, CanMintCoins(L, m, c)
  PROVE  Issued(L, MintCoins(L, m, c), m, Worth(c))
<1> DEFINE M == BankMintCoins(L, m, c.integer)
           N == MintCoins(L, m, c)
<1>1. /\ m \in Modules /\ c.integer \in Nat /\ c.extended \in Nat
      /\ Backed(M) /\ CanMintExtendedCoin(M, m, c.extended)
      /\ N = mintExtendedCoin(M, m, c.extended)
  BY MintCoinsInParts, ZenonT(40)
<1>2. m \in Holders /\ Sound(L) /\ c.integer \in Int
  BY <1>1 DEF Holders, Accounts, Backed
<1>3. BankIssued(Holders, L, M, m, c.integer, c.integer)
  BY <1>1, <1>2, BankMintIssues, Zenon
<1> HIDE DEF M, N
<1>4. Issued(L, M, m, c.integer * ConversionFactor)
  BY <1>1, <1>2, <1>3, PassthroughIssues, ZenonT(40)
<1>5. Issued(M, N, m, c.extended)
  BY <1>1, MintExtendedIssues
<1>6. c.integer * ConversionFactor \in Int /\ c.extended \in Int
  BY <1>1, ConversionFactorAssumption
<1>7. Issued(L, N, m, c.integer * ConversionFactor + c.extended)
  BY <1>4, <1>5, <1>6, IssuedTwice, ZenonT(40)
<1> QED
  BY <1>7 DEF N, Worth

\* BurnCoins takes back what the coins are worth.
LEMMA BurnCoinsIssues ==
  ASSUME NEW L, Backed(L), NEW m, NEW c \in Coins, CanBurnCoins(L, m, c)
  PROVE  Issued(L, BurnCoins(L, m, c), m, -Worth(c))
<1> DEFINE M == BankBurnCoins(L, m, c.integer)
           N == BurnCoins(L, m, c)
<1>1. /\ m \in Modules /\ c.integer \in Nat /\ c.extended \in Nat /\ c.integer <= L.bank[m]
      /\ Backed(M) /\ CanBurnExtendedCoin(M, m, c.extended)
      /\ N = burnExtendedCoin(M, m, c.extended)
  BY BurnCoinsInParts, Zenon
<1>2. m \in Holders /\ Sound(L) /\ -c.integer \in Int
  <2>1. m \in Holders /\ Sound(L)
    BY <1>1, Zenon DEF Holders, Accounts, Backed
  <2>2. c.integer \in Nat
    BY <1>1, Zenon
  <2>3. -c.integer \in Int
    BY <2>2
  <2> QED
    BY <2>1, <2>3, Zenon
<1>3. BankIssued(Holders, L, M, m, -c.integer, -c.integer)
  BY <1>1, <1>2, BankBurnIssues, ZenonT(40)
<1> HIDE DEF M, N
<1>4. Issued(L, M, m, (-c.integer) * ConversionFactor)
  BY <1>1, <1>2, <1>3, PassthroughIssues, ZenonT(40)
<1>5. Issued(M, N, m, -c.extended)
  BY <1>1, BurnExtendedIssues, SMTT(30)
<1>6. (-c.integer) * ConversionFactor \in Int /\ -c.extended \in Int
  BY <1>1, ConversionFactorAssumption
<1>7. Issued(L, N, m, (-c.integer) * ConversionFactor + (-c.extended))
  BY <1>4, <1>5, <1>6, IssuedTwice, ZenonT(40)
<1>8. (-c.integer) * ConversionFactor + (-c.extended) = -Worth(c)
  BY <1>1, ConversionFactorAssumption, SMTT(30) DEF Worth
<1> QED
  BY <1>7, <1>8 DEF N

\* What a module mints and sends on is issued to the recipient; what it receives and
\* burns is taken back from the sender.
LEMMA IssuedThroughModule ==
  ASSUME NEW L, Backed(L), NEW M, NEW N, NEW m, NEW a, NEW v \in Int
  PROVE  /\ Issued(L, M, m, v) /\ Sent(M, N, m, a, v) => Issued(L, N, a, v)
         /\ Sent(L, M, a, m, v) /\ Issued(M, N, m, -v) => Issued(L, N, a, -v)
<1>1. ExtendedSupply(L) \in Nat /\ \A b \in Accounts : GetBalance(L, b) \in Nat
  BY ExtendedNat, SMTT(30)
<1>2. ASSUME Issued(L, M, m, v), Sent(M, N, m, a, v)
      PROVE  Issued(L, N, a, v)
  <2>1. ExtendedSupply(N) = ExtendedSupply(L) + v
    BY <1>2, SMTT(30) DEF Issued, Sent
  <2>2. ASSUME NEW b \in Accounts
        PROVE  GetBalance(N, b) = GetBalance(L, b) + (IF b = a THEN v ELSE 0)
    BY <1>1, <1>2, SMTT(30) DEF Issued, Sent
  <2> QED
    BY <2>1, <2>2, SMTT(30) DEF Issued
<1>3. ASSUME Sent(L, M, a, m, v), Issued(M, N, m, -v)
      PROVE  Issued(L, N, a, -v)
  <2>1. ExtendedSupply(N) = ExtendedSupply(L) + -v
    BY <1>3, SMTT(30) DEF Issued, Sent
  <2>2. ASSUME NEW b \in Accounts
        PROVE  GetBalance(N, b) = GetBalance(L, b) + (IF b = a THEN -v ELSE 0)
    BY <1>1, <1>3, SMTT(30) DEF Issued, Sent
  <2> QED
    BY <2>1, <2>2, SMTT(30) DEF Issued
<1> QED
  BY <1>2, <1>3, SMTT(30)

\* The extended balances, as the abstract ledger sees them.
Balances(L) == [a \in Accounts |-> GetBalance(L, a)]

\* A call that sends is a transfer of the abstract ledger.
LEMMA SentIsTransfer ==
  ASSUME Backed(ledger), Backed(ledger'), NEW from \in Accounts, NEW to \in Accounts,
         NEW v \in Nat, Sent(ledger, ledger', from, to, v)
  PROVE  ExtendedView!Next
<1>1. PICK f \in [Accounts -> Nat] : f = Balances(ledger)
  BY ExtendedNat, ZenonT(40) DEF Balances
<1>2. PICK g \in [Accounts -> Nat] : g = Balances(ledger')
  BY ExtendedNat, ZenonT(40) DEF Balances
<1>3. \A a \in Accounts :
        g[a] = f[a] - (IF a = from THEN v ELSE 0) + (IF a = to THEN v ELSE 0)
  BY <1>1, <1>2, SMTT(30) DEF Sent, Balances
<1>4. PICK amt \in Nat : amt = IF from = to THEN 0 ELSE v
  OBVIOUS
<1>5. amt \in 0 .. f[from]
  <2>1. CASE from = to
    BY <1>4, <2>1, SMTT(30)
  <2>2. CASE from # to
    <3>1. g[from] = f[from] - v + 0 /\ g[from] \in Nat /\ f[from] \in Nat
      BY <1>3, <2>2, SMTT(30)
    <3> QED
      BY <1>4, <2>2, <3>1, SMTT(30)
  <2> QED
    BY <2>1, <2>2, SMTT(30)
<1>6. g = [[f EXCEPT ![from] = @ - amt] EXCEPT ![to] = @ + amt]
  <2>1. PICK h : h = [[f EXCEPT ![from] = @ - amt] EXCEPT ![to] = @ + amt]
    BY Zenon
  <2>2. DOMAIN h = Accounts /\ h = [a \in Accounts |-> h[a]]
    BY <2>1, Zenon
  <2>3. ASSUME NEW a \in Accounts
        PROVE  h[a] = g[a]
    <3>1. g[a] = f[a] - (IF a = from THEN v ELSE 0) + (IF a = to THEN v ELSE 0) /\ f[a] \in Nat
      BY <1>3
    <3>2. CASE from = to
      <4>1. h[a] = f[a]
        BY <1>4, <2>1, <3>2, SMTT(30)
      <4> QED
        BY <3>1, <3>2, <4>1, SMTT(30)
    <3>3. CASE from # to
      <4>1. h[a] = IF a = from THEN f[a] - v ELSE IF a = to THEN f[a] + v ELSE f[a]
        BY <1>4, <2>1, <3>3, SMTT(30)
      <4> QED
        BY <3>1, <3>3, <4>1, SMTT(30)
    <3> QED
      BY <3>2, <3>3, SMTT(30)
  <2> QED
    BY <2>1, <2>2, <2>3, SMTT(30)
<1>7. ExtendedSupply(ledger') = ExtendedSupply(ledger)
  BY DEF Sent
<1>8. ExtendedView!Transfer(from, to)
  BY <1>1, <1>2, <1>5, <1>6, <1>7, ZenonT(40) DEF ExtendedView!Transfer, Balances, ExtendedSupply
<1> QED
  BY <1>8 DEF ExtendedView!Next

\* A call that issues is a mint or a burn of the abstract ledger.
LEMMA IssuedIsMintOrBurn ==
  ASSUME Backed(ledger), Backed(ledger'), NEW m \in Accounts, NEW v \in Int,
         Issued(ledger, ledger', m, v)
  PROVE  ExtendedView!Next
<1>1. PICK f \in [Accounts -> Nat] : f = Balances(ledger)
  BY ExtendedNat, Zenon DEF Balances
<1>2. PICK g \in [Accounts -> Nat] : g = Balances(ledger')
  BY ExtendedNat, ZenonT(40) DEF Balances
<1>3. \A a \in Accounts : g[a] = f[a] + (IF a = m THEN v ELSE 0)
  BY <1>1, <1>2, SMTT(30) DEF Issued, Balances
<1>4. g = [f EXCEPT ![m] = g[m]]
  BY <1>3, SMTT(30)
<1>5. PICK s \in Nat, t \in Nat : s = ExtendedSupply(ledger) /\ t = ExtendedSupply(ledger')
  BY ExtendedNat, SMTT(30)
<1>6. t - s = g[m] - f[m]
  BY <1>3, <1>5 DEF Issued
<1>7. g[m] \in Nat
  OBVIOUS
<1>8. ExtendedView!MintOrBurn(m)
  BY <1>1, <1>2, <1>4, <1>5, <1>6, <1>7, ZenonT(40)
     DEF ExtendedView!MintOrBurn, Balances, ExtendedSupply
<1> QED
  BY <1>8 DEF ExtendedView!Next

\* A genesis file is an initial state of the abstract ledger.
LEMMA ExtendedStarts == Init => ExtendedView!Init
<1> SUFFICES ASSUME Init PROVE ExtendedView!Init
  OBVIOUS
<1>1. Balances(ledger) \in [Accounts -> Nat] /\ ExtendedSupply(ledger) \in Nat
  BY InitBacked, ExtendedNat, SMTT(30) DEF Balances
<1> QED
  BY <1>1 DEF ExtendedView!Init, Balances, ExtendedSupply

\* Every call is a step of the abstract ledger: one step per action.
LEMMA NextExtended ==
  ASSUME Backed(ledger), [Next]_vars
  PROVE  [ExtendedView!Next]_(ExtendedView!vars)
<1>1. /\ Users \subseteq Accounts /\ Modules \subseteq Accounts
      /\ Holders = Accounts \cup {Reserve} /\ ModuleAccounts = Modules \cup {Reserve}
      /\ Holders \ BlockedAddrs \subseteq Users
      /\ EVM \in Modules /\ FeeCollector \in Modules
  BY AccountsAssumption, ModulesAssumption
     DEF Accounts, Holders, ModuleAccounts, BlockedAddrs
<1>2. Backed(ledger')
  BY NextBacked DEF Backed, Sound
<1>3. \A c \in Amounts : c \in Coins /\ Worth(c) \in Nat /\ -Worth(c) \in Int
  BY AmountsAreCoins, WorthNat, SMTT(30)
<1>4. ASSUME NEW from \in Accounts, NEW to \in Accounts, NEW c \in Amounts,
             CanSendCoins(ledger, from, to, c), ledger' = SendCoins(ledger, from, to, c)
      PROVE  ExtendedView!Next
  BY <1>2, <1>3, <1>4, SendCoinsMoves, SentIsTransfer, SMTT(30)
<1>5. ASSUME NEW from \in Users, NEW to \in Holders, NEW c \in Amounts,
             MsgSend(from, to, c)
      PROVE  ExtendedView!Next
  BY <1>1, <1>4, <1>5, SMTT(30) DEF MsgSend
<1>6. ASSUME NEW from \in Users, NEW m \in ModuleAccounts, NEW c \in Amounts,
             SendCoinsFromAccountToModule(from, m, c)
      PROVE  ExtendedView!Next
  BY <1>1, <1>4, <1>6, SMTT(30) DEF SendCoinsFromAccountToModule
<1>7. ASSUME NEW m \in ModuleAccounts, NEW to \in Holders, NEW c \in Amounts,
             SendCoinsFromModuleToAccount(m, to, c)
      PROVE  ExtendedView!Next
  BY <1>1, <1>4, <1>7, SMTT(30) DEF SendCoinsFromModuleToAccount
<1>8. ASSUME NEW from \in Modules, NEW to \in ModuleAccounts, NEW c \in Amounts,
             SendCoinsFromModuleToModule(from, to, c)
      PROVE  ExtendedView!Next
  BY <1>1, <1>4, <1>8 DEF SendCoinsFromModuleToModule
<1>9. ASSUME NEW m, NEW c \in Coins,
             CanBurnCoins(ledger, m, c), ledger' = BurnCoins(ledger, m, c)
      PROVE  ExtendedView!Next
  <2>1. Issued(ledger, ledger', m, -Worth(c)) /\ m \in Modules
    BY <1>9, BurnCoinsIssues, BurnCoinsBacked, SMTT(30)
  <2>2. m \in Accounts /\ -Worth(c) \in Int
    BY <1>1, <2>1, WorthNat, SMTT(30)
  <2> QED
    BY <1>2, <2>1, <2>2, IssuedIsMintOrBurn, ZenonT(40)
<1>10. ASSUME NEW m \in ModuleAccounts, NEW c \in Amounts, ModuleMint(m, c)
       PROVE  ExtendedView!Next
  <2>1. Issued(ledger, ledger', m, Worth(c)) /\ m \in Modules
    BY <1>3, <1>10, MintCoinsIssues, MintCoinsBacked, SMTT(30) DEF ModuleMint
  <2>2. m \in Accounts /\ Worth(c) \in Int
    BY <1>1, <1>3, <2>1, SMTT(30)
  <2> QED
    BY <1>2, <2>1, <2>2, IssuedIsMintOrBurn, ZenonT(40)
<1>11. ASSUME NEW m \in ModuleAccounts, NEW c \in Amounts, ModuleBurn(m, c)
       PROVE  ExtendedView!Next
  BY <1>3, <1>9, <1>11, SMTT(30) DEF ModuleBurn
<1>12. ASSUME NEW a \in Holders, NEW amount \in 0 .. MaxAmount, SetBalance(a, amount)
       PROVE  ExtendedView!Next
  <2> DEFINE current == GetBalance(ledger, a)
  <2>1. amount \in Nat /\ current \in Nat
    BY BalanceNat, BoundsAssumption
  <2>2. CASE amount > current /\ MintAmountToAccount(a, amount - current)
    <3> DEFINE c      == Extended(amount - current)
               minted == MintCoins(ledger, EVM, c)
    <3>1. amount - current \in Nat
      BY <2>1, <2>2
    <3> HIDE DEF current
    <3>2. c \in Coins
      BY <3>1, AmountsAreCoins
    <3>3. /\ CanMintCoins(ledger, EVM, c) /\ a \notin BlockedAddrs
          /\ CanSendCoins(minted, EVM, a, c)
          /\ ledger' = SendCoins(minted, EVM, a, c)
      BY <2>2 DEF MintAmountToAccount
    <3> HIDE DEF c
    <3>4. Backed(minted) /\ Issued(ledger, minted, EVM, Worth(c))
      BY <3>2, <3>3, MintCoinsBacked, MintCoinsIssues, SMTT(30)
    <3> HIDE DEF minted
    <3>5. a \in Accounts /\ EVM \in Accounts
      BY <1>1, <3>3, SMTT(30)
    <3>6. Sent(minted, ledger', EVM, a, Worth(c))
      BY <3>2, <3>3, <3>4, <3>5, SendCoinsMoves, SMTT(30)
    <3>7. Worth(c) \in Int
      BY <3>2, WorthNat
    <3>8. Issued(ledger, ledger', a, Worth(c))
      BY <3>4, <3>6, <3>7, IssuedThroughModule, ZenonT(40)
    <3> QED
      BY <1>2, <3>5, <3>7, <3>8, IssuedIsMintOrBurn, ZenonT(40)
  <2>3. CASE amount < current /\ BurnAmountFromAccount(a, current - amount)
    <3> DEFINE c    == Extended(current - amount)
               sent == SendCoins(ledger, a, EVM, c)
    <3>1. current - amount \in Nat
      BY <2>1, <2>3
    <3>2. a \in Accounts /\ EVM \in Accounts
      BY <1>1, <2>1, <2>3, SMTT(30) DEF GetBalance
    <3> HIDE DEF current
    <3>3. c \in Coins
      BY <3>1, AmountsAreCoins
    <3>4. /\ CanSendCoins(ledger, a, EVM, c) /\ CanBurnCoins(sent, EVM, c)
          /\ ledger' = BurnCoins(sent, EVM, c)
      BY <2>3 DEF BurnAmountFromAccount
    <3> HIDE DEF c
    <3>5. Backed(sent) /\ Sent(ledger, sent, a, EVM, Worth(c))
      BY <3>2, <3>3, <3>4, SendCoinsBacked, SendCoinsMoves, SMTT(30)
    <3> HIDE DEF sent
    <3>6. Issued(sent, ledger', EVM, -Worth(c))
      BY <3>3, <3>4, <3>5, BurnCoinsIssues, SMTT(30)
    <3>7. Worth(c) \in Int /\ -Worth(c) \in Int
      BY <3>3, WorthNat
    <3>8. Issued(ledger, ledger', a, -Worth(c))
      BY <3>5, <3>6, <3>7, IssuedThroughModule, ZenonT(40)
    <3> QED
      BY <1>2, <3>2, <3>7, <3>8, IssuedIsMintOrBurn, ZenonT(40)
  <2> QED
    BY <1>12, <2>2, <2>3, SMTT(30) DEF SetBalance
<1>13. ASSUME FeeBurnBeginBlock
       PROVE  ExtendedView!Next
  <2> DEFINE c == Extended(GetBalance(ledger, FeeCollector))
  <2>1. c \in Coins
    BY <1>1, BalanceNat, AmountsAreCoins
  <2>2. CanBurnCoins(ledger, FeeCollector, c) /\ ledger' = BurnCoins(ledger, FeeCollector, c)
    BY <1>13 DEF FeeBurnBeginBlock
  <2> HIDE DEF c
  <2> QED
    BY <1>9, <2>1, <2>2, SMTT(30)
<1>14. ASSUME UNCHANGED vars
       PROVE  UNCHANGED ExtendedView!vars
  BY <1>14 DEF vars, ExtendedView!vars
<1> QED
  BY <1>5, <1>6, <1>7, <1>8, <1>10, <1>11, <1>12, <1>13, <1>14, SMTT(30) DEF Next

\* To the modules that use it, the keeper is an ordinary ledger of extended coins: every
\* SendCoins, MintCoins and BurnCoins, every SetBalance of x/vm and every fee burn moves
\* exactly its amount, with the fractions, the reserve and the remainder out of sight,
\* whatever the accounts, the amounts and the conversion factor are.
THEOREM KeeperIsExtendedLedger == Spec => RefinesExtendedLedger
<1>1. Init => ExtendedView!Init
  BY ExtendedStarts
<1>2. Backed(ledger) /\ [Next]_vars => [ExtendedView!Next]_(ExtendedView!vars)
  BY NextExtended
<1> QED
  BY <1>1, <1>2, BackedAlways, PTL DEF Spec, RefinesExtendedLedger, ExtendedView!Spec
=============================================================================
