---------------------------- MODULE ExtendedLedger ----------------------------
(***************************************************************************)
(* What x/precisebank promises the modules that use it: a ledger of        *)
(* extended coins with one balance per account and a supply, as x/bank     *)
(* would keep it if the extended coin were an ordinary denomination.       *)
(* Integer coins, fractions, the reserve and the remainder are invisible   *)
(* here.                                                                   *)
(***************************************************************************)
EXTENDS Integers

CONSTANT Accounts    \* every account that has an extended balance

VARIABLES balance,   \* balance[a]: the extended coins of account a
          supply     \* the extended coins there are

vars == <<balance, supply>>

Init == balance \in [Accounts -> Nat] /\ supply \in Nat

\* A transfer moves exactly its amount, and needs all of it to be there.
Transfer(from, to) ==
  /\ \E amt \in 0 .. balance[from] :
       balance' = [[balance EXCEPT ![from] = @ - amt] EXCEPT ![to] = @ + amt]
  /\ UNCHANGED supply

\* Minting and burning change one balance, and the supply by as much.
MintOrBurn(a) ==
  /\ balance'[a] \in Nat
  /\ balance' = [balance EXCEPT ![a] = balance'[a]]
  /\ supply' - supply = balance'[a] - balance[a]

Next ==
  \/ \E from, to \in Accounts : Transfer(from, to)
  \/ \E a \in Accounts : MintOrBurn(a)

Spec == Init /\ [][Next]_vars
=============================================================================
