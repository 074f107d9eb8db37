----------------------------- MODULE AssetLedger -----------------------------
(***************************************************************************)
(* What a token pair promises its holders: a token and its coin are one    *)
(* asset.  Every owner has one amount of it, in whichever form, and a      *)
(* conversion is not visible.  The asset moves between owners, into and    *)
(* out of the escrow of an IBC channel, or to where nobody can claim it.   *)
(***************************************************************************)
EXTENDS Integers

CONSTANTS
  Owners,
  Tolls      \* what the token contract may keep of a payment

VARIABLES
  worth,     \* worth[o]: what owner o has in both forms
  transit,   \* what is in the escrow of the channel
  limbo,     \* what was left to the module, and no coin outside of it claims
  alive      \* whether the contract is there

vars == <<worth, transit, limbo, alive>>

Init ==
  /\ worth \in [Owners -> Nat]
  /\ transit = 0
  /\ limbo = 0
  /\ alive = TRUE

\* Owner o pays amt of what they have, w, of which got arrives at owner p.  Who
\* pays themselves, as in a conversion, pays the toll.
Paid(w, o, p, amt, got) ==
  [q \in Owners |-> w[q] - (IF q = o THEN amt ELSE 0) + (IF q = p THEN got ELSE 0)]

Pay(o, p) ==
  /\ UNCHANGED <<transit, alive>>
  /\ \E w \in {worth} : \E amt \in 1 .. w[o], toll \in Tolls :
       worth' = Paid(w, o, p, amt, amt - toll)
  /\ UNCHANGED limbo

\* Tokens given to the module are claimed by no coin.
Give(o) ==
  /\ UNCHANGED <<transit, alive>>
  /\ \E w \in {worth} : \E amt \in 1 .. w[o], toll \in Tolls :
       /\ worth' = [w EXCEPT ![o] = @ - amt]
       /\ limbo' = limbo + amt - toll

Send(o) ==
  /\ \E amt \in 1 .. worth[o], toll \in Tolls :
       /\ transit' = transit + amt - toll
       /\ worth' = [worth EXCEPT ![o] = @ - amt]
  /\ UNCHANGED <<limbo, alive>>

\* A packet arrives or comes back.
Receive(o) ==
  /\ \E amt \in 1 .. transit, toll \in Tolls :
       /\ transit' = transit - amt
       /\ worth' = [worth EXCEPT ![o] = @ + amt - toll]
  /\ UNCHANGED <<limbo, alive>>

\* A packet arrives or comes back, and the module keeps it.
Strand ==
  /\ \E amt \in 1 .. transit :
       /\ transit' = transit - amt
       /\ limbo' = limbo + amt
  /\ UNCHANGED <<worth, alive>>

\* The contract destroys itself once, and all that is in the form of tokens is lost.
Perish ==
  /\ alive
  /\ alive' = FALSE
  /\ \A o \in Owners : worth'[o] <= worth[o]
  /\ worth' \in [Owners -> Nat]
  /\ limbo' = 0
  /\ UNCHANGED transit

\* A step of an owner is visible: a conversion that costs nothing is none.
Next ==
  \/ /\ <<worth', transit'>> # <<worth, transit>>
     /\ \/ \E o, p \in Owners : Pay(o, p)
        \/ \E o \in Owners : Give(o) \/ Send(o) \/ Receive(o)
  \/ Strand
  \/ Perish

Spec == Init /\ [][Next]_vars
=============================================================================
