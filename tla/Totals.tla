------------------------------- MODULE Totals -------------------------------
(***************************************************************************)
(* The total of a function with values in Nat and a finite domain, counted *)
(* in units: f[a] of them for each a.                                      *)
(***************************************************************************)
EXTENDS Integers, FiniteSets

UnitsOf(f, a) == {a} \X (1 .. f[a])

Total(f) == Cardinality(UNION {UnitsOf(f, a) : a \in DOMAIN f})
=============================================================================
