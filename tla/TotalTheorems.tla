---------------------------- MODULE TotalTheorems ----------------------------
(***************************************************************************)
(* What holds of the total of a function over a finite set, and induction  *)
(* over such a set.                                                        *)
(***************************************************************************)
EXTENDS Totals, FiniteSetTheorems, TLAPS

\* The units that a function gives one argument are as many as its value there.
LEMMA UnitsOfCardinality ==
  ASSUME NEW S, NEW f \in [S -> Nat], NEW a \in S
  PROVE  /\ IsFiniteSet(UnitsOf(f, a))
         /\ Cardinality(UnitsOf(f, a)) = f[a]
<1>1. IsFiniteSet({a}) /\ Cardinality({a}) = 1
  BY FS_Singleton, SMTT(30)
<1>2. f[a] \in Nat
  OBVIOUS
<1>3. IsFiniteSet(1 .. f[a]) /\ Cardinality(1 .. f[a]) = f[a]
  <2>1. IsFiniteSet(1 .. f[a])
    BY <1>2, FS_Interval
  <2>2. Cardinality(1 .. f[a]) = IF 1 > f[a] THEN 0 ELSE f[a] - 1 + 1
    BY <1>2, FS_Interval
  <2> QED
    BY <1>2, <2>1, <2>2
<1>4. /\ IsFiniteSet({a} \X (1 .. f[a]))
      /\ Cardinality({a} \X (1 .. f[a]))
           = Cardinality({a}) * Cardinality(1 .. f[a])
  BY <1>1, <1>3, FS_Product
<1>5. UnitsOf(f, a) = {a} \X (1 .. f[a])
  BY DEF UnitsOf
<1> QED
  BY <1>1, <1>2, <1>3, <1>4, <1>5

\* The units of all arguments are finitely many.
LEMMA UnitsFinite ==
  ASSUME NEW S, IsFiniteSet(S), NEW f \in [S -> Nat], NEW D, D \subseteq S
  PROVE  IsFiniteSet(UNION {UnitsOf(f, a) : a \in D})
<1>1. IsFiniteSet(D)
  BY FS_Subset
<1>2. IsFiniteSet({UnitsOf(f, a) : a \in D})
  <2> DEFINE T == {UnitsOf(f, a) : a \in D}
             g == [a \in D |-> UnitsOf(f, a)]
  <2>1. g \in Surjection(D, T)
    BY DEF Surjection
  <2> QED
    BY <1>1, <2>1, FS_Surjection
<1>3. \A u \in {UnitsOf(f, a) : a \in D} : IsFiniteSet(u)
  BY UnitsOfCardinality
<1> QED
  BY <1>2, <1>3, FS_UNION

\* The total of a function over a finite set is a number.
LEMMA TotalNat ==
  ASSUME NEW S, IsFiniteSet(S), NEW f \in [S -> Nat]
  PROVE  Total(f) \in Nat
<1>1. IsFiniteSet(UNION {UnitsOf(f, a) : a \in S})
  BY UnitsFinite
<1> QED
  BY <1>1, FS_CardinalityType DEF Total

\* Changing a function at one argument changes its total by as much.
LEMMA TotalExcept ==
  ASSUME NEW S, IsFiniteSet(S), NEW f \in [S -> Nat], NEW a \in S, NEW v \in Nat
  PROVE  Total([f EXCEPT ![a] = v]) = Total(f) - f[a] + v
<1> DEFINE g       == [f EXCEPT ![a] = v]
           Rest(h) == UNION {UnitsOf(h, b) : b \in S \ {a}}
<1>1. ASSUME NEW h \in [S -> Nat]
      PROVE  /\ IsFiniteSet(Rest(h))
             /\ Total(h) = Cardinality(Rest(h)) + h[a]
  <2>1. IsFiniteSet(Rest(h))
    <3>1. S \ {a} \subseteq S
      OBVIOUS
    <3> QED
      BY <3>1, UnitsFinite, Zenon
  <2>2. IsFiniteSet(UnitsOf(h, a)) /\ Cardinality(UnitsOf(h, a)) = h[a]
    BY UnitsOfCardinality
  <2>3. Rest(h) \cap UnitsOf(h, a) = {}
    BY DEF UnitsOf
  <2>4. UNION {UnitsOf(h, b) : b \in DOMAIN h} = Rest(h) \cup UnitsOf(h, a)
    OBVIOUS
  <2>5. Cardinality(Rest(h)) \in Nat
    BY <2>1, FS_CardinalityType
  <2>6. Cardinality(Rest(h) \cup UnitsOf(h, a))
          = Cardinality(Rest(h)) + Cardinality(UnitsOf(h, a)) - Cardinality({})
    BY <2>1, <2>2, <2>3, FS_Union
  <2>7. Cardinality({}) = 0
    BY FS_EmptySet
  <2>8. Total(h) = Cardinality(Rest(h) \cup UnitsOf(h, a))
    BY <2>4, Zenon DEF Total
  <2> HIDE DEF Rest
  <2> QED
    BY <2>1, <2>2, <2>5, <2>6, <2>7, <2>8
<1>2. g \in [S -> Nat] /\ g[a] = v
  OBVIOUS
<1>3. Rest(g) = Rest(f)
  <2>1. \A b \in S \ {a} : UnitsOf(g, b) = UnitsOf(f, b)
    BY DEF UnitsOf
  <2> QED
    BY <2>1, Zenon
<1>4. Cardinality(Rest(f)) \in Nat
  BY <1>1, FS_CardinalityType
<1> HIDE DEF g, Rest
<1>5. Total(g) = Cardinality(Rest(g)) + g[a] /\ Total(f) = Cardinality(Rest(f)) + f[a]
  BY <1>1, <1>2
<1>6. f[a] \in Nat
  OBVIOUS
<1>7. Total(g) = Total(f) - f[a] + v
  BY <1>2, <1>3, <1>4, <1>5, <1>6
<1> QED
  BY <1>7 DEF g

\* A function's total is at least the sum of two of its values.
LEMMA TotalAtLeastTwo ==
  ASSUME NEW S, IsFiniteSet(S), NEW f \in [S -> Nat],
         NEW a \in S, NEW b \in S, a # b
  PROVE  f[a] + f[b] <= Total(f)
<1> DEFINE g == [f EXCEPT ![a] = 0]
<1>1. 0 \in Nat
  OBVIOUS
<1>2. g \in [S -> Nat] /\ g[b] = f[b]
  OBVIOUS
<1>3. Total(g) = Total(f) - f[a] + 0
  BY <1>1, TotalExcept, Zenon
<1> HIDE DEF g
<1> DEFINE h == [g EXCEPT ![b] = 0]
<1>4. h \in [S -> Nat]
  BY <1>2
<1>5. Total(h) = Total(g) - g[b] + 0
  BY <1>1, <1>2, TotalExcept, Zenon
<1> HIDE DEF h
<1>6. Total(f) \in Nat /\ Total(g) \in Nat /\ Total(h) \in Nat
  BY <1>2, <1>4, TotalNat
<1>7. f[a] \in Nat /\ f[b] \in Nat
  OBVIOUS
<1> QED
  BY <1>2, <1>3, <1>5, <1>6, <1>7

\* A function's total is at least any of its values.
LEMMA TotalAtLeast ==
  ASSUME NEW S, IsFiniteSet(S), NEW f \in [S -> Nat], NEW a \in S
  PROVE  f[a] <= Total(f)
<1> DEFINE g == [f EXCEPT ![a] = 0]
<1>1. 0 \in Nat
  OBVIOUS
<1>2. g \in [S -> Nat]
  OBVIOUS
<1>3. Total(g) = Total(f) - f[a] + 0
  BY <1>1, TotalExcept, Zenon
<1> HIDE DEF g
<1>4. Total(f) \in Nat /\ Total(g) \in Nat /\ f[a] \in Nat
  BY <1>2, TotalNat
<1> QED
  BY <1>3, <1>4

\* What a function leaves out at one argument is missing from its total.
LEMMA TotalWithout ==
  ASSUME NEW S, IsFiniteSet(S), NEW f \in [S -> Nat], NEW a \in S
  PROVE  Total(f) = Total([x \in S \ {a} |-> f[x]]) + f[a]
<1> DEFINE g    == [x \in S \ {a} |-> f[x]]
           Rest == UNION {UnitsOf(f, b) : b \in S \ {a}}
<1>1. IsFiniteSet(Rest)
  <2>1. S \ {a} \subseteq S
    OBVIOUS
  <2> QED
    BY <2>1, UnitsFinite, Zenon
<1>2. IsFiniteSet(UnitsOf(f, a)) /\ Cardinality(UnitsOf(f, a)) = f[a]
  BY UnitsOfCardinality
<1>3. Rest \cap UnitsOf(f, a) = {}
  BY DEF UnitsOf
<1>4. UNION {UnitsOf(f, b) : b \in DOMAIN f} = Rest \cup UnitsOf(f, a)
  OBVIOUS
<1>5. Cardinality(Rest \cup UnitsOf(f, a))
        = Cardinality(Rest) + Cardinality(UnitsOf(f, a)) - Cardinality({})
  BY <1>1, <1>2, <1>3, FS_Union
<1>6. Total(f) = Cardinality(Rest \cup UnitsOf(f, a))
  BY <1>4, Zenon DEF Total
<1>7. \A b \in S \ {a} : UnitsOf(g, b) = UnitsOf(f, b)
  BY DEF UnitsOf
<1>8. UNION {UnitsOf(g, b) : b \in DOMAIN g} = Rest
  BY <1>7, Zenon
<1>9. Total(g) = Cardinality(Rest)
  BY <1>8, Zenon DEF Total
<1>10. Cardinality(Rest) \in Nat /\ Cardinality({}) = 0
  BY <1>1, FS_CardinalityType, FS_EmptySet
<1> HIDE DEF g, Rest
<1>11. Total(f) = Total(g) + f[a]
  BY <1>2, <1>5, <1>6, <1>9, <1>10
<1> QED
  BY <1>11 DEF g

\* The total of a function without arguments is zero.
LEMMA TotalEmpty ==
  ASSUME NEW f, DOMAIN f = {}
  PROVE  Total(f) = 0
<1>1. UNION {UnitsOf(f, a) : a \in DOMAIN f} = {}
  OBVIOUS
<1> QED
  BY <1>1, FS_EmptySet, Zenon DEF Total

\* The total of a sequence of numbers with one more at its end.
LEMMA TotalOneMore ==
  ASSUME NEW n \in Nat, NEW f \in [1 .. n + 1 -> Nat]
  PROVE  Total(f) = Total([i \in 1 .. n |-> f[i]]) + f[n + 1]
<1>1. IsFiniteSet(1 .. n + 1)
  BY FS_Interval
<1>2. n + 1 \in 1 .. n + 1 /\ (1 .. n + 1) \ {n + 1} = 1 .. n
  OBVIOUS
<1>3. Total(f) = Total([i \in (1 .. n + 1) \ {n + 1} |-> f[i]]) + f[n + 1]
  BY <1>1, <1>2, TotalWithout, ZenonT(40)
<1> QED
  BY <1>2, <1>3

\* Induction over a finite set: a collection of its subsets that has the empty set
\* and with each set the larger ones by one element has them all.
LEMMA SubsetInduction ==
  ASSUME NEW S, IsFiniteSet(S), NEW Good, {} \in Good,
         \A D \in SUBSET S : \A x \in S \ D : D \in Good => D \cup {x} \in Good
  PROVE  SUBSET S \subseteq Good
<1> DEFINE Bad == (SUBSET S) \ Good
<1> SUFFICES ASSUME Bad # {} PROVE FALSE
  OBVIOUS
<1>1. Bad \subseteq FiniteSubsetsOf(S)
  <2>1. \A D \in SUBSET S : IsFiniteSet(D)
    BY FS_Subset
  <2> QED
    BY <2>1 DEF FiniteSubsetsOf
<1>2. IsWellFoundedOn(StrictSubsetOrdering(S), FiniteSubsetsOf(S))
  BY FS_StrictSubsetOrderingWellFounded
<1>3. PICK D \in Bad : \A E \in Bad : <<E, D>> \notin StrictSubsetOrdering(S)
  <2> HIDE DEF Bad
  <2> QED
    BY <1>1, <1>2, WFMin, Zenon
<1>4. PICK x \in D : TRUE
  BY Zenon
<1>5. D \ {x} \notin Bad
  BY <1>3, <1>4, Zenon DEF StrictSubsetOrdering
<1>6. (D \ {x}) \cup {x} = D /\ D \ {x} \in Good
  BY <1>4, <1>5
<1> QED
  BY <1>4, <1>6, Zenon
\* Arguments at which a function is zero add nothing to its total.
LEMMA TotalZeros ==
  ASSUME NEW S, NEW f \in [S -> Nat], NEW D \in SUBSET S, \A a \in S \ D : f[a] = 0
  PROVE  Total(f) = Total([a \in D |-> f[a]])
<1> DEFINE g == [a \in D |-> f[a]]
<1>1. \A a \in S \ D : UnitsOf(f, a) = {}
  BY DEF UnitsOf
<1>2. \A a \in D : UnitsOf(g, a) = UnitsOf(f, a)
  BY DEF UnitsOf
<1>3. DOMAIN f = S /\ DOMAIN g = D
  OBVIOUS
<1> HIDE DEF g
<1>4. UNION {UnitsOf(f, a) : a \in DOMAIN f} = UNION {UnitsOf(g, a) : a \in DOMAIN g}
  BY <1>1, <1>2, <1>3
<1> QED
  BY <1>4, Zenon DEF Total, g

\* Products distribute over one more summand, and keep an order.
LEMMA ScaledSum ==
  \A a, b, c, d, r, t \in Nat : a * t <= r * b /\ c * t <= r * d => (a + c) * t <= r * (b + d)
  OBVIOUS

\* Shares: if each value of one function is at most a fixed share of that of another,
\* so is its total.
LEMMA TotalShares ==
  ASSUME NEW S, IsFiniteSet(S), NEW f \in [S -> Nat], NEW g \in [S -> Nat],
         NEW r \in Nat, NEW t \in Nat, \A a \in S : f[a] * t <= r * g[a]
  PROVE  Total(f) * t <= r * Total(g)
<1> DEFINE F(D) == Total([a \in D |-> f[a]])
           G(D) == Total([a \in D |-> g[a]])
           Good == {D \in SUBSET S : F(D) * t <= r * G(D)}
<1>1. {} \in Good
  <2>1. F({}) = 0 /\ G({}) = 0
    BY TotalEmpty
  <2> HIDE DEF F, G
  <2> QED
    BY <2>1
<1>2. ASSUME NEW D \in SUBSET S, NEW x \in S \ D, D \in Good
      PROVE  D \cup {x} \in Good
  <2> DEFINE E == D \cup {x}
  <2>1. IsFiniteSet(D) /\ IsFiniteSet(E) /\ E \ {x} = D /\ x \in E
    BY FS_Subset
  <2>2. ASSUME NEW h \in [S -> Nat]
        PROVE  /\ Total([a \in D |-> h[a]]) \in Nat
               /\ Total([a \in E |-> h[a]]) = Total([a \in D |-> h[a]]) + h[x]
    <3> DEFINE k == [a \in E |-> h[a]]
    <3>1. k \in [E -> Nat] /\ [a \in D |-> h[a]] \in [D -> Nat] /\ k[x] = h[x]
      OBVIOUS
    <3>2. [a \in E \ {x} |-> k[a]] = [a \in D |-> h[a]]
      BY <2>1
    <3> HIDE DEF k, E
    <3>3. Total(k) = Total([a \in E \ {x} |-> k[a]]) + k[x]
      BY <2>1, <3>1, TotalWithout, ZenonT(40)
    <3>4. Total([a \in D |-> h[a]]) \in Nat
      BY <2>1, <3>1, TotalNat, Zenon
    <3>5. Total(k) = Total([a \in D |-> h[a]]) + h[x]
      BY <3>1, <3>2, <3>3
    <3> QED
      BY <3>4, <3>5 DEF k
  <2>3. /\ F(D) \in Nat /\ F(E) = F(D) + f[x]
        /\ G(D) \in Nat /\ G(E) = G(D) + g[x]
    BY <2>2, Zenon
  <2>4. F(D) * t <= r * G(D) /\ f[x] * t <= r * g[x]
    BY <1>2
  <2>5. f[x] \in Nat /\ g[x] \in Nat
    OBVIOUS
  <2> HIDE DEF F, G, E
  <2>6. F(E) * t <= r * G(E)
    BY <2>3, <2>4, <2>5, ScaledSum
  <2> QED
    BY <2>6 DEF E
<1> HIDE DEF Good
<1>3. SUBSET S \subseteq Good
  BY <1>1, <1>2, SubsetInduction, Zenon
<1>4. F(S) * t <= r * G(S)
  BY <1>3 DEF Good
<1>5. f = [a \in S |-> f[a]] /\ g = [a \in S |-> g[a]]
  OBVIOUS
<1> QED
  BY <1>4, <1>5, Zenon
=============================================================================
