------------------------- MODULE HolderStoreProofs -------------------------
(***************************************************************************)
(* Lemmas about SumOf, the sum of a holding function counted as unit       *)
(* tokens: the ledgers' conservation proofs rest on SumExcept, which says  *)
(* how the sum moves when one address's holding is overwritten, the        *)
(* single change changeShare makes to the holdings.                        *)
(***************************************************************************)
EXTENDS HolderStore, FiniteSetTheorems, TLAPS

\* hashmap_set keeps the store a function from its keys to the records.
LEMMA HashmapSetType ==
  ASSUME NEW S, NEW m, NEW k, NEW v \in S,
         m \in [DOMAIN m -> S]
  PROVE  /\ DOMAIN HashmapSet(m, k, v) = DOMAIN m \cup {k}
         /\ HashmapSet(m, k, v) \in [DOMAIN m \cup {k} -> S]
BY DEF HashmapSet


\* Address a contributes exactly h[a] tokens.
LEMMA UnitsOfCard ==
  ASSUME NEW h, NEW a, h[a] \in Nat
  PROVE  /\ IsFiniteSet(UnitsOf(h, a))
         /\ Cardinality(UnitsOf(h, a)) = h[a]
<1> DEFINE n == h[a]
           f == [i \in 1 .. n |-> <<a, i>>]
<1>1. f \in Bijection(1 .. n, UnitsOf(h, a))
  BY DEF Bijection, Injection, Surjection, IsInjective, UnitsOf
<1>2. IsFiniteSet(1 .. n) /\ Cardinality(1 .. n) = n
  BY FS_Interval
<1> QED
  BY <1>1, <1>2, FS_Bijection DEF ExistsBijection

\* The tokens of the addresses of a finite set D form a finite set.
LEMMA UnitsFinite ==
  ASSUME NEW h, NEW D, IsFiniteSet(D), \A a \in D : h[a] \in Nat
  PROVE  IsFiniteSet(UNION {UnitsOf(h, a) : a \in D})
<1> DEFINE T == {UnitsOf(h, a) : a \in D}
           f == [a \in D |-> UnitsOf(h, a)]
<1>1. f \in Surjection(D, T)
  BY DEF Surjection
<1>2. IsFiniteSet(T)
  BY <1>1, FS_Surjection
<1>3. \A X \in T : IsFiniteSet(X)
  BY UnitsOfCard
<1> QED
  BY <1>2, <1>3, FS_UNION

\* The sum of a holding function over a finite set is a natural number.
LEMMA SumNat ==
  ASSUME NEW h, IsFiniteSet(DOMAIN h), \A a \in DOMAIN h : h[a] \in Nat
  PROVE  SumOf(h) \in Nat
BY UnitsFinite, FS_CardinalityType DEF SumOf, Units

(***************************************************************************)
(* Splitting the sum at one address d: the tokens of the other addresses   *)
(* and the h[d] tokens of d are disjoint.                                  *)
(***************************************************************************)
LEMMA SumSplit ==
  ASSUME NEW h, IsFiniteSet(DOMAIN h), \A a \in DOMAIN h : h[a] \in Nat,
         NEW d \in DOMAIN h
  PROVE  LET R == UNION {UnitsOf(h, a) : a \in DOMAIN h \ {d}}
         IN  /\ IsFiniteSet(R)
             /\ SumOf(h) = Cardinality(R) + h[d]
<1> DEFINE R == UNION {UnitsOf(h, a) : a \in DOMAIN h \ {d}}
           C == UnitsOf(h, d)
<1>1. IsFiniteSet(DOMAIN h \ {d})
  BY FS_RemoveElement
<1>2. IsFiniteSet(R)
  BY <1>1, UnitsFinite
<1>3. IsFiniteSet(C) /\ Cardinality(C) = h[d]
  BY UnitsOfCard
<1>4. Units(h) = R \cup C
  BY DEF Units
<1>5. R \cap C = {}
  BY DEF UnitsOf
<1>6. Cardinality(R \cup C) = Cardinality(R) + Cardinality(C)
  <2>1. Cardinality(R \cup C)
          = Cardinality(R) + Cardinality(C) - Cardinality(R \cap C)
    BY <1>2, <1>3, FS_Union
  <2>2. Cardinality(R \cap C) = 0
    BY <1>5, FS_EmptySet
  <2>3. Cardinality(R) \in Nat
    BY <1>2, FS_CardinalityType
  <2> QED
    BY <1>3, <2>1, <2>2, <2>3
<1> QED
  BY <1>2, <1>3, <1>4, <1>6 DEF SumOf

\* No address holds more than the sum.
LEMMA SumBound ==
  ASSUME NEW h, IsFiniteSet(DOMAIN h), \A a \in DOMAIN h : h[a] \in Nat,
         NEW d \in DOMAIN h
  PROVE  h[d] <= SumOf(h)
<1> DEFINE R == UNION {UnitsOf(h, a) : a \in DOMAIN h \ {d}}
<1>1. IsFiniteSet(R) /\ SumOf(h) = Cardinality(R) + h[d]
  BY SumSplit
<1>2. Cardinality(R) \in Nat
  BY <1>1, FS_CardinalityType
<1> QED
  BY <1>1, <1>2

(***************************************************************************)
(* Overwriting the holding of one address d with n changes the sum by      *)
(* n - h[d].                                                               *)
(***************************************************************************)
LEMMA SumExcept ==
  ASSUME NEW h, IsFiniteSet(DOMAIN h), \A a \in DOMAIN h : h[a] \in Nat,
         NEW d \in DOMAIN h, NEW n \in Nat
  PROVE  SumOf([h EXCEPT ![d] = n]) = SumOf(h) - h[d] + n
<1> DEFINE g == [h EXCEPT ![d] = n]
           X == Cardinality(UNION {UnitsOf(h, a) : a \in DOMAIN h \ {d}})
<1> SUFFICES SumOf(g) = SumOf(h) - h[d] + n
  OBVIOUS
<1>1. DOMAIN g = DOMAIN h /\ g[d] = n
  OBVIOUS
<1>2. \A a \in DOMAIN g : g[a] \in Nat
  OBVIOUS
<1>3. \A a \in DOMAIN h \ {d} : UnitsOf(g, a) = UnitsOf(h, a)
  BY DEF UnitsOf
<1>4. UNION {UnitsOf(g, a) : a \in DOMAIN g \ {d}}
        = UNION {UnitsOf(h, a) : a \in DOMAIN h \ {d}}
  BY <1>1, <1>3
<1>5. SumOf(g) = X + n
  <2>1. SumOf(g) = Cardinality(UNION {UnitsOf(g, a) : a \in DOMAIN g \ {d}}) + g[d]
    BY <1>1, <1>2, SumSplit
  <2> QED
    BY <1>1, <1>4, <2>1
<1>6. SumOf(h) = X + h[d]
  BY SumSplit
<1>7. X \in Nat /\ h[d] \in Nat
  BY SumSplit, FS_CardinalityType
<1> HIDE DEF g, X
<1> QED
  BY <1>5, <1>6, <1>7

\* A holding function that is zero everywhere sums to zero.
LEMMA SumZero ==
  ASSUME NEW h, \A a \in DOMAIN h : h[a] = 0
  PROVE  SumOf(h) = 0
<1>1. Units(h) = {}
  BY DEF Units, UnitsOf
<1> QED
  BY <1>1, FS_EmptySet DEF SumOf
=============================================================================
