----------------------------- MODULE SumTheorems -----------------------------
(***************************************************************************)
(* What the sums of the models, folds of + over a finite set, are equal    *)
(* to.  A fold is a recursive function on the subsets of the set: that it  *)
(* exists, and what it returns, are shown by looking at a least set for    *)
(* which they would fail, with the library's WFMin.                        *)
(***************************************************************************)
EXTENDS Naturals, FiniteSets, Functions, FiniteSetTheorems, WellFoundedInduction, TLAPS

\* Induction over the subsets of a finite set, for a set of subsets.
LEMMA SubsetInduction ==
    ASSUME NEW S, IsFiniteSet(S), NEW G,
           \A T \in SUBSET S : (\A U \in (SUBSET T) \ {T} : U \in G) => T \in G
    PROVE  SUBSET S \subseteq G
<1> DEFINE bad == (SUBSET S) \ G
<1> SUFFICES ASSUME bad # {} PROVE FALSE
  OBVIOUS
<1>1. IsWellFoundedOn(StrictSubsetOrdering(S), SUBSET S)
  <2>1. FiniteSubsetsOf(S) = SUBSET S
    BY FS_FiniteSubsetsOfFinite
  <2>2. IsWellFoundedOn(StrictSubsetOrdering(S), FiniteSubsetsOf(S))
    BY FS_StrictSubsetOrderingWellFounded
  <2> QED BY <2>1, <2>2
<1>2. bad \subseteq SUBSET S
  OBVIOUS
<1>3. PICK T \in bad : \A U \in bad : ~(<<U, T>> \in StrictSubsetOrdering(S))
  <2> HIDE DEF bad
  <2> QED BY <1>1, <1>2, WFMin
<1>4. ASSUME NEW U \in (SUBSET T) \ {T} PROVE U \in G
  <2>1. <<U, T>> \in StrictSubsetOrdering(S)
    BY DEF StrictSubsetOrdering
  <2> QED BY <1>3, <2>1
<1> QED BY <1>4

-----------------------------------------------------------------------------
(* The recursive function behind the fold.                                 *)

Chosen(s) == CHOOSE x \in s : TRUE
IsSum(it, f, S) ==
    it = [s \in SUBSET S |-> IF s = {} THEN 0 ELSE f[Chosen(s)] + it[s \ {Chosen(s)}]]

LEMMA SumIsRecursive ==
    ASSUME NEW f, NEW S
    PROVE  SumFunctionOnSet(f, S) = (CHOOSE it : IsSum(it, f, S))[S]
  BY DEF SumFunctionOnSet, FoldFunctionOnSet, MapThenFoldSet, IsSum, Chosen

LEMMA ChosenIn == ASSUME NEW s, s # {} PROVE Chosen(s) \in s
  BY DEF Chosen

LEMMA SumValue ==
    ASSUME NEW f, NEW S, NEW it, IsSum(it, f, S), NEW s \in SUBSET S
    PROVE  it[s] = IF s = {} THEN 0 ELSE f[Chosen(s)] + it[s \ {Chosen(s)}]
<1> DEFINE body(g, t) == IF t = {} THEN 0 ELSE f[Chosen(t)] + g[t \ {Chosen(t)}]
<1>1. it = [t \in SUBSET S |-> body(it, t)]
  BY DEF IsSum
<1> HIDE DEF body
<1>2. it[s] = body(it, s)
  BY <1>1
<1> QED BY <1>2 DEF body

\* Two such functions agree where both are defined.
LEMMA SumsAgree ==
    ASSUME NEW f, NEW S, IsFiniteSet(S), NEW T, S \subseteq T,
           NEW i, IsSum(i, f, S), NEW j, IsSum(j, f, T)
    PROVE  i[S] = j[S]
<1> DEFINE G == {s \in SUBSET S : i[s] = j[s]}
<1>1. ASSUME NEW s \in SUBSET S, \A U \in (SUBSET s) \ {s} : U \in G
      PROVE  s \in G
  <2>1. s \in SUBSET T
    OBVIOUS
  <2>2. i[s] = IF s = {} THEN 0 ELSE f[Chosen(s)] + i[s \ {Chosen(s)}]
    BY SumValue
  <2>3. j[s] = IF s = {} THEN 0 ELSE f[Chosen(s)] + j[s \ {Chosen(s)}]
    BY <2>1, SumValue
  <2>4. s # {} => s \ {Chosen(s)} \in G
    BY <1>1, ChosenIn
  <2> QED BY <2>2, <2>3, <2>4
<1>2. SUBSET S \subseteq G
  <2> HIDE DEF G
  <2> QED BY <1>1, SubsetInduction
<1> QED BY <1>2

\* If there is such a function for S, it gives the fold.
LEMMA SumIs ==
    ASSUME NEW f, NEW S, IsFiniteSet(S), NEW i, IsSum(i, f, S)
    PROVE  SumFunctionOnSet(f, S) = i[S]
<1>1. PICK j : IsSum(j, f, S) /\ j = CHOOSE it : IsSum(it, f, S)
  OBVIOUS
<1> QED BY <1>1, SumsAgree, SumIsRecursive

\* There is one for every finite set.
LEMMA SumExists ==
    ASSUME NEW f, NEW S, IsFiniteSet(S)
    PROVE  \E i : IsSum(i, f, S)
<1> DEFINE G == {s \in SUBSET S : \E i : IsSum(i, f, s)}
<1>1. ASSUME NEW s \in SUBSET S, \A U \in (SUBSET s) \ {s} : U \in G
      PROVE  s \in G
  <2> DEFINE rest(t) == t \ {Chosen(t)}
             i == [t \in SUBSET s |-> IF t = {} THEN 0 ELSE f[Chosen(t)] + SumFunctionOnSet(f, rest(t))]
  <2>1. ASSUME NEW t \in SUBSET s, t # {}
        PROVE  i[rest(t)] = SumFunctionOnSet(f, rest(t))
    <3>1. rest(t) \in (SUBSET s) \ {s} /\ IsFiniteSet(rest(t))
      BY <2>1, ChosenIn, FS_Subset
    <3>2. PICK j : IsSum(j, f, rest(t))
      BY <1>1, <3>1
    <3> DEFINE u == rest(t)
    <3>3. u \in SUBSET u /\ IsFiniteSet(u) /\ u \in SUBSET s /\ IsSum(j, f, u)
      BY <3>1, <3>2
    <3> HIDE DEF u, i
    <3>4. SumFunctionOnSet(f, u) = j[u]
      BY <3>3, SumIs
    <3>5. j[u] = IF u = {} THEN 0 ELSE f[Chosen(u)] + j[rest(u)]
      BY <3>3, SumValue
    <3>6. u # {} => j[rest(u)] = SumFunctionOnSet(f, rest(u))
      <4> SUFFICES ASSUME u # {} PROVE j[rest(u)] = SumFunctionOnSet(f, rest(u))
        OBVIOUS
      <4>1. rest(u) \in SUBSET u /\ rest(u) \in (SUBSET s) \ {s} /\ IsFiniteSet(rest(u))
        BY <3>3, ChosenIn, FS_Subset
      <4>2. PICK k : IsSum(k, f, rest(u))
        BY <1>1, <4>1
      <4> DEFINE v == rest(u)
      <4>3. IsFiniteSet(v) /\ v \subseteq u /\ IsSum(k, f, v)
        BY <4>1, <4>2
      <4> HIDE DEF v
      <4>4. k[v] = j[v] /\ SumFunctionOnSet(f, v) = k[v]
        BY <3>3, <4>3, SumsAgree, SumIs
      <4> QED BY <4>4 DEF v
    <3>7. i[u] = IF u = {} THEN 0 ELSE f[Chosen(u)] + SumFunctionOnSet(f, rest(u))
      BY <3>3 DEF i
    <3> QED BY <3>4, <3>5, <3>6, <3>7 DEF u
  <2>2. ASSUME NEW t \in SUBSET s
        PROVE  (IF t = {} THEN 0 ELSE f[Chosen(t)] + SumFunctionOnSet(f, rest(t)))
                  = (IF t = {} THEN 0 ELSE f[Chosen(t)] + i[t \ {Chosen(t)}])
    BY <2>1
  <2>3. i = [t \in SUBSET s |-> IF t = {} THEN 0 ELSE f[Chosen(t)] + i[t \ {Chosen(t)}]]
    <3> DEFINE a(t) == IF t = {} THEN 0 ELSE f[Chosen(t)] + SumFunctionOnSet(f, rest(t))
               b(t) == IF t = {} THEN 0 ELSE f[Chosen(t)] + i[t \ {Chosen(t)}]
    <3>1. i = [t \in SUBSET s |-> a(t)]
      OBVIOUS
    <3>2. \A t \in SUBSET s : a(t) = b(t)
      BY <2>2
    <3> HIDE DEF a, b, i
    <3>3. i = [t \in SUBSET s |-> b(t)]
      BY <3>1, <3>2
    <3> QED BY <3>3 DEF b
  <2> QED BY <2>3 DEF IsSum
<1>2. SUBSET S \subseteq G
  <2> HIDE DEF G
  <2> QED BY <1>1, SubsetInduction
<1> QED BY <1>2

\* The fold, one element at a time: first the one it takes.
LEMMA SumChosen ==
    ASSUME NEW f, NEW S, IsFiniteSet(S)
    PROVE  SumFunctionOnSet(f, S) =
              IF S = {} THEN 0 ELSE f[Chosen(S)] + SumFunctionOnSet(f, S \ {Chosen(S)})
<1>1. PICK i : IsSum(i, f, S)
  BY SumExists
<1>2. SumFunctionOnSet(f, S) = i[S]
  BY <1>1, SumIs
<1>3. i[S] = IF S = {} THEN 0 ELSE f[Chosen(S)] + i[S \ {Chosen(S)}]
  <2>1. \A s \in SUBSET S : i[s] = IF s = {} THEN 0 ELSE f[Chosen(s)] + i[s \ {Chosen(s)}]
    BY <1>1, SumValue
  <2>2. S \in SUBSET S
    OBVIOUS
  <2> QED BY <2>1, <2>2, Zenon
<1> DEFINE R == S \ {Chosen(S)}
<1>4. IsFiniteSet(R) /\ R \subseteq S
  BY FS_Subset
<1>5. PICK j : IsSum(j, f, R)
  BY <1>4, SumExists
<1>6. SumFunctionOnSet(f, R) = i[R]
  <2> HIDE DEF R
  <2> QED BY <1>1, <1>4, <1>5, SumIs, SumsAgree
<1> QED BY <1>2, <1>3, <1>6

-----------------------------------------------------------------------------
(* Sums of natural numbers.                                                *)

LEMMA SumEmpty == ASSUME NEW f PROVE SumFunctionOnSet(f, {}) = 0
  BY FS_EmptySet, SumChosen

LEMMA SumZero ==
    ASSUME NEW f, NEW S, IsFiniteSet(S), \A x \in S : f[x] = 0
    PROVE  SumFunctionOnSet(f, S) = 0
<1> DEFINE G == {s \in SUBSET S : SumFunctionOnSet(f, s) = 0}
<1>1. ASSUME NEW s \in SUBSET S, \A U \in (SUBSET s) \ {s} : U \in G
      PROVE  s \in G
  <2>1. IsFiniteSet(s)
    BY FS_Subset
  <2>2. s # {} => f[Chosen(s)] = 0 /\ s \ {Chosen(s)} \in G
    BY <1>1, ChosenIn
  <2> QED BY <2>1, <2>2, SumChosen
<1>2. SUBSET S \subseteq G
  <2> HIDE DEF G
  <2> QED BY <1>1, SubsetInduction
<1> QED BY <1>2

LEMMA SumNat ==
    ASSUME NEW f, NEW S, IsFiniteSet(S), \A x \in S : f[x] \in Nat
    PROVE  SumFunctionOnSet(f, S) \in Nat
<1> DEFINE G == {s \in SUBSET S : SumFunctionOnSet(f, s) \in Nat}
<1>1. ASSUME NEW s \in SUBSET S, \A U \in (SUBSET s) \ {s} : U \in G
      PROVE  s \in G
  <2>1. IsFiniteSet(s)
    BY FS_Subset
  <2>2. s # {} => f[Chosen(s)] \in Nat /\ s \ {Chosen(s)} \in G
    BY <1>1, ChosenIn
  <2> QED BY <2>1, <2>2, SumChosen
<1>2. SUBSET S \subseteq G
  <2> HIDE DEF G
  <2> QED BY <1>1, SubsetInduction
<1> QED BY <1>2

\* Any element may be taken first.
LEMMA SumStep ==
    ASSUME NEW f, NEW S, IsFiniteSet(S), \A x \in S : f[x] \in Nat, NEW x \in S
    PROVE  SumFunctionOnSet(f, S) = f[x] + SumFunctionOnSet(f, S \ {x})
<1> DEFINE sum(s) == SumFunctionOnSet(f, s)
           G == {s \in SUBSET S : \A y \in s : sum(s) = f[y] + sum(s \ {y})}
<1>0. \A s \in SUBSET S : IsFiniteSet(s) /\ sum(s) \in Nat
  BY FS_Subset, SumNat
<1>1. ASSUME NEW s \in SUBSET S, \A U \in (SUBSET s) \ {s} : U \in G, NEW y \in s
      PROVE  sum(s) = f[y] + sum(s \ {y})
  <2> DEFINE c == Chosen(s)
  <2>1. c \in s /\ sum(s) = f[c] + sum(s \ {c})
    BY <1>0, ChosenIn, SumChosen
  <2> HIDE DEF c, sum
  <2>2. CASE c = y
    BY <2>1, <2>2
  <2>3. CASE c # y
    <3>1. s \ {c} \in G /\ s \ {y} \in G /\ y \in s \ {c} /\ c \in s \ {y}
      BY <1>1, <2>1, <2>3
    <3>2. (s \ {c}) \ {y} = (s \ {y}) \ {c}
      OBVIOUS
    <3>3. sum(s \ {c}) = f[y] + sum((s \ {c}) \ {y}) /\ sum(s \ {y}) = f[c] + sum((s \ {y}) \ {c})
      BY <3>1
    <3>4. f[c] \in Nat /\ f[y] \in Nat /\ sum((s \ {y}) \ {c}) \in Nat
      BY <1>0, <2>1
    <3> QED BY <2>1, <3>2, <3>3, <3>4
  <2> QED BY <2>2, <2>3
<1>2. SUBSET S \subseteq G
  <2>1. \A s \in SUBSET S : (\A U \in (SUBSET s) \ {s} : U \in G) => s \in G
    BY <1>1
  <2> HIDE DEF G
  <2> QED BY <2>1, SubsetInduction
<1> QED BY <1>2

\* A sum is at most another one with greater terms.
LEMMA SumMonotone ==
    ASSUME NEW f, NEW g, NEW S, IsFiniteSet(S),
           \A x \in S : f[x] \in Nat /\ g[x] \in Nat /\ f[x] <= g[x]
    PROVE  SumFunctionOnSet(f, S) <= SumFunctionOnSet(g, S)
<1> DEFINE sf(s) == SumFunctionOnSet(f, s)
           sg(s) == SumFunctionOnSet(g, s)
           G == {s \in SUBSET S : sf(s) <= sg(s)}
<1>0. \A s \in SUBSET S : IsFiniteSet(s) /\ sf(s) \in Nat /\ sg(s) \in Nat
  BY FS_Subset, SumNat
<1>1. ASSUME NEW s \in SUBSET S, \A U \in (SUBSET s) \ {s} : U \in G
      PROVE  s \in G
  <2>1. CASE s = {}
    BY <2>1, SumEmpty
  <2>2. CASE s # {}
    <3> DEFINE r == s \ {Chosen(s)}
    <3>1. Chosen(s) \in s /\ r \in G /\ r \in SUBSET S
      BY <1>1, <2>2, ChosenIn
    <3>2. sf(s) = f[Chosen(s)] + sf(r) /\ sg(s) = g[Chosen(s)] + sg(r)
      BY <1>0, <2>2, SumChosen
    <3> HIDE DEF r, sf, sg
    <3> QED BY <1>0, <3>1, <3>2
  <2> QED BY <2>1, <2>2
<1>2. SUBSET S \subseteq G
  <2> HIDE DEF G
  <2> QED BY <1>1, SubsetInduction
<1> QED BY <1>2

\* Equal terms, equal sums.
LEMMA SumSame ==
    ASSUME NEW f, NEW g, NEW S, IsFiniteSet(S), \A x \in S : f[x] \in Nat /\ f[x] = g[x]
    PROVE  SumFunctionOnSet(f, S) = SumFunctionOnSet(g, S)
<1>1. \A x \in S : g[x] \in Nat /\ g[x] <= f[x] /\ f[x] <= g[x]
  OBVIOUS
<1>2. SumFunctionOnSet(f, S) <= SumFunctionOnSet(g, S)
      /\ SumFunctionOnSet(g, S) <= SumFunctionOnSet(f, S)
  BY <1>1, SumMonotone
<1> QED BY <1>1, <1>2, SumNat

\* One term grows.
LEMMA SumRaised ==
    ASSUME NEW f, NEW g, NEW S, IsFiniteSet(S), \A x \in S : f[x] \in Nat,
           NEW x \in S, NEW k \in Nat, g[x] = f[x] + k, \A y \in S \ {x} : g[y] = f[y]
    PROVE  SumFunctionOnSet(g, S) = SumFunctionOnSet(f, S) + k
<1> DEFINE R == S \ {x}
<1>1. IsFiniteSet(R) /\ \A y \in S : g[y] \in Nat
  BY FS_Subset
<1>2. SumFunctionOnSet(f, R) = SumFunctionOnSet(g, R) /\ SumFunctionOnSet(f, R) \in Nat
  BY <1>1, SumSame, SumNat
<1>3. /\ SumFunctionOnSet(f, S) = f[x] + SumFunctionOnSet(f, R)
      /\ SumFunctionOnSet(g, S) = g[x] + SumFunctionOnSet(g, R)
  BY <1>1, SumStep
<1> QED BY <1>2, <1>3

\* A part of the terms sums up to less.
LEMMA SumPart ==
    ASSUME NEW f, NEW S, IsFiniteSet(S), \A x \in S : f[x] \in Nat, NEW T \in SUBSET S
    PROVE  SumFunctionOnSet(f, T) <= SumFunctionOnSet(f, S)
<1> DEFINE G == {s \in SUBSET S : SumFunctionOnSet(f, s \cap T) <= SumFunctionOnSet(f, s)}
<1>1. ASSUME NEW s \in SUBSET S, \A U \in (SUBSET s) \ {s} : U \in G
      PROVE  s \in G
  <2>1. CASE s \subseteq T
    <3>1. s \cap T = s /\ SumFunctionOnSet(f, s) \in Nat
      BY <2>1, FS_Subset, SumNat
    <3> QED BY <3>1
  <2>2. CASE ~(s \subseteq T)
    <3>1. PICK x \in s : x \notin T
      BY <2>2
    <3> DEFINE r == s \ {x}
    <3>2. r \in G /\ r \cap T = s \cap T /\ IsFiniteSet(r) /\ IsFiniteSet(s) /\ IsFiniteSet(r \cap T)
      BY <1>1, <3>1, FS_Subset
    <3>3. SumFunctionOnSet(f, s) = f[x] + SumFunctionOnSet(f, r)
      BY <3>2, SumStep
    <3>4. SumFunctionOnSet(f, r) \in Nat /\ SumFunctionOnSet(f, r \cap T) \in Nat
      BY <3>2, SumNat
    <3>5. SumFunctionOnSet(f, r \cap T) <= SumFunctionOnSet(f, r)
      BY <3>2
    <3>6. SumFunctionOnSet(f, r) <= SumFunctionOnSet(f, s)
      <4>1. f[x] \in Nat
        OBVIOUS
      <4> HIDE DEF r
      <4> QED BY <3>3, <3>4, <4>1
    <3> HIDE DEF r
    <3>7. SumFunctionOnSet(f, s \cap T) <= SumFunctionOnSet(f, s)
      <4>1. SumFunctionOnSet(f, s) \in Nat
        BY <3>2, SumNat
      <4> QED BY <3>2, <3>4, <3>5, <3>6, <4>1
    <3> QED BY <3>7
  <2> QED BY <2>1, <2>2
<1>2. SUBSET S \subseteq G
  <2> HIDE DEF G
  <2> QED BY <1>1, SubsetInduction
<1>3. S \cap T = T
  OBVIOUS
<1> QED BY <1>2, <1>3

-----------------------------------------------------------------------------
(* Sums of sizes.                                                          *)

\* The sizes of disjoint finite sets add up to the size of their union.
LEMMA SumOfSizes ==
    ASSUME NEW S, IsFiniteSet(S), NEW F, \A x \in S : IsFiniteSet(F[x]),
           \A x, y \in S : x # y => F[x] \cap F[y] = {}
    PROVE  LET U == UNION {F[x] : x \in S} IN
           /\ IsFiniteSet(U)
           /\ Cardinality(U) = SumFunctionOnSet([x \in S |-> Cardinality(F[x])], S)
<1> DEFINE n == [x \in S |-> Cardinality(F[x])]
           U(s) == UNION {F[x] : x \in s}
           G == {s \in SUBSET S : IsFiniteSet(U(s)) /\ Cardinality(U(s)) = SumFunctionOnSet(n, s)}
<1>1. ASSUME NEW s \in SUBSET S, \A V \in (SUBSET s) \ {s} : V \in G
      PROVE  s \in G
  <2>1. CASE s = {}
    <3>1. U(s) = {}
      BY <2>1
    <3> QED BY <2>1, <3>1, SumEmpty, FS_EmptySet
  <2>2. CASE s # {}
    <3> DEFINE x == Chosen(s)
               r == s \ {x}
    <3>1. x \in s /\ r \in G /\ x \notin r
      BY <1>1, <2>2, ChosenIn
    <3> HIDE DEF x
    <3>2. U(s) = F[x] \cup U(r)
      BY <3>1
    <3>3. F[x] \cap U(r) = {}
      BY <3>1
    <3>4. IsFiniteSet(F[x]) /\ IsFiniteSet(U(r)) /\ Cardinality(U(r)) = SumFunctionOnSet(n, r)
      BY <3>1
    <3>5. /\ IsFiniteSet(F[x] \cup U(r))
          /\ Cardinality(F[x] \cup U(r)) = Cardinality(F[x]) + Cardinality(U(r)) - Cardinality(F[x] \cap U(r))
      <4> HIDE DEF U, r
      <4> QED BY <3>4, FS_Union
    <3>6. SumFunctionOnSet(n, s) = n[x] + SumFunctionOnSet(n, r)
      <4>1. IsFiniteSet(s)
        BY FS_Subset
      <4> HIDE DEF n
      <4> QED BY <2>2, <4>1, SumChosen DEF x
    <3>7. n[x] = Cardinality(F[x]) /\ Cardinality(F[x]) \in Nat /\ Cardinality(U(r)) \in Nat
      <4> HIDE DEF U
      <4> QED BY <3>1, <3>4, FS_CardinalityType
    <3>8. Cardinality(F[x] \cap U(r)) = 0
      <4> HIDE DEF U
      <4> QED BY <3>3, FS_EmptySet
    <3> HIDE DEF U, r, n
    <3>9. IsFiniteSet(U(s)) /\ Cardinality(U(s)) = SumFunctionOnSet(n, s)
      BY <3>2, <3>4, <3>5, <3>6, <3>7, <3>8
    <3> QED BY <3>9
  <2> QED BY <2>1, <2>2
<1>2. SUBSET S \subseteq G
  <2> HIDE DEF G
  <2> QED BY <1>1, SubsetInduction
<1>3. S \in G
  BY <1>2
<1> QED BY <1>3

\* Of sets that may overlap, the sizes add up to no less than the union's.
LEMMA UnionAtMostSizes ==
    ASSUME NEW S, IsFiniteSet(S), NEW F, \A x \in S : IsFiniteSet(F[x])
    PROVE  /\ IsFiniteSet(UNION {F[x] : x \in S})
           /\ Cardinality(UNION {F[x] : x \in S}) <=
                 SumFunctionOnSet([x \in S |-> Cardinality(F[x])], S)
<1> DEFINE n == [x \in S |-> Cardinality(F[x])]
           U(s) == UNION {F[x] : x \in s}
           G == {s \in SUBSET S : IsFiniteSet(U(s)) /\ Cardinality(U(s)) <= SumFunctionOnSet(n, s)}
<1>0. \A x \in S : n[x] \in Nat
  BY FS_CardinalityType
<1>1. ASSUME NEW s \in SUBSET S, \A V \in (SUBSET s) \ {s} : V \in G
      PROVE  s \in G
  <2>1. CASE s = {}
    <3>1. U(s) = {}
      BY <2>1
    <3> QED BY <2>1, <3>1, SumEmpty, FS_EmptySet
  <2>2. CASE s # {}
    <3> DEFINE x == Chosen(s)
               r == s \ {x}
    <3>1. x \in s /\ r \in G /\ x \notin r
      BY <1>1, <2>2, ChosenIn
    <3> HIDE DEF x
    <3>2. U(s) = F[x] \cup U(r)
      BY <3>1
    <3>4. IsFiniteSet(F[x]) /\ IsFiniteSet(U(r)) /\ Cardinality(U(r)) <= SumFunctionOnSet(n, r)
      BY <3>1
    <3>5. /\ IsFiniteSet(F[x] \cup U(r))
          /\ Cardinality(F[x] \cup U(r)) = Cardinality(F[x]) + Cardinality(U(r)) - Cardinality(F[x] \cap U(r))
          /\ Cardinality(F[x] \cap U(r)) \in Nat
      <4> HIDE DEF U, r
      <4>1. IsFiniteSet(F[x] \cap U(r))
        BY <3>4, FS_Subset
      <4> QED BY <3>4, <4>1, FS_Union, FS_CardinalityType
    <3>6. SumFunctionOnSet(n, s) = n[x] + SumFunctionOnSet(n, r) /\ SumFunctionOnSet(n, r) \in Nat
      <4>1. IsFiniteSet(s) /\ IsFiniteSet(r) /\ r \subseteq S
        BY FS_Subset
      <4>2. \A y \in r : n[y] \in Nat
        BY <1>0, <4>1
      <4> HIDE DEF n
      <4>3. SumFunctionOnSet(n, s) = n[x] + SumFunctionOnSet(n, r)
        BY <2>2, <4>1, SumChosen DEF x
      <4>4. SumFunctionOnSet(n, r) \in Nat
        <5> HIDE DEF r
        <5> QED BY <4>1, <4>2, SumNat
      <4> QED BY <4>3, <4>4
    <3>7. n[x] = Cardinality(F[x]) /\ Cardinality(F[x]) \in Nat /\ Cardinality(U(r)) \in Nat
      <4> HIDE DEF U
      <4> QED BY <3>1, <3>4, FS_CardinalityType
    <3> HIDE DEF U, r, n
    <3>9. IsFiniteSet(U(s)) /\ Cardinality(U(s)) <= SumFunctionOnSet(n, s)
      BY <3>2, <3>4, <3>5, <3>6, <3>7
    <3> QED BY <3>9
  <2> QED BY <2>1, <2>2
<1>2. SUBSET S \subseteq G
  <2> HIDE DEF G
  <2> QED BY <1>1, SubsetInduction
<1>3. S \in G
  BY <1>2
<1> QED BY <1>3

\* The values of a function on a finite set are no more than the set.
LEMMA ValuesAtMost ==
    ASSUME NEW S, IsFiniteSet(S), NEW f
    PROVE  IsFiniteSet({f[x] : x \in S}) /\ Cardinality({f[x] : x \in S}) <= Cardinality(S)
<1> DEFINE T == {f[x] : x \in S}
           g == [x \in S |-> f[x]]
<1>1. g \in Surjection(S, T)
  BY DEF Surjection
<1> QED BY <1>1, FS_Surjection
=============================================================================
