----------------------------- MODULE SumProofs ------------------------------
(***************************************************************************)
(* Facts about SumFunction, the sum of the values of a function, for every *)
(* finite domain.  SumFunction is a fold, and so a recursive definition;   *)
(* the way around induction is to count: a value n is n units, the sum of  *)
(* f is the number of its units, and facts about cardinalities do the      *)
(* rest.                                                                   *)
(***************************************************************************)
EXTENDS Integers, Sequences, Functions, FiniteSets, FiniteSetTheorems,
        WellFoundedInduction, TLAPS

(* The units of f over T, and their number. *)
Units(f, T) == UNION {{i} \X (1 .. f[i]) : i \in T}

Total(f, T) == Cardinality(Units(f, T))

(* A unit is an argument in T and a number up to the value there.          *)
LEMMA UnitsElement ==
  ASSUME NEW f, NEW T, NEW u
  PROVE  u \in Units(f, T)
           <=> \E i \in T : \E n \in 1 .. f[i] : u = <<i, n>>
BY DEF Units

(* A function with natural values on a finite set has finitely many units. *)
LEMMA UnitsFinite ==
  ASSUME NEW f, NEW T, IsFiniteSet(T), \A i \in T : f[i] \in Nat
  PROVE  IsFiniteSet(Units(f, T))
<1> DEFINE S == {{i} \X (1 .. f[i]) : i \in T}
           g == [i \in T |-> {i} \X (1 .. f[i])]
<1>1. g \in Surjection(T, S)
  BY DEF Surjection
<1>2. IsFiniteSet(S)
  BY <1>1, FS_Surjection
<1>3. \A U \in S : IsFiniteSet(U)
  <2> TAKE U \in S
  <2>1. PICK i \in T : U = {i} \X (1 .. f[i])
    OBVIOUS
  <2>2. IsFiniteSet({i})
    BY FS_Singleton
  <2>3. f[i] \in Nat
    OBVIOUS
  <2>4. IsFiniteSet(1 .. f[i])
    BY <2>3, FS_Interval
  <2> QED BY <2>1, <2>2, <2>4, FS_Product
<1> QED BY <1>2, <1>3, FS_UNION DEF Units

(* The number of units is a natural, zero for the empty set.               *)
LEMMA TotalType ==
  ASSUME NEW f, NEW T, IsFiniteSet(T), \A i \in T : f[i] \in Nat
  PROVE  Total(f, T) \in Nat
BY UnitsFinite, FS_CardinalityType DEF Total

(* No arguments, no units.                                                 *)
LEMMA TotalEmpty ==
  ASSUME NEW f
  PROVE  Total(f, {}) = 0
<1>1. Units(f, {}) = {}
  BY Zenon DEF Units
<1> QED BY <1>1, FS_EmptySet DEF Total

(* One argument contributes its value.                                     *)
LEMMA TotalRemove ==
  ASSUME NEW f, NEW T, IsFiniteSet(T), \A i \in T : f[i] \in Nat, NEW x \in T
  PROVE  Total(f, T) = f[x] + Total(f, T \ {x})
<1> DEFINE A == {x} \X (1 .. f[x])
           B == Units(f, T \ {x})
<1>1. Units(f, T) = A \cup B
  BY Zenon DEF Units
<1>2. A \cap B = {}
  <2> SUFFICES ASSUME NEW u \in A, u \in B PROVE FALSE
    OBVIOUS
  <2>1. u[1] = x
    OBVIOUS
  <2>2. PICK i \in T \ {x} : \E n \in 1 .. f[i] : u = <<i, n>>
    BY UnitsElement
  <2> QED BY <2>1, <2>2
<1>3. IsFiniteSet(A) /\ Cardinality(A) = f[x]
  <2>1. IsFiniteSet({x}) /\ Cardinality({x}) = 1
    BY FS_Singleton
  <2>2. IsFiniteSet(1 .. f[x]) /\ Cardinality(1 .. f[x]) = f[x]
    BY FS_Interval
  <2> QED BY <2>1, <2>2, FS_Product
<1>4. IsFiniteSet(T \ {x})
  BY FS_RemoveElement
<1>5. IsFiniteSet(B)
  BY <1>4, UnitsFinite
<1>6. Cardinality(B) \in Nat
  BY <1>5, FS_CardinalityType
<1>7. Cardinality({}) = 0
  BY FS_EmptySet
<1> HIDE DEF A, B
<1>8. Cardinality(A \cup B) = Cardinality(A) + Cardinality(B) - Cardinality(A \cap B)
  BY <1>3, <1>5, FS_Union
<1>9. Total(f, T) = f[x] + Cardinality(B)
  <2>1. f[x] \in Nat
    OBVIOUS
  <2>2. Cardinality(A \cup B) = f[x] + Cardinality(B)
    <3>1. Cardinality(A \cap B) = 0
      BY <1>2, <1>7
    <3> QED BY <1>3, <1>6, <1>8, <2>1, <3>1
  <2> QED BY <1>1, <2>2 DEF Total
<1> QED BY <1>9 DEF Total, B

-----------------------------------------------------------------------------
(* SumFunction with its folds expanded: it is the value at the whole domain *)
(* of a function on its subsets, which takes the elements in CHOOSE order. *)
Pick(s) == CHOOSE x \in s : TRUE

SumsOverSubsets(f, S, g) ==
  g = [s \in SUBSET S |-> IF s = {} THEN 0 ELSE f[Pick(s)] + g[s \ {Pick(s)}]]

Partial(f, S) ==
  CHOOSE g : g = [s \in SUBSET S |->
                    IF s = {} THEN 0 ELSE f[Pick(s)] + g[s \ {Pick(s)}]]

(* The sum is that value.                                                  *)
LEMMA SumUnfolded ==
  ASSUME NEW f
  PROVE  SumFunction(f) = Partial(f, DOMAIN f)[DOMAIN f]
BY Zenon DEF SumFunction, SumFunctionOnSet, FoldFunctionOnSet, MapThenFoldSet,
             Partial, Pick

(* The numbers of units satisfy that recursion.                            *)
LEMMA TotalsAreSums ==
  ASSUME NEW f, NEW S, IsFiniteSet(S), \A i \in S : f[i] \in Nat
  PROVE  SumsOverSubsets(f, S, [s \in SUBSET S |-> Total(f, s)])
<1> DEFINE G == [s \in SUBSET S |-> Total(f, s)]
<1>1. ASSUME NEW s \in SUBSET S
      PROVE  Total(f, s) = IF s = {} THEN 0 ELSE f[Pick(s)] + G[s \ {Pick(s)}]
  <2>1. CASE s = {}
    BY <2>1, TotalEmpty
  <2>2. CASE s # {}
    <3>1. Pick(s) \in s
      BY <2>2 DEF Pick
    <3>2. IsFiniteSet(s)
      BY FS_Subset
    <3>3. Total(f, s) = f[Pick(s)] + Total(f, s \ {Pick(s)})
      BY <3>1, <3>2, TotalRemove
    <3>4. G[s \ {Pick(s)}] = Total(f, s \ {Pick(s)})
      OBVIOUS
    <3> QED BY <2>2, <3>3, <3>4
  <2> QED BY <2>1, <2>2
<1> QED BY <1>1 DEF SumsOverSubsets

(* Nothing else does: a smallest subset on which the two differ is absurd. *)
LEMMA SumsAreTotals ==
  ASSUME NEW f, NEW S, IsFiniteSet(S), \A i \in S : f[i] \in Nat,
         NEW g, SumsOverSubsets(f, S, g)
  PROVE  \A s \in SUBSET S : g[s] = Total(f, s)
<1> DEFINE Bad == {n \in Nat : \E s \in SUBSET S :
                     Cardinality(s) = n /\ g[s] # Total(f, s)}
<1>1. \A s \in SUBSET S :
        IsFiniteSet(s) /\ Cardinality(s) \in Nat
  BY FS_Subset, FS_CardinalityType
<1>2. ASSUME NEW s \in SUBSET S, g[s] # Total(f, s) PROVE FALSE
  <2>1. Bad # {}
    BY <1>1, <1>2
  <2>2. PICK n \in Bad : \A m \in Bad : ~(<<m, n>> \in OpToRel(<, Nat))
    BY <2>1, WFMin, NatLessThanWellFounded
  <2>3. PICK t \in SUBSET S : Cardinality(t) = n /\ g[t] # Total(f, t)
    OBVIOUS
  <2>4. g[t] = IF t = {} THEN 0 ELSE f[Pick(t)] + g[t \ {Pick(t)}]
    BY DEF SumsOverSubsets
  <2>5. t # {}
    BY <2>3, <2>4, TotalEmpty
  <2>6. Pick(t) \in t
    BY <2>5 DEF Pick
  <2> DEFINE r == t \ {Pick(t)}
  <2>7. Cardinality(r) = n - 1 /\ r \in SUBSET S /\ n - 1 \in Nat
    <3>1. Cardinality(r) = Cardinality(t) - 1
      BY <1>1, <2>6, FS_RemoveElement
    <3>2. Cardinality(r) \in Nat
      BY <1>1
    <3> QED BY <2>3, <3>1, <3>2
  <2>8. g[r] = Total(f, r)
    <3> SUFFICES ASSUME g[r] # Total(f, r) PROVE FALSE
      OBVIOUS
    <3>1. n - 1 \in Bad
      BY <2>7
    <3>2. n \in Nat /\ n - 1 < n
      OBVIOUS
    <3> QED BY <2>2, <2>7, <3>1, <3>2 DEF OpToRel
  <2>9. Total(f, t) = f[Pick(t)] + Total(f, r)
    BY <1>1, <2>6, TotalRemove
  <2> QED BY <2>3, <2>4, <2>5, <2>8, <2>9
<1> QED BY <1>2

(* The sum of a function is the number of its units.                       *)
LEMMA SumIsTotal ==
  ASSUME NEW f, IsFiniteSet(DOMAIN f), \A i \in DOMAIN f : f[i] \in Nat
  PROVE  SumFunction(f) = Total(f, DOMAIN f)
<1> DEFINE S == DOMAIN f
<1>1. SumsOverSubsets(f, S, Partial(f, S))
  <2>1. \E g : SumsOverSubsets(f, S, g)
    BY TotalsAreSums
  <2> QED BY Zenon, <2>1 DEF Partial, SumsOverSubsets
<1>2. Partial(f, S)[S] = Total(f, S)
  BY <1>1, SumsAreTotals
<1> QED BY <1>2, SumUnfolded

-----------------------------------------------------------------------------
(* What the other modules use.  A sum of naturals is a natural.            *)
LEMMA SumType ==
  ASSUME NEW f, IsFiniteSet(DOMAIN f), \A i \in DOMAIN f : f[i] \in Nat
  PROVE  SumFunction(f) \in Nat
BY SumIsTotal, TotalType

(* A sum of zeros is zero.                                                 *)
LEMMA SumOfZeros ==
  ASSUME NEW f, IsFiniteSet(DOMAIN f), \A i \in DOMAIN f : f[i] = 0
  PROVE  SumFunction(f) = 0
<1>1. Units(f, DOMAIN f) = {}
  <2> SUFFICES ASSUME NEW u \in Units(f, DOMAIN f) PROVE FALSE
    OBVIOUS
  <2>1. PICK i \in DOMAIN f : \E n \in 1 .. f[i] : u = <<i, n>>
    BY UnitsElement
  <2>2. f[i] = 0
    OBVIOUS
  <2> QED BY <2>1, <2>2
<1>2. SumFunction(f) = Total(f, DOMAIN f)
  BY SumIsTotal
<1> QED BY <1>1, <1>2, FS_EmptySet DEF Total

(* Sums over one domain that differ in one term differ by that term.       *)
LEMMA SumChange ==
  ASSUME NEW f, NEW g, NEW x \in DOMAIN f,
         IsFiniteSet(DOMAIN f), DOMAIN g = DOMAIN f,
         \A i \in DOMAIN f : f[i] \in Nat,
         \A i \in DOMAIN g : g[i] \in Nat,
         \A i \in DOMAIN f \ {x} : g[i] = f[i]
  PROVE  SumFunction(g) - g[x] = SumFunction(f) - f[x]
<1> DEFINE R == DOMAIN f \ {x}
<1>1. Units(g, R) = Units(f, R)
  <2>1. \A u : u \in Units(g, R) <=> u \in Units(f, R)
    BY UnitsElement
  <2> QED BY <2>1
<1>2. SumFunction(f) = f[x] + Total(f, R) /\ SumFunction(g) = g[x] + Total(f, R)
  BY <1>1, SumIsTotal, TotalRemove DEF Total
<1>3. Total(f, R) \in Nat /\ f[x] \in Nat /\ g[x] \in Nat
  BY FS_RemoveElement, TotalType
<1> QED BY <1>2, <1>3

(* In particular when one value of a function is replaced.                 *)
LEMMA SumExcept ==
  ASSUME NEW S, IsFiniteSet(S), NEW f \in [S -> Nat], NEW x \in S, NEW v \in Nat
  PROVE  /\ SumFunction(f) \in Nat
         /\ SumFunction([f EXCEPT ![x] = v]) = SumFunction(f) - f[x] + v
<1> DEFINE g == [f EXCEPT ![x] = v]
<1>1. /\ DOMAIN f = S /\ DOMAIN g = S
      /\ g[x] = v
      /\ \A i \in S : f[i] \in Nat /\ g[i] \in Nat
      /\ \A i \in S \ {x} : g[i] = f[i]
  OBVIOUS
<1> HIDE DEF g
<1>2. SumFunction(g) - g[x] = SumFunction(f) - f[x]
  BY <1>1, SumChange
<1>3. SumFunction(f) \in Nat /\ SumFunction(g) \in Nat /\ f[x] \in Nat
  BY <1>1, SumType
<1>4. SumFunction(g) = SumFunction(f) - f[x] + v
  BY <1>1, <1>2, <1>3
<1> QED BY <1>3, <1>4 DEF g

(* One more argument adds its value.                                       *)
LEMMA SumExtend ==
  ASSUME NEW f, NEW g, NEW x, x \notin DOMAIN f,
         IsFiniteSet(DOMAIN f), DOMAIN g = DOMAIN f \cup {x},
         \A i \in DOMAIN g : g[i] \in Nat,
         \A i \in DOMAIN f : g[i] = f[i]
  PROVE  SumFunction(g) = SumFunction(f) + g[x]
<1>1. IsFiniteSet(DOMAIN g) /\ DOMAIN g \ {x} = DOMAIN f
  BY FS_AddElement
<1>2. Units(g, DOMAIN f) = Units(f, DOMAIN f)
  <2>1. \A u : u \in Units(g, DOMAIN f) <=> u \in Units(f, DOMAIN f)
    BY UnitsElement
  <2> QED BY <2>1
<1>3. \A i \in DOMAIN f : f[i] \in Nat
  OBVIOUS
<1>4. SumFunction(f) = Total(f, DOMAIN f) /\ Total(f, DOMAIN f) \in Nat
  BY <1>3, SumIsTotal, TotalType
<1>5. SumFunction(g) = g[x] + Total(g, DOMAIN f)
  BY <1>1, SumIsTotal, TotalRemove
<1>6. Total(g, DOMAIN f) = Total(f, DOMAIN f)
  BY <1>2 DEF Total
<1>7. g[x] \in Nat
  OBVIOUS
<1> QED BY <1>4, <1>5, <1>6, <1>7

(* A sum is at most another into whose arguments its own are mapped, no    *)
(* two to the same, with values that are no smaller.                       *)
LEMMA SumEmbedded ==
  ASSUME NEW f, NEW g, NEW h \in [DOMAIN f -> DOMAIN g],
         IsFiniteSet(DOMAIN f), IsFiniteSet(DOMAIN g),
         \A i, j \in DOMAIN f : h[i] = h[j] => i = j,
         \A i \in DOMAIN f : f[i] \in Nat /\ f[i] <= g[h[i]],
         \A i \in DOMAIN g : g[i] \in Nat
  PROVE  SumFunction(f) <= SumFunction(g)
<1> DEFINE S == Units(f, DOMAIN f)
           T == Units(g, DOMAIN g)
           k == [u \in S |-> <<h[u[1]], u[2]>>]
<1>1. ASSUME NEW u \in S
      PROVE  /\ u = <<u[1], u[2]>> /\ u[1] \in DOMAIN f
             /\ k[u] \in T
  <2>1. PICK i \in DOMAIN f : \E n \in 1 .. f[i] : u = <<i, n>>
    BY UnitsElement
  <2>2. PICK n \in 1 .. f[i] : u = <<i, n>>
    BY <2>1
  <2>3. n \in 1 .. g[h[i]] /\ h[i] \in DOMAIN g
    <3>1. f[i] \in Nat /\ f[i] <= g[h[i]] /\ h[i] \in DOMAIN g
      OBVIOUS
    <3>2. g[h[i]] \in Nat
      BY <3>1
    <3> QED BY <3>1, <3>2
  <2>4. k[u] = <<h[i], n>>
    BY <2>2
  <2>5. <<h[i], n>> \in T
    BY <2>3, UnitsElement
  <2> QED BY <2>2, <2>4, <2>5
<1>2. ASSUME NEW u \in S, NEW v \in S, k[u] = k[v] PROVE u = v
  <2>1. h[u[1]] = h[v[1]] /\ u[2] = v[2]
    BY <1>2
  <2>2. u[1] = v[1]
    BY <1>1, <2>1
  <2> QED BY <1>1, <2>1, <2>2
<1>3. k \in Injection(S, T)
  BY <1>1, <1>2 DEF Injection, IsInjective
<1>4. IsFiniteSet(T)
  BY UnitsFinite
<1>5. Cardinality(S) <= Cardinality(T)
  BY <1>3, <1>4, FS_Injection
<1>6. SumFunction(f) = Cardinality(S) /\ SumFunction(g) = Cardinality(T)
  BY SumIsTotal DEF Total
<1> QED BY <1>5, <1>6

(* In particular with smaller values over the same arguments or fewer.     *)
LEMMA SumMonotone ==
  ASSUME NEW f, NEW g, DOMAIN f \subseteq DOMAIN g, IsFiniteSet(DOMAIN g),
         \A i \in DOMAIN f : f[i] \in Nat /\ f[i] <= g[i],
         \A i \in DOMAIN g : g[i] \in Nat
  PROVE  SumFunction(f) <= SumFunction(g)
<1> DEFINE h == [i \in DOMAIN f |-> i]
<1>1. h \in [DOMAIN f -> DOMAIN g]
  OBVIOUS
<1>2. IsFiniteSet(DOMAIN f)
  BY FS_Subset
<1>3. \A i, j \in DOMAIN f : h[i] = h[j] => i = j
  OBVIOUS
<1>4. \A i \in DOMAIN f : f[i] \in Nat /\ f[i] <= g[h[i]]
  OBVIOUS
<1> HIDE DEF h
<1> QED BY <1>1, <1>2, <1>3, <1>4, SumEmbedded

(* A sum with one term other than zero is that term.                       *)
LEMMA SumOneTerm ==
  ASSUME NEW f, NEW x \in DOMAIN f, IsFiniteSet(DOMAIN f), f[x] \in Nat,
         \A i \in DOMAIN f \ {x} : f[i] = 0
  PROVE  SumFunction(f) = f[x]
<1> DEFINE g == [i \in DOMAIN f |-> 0]
<1>1. DOMAIN g = DOMAIN f /\ \A i \in DOMAIN f : g[i] = 0
  OBVIOUS
<1>2. \A i \in DOMAIN f : f[i] \in Nat
  OBVIOUS
<1> HIDE DEF g
<1>3. SumFunction(g) = 0
  BY <1>1, SumOfZeros
<1>4. SumFunction(f) \in Nat
  BY <1>2, SumType
<1>5. SumFunction(g) - g[x] = SumFunction(f) - f[x]
  <2>1. \A i \in DOMAIN g : g[i] \in Nat
    BY <1>1
  <2>2. \A i \in DOMAIN f \ {x} : g[i] = f[i]
    BY <1>1
  <2> QED BY <1>1, <1>2, <2>1, <2>2, SumChange
<1> QED BY <1>1, <1>3, <1>4, <1>5

(* No term exceeds the sum.                                                *)
LEMMA SumAtLeastTerm ==
  ASSUME NEW f, NEW x \in DOMAIN f, IsFiniteSet(DOMAIN f),
         \A i \in DOMAIN f : f[i] \in Nat
  PROVE  f[x] <= SumFunction(f)
<1> DEFINE g == [i \in DOMAIN f |-> IF i = x THEN f[x] ELSE 0]
<1>1. DOMAIN g = DOMAIN f /\ g[x] = f[x] /\ f[x] \in Nat
  OBVIOUS
<1>2. \A i \in DOMAIN f \ {x} : g[i] = 0
  OBVIOUS
<1>3. \A i \in DOMAIN g : g[i] \in Nat /\ g[i] <= f[i]
  OBVIOUS
<1> HIDE DEF g
<1>4. SumFunction(g) = f[x]
  BY <1>1, <1>2, SumOneTerm
<1>5. SumFunction(g) <= SumFunction(f)
  BY <1>1, <1>3, SumMonotone
<1> QED BY <1>4, <1>5
=============================================================================
