---------------------------- MODULE SumTheorems -----------------------------
(***************************************************************************)
(* Sums over finite sets: the facts about SumFunction (module Functions)   *)
(* that the proofs of the ledger and of the policies' averages rest on.    *)
(*                                                                         *)
(* SumFunction is a fold, that is a recursive function on the subsets of   *)
(* the domain.  Induction on finite sets is used in the form of a minimal  *)
(* counterexample (SmallestSet): a set of sets takes the place of the      *)
(* predicate that the induction theorems of the library ask for.           *)
(***************************************************************************)
EXTENDS Integers, FiniteSets, Functions, FiniteSetsExt, FiniteSetTheorems, TLAPS

(***************************************************************************)
(* Every non-empty set of finite sets has a member that contains no other  *)
(* member.                                                                 *)
(***************************************************************************)
LEMMA SmallestSet ==
  ASSUME NEW S, IsFiniteSet(S), NEW T \in SUBSET SUBSET S, T # {}
  PROVE  \E s \in T : \A t \in T : t \subseteq s => t = s
<1>1. IsWellFoundedOn(StrictSubsetOrdering(S), SUBSET S)
  BY FS_StrictSubsetOrderingWellFounded, FS_FiniteSubsetsOfFinite
<1>2. \E s \in T : \A t \in T : ~ (<<t, s>> \in StrictSubsetOrdering(S))
  BY <1>1, WFMin
<1> QED
  BY <1>2 DEF StrictSubsetOrdering

-----------------------------------------------------------------------------
(* The recursion of SumFunction.                                           *)

(* The element a fold takes first.                                         *)
Pick(s) == CHOOSE x \in s : TRUE

Rest(s) == s \ {Pick(s)}

(* g maps the subsets of V to the sums of f over them.                     *)
SumsOn(f, V, g) ==
  g = [s \in SUBSET V |-> IF s = {} THEN 0 ELSE f[Pick(s)] + g[Rest(s)]]

(***************************************************************************)
(* What a fold takes is an element, and what it leaves is smaller.         *)
(***************************************************************************)
LEMMA PickIsElement ==
  ASSUME NEW s, s # {}
  PROVE  /\ Pick(s) \in s
         /\ Rest(s) \subseteq s
         /\ Rest(s) # s
         /\ s = Rest(s) \cup {Pick(s)}
         /\ Pick(s) \notin Rest(s)
<1>1. Pick(s) \in s
  BY DEF Pick
<1> QED
  BY <1>1 DEF Rest

(***************************************************************************)
(* The sums are determined by the recursion.                               *)
(***************************************************************************)
LEMMA SumsAreUnique ==
  ASSUME NEW V, IsFiniteSet(V), NEW W, NEW f, NEW g, NEW h,
         SumsOn(f, V, g), SumsOn(f, W, h),
         NEW s \in SUBSET V, s \in SUBSET W
  PROVE  g[s] = h[s]
<1> DEFINE T == {t \in SUBSET V : t \in SUBSET W /\ g[t] # h[t]}
<1> SUFFICES ASSUME T # {} PROVE FALSE
  OBVIOUS
<1>1. PICK t \in T : \A r \in T : r \subseteq t => r = t
  <2>1. T \in SUBSET SUBSET V
    OBVIOUS
  <2> HIDE DEF T
  <2> QED
    BY <2>1, SmallestSet
<1>2. CASE t = {}
  BY <1>2 DEF SumsOn
<1>3. CASE t # {}
  <2>1. Rest(t) \in SUBSET V /\ Rest(t) \in SUBSET W /\ Rest(t) \subseteq t /\ Rest(t) # t
    BY <1>3, PickIsElement
  <2>2. g[Rest(t)] = h[Rest(t)]
    BY <1>1, <2>1
  <2>3. g[t] = f[Pick(t)] + g[Rest(t)] /\ h[t] = f[Pick(t)] + h[Rest(t)]
    BY <1>3 DEF SumsOn
  <2> QED
    BY <2>2, <2>3
<1> QED
  BY <1>2, <1>3

(***************************************************************************)
(* The sums exist.                                                         *)
(***************************************************************************)
LEMMA SumsExist ==
  ASSUME NEW S, IsFiniteSet(S), NEW f \in [S -> Int]
  PROVE  \E g \in [SUBSET S -> Int] : SumsOn(f, S, g)
<1> DEFINE T == {V \in SUBSET S : ~ \E g \in [SUBSET V -> Int] : SumsOn(f, V, g)}
<1> SUFFICES ASSUME T # {} PROVE FALSE
  OBVIOUS
<1>1. PICK V \in T : \A W \in T : W \subseteq V => W = V
  <2>1. T \in SUBSET SUBSET S
    OBVIOUS
  <2> HIDE DEF T
  <2> QED
    BY <2>1, SmallestSet
<1>2. ASSUME NEW W \in SUBSET V, W # V
      PROVE  \E g \in [SUBSET W -> Int] : SumsOn(f, W, g)
  BY <1>1, <1>2
<1> DEFINE G(W) == CHOOSE g \in [SUBSET W -> Int] : SumsOn(f, W, g)
           g == [s \in SUBSET V |-> IF s = {} THEN 0
                                    ELSE f[Pick(s)] + G(Rest(s))[Rest(s)]]
<1>3. ASSUME NEW W \in SUBSET V, W # V
      PROVE  G(W) \in [SUBSET W -> Int] /\ SumsOn(f, W, G(W))
  BY <1>2, <1>3
<1>4. ASSUME NEW s \in SUBSET V, s # {}
      PROVE  /\ Pick(s) \in S
             /\ Rest(s) \in SUBSET V /\ Rest(s) # V
  BY <1>4, PickIsElement
<1> HIDE DEF G
<1>5. g \in [SUBSET V -> Int]
  <2>1. ASSUME NEW s \in SUBSET V, s # {}
        PROVE  f[Pick(s)] + G(Rest(s))[Rest(s)] \in Int
    <3>1. f[Pick(s)] \in Int
      BY <2>1, <1>4
    <3>2. G(Rest(s)) \in [SUBSET Rest(s) -> Int]
      BY <2>1, <1>4, <1>3
    <3>3. G(Rest(s))[Rest(s)] \in Int
      BY <3>2
    <3> QED
      BY <3>1, <3>3
  <2> QED
    BY <2>1
<1>6. ASSUME NEW s \in SUBSET V, s # {}
      PROVE  g[Rest(s)] = G(Rest(s))[Rest(s)]
  <2> DEFINE r == Rest(s)
  <2>1. r \in SUBSET V /\ r # V
    BY <1>4, <1>6
  <2>2. G(r) \in [SUBSET r -> Int] /\ SumsOn(f, r, G(r))
    BY <1>3, <2>1
  <2>3. CASE r = {}
    <3>1. G(r)[r] = 0
      BY <2>2, <2>3 DEF SumsOn
    <3> QED
      BY <2>1, <2>3, <3>1
  <2>4. CASE r # {}
    <3>1. Rest(r) \in SUBSET V /\ Rest(r) # V /\ Rest(r) \in SUBSET r
      BY <2>1, <2>4, PickIsElement
    <3>2. SumsOn(f, Rest(r), G(Rest(r)))
      BY <1>3, <3>1
    <3>3. IsFiniteSet(r)
      BY <2>1, FS_Subset
    <3>4. G(r)[Rest(r)] = G(Rest(r))[Rest(r)]
      BY <2>2, <3>1, <3>2, <3>3, SumsAreUnique
    <3>5. G(r)[r] = f[Pick(r)] + G(r)[Rest(r)]
      BY <2>2, <2>4 DEF SumsOn
    <3>6. g[r] = f[Pick(r)] + G(Rest(r))[Rest(r)]
      BY <2>1, <2>4
    <3> QED
      BY <3>4, <3>5, <3>6
  <2> QED
    BY <2>3, <2>4
<1>7. SumsOn(f, V, g)
  BY <1>6 DEF SumsOn
<1> QED
  BY <1>1, <1>5, <1>7

(***************************************************************************)
(* SumFunction is the sum that this recursion gives for the whole domain.  *)
(***************************************************************************)
LEMMA SumIsRecursive ==
  ASSUME NEW S, IsFiniteSet(S), NEW f \in [S -> Int]
  PROVE  \E g \in [SUBSET S -> Int] : SumsOn(f, S, g) /\ SumFunction(f) = g[S]
<1> DEFINE h == CHOOSE h : SumsOn(f, S, h)
<1>1. SumFunction(f) = h[S]
  BY DEF SumFunction, SumFunctionOnSet, FoldFunctionOnSet, MapThenFoldSet, Pick, Rest,
     SumsOn
<1>2. PICK g \in [SUBSET S -> Int] : SumsOn(f, S, g)
  BY SumsExist
<1>3. SumsOn(f, S, h)
  BY <1>2
<1>4. g[S] = h[S]
  BY <1>2, <1>3, SumsAreUnique
<1> QED
  BY <1>1, <1>2, <1>4

-----------------------------------------------------------------------------
(* The facts used elsewhere.                                               *)

(***************************************************************************)
(* A sum of integers is an integer.                                        *)
(***************************************************************************)
LEMMA SumType ==
  ASSUME NEW S, IsFiniteSet(S), NEW f \in [S -> Int]
  PROVE  SumFunction(f) \in Int
<1>1. PICK g \in [SUBSET S -> Int] : SumsOn(f, S, g) /\ SumFunction(f) = g[S]
  BY SumIsRecursive
<1> QED
  BY <1>1

(***************************************************************************)
(* Changing one value changes the sum by the difference.                   *)
(***************************************************************************)
LEMMA SumExcept ==
  ASSUME NEW S, IsFiniteSet(S), NEW f \in [S -> Int], NEW x \in S, NEW v \in Int
  PROVE  SumFunction([f EXCEPT ![x] = v]) = SumFunction(f) + (v - f[x])
<1> DEFINE e == [f EXCEPT ![x] = v]
           d(s) == IF x \in s THEN v - f[x] ELSE 0
<1>0. e \in [S -> Int] /\ e[x] = v /\ \A y \in S : y # x => e[y] = f[y]
  OBVIOUS
<1> HIDE DEF e
<1>1. PICK g \in [SUBSET S -> Int] : SumsOn(f, S, g) /\ SumFunction(f) = g[S]
  BY SumIsRecursive
<1>2. PICK h \in [SUBSET S -> Int] : SumsOn(e, S, h) /\ SumFunction(e) = h[S]
  BY <1>0, SumIsRecursive
<1> DEFINE T == {s \in SUBSET S : h[s] # g[s] + d(s)}
<1>3. T = {}
  <2> SUFFICES ASSUME T # {} PROVE FALSE
    OBVIOUS
  <2>1. PICK s \in T : \A r \in T : r \subseteq s => r = s
    <3>1. T \in SUBSET SUBSET S
      OBVIOUS
    <3> HIDE DEF T
    <3> QED
      BY <3>1, SmallestSet
  <2>2. CASE s = {}
    BY <1>1, <1>2, <2>2 DEF SumsOn
  <2>3. CASE s # {}
    <3>1. /\ Rest(s) \in SUBSET S /\ Rest(s) # s /\ Rest(s) \subseteq s
          /\ Pick(s) \in S /\ s = Rest(s) \cup {Pick(s)} /\ Pick(s) \notin Rest(s)
      BY <2>3, PickIsElement
    <3>2. h[Rest(s)] = g[Rest(s)] + d(Rest(s))
      BY <2>1, <3>1
    <3>3. g[s] = f[Pick(s)] + g[Rest(s)] /\ h[s] = e[Pick(s)] + h[Rest(s)]
      BY <1>1, <1>2, <2>3 DEF SumsOn
    <3>4. g[Rest(s)] \in Int /\ f[Pick(s)] \in Int /\ f[x] \in Int
      BY <3>1
    <3>5. CASE Pick(s) = x
      <4>1. d(Rest(s)) = 0 /\ d(s) = v - f[x]
        BY <3>1, <3>5
      <4> QED
        BY <1>0, <3>2, <3>3, <3>4, <3>5, <4>1, <2>1
    <3>6. CASE Pick(s) # x
      <4>1. d(Rest(s)) = d(s) /\ d(s) \in Int
        BY <3>1, <3>4, <3>6
      <4>2. e[Pick(s)] = f[Pick(s)]
        BY <1>0, <3>1, <3>6
      <4> HIDE DEF d
      <4>3. h[s] = g[s] + d(s)
        BY <3>2, <3>3, <3>4, <4>1, <4>2
      <4> QED
        BY <2>1, <4>3
    <3> QED
      BY <3>5, <3>6
  <2> QED
    BY <2>2, <2>3
<1>4. h[S] = g[S] + (v - f[x])
  BY <1>3
<1> QED
  BY <1>1, <1>2, <1>4 DEF e

(***************************************************************************)
(* The sum of the differences is the difference of the sums.               *)
(***************************************************************************)
LEMMA SumDifference ==
  ASSUME NEW S, IsFiniteSet(S), NEW f \in [S -> Int], NEW e \in [S -> Int]
  PROVE  SumFunction([x \in S |-> e[x] - f[x]]) = SumFunction(e) - SumFunction(f)
<1> DEFINE d == [x \in S |-> e[x] - f[x]]
<1>0. d \in [S -> Int] /\ \A x \in S : d[x] = e[x] - f[x]
  OBVIOUS
<1> HIDE DEF d
<1>1. PICK F \in [SUBSET S -> Int] : SumsOn(f, S, F) /\ SumFunction(f) = F[S]
  BY SumIsRecursive
<1>2. PICK E \in [SUBSET S -> Int] : SumsOn(e, S, E) /\ SumFunction(e) = E[S]
  BY SumIsRecursive
<1>3. PICK D \in [SUBSET S -> Int] : SumsOn(d, S, D) /\ SumFunction(d) = D[S]
  BY <1>0, SumIsRecursive
<1> DEFINE T == {s \in SUBSET S : D[s] # E[s] - F[s]}
<1>4. T = {}
  <2> SUFFICES ASSUME T # {} PROVE FALSE
    OBVIOUS
  <2>1. PICK s \in T : \A r \in T : r \subseteq s => r = s
    <3>1. T \in SUBSET SUBSET S
      OBVIOUS
    <3> HIDE DEF T
    <3> QED
      BY <3>1, SmallestSet
  <2>2. CASE s = {}
    BY <1>1, <1>2, <1>3, <2>1, <2>2 DEF SumsOn
  <2>3. CASE s # {}
    <3>1. /\ Rest(s) \in SUBSET S /\ Rest(s) # s /\ Rest(s) \subseteq s
          /\ Pick(s) \in S
      BY <2>3, PickIsElement
    <3>2. D[Rest(s)] = E[Rest(s)] - F[Rest(s)]
      BY <2>1, <3>1
    <3>3. /\ D[s] = d[Pick(s)] + D[Rest(s)]
          /\ E[s] = e[Pick(s)] + E[Rest(s)]
          /\ F[s] = f[Pick(s)] + F[Rest(s)]
      BY <1>1, <1>2, <1>3, <2>3 DEF SumsOn
    <3>4. E[Rest(s)] \in Int /\ F[Rest(s)] \in Int /\ e[Pick(s)] \in Int /\ f[Pick(s)] \in Int
      BY <3>1
    <3>5. D[s] = E[s] - F[s]
      BY <1>0, <3>1, <3>2, <3>3, <3>4
    <3> QED
      BY <2>1, <3>5
  <2> QED
    BY <2>2, <2>3
<1> QED
  BY <1>1, <1>2, <1>3, <1>4 DEF d

(***************************************************************************)
(* A sum lies between as many times the least and the greatest value.      *)
(***************************************************************************)
LEMMA SumBounds ==
  ASSUME NEW S, IsFiniteSet(S), NEW lo \in Int, NEW hi \in Int,
         NEW f \in [S -> Int], \A x \in S : lo =< f[x] /\ f[x] =< hi
  PROVE  /\ Cardinality(S) * lo =< SumFunction(f)
         /\ SumFunction(f) =< Cardinality(S) * hi
<1>1. PICK g \in [SUBSET S -> Int] : SumsOn(f, S, g) /\ SumFunction(f) = g[S]
  BY SumIsRecursive
<1> DEFINE T == {s \in SUBSET S : ~ (/\ Cardinality(s) * lo =< g[s]
                                     /\ g[s] =< Cardinality(s) * hi)}
<1>2. T = {}
  <2> SUFFICES ASSUME T # {} PROVE FALSE
    OBVIOUS
  <2>1. PICK s \in T : \A r \in T : r \subseteq s => r = s
    <3>1. T \in SUBSET SUBSET S
      OBVIOUS
    <3> HIDE DEF T
    <3> QED
      BY <3>1, SmallestSet
  <2>2. CASE s = {}
    <3>1. Cardinality(s) = 0 /\ g[s] = 0
      BY <1>1, <2>2, FS_EmptySet DEF SumsOn
    <3> QED
      BY <2>1, <3>1
  <2>3. CASE s # {}
    <3>1. /\ Rest(s) \in SUBSET S /\ Rest(s) # s /\ Rest(s) \subseteq s
          /\ Pick(s) \in S /\ s = Rest(s) \cup {Pick(s)} /\ Pick(s) \notin Rest(s)
      BY <2>3, PickIsElement
    <3>2. /\ Cardinality(Rest(s)) * lo =< g[Rest(s)]
          /\ g[Rest(s)] =< Cardinality(Rest(s)) * hi
      BY <2>1, <3>1
    <3>3. g[s] = f[Pick(s)] + g[Rest(s)]
      BY <1>1, <2>3 DEF SumsOn
    <3>4. IsFiniteSet(Rest(s))
      BY <3>1, FS_Subset
    <3>5. Cardinality(s) = Cardinality(Rest(s)) + 1 /\ Cardinality(Rest(s)) \in Nat
      BY <3>1, <3>4, FS_AddElement, FS_CardinalityType
    <3>6. g[Rest(s)] \in Int /\ f[Pick(s)] \in Int /\ lo =< f[Pick(s)] /\ f[Pick(s)] =< hi
      BY <3>1
    <3>7. (Cardinality(Rest(s)) + 1) * lo = Cardinality(Rest(s)) * lo + lo
      BY <3>5
    <3>8. (Cardinality(Rest(s)) + 1) * hi = Cardinality(Rest(s)) * hi + hi
      BY <3>5
    <3> DEFINE a == Cardinality(Rest(s)) * lo
               b == Cardinality(Rest(s)) * hi
    <3>9. a \in Int /\ b \in Int
      BY <3>5
    <3>10. /\ Cardinality(s) * lo = a + lo
           /\ Cardinality(s) * hi = b + hi
      BY <3>5, <3>7, <3>8
    <3>11. a =< g[Rest(s)] /\ g[Rest(s)] =< b
      BY <3>2
    <3> HIDE DEF a, b
    <3>12. a + lo =< g[s] /\ g[s] =< b + hi
      BY <3>3, <3>6, <3>9, <3>11
    <3> QED
      BY <2>1, <3>10, <3>12
  <2> QED
    BY <2>2, <2>3
<1> QED
  BY <1>1, <1>2

(***************************************************************************)
(* Of the subsets that the elements of a finite set are mapped to, one     *)
(* contains no other.                                                      *)
(***************************************************************************)
HasSmallestImage(S) ==
  \A above \in [S -> SUBSET S] :
    \E m \in S : \A n \in S : above[n] \subseteq above[m] => above[n] = above[m]

LEMMA SmallestImage ==
  ASSUME NEW S, IsFiniteSet(S), S # {}
  PROVE  HasSmallestImage(S)
<1> SUFFICES ASSUME NEW above \in [S -> SUBSET S]
             PROVE  \E m \in S : \A n \in S :
                      above[n] \subseteq above[m] => above[n] = above[m]
  BY DEF HasSmallestImage
<1> DEFINE T == {above[m] : m \in S}
<1>1. T \in SUBSET SUBSET S /\ T # {}
  OBVIOUS
<1> HIDE DEF T
<1>2. PICK s \in T : \A r \in T : r \subseteq s => r = s
  BY <1>1, SmallestSet
<1> QED
  BY <1>2 DEF T

(***************************************************************************)
(* The maximum of a non-empty finite set of integers is its greatest       *)
(* element.                                                                *)
(***************************************************************************)
LEMMA MaxIsGreatest ==
  ASSUME NEW S, S \subseteq Int, IsFiniteSet(S), S # {}
  PROVE  Max(S) \in S /\ \A x \in S : x =< Max(S)
<1> DEFINE above == [m \in S |-> {x \in S : x > m}]
<1>1. above \in [S -> SUBSET S]
  OBVIOUS
<1>2. PICK m \in S : \A n \in S : above[n] \subseteq above[m] => above[n] = above[m]
  <2>1. HasSmallestImage(S)
    BY SmallestImage, Zenon
  <2> HIDE DEF above
  <2> QED
    BY <1>1, <2>1, Zenon DEF HasSmallestImage
<1>3. ASSUME NEW x \in S, x > m
      PROVE  FALSE
  <2>1. x \in Int /\ m \in Int
    OBVIOUS
  <2>2. ASSUME NEW y \in above[x] PROVE y \in above[m]
    <3>1. y \in S /\ y > x /\ y \in Int
      BY <2>2
    <3> QED
      BY <3>1, <2>1, <1>3
  <2>3. x \in above[m] /\ x \notin above[x]
    BY <2>1, <1>3
  <2> QED
    BY <1>2, <2>2, <2>3
<1>4. \A x \in S : m >= x
  BY <1>3
<1>5. Max(S) \in S /\ \A x \in S : Max(S) >= x
  BY <1>4 DEF Max
<1> QED
  BY <1>5
=============================================================================
