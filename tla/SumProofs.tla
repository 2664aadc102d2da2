--------------------------------- MODULE SumProofs ---------------------------------
(***************************************************************************)
(* What the models need to know of the sums of the community modules, for  *)
(* every finite set: a sum is taken over a set the models change one       *)
(* element at a time.  The induction is on the size of the set; it stands  *)
(* on the least element of a set of numbers (WFMin), because the library's *)
(* induction theorems take an operator.                                    *)
(***************************************************************************)
EXTENDS Integers, FiniteSets, Functions, FiniteSetTheorems, WellFoundedInduction, TLAPS

\* Every set of numbers has a least one.
LEMMA LeastNumber ==
    ASSUME NEW T, T \subseteq Nat, T # {}
    PROVE  \E n \in T : \A m \in T : n <= m
<1>1. PICK n \in T : \A m \in T : ~(<<m, n>> \in OpToRel(<, Nat))
  BY NatLessThanWellFounded, WFMin
<1>2. \A m \in T : ~(m < n)
  BY <1>1 DEF OpToRel
<1> QED BY <1>2

\* So a set of numbers that has every number whose predecessors it has is all of them.
LEMMA Induction ==
    ASSUME NEW T, \A n \in Nat : (\A m \in Nat : m < n => m \in T) => n \in T
    PROVE  Nat \subseteq T
<1> SUFFICES ASSUME Nat \ T # {}
             PROVE  FALSE
  OBVIOUS
<1>1. PICK n \in Nat \ T : \A m \in Nat \ T : n <= m
  BY LeastNumber
<1>2. \A m \in Nat : m < n => m \in T
  BY <1>1
<1> QED BY <1>1, <1>2

-----------------------------------------------------------------------------
(***************************************************************************)
(* The fold behind a sum is the function that satisfies Body.             *)
(***************************************************************************)
Pick(s) == CHOOSE x \in s : TRUE
Rest(s) == s \ {Pick(s)}
Body(f, S, g) == [s \in SUBSET S |-> IF s = {} THEN 0 ELSE f[Pick(s)] + g[Rest(s)]]
Total(f, S) == SumFunctionOnSet(f, S)

LEMMA TotalUnfolds == \A f, S : Total(f, S) = (CHOOSE g : g = Body(f, S, g))[S]
BY DEF Total, SumFunctionOnSet, FoldFunctionOnSet, MapThenFoldSet, Body, Pick, Rest

LEMMA Smaller ==
    ASSUME NEW s, IsFiniteSet(s), s # {}
    PROVE  /\ Pick(s) \in s /\ Rest(s) \subseteq s /\ Pick(s) \notin Rest(s) /\ IsFiniteSet(Rest(s))
           /\ Cardinality(s) \in Nat /\ Cardinality(Rest(s)) \in Nat /\ Cardinality(Rest(s)) = Cardinality(s) - 1
<1>1. Pick(s) \in s
  BY DEF Pick
<1>2. IsFiniteSet(Rest(s)) /\ Cardinality(Rest(s)) = Cardinality(s) - 1
  BY <1>1, FS_RemoveElement DEF Rest
<1> QED BY <1>1, <1>2, FS_CardinalityType DEF Rest

\* Two functions that satisfy it agree wherever both are defined.
LEMMA OneBody ==
    ASSUME NEW f, NEW S, NEW g, g = Body(f, S, g), NEW R, NEW h, h = Body(f, R, h),
           NEW s, s \subseteq S, s \subseteq R, IsFiniteSet(s)
    PROVE  g[s] = h[s]
<1> DEFINE T == {n \in Nat : \A u \in SUBSET s : Cardinality(u) = n => g[u] = h[u]}
<1>1. \A u \in SUBSET s : IsFiniteSet(u) /\ Cardinality(u) \in Nat
  BY FS_Subset, FS_CardinalityType
<1>2. \A u \in SUBSET s : /\ u \in SUBSET S /\ u \in SUBSET R
  OBVIOUS
<1>3. /\ \A u \in SUBSET S : g[u] = IF u = {} THEN 0 ELSE f[Pick(u)] + g[Rest(u)]
      /\ \A u \in SUBSET R : h[u] = IF u = {} THEN 0 ELSE f[Pick(u)] + h[Rest(u)]
  <2>1. \A u \in SUBSET S : g[u] = IF u = {} THEN 0 ELSE f[Pick(u)] + g[Rest(u)]
    <3>1. g = [u \in SUBSET S |-> IF u = {} THEN 0 ELSE f[Pick(u)] + g[Rest(u)]]
      BY Zenon DEF Body
    <3> QED BY <3>1
  <2>2. \A u \in SUBSET R : h[u] = IF u = {} THEN 0 ELSE f[Pick(u)] + h[Rest(u)]
    <3>1. h = [u \in SUBSET R |-> IF u = {} THEN 0 ELSE f[Pick(u)] + h[Rest(u)]]
      BY Zenon DEF Body
    <3> QED BY <3>1
  <2> QED BY <2>1, <2>2
<1>4. ASSUME NEW n \in Nat, \A m \in Nat : m < n => m \in T
      PROVE  n \in T
  <2> SUFFICES ASSUME NEW u \in SUBSET s, Cardinality(u) = n
               PROVE  g[u] = h[u]
    OBVIOUS
  <2>1. CASE u = {}
    BY <1>2, <1>3, <2>1
  <2>2. CASE u # {}
    <3>1. Rest(u) \in SUBSET s /\ Cardinality(Rest(u)) \in Nat /\ Cardinality(Rest(u)) < n
      BY <1>1, <2>2, Smaller
    <3>2. g[Rest(u)] = h[Rest(u)]
      BY <1>4, <3>1
    <3> QED BY <1>2, <1>3, <2>2, <3>2
  <2> QED BY <2>1, <2>2
<1>5. Nat \subseteq T
  <2> HIDE DEF T
  <2> QED BY <1>4, Induction
<1> QED BY <1>1, <1>5

\* What the fold does at each step.
LEMMA TotalSteps ==
    ASSUME NEW f, NEW S, IsFiniteSet(S)
    PROVE  Total(f, S) = IF S = {} THEN 0 ELSE f[Pick(S)] + Total(f, Rest(S))
<1> DEFINE Steps(s) == Total(f, s) = IF s = {} THEN 0 ELSE f[Pick(s)] + Total(f, Rest(s))
           T == {n \in Nat : \A s \in SUBSET S : Cardinality(s) = n => Steps(s)}
<1>1. \A u \in SUBSET S : IsFiniteSet(u) /\ Cardinality(u) \in Nat
  BY FS_Subset, FS_CardinalityType
<1>2. ASSUME NEW n \in Nat, \A m \in Nat : m < n => m \in T
      PROVE  n \in T
  <2> SUFFICES ASSUME NEW s \in SUBSET S, Cardinality(s) = n
               PROVE  Steps(s)
    OBVIOUS
  <2> DEFINE v == IF s = {} THEN 0 ELSE f[Pick(s)] + Total(f, Rest(s))
             g == [u \in SUBSET s |-> IF u = s THEN v ELSE Total(f, u)]
  <2>1. \A u \in SUBSET s : u # s => Cardinality(u) \in Nat /\ Cardinality(u) < n
    BY <1>1, FS_Subset
  <2>2. \A u \in SUBSET s : u # s => Total(f, u) = IF u = {} THEN 0 ELSE f[Pick(u)] + Total(f, Rest(u))
    <3>1. \A u \in SUBSET s : u # s => Cardinality(u) \in T
      BY <1>2, <2>1
    <3> QED BY <3>1
  <2>3. \A u \in SUBSET s : u # {} => Rest(u) \in SUBSET s /\ Rest(u) # s
    <3> SUFFICES ASSUME NEW u \in SUBSET s, u # {}
                 PROVE  Rest(u) \in SUBSET s /\ Rest(u) # s
      OBVIOUS
    <3>1. Pick(u) \in u /\ Pick(u) \notin Rest(u) /\ Rest(u) \subseteq u
      BY <1>1, Smaller
    <3> QED BY <3>1
  <2>4. \A u \in SUBSET s : g[u] = IF u = {} THEN 0 ELSE f[Pick(u)] + g[Rest(u)]
    <3> SUFFICES ASSUME NEW u \in SUBSET s
                 PROVE  g[u] = IF u = {} THEN 0 ELSE f[Pick(u)] + g[Rest(u)]
      OBVIOUS
    <3>1. u # {} => g[Rest(u)] = Total(f, Rest(u))
      BY <2>3
    <3>2. CASE u = s
      BY <3>1, <3>2
    <3>3. CASE u # s
      <4>1. g[u] = Total(f, u)
        BY <3>3
      <4> HIDE DEF g
      <4> QED BY <2>2, <3>1, <3>3, <4>1
    <3> QED BY <3>2, <3>3
  <2>5. g = Body(f, s, g)
    <3>1. g = [u \in SUBSET s |-> g[u]]
      OBVIOUS
    <3> HIDE DEF g
    <3>2. [u \in SUBSET s |-> g[u]] = [u \in SUBSET s |-> IF u = {} THEN 0 ELSE f[Pick(u)] + g[Rest(u)]]
      BY <2>4
    <3> QED BY <3>1, <3>2, Zenon DEF Body
  <2> HIDE DEF g
  <2>6. PICK h : h = (CHOOSE k : k = Body(f, s, k)) /\ h = Body(f, s, h)
    BY <2>5
  <2>7. Total(f, s) = h[s]
    BY <2>6, TotalUnfolds
  <2>8. h[s] = g[s]
    BY <1>1, <2>5, <2>6, OneBody
  <2>9. g[s] = v
    BY DEF g
  <2> QED BY <2>7, <2>8, <2>9
<1>3. Nat \subseteq T
  <2> HIDE DEF T
  <2> QED BY <1>2, Induction
<1>4. Steps(S)
  BY <1>1, <1>3
<1> QED BY <1>4

-----------------------------------------------------------------------------
(***************************************************************************)
(* Sums of numbers                                                         *)
(***************************************************************************)
LEMMA TotalEmpty == \A f : Total(f, {}) = 0
BY TotalSteps, FS_EmptySet

LEMMA TotalIsInt ==
    ASSUME NEW f, NEW S, IsFiniteSet(S), \A x \in S : f[x] \in Int
    PROVE  Total(f, S) \in Int
<1> DEFINE T == {n \in Nat : \A s \in SUBSET S : Cardinality(s) = n => Total(f, s) \in Int}
<1>1. \A u \in SUBSET S : IsFiniteSet(u) /\ Cardinality(u) \in Nat
  BY FS_Subset, FS_CardinalityType
<1>2. ASSUME NEW n \in Nat, \A m \in Nat : m < n => m \in T
      PROVE  n \in T
  <2> SUFFICES ASSUME NEW s \in SUBSET S, Cardinality(s) = n
               PROVE  Total(f, s) \in Int
    OBVIOUS
  <2>1. CASE s = {}
    BY <2>1, TotalEmpty
  <2>2. CASE s # {}
    <3>1. /\ Pick(s) \in s /\ Rest(s) \in SUBSET S /\ Cardinality(Rest(s)) \in Nat /\ Cardinality(Rest(s)) < n
      BY <1>1, <2>2, Smaller
    <3>2. Total(f, Rest(s)) \in Int
      BY <1>2, <3>1
    <3>3. Total(f, s) = f[Pick(s)] + Total(f, Rest(s))
      BY <1>1, <2>2, TotalSteps
    <3> QED BY <3>1, <3>2, <3>3
  <2> QED BY <2>1, <2>2
<1>3. Nat \subseteq T
  <2> HIDE DEF T
  <2> QED BY <1>2, Induction
<1> QED BY <1>1, <1>3

\* An element that comes adds its number, whatever order the fold takes.
LEMMA TotalAdds ==
    ASSUME NEW f, NEW U, IsFiniteSet(U), \A y \in U : f[y] \in Int,
           NEW S, S \subseteq U, NEW e \in U \ S
    PROVE  Total(f, S \cup {e}) = Total(f, S) + f[e]
<1> DEFINE Adds(s, x) == Total(f, s \cup {x}) = Total(f, s) + f[x]
           T == {n \in Nat : \A s \in SUBSET U : Cardinality(s) = n => \A x \in U \ s : Adds(s, x)}
<1>1. \A u \in SUBSET U : IsFiniteSet(u) /\ Cardinality(u) \in Nat /\ Total(f, u) \in Int
  <2>1. \A u \in SUBSET U : IsFiniteSet(u) /\ Cardinality(u) \in Nat
    BY FS_Subset, FS_CardinalityType
  <2>2. ASSUME NEW u \in SUBSET U PROVE Total(f, u) \in Int
    BY <2>1, TotalIsInt
  <2> QED BY <2>1, <2>2
<1>2. ASSUME NEW n \in Nat, \A m \in Nat : m < n => m \in T
      PROVE  n \in T
  <2> SUFFICES ASSUME NEW s \in SUBSET U, Cardinality(s) = n, NEW x \in U \ s
               PROVE  Adds(s, x)
    OBVIOUS
  <2>1. PICK t : t = s \cup {x} /\ t \in SUBSET U /\ IsFiniteSet(t) /\ t # {} /\ x \in t /\ x \notin s
    BY <1>1
  <2>2. Total(f, t) = f[Pick(t)] + Total(f, Rest(t)) /\ Pick(t) \in t
    BY <2>1, TotalSteps, Smaller
  <2>3. CASE Pick(t) = x
    <3>1. Rest(t) = s
      BY <2>1, <2>3 DEF Rest
    <3> QED BY <1>1, <2>1, <2>2, <2>3, <3>1
  <2>4. CASE Pick(t) # x
    <3>1. PICK p : p = Pick(t) /\ p \in s
      BY <2>1, <2>2, <2>4
    <3> DEFINE r == s \ {p}
    <3>2. r \in SUBSET U /\ p \in U \ r /\ x \in U \ r /\ Rest(t) = r \cup {x} /\ s = r \cup {p}
      <4>1. p # x /\ Rest(t) = t \ {p}
        BY <2>4, <3>1 DEF Rest
      <4>2. t \ {p} = r \cup {x} /\ s = r \cup {p}
        BY <2>1, <3>1, <4>1
      <4> QED BY <3>1, <4>1, <4>2
    <3>3. Cardinality(r) \in Nat /\ Cardinality(r) < n
      <4>1. Cardinality(r) = n - 1
        BY <1>1, <3>1, <3>2, FS_RemoveElement
      <4> QED BY <1>1, <3>2, <4>1
    <3>4. Cardinality(r) \in T
      BY <1>2, <3>3
    <3>5. Total(f, r \cup {x}) = Total(f, r) + f[x] /\ Total(f, r \cup {p}) = Total(f, r) + f[p]
      BY <3>2, <3>4
    <3>6. /\ Total(f, r) \in Int /\ f[p] \in Int /\ f[x] \in Int
          /\ Total(f, t) = f[p] + Total(f, r \cup {x}) /\ Total(f, s) = Total(f, r \cup {p})
      BY <1>1, <2>2, <3>1, <3>2
    <3> HIDE DEF r
    <3>7. Total(f, t) = Total(f, s) + f[x]
      BY <3>5, <3>6
    <3> QED BY <2>1, <3>7
  <2> QED BY <2>3, <2>4
<1>3. Nat \subseteq T
  <2> HIDE DEF T
  <2> QED BY <1>2, Induction
<1> QED BY <1>1, <1>3

\* A sum depends on the numbers of the elements it is over and on nothing else.
LEMMA TotalAgrees ==
    ASSUME NEW f, NEW g, NEW S, IsFiniteSet(S), \A x \in S : f[x] = g[x]
    PROVE  Total(f, S) = Total(g, S)
<1> DEFINE T == {n \in Nat : \A s \in SUBSET S : Cardinality(s) = n => Total(f, s) = Total(g, s)}
<1>1. \A u \in SUBSET S : IsFiniteSet(u) /\ Cardinality(u) \in Nat
  BY FS_Subset, FS_CardinalityType
<1>2. ASSUME NEW n \in Nat, \A m \in Nat : m < n => m \in T
      PROVE  n \in T
  <2> SUFFICES ASSUME NEW s \in SUBSET S, Cardinality(s) = n
               PROVE  Total(f, s) = Total(g, s)
    OBVIOUS
  <2>1. CASE s = {}
    BY <2>1, TotalEmpty
  <2>2. CASE s # {}
    <3>1. /\ Pick(s) \in s /\ Rest(s) \in SUBSET S /\ Cardinality(Rest(s)) \in Nat /\ Cardinality(Rest(s)) < n
      BY <1>1, <2>2, Smaller
    <3>2. Total(f, Rest(s)) = Total(g, Rest(s))
      BY <1>2, <3>1
    <3>3. Total(f, s) = f[Pick(s)] + Total(f, Rest(s)) /\ Total(g, s) = g[Pick(s)] + Total(g, Rest(s))
      BY <1>1, <2>2, TotalSteps
    <3> QED BY <3>1, <3>2, <3>3
  <2> QED BY <2>1, <2>2
<1>3. Nat \subseteq T
  <2> HIDE DEF T
  <2> QED BY <1>2, Induction
<1> QED BY <1>1, <1>3
\* One more for one element, there already or not, is one more of the sum.
LEMMA TotalCounts ==
    ASSUME NEW f, IsFiniteSet(DOMAIN f), \A x \in DOMAIN f : f[x] \in Int,
           NEW e, NEW g, DOMAIN g = DOMAIN f \cup {e}, \A x \in DOMAIN f \ {e} : g[x] = f[x],
           g[e] = IF e \in DOMAIN f THEN f[e] + 1 ELSE 1
    PROVE  Total(g, DOMAIN g) = Total(f, DOMAIN f) + 1
<1> DEFINE S == DOMAIN f \ {e}
           U == DOMAIN f \cup {e}
<1>1. IsFiniteSet(U) /\ IsFiniteSet(S) /\ S \subseteq U /\ e \in U \ S /\ U = S \cup {e}
  BY FS_AddElement, FS_Subset
<1>2. \A x \in U : g[x] \in Int
  OBVIOUS
<1>3. \A x \in S : f[x] = g[x] /\ f[x] \in Int
  OBVIOUS
<1>4. DOMAIN g = U
  OBVIOUS
<1>5. e \in DOMAIN f => DOMAIN f = S \cup {e} /\ e \in DOMAIN f \ S /\ S \subseteq DOMAIN f
  OBVIOUS
<1>6. e \notin DOMAIN f => DOMAIN f = S
  OBVIOUS
<1> HIDE DEF S, U
<1>7. Total(g, S \cup {e}) = Total(g, S) + g[e]
  BY <1>1, <1>2, TotalAdds
<1>8. Total(f, S) = Total(g, S) /\ Total(f, S) \in Int
  BY <1>1, <1>3, TotalAgrees, TotalIsInt
<1>9. CASE e \in DOMAIN f
  <2>1. Total(f, S \cup {e}) = Total(f, S) + f[e]
    BY <1>5, <1>9, TotalAdds
  <2> QED BY <1>1, <1>4, <1>5, <1>7, <1>8, <1>9, <2>1
<1>10. CASE e \notin DOMAIN f
  BY <1>1, <1>4, <1>6, <1>7, <1>8, <1>10
<1> QED BY <1>9, <1>10
================================================================================
