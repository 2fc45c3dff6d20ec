---------------------------- MODULE SumTheorems -----------------------------
(***************************************************************************)
(* Sums of integers over finite sets, for the amounts the components add   *)
(* up: the principal of a command's executions, the market value of the    *)
(* open positions, the cash of a run's fills. They are all MapThenSumSet,  *)
(* which sums by a recursive function over the subsets of its set. Sums    *)
(* says that g is such a function for the summands w; a component first    *)
(* shows that its sum is g[S] for such a g, or SumOver(w, S), and then     *)
(* uses the facts below. They are proved by induction over cardinality,    *)
(* stated with the set of the cardinalities for which a fact holds.        *)
(***************************************************************************)
EXTENDS Integers, FiniteSets, FiniteSetTheorems, WellFoundedInduction, TLAPS

\* Induction over the naturals, for a set instead of a predicate.
LEMMA NatSetInduction ==
  ASSUME NEW T \in SUBSET Nat, 0 \in T, \A n \in T : n + 1 \in T
  PROVE  \A n \in Nat : n \in T
<1> SUFFICES ASSUME Nat \ T # {} PROVE FALSE
  OBVIOUS
<1>1. PICK m \in Nat \ T : \A y \in Nat \ T : ~ (<<y, m>> \in OpToRel(<, Nat))
  <2>1. Nat \ T \subseteq Nat /\ Nat \ T # {}
    OBVIOUS
  <2> QED
    BY Zenon, <2>1, NatLessThanWellFounded, WFMin
<1>2. m # 0 /\ m - 1 \in Nat /\ m - 1 < m
  OBVIOUS
<1>3. m - 1 \in T
  BY Zenon, <1>1, <1>2 DEF OpToRel
<1> QED
  BY <1>2, <1>3

\* The element that MapThenSumSet takes out of a set first.
Pick(s) == CHOOSE x \in s : TRUE

\* The recursion that MapThenSumSet solves: g[s] is the sum of w over s.
Sums(g, w, S) ==
  g = [s \in SUBSET S |-> IF s = {} THEN 0 ELSE w[Pick(s)] + g[s \ {Pick(s)}]]

\* The recursion of a mapped sum has a solution over the subsets of a finite set.
LEMMA SumExists ==
  ASSUME NEW S, IsFiniteSet(S), NEW w
  PROVE  \E g : Sums(g, w, S)
<1> DEFINE Step(g, s) == IF s = {} THEN 0 ELSE w[Pick(s)] + g[s \ {Pick(s)}]
           Good(n) == \E g : \A s \in SUBSET S : Cardinality(s) <= n => g[s] = Step(g, s)
           T == {n \in Nat : Good(n)}
<1>f. \A s \in SUBSET S : /\ IsFiniteSet(s) /\ Cardinality(s) \in Nat
                          /\ s # {} => /\ Pick(s) \in s
                                       /\ Cardinality(s \ {Pick(s)}) = Cardinality(s) - 1
  BY Zenon, FS_Subset, FS_CardinalityType, FS_RemoveElement DEF Pick
<1>1. Good(0)
  <2> DEFINE z == [s \in SUBSET S |-> 0]
  <2>1. \A s \in SUBSET S : Cardinality(s) <= 0 => z[s] = Step(z, s)
    <3> SUFFICES ASSUME NEW s \in SUBSET S, Cardinality(s) <= 0 PROVE z[s] = Step(z, s)
      BY Zenon
    <3>0. Cardinality(s) \in Nat
      BY Zenon, <1>f
    <3>1. Cardinality(s) = 0
      BY <3>0
    <3>2. s = {}
      BY Zenon, <1>f, <3>1, FS_EmptySet
    <3> QED
      BY <3>2
  <2> HIDE DEF z
  <2> QED
    BY Zenon, <2>1
<1>2. ASSUME NEW n \in Nat, Good(n) PROVE Good(n + 1)
  <2>1. PICK g : \A s \in SUBSET S : Cardinality(s) <= n => g[s] = Step(g, s)
    BY Zenon, <1>2
  <2> DEFINE h == [s \in SUBSET S |-> Step(g, s)]
  <2>2. ASSUME NEW s \in SUBSET S, Cardinality(s) <= n + 1 PROVE h[s] = Step(h, s)
    <3>1. CASE s = {}
      BY <3>1
    <3>2. CASE s # {}
      <4> DEFINE r == s \ {Pick(s)}
      <4>1. r \in SUBSET S /\ Cardinality(r) <= n
        BY <1>f, <2>2, <3>2
      <4>2. h[r] = g[r]
        BY Zenon, <2>1, <4>1
      <4> QED
        BY <3>2, <4>2
    <3> QED
      BY <3>1, <3>2
  <2> HIDE DEF h, Step
  <2> QED
    BY <2>2
<1> HIDE DEF Good
<1>3. Good(Cardinality(S))
  <2>1. T \in SUBSET Nat /\ 0 \in T /\ \A n \in T : n + 1 \in T
    BY <1>1, <1>2
  <2>2. Cardinality(S) \in T
    BY Zenon, <1>f, <2>1, NatSetInduction
  <2> QED
    BY <2>2
<1>4. PICK g : \A s \in SUBSET S : Cardinality(s) <= Cardinality(S) => g[s] = Step(g, s)
  BY Zenon, <1>3 DEF Good
<1> DEFINE h == [s \in SUBSET S |-> g[s]]
<1>5. \A s \in SUBSET S : g[s] = Step(g, s)
  <2>1. \A s \in SUBSET S : Cardinality(s) <= Cardinality(S)
    BY FS_Subset
  <2> QED BY Zenon, <1>4, <2>1
<1>6. h = [s \in SUBSET S |-> Step(h, s)]
  <2>1. \A s \in SUBSET S : Step(g, s) = Step(h, s)
    OBVIOUS
  <2> QED BY Zenon, <1>5, <2>1
<1> QED
  BY Zenon, <1>6 DEF Sums

\* An integer sum over a finite set is an integer.
LEMMA SumIsInt ==
  ASSUME NEW S, IsFiniteSet(S), NEW w \in [S -> Int], NEW g, Sums(g, w, S)
  PROVE  \A s \in SUBSET S : g[s] \in Int
<1> DEFINE T == {n \in Nat : \A s \in SUBSET S : Cardinality(s) = n => g[s] \in Int}
<1>f. \A s \in SUBSET S : /\ IsFiniteSet(s) /\ Cardinality(s) \in Nat
                          /\ s # {} => /\ Pick(s) \in s
                                       /\ Cardinality(s \ {Pick(s)}) = Cardinality(s) - 1
  BY Zenon, FS_Subset, FS_CardinalityType, FS_RemoveElement DEF Pick
<1>g. ASSUME NEW s \in SUBSET S
      PROVE  g[s] = IF s = {} THEN 0 ELSE w[Pick(s)] + g[s \ {Pick(s)}]
  BY Zenon DEF Sums
<1>1. 0 \in T
  <2>1. \A s \in SUBSET S : Cardinality(s) = 0 => s = {}
    BY Zenon, <1>f, FS_EmptySet
  <2>2. g[{}] = 0
    BY Zenon, <1>g
  <2> QED
    BY <2>1, <2>2
<1>2. ASSUME NEW n \in T PROVE n + 1 \in T
  <2> SUFFICES ASSUME NEW s \in SUBSET S, Cardinality(s) = n + 1 PROVE g[s] \in Int
    OBVIOUS
  <2>1. s # {}
    <3>1. n \in Nat
      OBVIOUS
    <3>2. Cardinality(s) # 0
      BY <3>1
    <3> QED
      BY Zenon, <3>2, FS_EmptySet
  <2>2. Cardinality(s \ {Pick(s)}) = n
    BY <1>f, <2>1
  <2>3. g[s \ {Pick(s)}] \in Int /\ w[Pick(s)] \in Int
    BY <1>f, <2>1, <2>2
  <2> QED
    BY <1>g, <2>1, <2>3
<1>3. \A s \in SUBSET S : Cardinality(s) \in T
  BY Zenon, <1>f, <1>1, <1>2, NatSetInduction
<1> QED
  BY <1>3

\* A sum does not depend on the element that is taken out first.
LEMMA SumWithout ==
  ASSUME NEW S, IsFiniteSet(S), NEW w \in [S -> Int], NEW g, Sums(g, w, S)
  PROVE  \A s \in SUBSET S : \A x \in s : g[s] = w[x] + g[s \ {x}]
<1> DEFINE Fact(s) == \A x \in s : g[s] = w[x] + g[s \ {x}]
           T == {n \in Nat : \A s \in SUBSET S : Cardinality(s) = n => Fact(s)}
<1>f. \A s \in SUBSET S : /\ IsFiniteSet(s) /\ Cardinality(s) \in Nat
                          /\ s # {} => Pick(s) \in s
                          /\ \A x \in s : Cardinality(s \ {x}) = Cardinality(s) - 1
  BY FS_Subset, FS_CardinalityType, FS_RemoveElement DEF Pick
<1>g. ASSUME NEW s \in SUBSET S
      PROVE  g[s] = IF s = {} THEN 0 ELSE w[Pick(s)] + g[s \ {Pick(s)}]
  BY Zenon DEF Sums
<1>i. \A s \in SUBSET S : g[s] \in Int
  BY SumIsInt
<1>1. 0 \in T
  <2>1. \A s \in SUBSET S : Cardinality(s) = 0 => s = {}
    BY <1>f, FS_EmptySet
  <2>2. g[{}] = 0
    BY Zenon, <1>g
  <2> QED
    BY <2>1, <2>2
<1>2. ASSUME NEW n \in T PROVE n + 1 \in T
  <2>n. n \in Nat /\ \A s \in SUBSET S : Cardinality(s) = n => Fact(s)
    OBVIOUS
  <2> SUFFICES ASSUME NEW s \in SUBSET S, Cardinality(s) = n + 1 PROVE Fact(s)
    BY <2>n
  <2> DEFINE p == Pick(s)
  <2>1. s # {}
    <3>1. Cardinality(s) # 0
      BY <2>n
    <3> QED
      BY <3>1, FS_EmptySet
  <2>2. p \in s /\ p \in S /\ w[p] \in Int
    BY <1>f, <2>1
  <2>3. \A x \in s : s \ {x} \in SUBSET S /\ Cardinality(s \ {x}) = n
    BY <1>f, <2>n
  <2>4. \A x \in s : Fact(s \ {x})
    BY <2>n, <2>3
  <2>5. g[s] = w[p] + g[s \ {p}]
    BY Zenon, <1>g, <2>1
  <2> HIDE DEF p
  <2>6. ASSUME NEW x \in s PROVE g[s] = w[x] + g[s \ {x}]
    <3>1. CASE x = p
      BY <2>5, <3>1
    <3>2. CASE x # p
      <4>1. g[s \ {p}] = w[x] + g[(s \ {p}) \ {x}]
        BY Zenon, <2>2, <2>4, <3>2
      <4>2. g[s \ {x}] = w[p] + g[(s \ {x}) \ {p}]
        BY Zenon, <2>2, <2>4, <3>2
      <4>3. (s \ {p}) \ {x} = (s \ {x}) \ {p}
        OBVIOUS
      <4> DEFINE r == g[(s \ {x}) \ {p}]
      <4>4. r \in Int /\ w[x] \in Int
        BY <1>i
      <4>5. g[s \ {p}] = w[x] + r /\ g[s \ {x}] = w[p] + r
        BY Zenon, <4>1, <4>2, <4>3
      <4> HIDE DEF r
      <4> QED
        BY <2>2, <2>5, <4>4, <4>5
    <3> QED
      BY <3>1, <3>2
  <2> QED
    BY <2>6
<1>3. \A s \in SUBSET S : Cardinality(s) \in T
  BY Zenon, <1>f, <1>1, <1>2, NatSetInduction
<1> QED
  BY Zenon, <1>3

\* Two sums agree when their sets and their summands do.
LEMMA SumUnique ==
  ASSUME NEW S, IsFiniteSet(S), NEW w, NEW g, Sums(g, w, S), NEW h, Sums(h, w, S)
  PROVE  g = h
<1> DEFINE T == {n \in Nat : \A s \in SUBSET S : Cardinality(s) = n => g[s] = h[s]}
<1>f. \A s \in SUBSET S : /\ IsFiniteSet(s) /\ Cardinality(s) \in Nat
                          /\ s # {} => /\ Pick(s) \in s
                                       /\ Cardinality(s \ {Pick(s)}) = Cardinality(s) - 1
  BY Zenon, FS_Subset, FS_CardinalityType, FS_RemoveElement DEF Pick
<1>g. ASSUME NEW s \in SUBSET S
      PROVE  /\ g[s] = IF s = {} THEN 0 ELSE w[Pick(s)] + g[s \ {Pick(s)}]
             /\ h[s] = IF s = {} THEN 0 ELSE w[Pick(s)] + h[s \ {Pick(s)}]
  BY Zenon DEF Sums
<1>1. 0 \in T
  <2>1. \A s \in SUBSET S : Cardinality(s) = 0 => s = {}
    BY Zenon, <1>f, FS_EmptySet
  <2>2. g[{}] = 0 /\ h[{}] = 0
    BY <1>g
  <2> QED
    BY <2>1, <2>2
<1>2. ASSUME NEW n \in T PROVE n + 1 \in T
  <2> SUFFICES ASSUME NEW s \in SUBSET S, Cardinality(s) = n + 1 PROVE g[s] = h[s]
    OBVIOUS
  <2>1. s # {}
    <3>1. n \in Nat
      OBVIOUS
    <3>2. Cardinality(s) # 0
      BY <3>1
    <3> QED
      BY <3>2, FS_EmptySet
  <2>2. Cardinality(s \ {Pick(s)}) = n
    BY <1>f, <2>1
  <2>3. g[s \ {Pick(s)}] = h[s \ {Pick(s)}]
    BY <2>2
  <2> QED
    BY <1>g, <2>1, <2>3
<1>3. \A s \in SUBSET S : Cardinality(s) \in T
  BY Zenon, <1>f, <1>1, <1>2, NatSetInduction
<1>4. \A s \in SUBSET S : g[s] = h[s]
  BY <1>3
<1> QED
  BY Zenon, <1>4 DEF Sums

\* The sum of w over X.
SumOver(w, X) == (CHOOSE g : Sums(g, w, X))[X]

\* The sum is the one that any solution of the recursion gives.
LEMMA SumIs ==
  ASSUME NEW X, IsFiniteSet(X), NEW w, NEW g, Sums(g, w, X)
  PROVE  SumOver(w, X) = g[X]
BY SumUnique DEF SumOver

\* Nothing sums to zero.
LEMMA SumOfNone == \A w : SumOver(w, {}) = 0
<1> SUFFICES ASSUME NEW w PROVE SumOver(w, {}) = 0
  OBVIOUS
<1>1. IsFiniteSet({})
  BY FS_EmptySet
<1>2. PICK g : Sums(g, w, {})
  BY <1>1, SumExists
<1>3. g[{}] = 0
  BY <1>2 DEF Sums
<1> QED
  BY <1>1, <1>2, <1>3, SumIs

\* A solution over a set is one over each of its subsets.
LEMMA SumsOfPart ==
  ASSUME NEW S, NEW X \in SUBSET S, NEW w, NEW g, Sums(g, w, S)
  PROVE  \E h : Sums(h, w, X) /\ h[X] = g[X]
<1> DEFINE h == [s \in SUBSET X |-> g[s]]
<1>1. ASSUME NEW s \in SUBSET X
      PROVE  h[s] = IF s = {} THEN 0 ELSE w[Pick(s)] + h[s \ {Pick(s)}]
  <2>1. s \in SUBSET S /\ s \ {Pick(s)} \in SUBSET X
    OBVIOUS
  <2>2. g[s] = IF s = {} THEN 0 ELSE w[Pick(s)] + g[s \ {Pick(s)}]
    BY Zenon, <2>1 DEF Sums
  <2> QED
    BY <2>1, <2>2
<1>2. Sums(h, w, X) /\ h[X] = g[X]
  BY Zenon, <1>1 DEF Sums
<1> QED
  BY <1>2

\* The sum of integers is an integer.
LEMMA SumTyped ==
  ASSUME NEW X, IsFiniteSet(X), NEW w, \A x \in X : w[x] \in Int
  PROVE  SumOver(w, X) \in Int
<1>1. PICK g : Sums(g, w, X)
  BY SumExists
<1> DEFINE v == [x \in X |-> w[x]]
<1>2. Sums(g, v, X)
  <2>1. \A s \in SUBSET X : s # {} => v[Pick(s)] = w[Pick(s)]
    BY DEF Pick
  <2> QED
    BY Zenon, <1>1, <2>1 DEF Sums
<1>3. g[X] \in Int
  BY <1>2, SumIsInt
<1> QED
  BY <1>1, <1>3, SumIs

\* The sum does not depend on w outside of its set.
LEMMA SumAgrees ==
  ASSUME NEW X, IsFiniteSet(X), NEW w, NEW v, \A x \in X : w[x] = v[x]
  PROVE  SumOver(w, X) = SumOver(v, X)
<1>1. PICK g : Sums(g, w, X)
  BY SumExists
<1>2. \A s \in SUBSET X : s # {} => v[Pick(s)] = w[Pick(s)]
  BY DEF Pick
<1>3. Sums(g, v, X)
  BY Zenon, <1>1, <1>2 DEF Sums
<1> QED
  BY <1>1, <1>3, SumIs

\* One more element adds its summand.
LEMMA SumWith ==
  ASSUME NEW X, IsFiniteSet(X), NEW x, x \notin X, NEW w,
         \A y \in X \cup {x} : w[y] \in Int
  PROVE  SumOver(w, X \cup {x}) = SumOver(w, X) + w[x]
<1> DEFINE S == X \cup {x}
           v == [y \in S |-> w[y]]
<1>1. IsFiniteSet(S)
  BY FS_AddElement
<1>2. PICK g : Sums(g, v, S)
  BY <1>1, SumExists
<1>3. X \in SUBSET S /\ S \in SUBSET S /\ x \in S /\ S \ {x} = X
  OBVIOUS
<1>4. v \in [S -> Int] /\ v[x] = w[x]
  OBVIOUS
<1>5. (\A y \in X : v[y] = w[y]) /\ (\A y \in S : v[y] = w[y])
  OBVIOUS
<1> HIDE DEF S, v
<1>6. g[S] = v[x] + g[X]
  BY <1>1, <1>2, <1>3, <1>4, SumWithout
<1>7. g[S] \in Int /\ g[X] \in Int
  BY <1>1, <1>2, <1>3, <1>4, SumIsInt
<1>8. SumOver(v, S) = g[S]
  BY <1>1, <1>2, SumIs
<1>9. SumOver(v, X) = g[X]
  <2>1. PICK h : Sums(h, v, X) /\ h[X] = g[X]
    BY <1>2, <1>3, SumsOfPart
  <2> QED
    BY <2>1, SumIs
<1>10. SumOver(w, S) = SumOver(v, S) /\ SumOver(w, X) = SumOver(v, X)
  BY <1>1, <1>5, SumAgrees
<1>11. w[x] \in Int
  BY <1>3, <1>4
<1>12. SumOver(w, S) = SumOver(w, X) + w[x]
  BY <1>4, <1>6, <1>7, <1>8, <1>9, <1>10, <1>11
<1> QED
  BY <1>12 DEF S
============================================================================
