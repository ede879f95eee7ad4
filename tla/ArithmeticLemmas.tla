-------------------------- MODULE ArithmeticLemmas --------------------------
(***************************************************************************)
(* Facts about natural numbers, floor division, ledgers and their sums that *)
(* the proofs of several components rest on.                               *)
(***************************************************************************)
EXTENDS Integers, FiniteSetsExt, FiniteSetTheorems, TLAPS

\* Natural numbers are closed under product and floor division.
LEMMA MulNat == ASSUME NEW m \in Nat, NEW n \in Nat PROVE m * n \in Nat
  OBVIOUS

LEMMA AddNat == ASSUME NEW m \in Nat, NEW n \in Nat PROVE m + n \in Nat
  OBVIOUS

LEMMA AddZero == ASSUME NEW n \in Nat PROVE n + 0 = n
  OBVIOUS

LEMMA DivNat ==
  ASSUME NEW m \in Nat, NEW n \in Nat \ {0}
  PROVE  m \div n \in Nat
  OBVIOUS

\* The floor division gives a whole number of units that does not exceed the
\* dividend: claiming floor(m / n) units leaves a remainder, never a debt.
LEMMA DivFloor ==
  ASSUME NEW m \in Nat, NEW n \in Nat \ {0}
  PROVE  (m \div n) * n <= m
  OBVIOUS

LEMMA ZeroDiv == ASSUME NEW n \in Nat \ {0} PROVE 0 \div n = 0
  OBVIOUS

\* A floor division gives the last multiple that does not exceed the dividend.
LEMMA DivBounds ==
  ASSUME NEW m \in Nat, NEW n \in Nat \ {0}
  PROVE  /\ (m \div n) * n <= m
         /\ m < (m \div n) * n + n
  OBVIOUS

LEMMA NoTimeNoReward ==
  ASSUME NEW rate \in Nat, NEW t \in Nat
  PROVE  rate * (t - t) = 0
  OBVIOUS

LEMMA DivMonotone ==
  ASSUME NEW m \in Nat, NEW k \in Nat, m <= k, NEW n \in Nat \ {0}
  PROVE  m \div n <= k \div n
  OBVIOUS

LEMMA MulMonotone ==
  ASSUME NEW m \in Nat, NEW k \in Nat, m <= k, NEW n \in Nat
  PROVE  n * m <= n * k
  OBVIOUS

\* A unit of the divisor more in the dividend is one more in the quotient.
LEMMA DivShift ==
  ASSUME NEW m \in Nat, NEW k \in Nat, NEW n \in Nat \ {0}
  PROVE  (m + k * n) \div n = (m \div n) + k
  OBVIOUS

LEMMA DivExact ==
  ASSUME NEW k \in Nat, NEW n \in Nat \ {0}
  PROVE  (k * n) \div n = k
  OBVIOUS

\* Crediting and debiting one entry of a ledger keeps it natural.
LEMMA CreditEntry ==
  ASSUME NEW S, NEW f \in [S -> Nat], NEW x, NEW n \in Nat
  PROVE  [f EXCEPT ![x] = @ + n] \in [S -> Nat]
<1>1. ASSUME NEW y \in S PROVE [f EXCEPT ![x] = @ + n][y] \in Nat
  <2>1. CASE y = x
    BY <2>1
  <2>2. CASE y # x
    BY <2>2
  <2>3. QED
    BY <2>1, <2>2
<1>2. QED
  BY <1>1

LEMMA DebitEntry ==
  ASSUME NEW S, NEW f \in [S -> Nat], NEW x, NEW n \in Nat, f[x] >= n
  PROVE  [f EXCEPT ![x] = @ - n] \in [S -> Nat]
<1>1. ASSUME NEW y \in S PROVE [f EXCEPT ![x] = @ - n][y] \in Nat
  <2>1. CASE y = x
    BY <2>1
  <2>2. CASE y # x
    BY <2>2
  <2>3. QED
    BY <2>1, <2>2
<1>2. QED
  BY <1>1

(***************************************************************************)
(* Sums over finite sets, as the library's folds define them.  The fold    *)
(* takes one element after another out of the set; what follows shows that *)
(* the sum is the same in any order, and how it changes with its summands. *)
(* The library's induction theorems cannot be instantiated by the provers; *)
(* each induction is an argument about a least counterexample instead.     *)
(***************************************************************************)

\* A set of natural numbers has a least element.  Induction on numbers is done with
\* it: a statement that fails somewhere fails at a least number.
LEMMA NatLeast ==
  ASSUME NEW S \in SUBSET Nat, S # {}
  PROVE  \E n \in S : \A m \in S : n <= m
<1>1. IsWellFoundedOn(OpToRel(<, Nat), Nat)
  BY NatLessThanWellFounded
<1>2. PICK n \in S : \A m \in S : ~(<<m, n>> \in OpToRel(<, Nat))
  BY <1>1, WFMin
<1>3. ASSUME NEW m \in S PROVE n <= m
  <2>1. ~(<<m, n>> \in OpToRel(<, Nat))
    BY <1>2, <1>3
  <2>2. ~(m < n)
    BY <2>1, <1>3 DEF OpToRel
  <2>3. QED
    BY <2>2, <1>3
<1>4. QED
  BY <1>3

\* The element the library's folds take out of a set first.
Element(s) == CHOOSE x \in s : TRUE

\* What the sum over s is, given a table g of the sums over smaller sets; and that g
\* is such a table for every subset of S.
Unrolled(f, g, s) == IF s = {} THEN 0 ELSE f[Element(s)] + g[s \ {Element(s)}]
SumTable(f, S, g) == g = [s \in SUBSET S |-> Unrolled(f, g, s)]

LEMMA ElementIn == ASSUME NEW s, s # {} PROVE Element(s) \in s
  BY DEF Element

LEMMA SubsetCard ==
  ASSUME NEW S, IsFiniteSet(S), NEW s \in SUBSET S
  PROVE  /\ IsFiniteSet(s)
         /\ Cardinality(s) \in Nat
         /\ Cardinality(s) <= Cardinality(S)
         /\ (Cardinality(s) = 0) <=> (s = {})
  BY FS_Subset, FS_CardinalityType, FS_EmptySet

LEMMA ElementCard ==
  ASSUME NEW S, IsFiniteSet(S), NEW s \in SUBSET S, s # {}
  PROVE  /\ Element(s) \in s /\ Element(s) \in S
         /\ s \ {Element(s)} \in SUBSET S
         /\ Cardinality(s \ {Element(s)}) = Cardinality(s) - 1
  BY SubsetCard, FS_RemoveElement, ElementIn

\* Such a table exists: one is built stage by stage, for the subsets of at most n
\* elements, and a first stage that could not be built would follow one that was.
LEMMA SumTableExists ==
  ASSUME NEW f, NEW S, IsFiniteSet(S), \A x \in S : f[x] \in Int
  PROVE  \E g \in [SUBSET S -> Int] : SumTable(f, S, g)
<1> DEFINE Upto(n, g) == \A s \in SUBSET S : Cardinality(s) <= n => g[s] = Unrolled(f, g, s)
           Stages == {n \in Nat : ~ \E g \in [SUBSET S -> Int] : Upto(n, g)}
<1>1. Stages = {}
  <2>1. SUFFICES ASSUME Stages # {} PROVE FALSE
    OBVIOUS
  <2>2. PICK n \in Stages : \A m \in Stages : n <= m
    <3>1. Stages \in SUBSET Nat OBVIOUS
    <3> HIDE DEF Stages
    <3>2. QED
      BY <2>1, <3>1, NatLeast
  <2>3. CASE n = 0
    <3> DEFINE g0 == [s \in SUBSET S |-> 0]
    <3>0. g0 \in [SUBSET S -> Int] 
      OBVIOUS
    <3>1. Upto(0, g0)
      <4> SUFFICES ASSUME NEW s \in SUBSET S, Cardinality(s) <= 0 PROVE g0[s] = Unrolled(f, g0, s)
        OBVIOUS
      <4>1. s = {} 
        BY SubsetCard, ElementCard
      <4> QED BY <4>1 DEF Unrolled
    <3> QED BY <3>0, <3>1, <2>3
  <2>4. CASE n # 0
    <3>0. n \in Nat /\ n - 1 \in Nat
      BY <2>2, <2>4
    <3>n. n - 1 \notin Stages
      <4> HIDE DEF Stages
      <4>1. CASE n - 1 \in Stages
        <5>1. n <= n - 1 BY <2>2, <4>1
        <5> QED BY <5>1, <3>0
      <4> QED BY <4>1
    <3>1. n \in Nat /\ n - 1 \in Nat /\ n - 1 \notin Stages
      BY <3>0, <3>n
    <3>2. PICK g \in [SUBSET S -> Int] : Upto(n - 1, g)
      BY <3>1
    <3> DEFINE h == [s \in SUBSET S |-> IF Cardinality(s) = n THEN Unrolled(f, g, s) ELSE g[s]]
    <3>3. ASSUME NEW s \in SUBSET S PROVE Unrolled(f, g, s) \in Int
      <4>1. CASE s = {}
         BY <4>1 DEF Unrolled
      <4>2. CASE s # {}
         BY <4>2, SubsetCard, ElementCard DEF Unrolled
      <4> QED BY <4>1, <4>2
    <3>4. h \in [SUBSET S -> Int]
      BY <3>3
    <3>5. Upto(n, h)
      <4> SUFFICES ASSUME NEW s \in SUBSET S, Cardinality(s) <= n PROVE h[s] = Unrolled(f, h, s)
        OBVIOUS
      <4>1. h[s] = Unrolled(f, g, s)
        <5>1. CASE Cardinality(s) = n BY <5>1
        <5>2. CASE Cardinality(s) # n 
          <6>1. Cardinality(s) <= n - 1 BY <5>2, SubsetCard, ElementCard, <3>1
          <6> QED BY <6>1, <3>2, <5>2
        <5> QED BY <5>1, <5>2
      <4>2. Unrolled(f, g, s) = Unrolled(f, h, s)
        <5>1. CASE s = {} BY <5>1 DEF Unrolled
        <5>2. CASE s # {} 
          <6> DEFINE r == s \ {Element(s)}
          <6>1. r \in SUBSET S /\ Cardinality(r) # n
            BY SubsetCard, ElementCard, <5>2, <3>1
          <6>2. h[r] = g[r]
            BY <6>1
          <6> QED BY <6>2, <5>2 DEF Unrolled
        <5> QED BY <5>1, <5>2
      <4> QED BY <4>1, <4>2
    <3> QED BY <3>1, <3>4, <3>5, <2>2
  <2> QED BY <2>3, <2>4
<1>2. Cardinality(S) \in Nat
  BY FS_CardinalityType
<1>3. PICK g \in [SUBSET S -> Int] : Upto(Cardinality(S), g)
  BY <1>1, <1>2
<1>4. SumTable(f, S, g)
  <2>1. ASSUME NEW s \in SUBSET S PROVE g[s] = Unrolled(f, g, s)
    BY <1>3, SubsetCard, ElementCard
  <2> QED BY <2>1 DEF SumTable
<1> QED BY <1>3, <1>4

\* The library's sum is looked up in the table.
LEMMA SumFromTable ==
  ASSUME NEW f, NEW S, IsFiniteSet(S), \A x \in S : f[x] \in Int
  PROVE  \E g : SumTable(f, S, g) /\ SumFunctionOnSet(f, S) = g[S]
<1> DEFINE iter == CHOOSE g : SumTable(f, S, g)
<1>1. SumTable(f, S, iter)
  BY SumTableExists
<1>2. SumFunctionOnSet(f, S) = iter[S]
  BY DEF SumFunctionOnSet, FoldFunctionOnSet, MapThenFoldSet, SumTable, Unrolled, Element
<1>3. QED
  BY <1>1, <1>2

\* Induction on finite sets: a family of subsets has a least member.
LEMMA SetLeast ==
  ASSUME NEW S, IsFiniteSet(S), NEW C \in SUBSET SUBSET S, C # {}
  PROVE  \E T \in C : \A U \in C : U \subseteq T => U = T
<1>1. /\ IsWellFoundedOn(StrictSubsetOrdering(S), FiniteSubsetsOf(S))
      /\ C \subseteq FiniteSubsetsOf(S)
  BY FS_StrictSubsetOrderingWellFounded, FS_FiniteSubsetsOfFinite
<1>2. PICK T \in C : \A U \in C : ~(<<U, T>> \in StrictSubsetOrdering(S))
  BY <1>1, WFMin
<1>3. ASSUME NEW U \in C, U \subseteq T PROVE U = T
  BY <1>2, <1>3 DEF StrictSubsetOrdering
<1>4. QED
  BY <1>3

\* Two tables agree wherever the functions they sum agree.
LEMMA SumTablesAgree ==
  ASSUME NEW f, NEW g, NEW S, NEW T, NEW F, NEW G, SumTable(f, S, F), SumTable(g, T, G),
         NEW U, U \subseteq S, U \subseteq T, IsFiniteSet(U), \A x \in U : f[x] = g[x]
  PROVE  F[U] = G[U]
<1> DEFINE C == {V \in SUBSET U : F[V] # G[V]}
<1>1. ASSUME C # {} PROVE FALSE
  <2>1. PICK V \in C : \A W \in C : W \subseteq V => W = V
    <3>1. C \in SUBSET SUBSET U OBVIOUS
    <3> HIDE DEF C
    <3> QED BY <1>1, <3>1, SetLeast
  <2>2. V \in SUBSET U /\ V \in SUBSET S /\ V \in SUBSET T /\ F[V] # G[V]
    OBVIOUS
  <2>3. F[V] = Unrolled(f, F, V) /\ G[V] = Unrolled(g, G, V)
    BY <2>2 DEF SumTable
  <2>4. CASE V = {}
    BY <2>2, <2>3, <2>4 DEF Unrolled
  <2>5. CASE V # {}
    <3> DEFINE W == V \ {Element(V)}
    <3>1. Element(V) \in V /\ Element(V) \in U
      BY <2>2, <2>5, ElementIn
    <3>2. W \in SUBSET U /\ W \subseteq V /\ W # V
      BY <3>1, <2>2
    <3>3. F[W] = G[W]
      BY <3>2, <2>1
    <3>4. f[Element(V)] = g[Element(V)]
      BY <3>1
    <3> QED BY <3>3, <3>4, <2>2, <2>3, <2>5 DEF Unrolled
  <2> QED BY <2>4, <2>5
<1> QED BY <1>1

\* The sum, unrolled once.
LEMMA SumEmpty == ASSUME NEW f PROVE SumFunctionOnSet(f, {}) = 0
<1>1. IsFiniteSet({})
  BY FS_EmptySet
<1>2. PICK g : SumTable(f, {}, g) /\ SumFunctionOnSet(f, {}) = g[{}]
  BY <1>1, SumFromTable
<1> QED BY <1>2 DEF SumTable, Unrolled

LEMMA SumStep ==
  ASSUME NEW f, NEW S, IsFiniteSet(S), \A x \in S : f[x] \in Int, S # {}
  PROVE  SumFunctionOnSet(f, S) = f[Element(S)] + SumFunctionOnSet(f, S \ {Element(S)})
<1> DEFINE W == S \ {Element(S)}
<1>1. IsFiniteSet(W) /\ W \subseteq S
  BY FS_RemoveElement
<1>2. PICK F : SumTable(f, S, F) /\ SumFunctionOnSet(f, S) = F[S]
  BY SumFromTable
<1>3. PICK G : SumTable(f, W, G) /\ SumFunctionOnSet(f, W) = G[W]
  BY <1>1, SumFromTable
<1>4. F[W] = G[W]
  BY <1>1, <1>2, <1>3, SumTablesAgree
<1>5. F[S] = f[Element(S)] + F[W]
  BY <1>2 DEF SumTable, Unrolled
<1> QED BY <1>2, <1>3, <1>4, <1>5

\* The sum depends on nothing but the values summed.
LEMMA SumSame ==
  ASSUME NEW f, NEW g, NEW S, IsFiniteSet(S), \A x \in S : f[x] \in Int,
         \A x \in S : f[x] = g[x]
  PROVE  SumFunctionOnSet(f, S) = SumFunctionOnSet(g, S)
<1>2. PICK F : SumTable(f, S, F) /\ SumFunctionOnSet(f, S) = F[S]
  BY SumFromTable
<1>3. PICK G : SumTable(g, S, G) /\ SumFunctionOnSet(g, S) = G[S]
  BY SumFromTable
<1> QED BY <1>2, <1>3, SumTablesAgree

LEMMA SumInt ==
  ASSUME NEW f, NEW S, IsFiniteSet(S), \A x \in S : f[x] \in Int
  PROVE  SumFunctionOnSet(f, S) \in Int
<1> DEFINE C == {V \in SUBSET S : SumFunctionOnSet(f, V) \notin Int}
<1>1. ASSUME C # {} PROVE FALSE
  <2>1. PICK V \in C : \A W \in C : W \subseteq V => W = V
    <3>1. C \in SUBSET SUBSET S OBVIOUS
    <3> HIDE DEF C
    <3> QED BY <1>1, <3>1, SetLeast
  <2>2. V # {}
    BY SumEmpty
  <2>3. IsFiniteSet(V) /\ Element(V) \in V
    BY <2>2, FS_Subset, ElementIn
  <2> DEFINE W == V \ {Element(V)}
  <2>4. SumFunctionOnSet(f, W) \in Int
    BY <2>1, <2>3
  <2>5. SumFunctionOnSet(f, V) = f[Element(V)] + SumFunctionOnSet(f, W)
    BY <2>2, <2>3, SumStep
  <2> QED BY <2>3, <2>4, <2>5
<1> QED BY <1>1

\* The order of the summands does not matter: any element may be taken out first.
LEMMA SumRemove ==
  ASSUME NEW f, NEW S, IsFiniteSet(S), \A x \in S : f[x] \in Int, NEW y \in S
  PROVE  SumFunctionOnSet(f, S) = f[y] + SumFunctionOnSet(f, S \ {y})
<1> DEFINE Wrong(V) == \E x \in V : SumFunctionOnSet(f, V) # f[x] + SumFunctionOnSet(f, V \ {x})
           C == {V \in SUBSET S : Wrong(V)}
<1>1. ASSUME C # {} PROVE FALSE
  <2>1. PICK V \in C : \A W \in C : W \subseteq V => W = V
    <3>1. C \in SUBSET SUBSET S OBVIOUS
    <3> HIDE DEF C
    <3> QED BY <1>1, <3>1, SetLeast
  <2>2. PICK x \in V : SumFunctionOnSet(f, V) # f[x] + SumFunctionOnSet(f, V \ {x})
    OBVIOUS
  <2>3. IsFiniteSet(V) /\ IsFiniteSet(V \ {x}) /\ Element(V) \in V
    BY <2>2, FS_Subset, ElementIn, FS_RemoveElement
  <2> DEFINE p == Element(V)
             W == V \ {p}
  <2>4. SumFunctionOnSet(f, V) = f[p] + SumFunctionOnSet(f, W)
    BY <2>2, <2>3, SumStep
  <2>5. x # p
    BY <2>2, <2>4
  <2>6. W \in SUBSET S /\ W # V /\ W \subseteq V /\ x \in W /\ p \in V \ {x} /\ V \ {x} \in SUBSET S
        /\ V \ {x} # V
    BY <2>2, <2>3, <2>5
  <2>7. ~Wrong(W) /\ ~Wrong(V \ {x})
    BY <2>6, <2>1
  <2>8. SumFunctionOnSet(f, W) = f[x] + SumFunctionOnSet(f, W \ {x})
    BY <2>6, <2>7
  <2>9. SumFunctionOnSet(f, V \ {x}) = f[p] + SumFunctionOnSet(f, (V \ {x}) \ {p})
    BY <2>6, <2>7
  <2>10. (V \ {x}) \ {p} = W \ {x}
    OBVIOUS
  <2>11. IsFiniteSet(W \ {x}) /\ \A z \in W \ {x} : f[z] \in Int
    BY <2>3, FS_RemoveElement, FS_Subset
  <2>12. SumFunctionOnSet(f, W \ {x}) \in Int
    BY <2>11, SumInt
  <2>13. f[p] \in Int /\ f[x] \in Int
    BY <2>3, <2>2
  <2>14. SumFunctionOnSet(f, V) = f[p] + (f[x] + SumFunctionOnSet(f, W \ {x}))
    BY <2>4, <2>8
  <2>15. SumFunctionOnSet(f, V \ {x}) = f[p] + SumFunctionOnSet(f, W \ {x})
    BY <2>9, <2>10
  <2> HIDE DEF p, W, C
  <2> QED BY <2>2, <2>12, <2>13, <2>14, <2>15
<1> QED BY <1>1

\* The effect of one step on a ledger: at one place the entry changes, or enters or
\* leaves the set that is summed.
LEMMA SumUpdate ==
  ASSUME NEW f, NEW g, NEW S, NEW T, IsFiniteSet(S), IsFiniteSet(T),
         \A y \in S : f[y] \in Int, \A y \in T : g[y] \in Int,
         NEW x, S \ {x} = T \ {x}, \A y \in S \ {x} : f[y] = g[y]
  PROVE  SumFunctionOnSet(g, T)
           = SumFunctionOnSet(f, S) - (IF x \in S THEN f[x] ELSE 0)
                                    + (IF x \in T THEN g[x] ELSE 0)
<1> DEFINE R == S \ {x}
<1>1. IsFiniteSet(R) /\ \A y \in R : f[y] \in Int
  BY FS_RemoveElement
<1>2. SumFunctionOnSet(f, R) = SumFunctionOnSet(g, R) /\ SumFunctionOnSet(f, R) \in Int
  <2> HIDE DEF R
  <2>1. \A y \in R : f[y] = g[y]
    BY DEF R
  <2> QED BY <1>1, <2>1, SumSame, SumInt
<1>3. SumFunctionOnSet(f, S) = SumFunctionOnSet(f, R) + (IF x \in S THEN f[x] ELSE 0)
  <2>1. CASE x \in S
    <3>1. SumFunctionOnSet(f, S) = f[x] + SumFunctionOnSet(f, R)
      BY <2>1, SumRemove
    <3>2. f[x] \in Int BY <2>1
    <3> HIDE DEF R
    <3> QED BY <3>1, <3>2, <1>2, <2>1
  <2>2. CASE x \notin S
    <3>1. R = S BY <2>2
    <3>2. SumFunctionOnSet(f, S) = SumFunctionOnSet(f, R) BY <3>1
    <3> HIDE DEF R
    <3> QED BY <3>2, <2>2, <1>2
  <2> QED BY <2>1, <2>2
<1>4. SumFunctionOnSet(g, T) = SumFunctionOnSet(g, R) + (IF x \in T THEN g[x] ELSE 0)
  <2>0. R = T \ {x} OBVIOUS
  <2>1. CASE x \in T
    <3>1. SumFunctionOnSet(g, T) = g[x] + SumFunctionOnSet(g, T \ {x})
      BY <2>1, SumRemove
    <3>2. g[x] \in Int BY <2>1
    <3>3. SumFunctionOnSet(g, T) = g[x] + SumFunctionOnSet(g, R) BY <3>1, <2>0
    <3> HIDE DEF R
    <3> QED BY <3>3, <3>2, <1>2, <2>1
  <2>2. CASE x \notin T
    <3>1. R = T BY <2>2
    <3>2. SumFunctionOnSet(g, T) = SumFunctionOnSet(g, R) BY <3>1
    <3> HIDE DEF R
    <3> QED BY <3>2, <2>2, <1>2
  <2> QED BY <2>1, <2>2
<1>5. (IF x \in S THEN f[x] ELSE 0) \in Int /\ (IF x \in T THEN g[x] ELSE 0) \in Int
  OBVIOUS
<1> HIDE DEF R
<1> QED BY <1>2, <1>3, <1>4, <1>5

\* One entry of a ledger changes.
LEMMA SumChange ==
  ASSUME NEW f, NEW g, NEW S, IsFiniteSet(S),
         \A y \in S : f[y] \in Int, \A y \in S : g[y] \in Int,
         NEW x \in S, \A y \in S \ {x} : f[y] = g[y]
  PROVE  SumFunctionOnSet(g, S) = SumFunctionOnSet(f, S) - f[x] + g[x]
  BY SumUpdate

LEMMA SumZero ==
  ASSUME NEW f, NEW S, IsFiniteSet(S), \A y \in S : f[y] = 0
  PROVE  SumFunctionOnSet(f, S) = 0
<1> DEFINE C == {V \in SUBSET S : SumFunctionOnSet(f, V) # 0}
<1>1. ASSUME C # {} PROVE FALSE
  <2>1. PICK V \in C : \A W \in C : W \subseteq V => W = V
    <3>1. C \in SUBSET SUBSET S OBVIOUS
    <3> HIDE DEF C
    <3> QED BY <1>1, <3>1, SetLeast
  <2>2. V # {}
    BY SumEmpty
  <2>3. IsFiniteSet(V) /\ Element(V) \in V
    BY <2>2, FS_Subset, ElementIn
  <2> DEFINE W == V \ {Element(V)}
  <2>4. SumFunctionOnSet(f, W) = 0
    BY <2>1, <2>3
  <2>5. SumFunctionOnSet(f, V) = f[Element(V)] + SumFunctionOnSet(f, W)
    BY <2>2, <2>3, SumStep
  <2>6. f[Element(V)] = 0
    BY <2>3
  <2>7. SumFunctionOnSet(f, V) = 0
    BY <2>4, <2>5, <2>6
  <2> QED BY <2>7
<1> QED BY <1>1

\* The sum of a ledger that is another one plus a multiple of a third.
LEMMA SumLinear ==
  ASSUME NEW f, NEW g, NEW h, NEW S, IsFiniteSet(S), NEW c \in Int,
         \A y \in S : f[y] \in Int, \A y \in S : g[y] \in Int,
         \A y \in S : h[y] = f[y] + c * g[y]
  PROVE  SumFunctionOnSet(h, S) = SumFunctionOnSet(f, S) + c * SumFunctionOnSet(g, S)
<1> DEFINE Right(V) == SumFunctionOnSet(h, V) = SumFunctionOnSet(f, V) + c * SumFunctionOnSet(g, V)
           C == {V \in SUBSET S : ~ Right(V)}
<1>1. ASSUME C # {} PROVE FALSE
  <2>1. PICK V \in C : \A W \in C : W \subseteq V => W = V
    <3>1. C \in SUBSET SUBSET S OBVIOUS
    <3> HIDE DEF C
    <3> QED BY <1>1, <3>1, SetLeast
  <2>2. V # {}
    <3>1. Right({}) BY SumEmpty
    <3> QED BY <2>1, <3>1
  <2>3. IsFiniteSet(V) /\ Element(V) \in V /\ V \in SUBSET S
    BY <2>2, FS_Subset, ElementIn
  <2> DEFINE p == Element(V)
             W == V \ {p}
  <2>4. W \in SUBSET S /\ W # V /\ W \subseteq V /\ IsFiniteSet(W)
    BY <2>3, FS_RemoveElement
  <2>5. SumFunctionOnSet(h, W) = SumFunctionOnSet(f, W) + c * SumFunctionOnSet(g, W)
    BY <2>1, <2>4
  <2>6. SumFunctionOnSet(f, W) \in Int /\ SumFunctionOnSet(g, W) \in Int
    <3>1. (\A y \in W : f[y] \in Int) /\ (\A y \in W : g[y] \in Int)
      BY <2>4
    <3> HIDE DEF W
    <3> QED BY <2>4, <3>1, SumInt
  <2>7. f[p] \in Int /\ g[p] \in Int /\ h[p] = f[p] + c * g[p] /\ \A y \in V : h[y] \in Int
    BY <2>3
  <2>8. /\ SumFunctionOnSet(f, V) = f[p] + SumFunctionOnSet(f, W)
        /\ SumFunctionOnSet(g, V) = g[p] + SumFunctionOnSet(g, W)
    BY <2>2, <2>3, SumStep
  <2>9. SumFunctionOnSet(h, V) = h[p] + SumFunctionOnSet(h, W)
    BY <2>2, <2>3, <2>7, SumStep
  <2> HIDE DEF W, p
  <2>10. Right(V)
    BY <2>5, <2>6, <2>7, <2>8, <2>9
  <2> QED BY <2>1, <2>10
<1> QED BY <1>1

LEMMA SumAtMost ==
  ASSUME NEW f, NEW g, NEW S, IsFiniteSet(S),
         \A y \in S : f[y] \in Int, \A y \in S : g[y] \in Int,
         \A y \in S : f[y] <= g[y]
  PROVE  SumFunctionOnSet(f, S) <= SumFunctionOnSet(g, S)
<1> DEFINE C == {V \in SUBSET S : ~ (SumFunctionOnSet(f, V) <= SumFunctionOnSet(g, V))}
<1>1. ASSUME C # {} PROVE FALSE
  <2>1. PICK V \in C : \A W \in C : W \subseteq V => W = V
    <3>1. C \in SUBSET SUBSET S OBVIOUS
    <3> HIDE DEF C
    <3> QED BY <1>1, <3>1, SetLeast
  <2>2. V # {}
    BY SumEmpty
  <2>3. IsFiniteSet(V) /\ Element(V) \in V /\ V \in SUBSET S
    BY <2>2, FS_Subset, ElementIn
  <2> DEFINE p == Element(V)
             W == V \ {p}
  <2>4. W \in SUBSET S /\ W # V /\ W \subseteq V /\ IsFiniteSet(W)
    BY <2>3, FS_RemoveElement
  <2>5. SumFunctionOnSet(f, W) <= SumFunctionOnSet(g, W)
    BY <2>1, <2>4
  <2>6. SumFunctionOnSet(f, W) \in Int /\ SumFunctionOnSet(g, W) \in Int
    <3>1. (\A y \in W : f[y] \in Int) /\ (\A y \in W : g[y] \in Int)
      BY <2>4
    <3> HIDE DEF W
    <3> QED BY <2>4, <3>1, SumInt
  <2>7. f[p] \in Int /\ g[p] \in Int /\ f[p] <= g[p]
    BY <2>3
  <2>8. /\ SumFunctionOnSet(f, V) = f[p] + SumFunctionOnSet(f, W)
        /\ SumFunctionOnSet(g, V) = g[p] + SumFunctionOnSet(g, W)
    BY <2>2, <2>3, SumStep
  <2>9. SumFunctionOnSet(f, V) <= SumFunctionOnSet(g, V)
    <3> HIDE DEF W, p
    <3> QED BY <2>5, <2>6, <2>7, <2>8
  <2> QED BY <2>1, <2>9
<1> QED BY <1>1

LEMMA SumNat ==
  ASSUME NEW f, NEW S, IsFiniteSet(S), \A y \in S : f[y] \in Nat
  PROVE  SumFunctionOnSet(f, S) \in Nat
<1> DEFINE z == [y \in S |-> 0]
<1>1. SumFunctionOnSet(z, S) = 0
  BY SumZero
<1>2. SumFunctionOnSet(z, S) <= SumFunctionOnSet(f, S)
  <2>1. (\A y \in S : z[y] \in Int) /\ (\A y \in S : f[y] \in Int) /\ (\A y \in S : z[y] <= f[y])
    OBVIOUS
  <2> HIDE DEF z
  <2> QED BY <2>1, SumAtMost
<1>3. SumFunctionOnSet(f, S) \in Int
  BY SumInt
<1> QED BY <1>1, <1>2, <1>3

\* No entry exceeds the sum.
LEMMA EntryAtMostSum ==
  ASSUME NEW f, NEW S, IsFiniteSet(S), \A y \in S : f[y] \in Nat, NEW x \in S
  PROVE  f[x] <= SumFunctionOnSet(f, S)
<1>1. SumFunctionOnSet(f, S) = f[x] + SumFunctionOnSet(f, S \ {x})
  BY SumRemove
<1>2. IsFiniteSet(S \ {x})
  BY FS_RemoveElement
<1>3. SumFunctionOnSet(f, S \ {x}) \in Nat
  BY <1>2, SumNat
<1> QED BY <1>1, <1>3

\* More summands that are not negative make no smaller sum.
LEMMA SumSubset ==
  ASSUME NEW f, NEW S, IsFiniteSet(S), \A y \in S : f[y] \in Nat, NEW T \in SUBSET S
  PROVE  SumFunctionOnSet(f, T) <= SumFunctionOnSet(f, S)
<1> DEFINE C == {V \in SUBSET S : \E W \in SUBSET V :
                   ~(SumFunctionOnSet(f, W) <= SumFunctionOnSet(f, V))}
<1>1. ASSUME C # {} PROVE FALSE
  <2>1. PICK V \in C : \A U \in C : U \subseteq V => U = V
    <3>1. C \in SUBSET SUBSET S
      OBVIOUS
    <3> HIDE DEF C
    <3>2. QED
      BY <1>1, <3>1, SetLeast
  <2>2. PICK W \in SUBSET V : ~(SumFunctionOnSet(f, W) <= SumFunctionOnSet(f, V))
    OBVIOUS
  <2>3. /\ V \in SUBSET S /\ IsFiniteSet(V) /\ IsFiniteSet(W)
        /\ SumFunctionOnSet(f, W) \in Nat
    BY FS_Subset, SumNat
  <2>4. PICK x \in V : x \notin W
    BY <2>2, <2>3
  <2> DEFINE U == V \ {x}
  <2>5. U \in SUBSET S /\ U \subseteq V /\ U # V /\ W \in SUBSET U /\ IsFiniteSet(U)
    BY <2>3, <2>4, FS_RemoveElement
  <2>6. SumFunctionOnSet(f, W) <= SumFunctionOnSet(f, U)
    BY <2>1, <2>5
  <2>7. SumFunctionOnSet(f, V) = f[x] + SumFunctionOnSet(f, U)
    BY <2>3, <2>4, SumRemove
  <2>8. f[x] \in Nat /\ SumFunctionOnSet(f, U) \in Nat
    <3>1. \A y \in U : f[y] \in Nat
      BY <2>5
    <3> HIDE DEF U
    <3>2. QED
      BY <2>3, <2>5, <3>1, SumNat
  <2> HIDE DEF U, C
  <2>9. QED
    BY <2>2, <2>3, <2>6, <2>7, <2>8
<1>2. QED
  BY <1>1

\* One account of a ledger receives, or pays.
LEMMA SumCredited ==
  ASSUME NEW S, IsFiniteSet(S), NEW f \in [S -> Int], NEW x \in S, NEW n \in Int
  PROVE  SumFunctionOnSet([f EXCEPT ![x] = @ + n], S) = SumFunctionOnSet(f, S) + n
<1> DEFINE g == [f EXCEPT ![x] = @ + n]
<1>1. /\ \A y \in S : f[y] \in Int /\ g[y] \in Int
      /\ \A y \in S \ {x} : f[y] = g[y]
      /\ g[x] = f[x] + n
  OBVIOUS
<1>2. SumFunctionOnSet(f, S) \in Int
  BY <1>1, SumInt
<1> HIDE DEF g
<1>3. SumFunctionOnSet(g, S) = SumFunctionOnSet(f, S) - f[x] + g[x]
  BY <1>1, SumChange
<1>4. SumFunctionOnSet(g, S) = SumFunctionOnSet(f, S) + n
  BY <1>1, <1>2, <1>3
<1>5. QED
  BY <1>4 DEF g

LEMMA SumDebited ==
  ASSUME NEW S, IsFiniteSet(S), NEW f \in [S -> Int], NEW x \in S, NEW n \in Int
  PROVE  SumFunctionOnSet([f EXCEPT ![x] = @ - n], S) = SumFunctionOnSet(f, S) - n
<1>1. -n \in Int /\ f[x] + (-n) = f[x] - n
  OBVIOUS
<1>2. [f EXCEPT ![x] = @ - n] = [f EXCEPT ![x] = @ + (-n)]
  BY <1>1
<1>3. SumFunctionOnSet(f, S) \in Int
  BY SumInt
<1>4. SumFunctionOnSet([f EXCEPT ![x] = @ + (-n)], S) = SumFunctionOnSet(f, S) + (-n)
  BY <1>1, SumCredited
<1>5. SumFunctionOnSet([f EXCEPT ![x] = @ - n], S) = SumFunctionOnSet(f, S) + (-n)
  BY <1>2, <1>4
<1>6. QED
  BY <1>3, <1>5

\* Two accounts move, or one account twice.
MovedTwice(f, S, x, m, y, n) ==
  [z \in S |-> f[z] + (IF z = x THEN m ELSE 0) + (IF z = y THEN n ELSE 0)]

LEMMA SumTwice ==
  ASSUME NEW S, IsFiniteSet(S), NEW f \in [S -> Int], NEW x \in S, NEW y \in S,
         NEW m \in Int, NEW n \in Int
  PROVE  SumFunctionOnSet(MovedTwice(f, S, x, m, y, n), S) = SumFunctionOnSet(f, S) + m + n
<1> DEFINE h == [f EXCEPT ![x] = @ + m]
           k == [h EXCEPT ![y] = @ + n]
           g == MovedTwice(f, S, x, m, y, n)
<1>1. h \in [S -> Int] /\ \A z \in S : h[z] = f[z] + (IF z = x THEN m ELSE 0)
  OBVIOUS
<1>2. SumFunctionOnSet(h, S) = SumFunctionOnSet(f, S) + m
  BY SumCredited
<1> HIDE DEF h
<1>3. \A z \in S : k[z] = h[z] + (IF z = y THEN n ELSE 0) /\ k[z] \in Int
  BY <1>1
<1>4. SumFunctionOnSet(k, S) = SumFunctionOnSet(h, S) + n
  BY <1>1, SumCredited
<1>5. \A z \in S : k[z] = g[z]
  BY <1>1, <1>3 DEF MovedTwice
<1> HIDE DEF k, g
<1>6. SumFunctionOnSet(k, S) = SumFunctionOnSet(g, S)
  BY <1>3, <1>5, SumSame
<1>7. SumFunctionOnSet(g, S) = SumFunctionOnSet(f, S) + m + n
  BY <1>2, <1>4, <1>6
<1>8. QED
  BY <1>7 DEF g

\* A transfer leaves the sum alone.
Transferred(f, x, y, n) == [[f EXCEPT ![x] = @ - n] EXCEPT ![y] = @ + n]

LEMMA SumTransferred ==
  ASSUME NEW S, IsFiniteSet(S), NEW f \in [S -> Int], NEW x \in S, NEW y \in S, NEW n \in Int
  PROVE  SumFunctionOnSet(Transferred(f, x, y, n), S) = SumFunctionOnSet(f, S)
<1> DEFINE h == [f EXCEPT ![x] = @ - n]
<1>1. h \in [S -> Int] /\ SumFunctionOnSet(f, S) \in Int
  BY SumInt
<1>2. SumFunctionOnSet(h, S) = SumFunctionOnSet(f, S) - n
  BY SumDebited
<1> HIDE DEF h
<1>3. SumFunctionOnSet([h EXCEPT ![y] = @ + n], S) = SumFunctionOnSet(h, S) + n
  BY <1>1, SumCredited
<1>4. SumFunctionOnSet([h EXCEPT ![y] = @ + n], S) = SumFunctionOnSet(f, S)
  BY <1>1, <1>2, <1>3
<1>5. QED
  BY <1>4, Zenon DEF h, Transferred

\* A finite set of natural numbers has a largest element, and the library finds it.
LEMMA MaxIsLargest ==
  ASSUME NEW S \in SUBSET Nat, IsFiniteSet(S), S # {}
  PROVE  Max(S) \in S /\ \A n \in S : n <= Max(S)
<1> DEFINE id == [n \in S |-> n]
           B  == {m \in Nat : \A n \in S : n <= m}
<1>1. SumFunctionOnSet(id, S) \in B
  <2>1. \A n \in S : id[n] \in Nat /\ id[n] = n
    OBVIOUS
  <2> HIDE DEF id
  <2>2. SumFunctionOnSet(id, S) \in Nat /\ \A n \in S : id[n] <= SumFunctionOnSet(id, S)
    BY <2>1, SumNat, EntryAtMostSum
  <2>3. QED
    BY <2>1, <2>2
<1>2. PICK m \in B : \A k \in B : m <= k
  <2>1. B \in SUBSET Nat
    OBVIOUS
  <2> HIDE DEF B, id
  <2>2. QED
    BY <1>1, <2>1, NatLeast
<1>3. m \in S
  <2>1. SUFFICES ASSUME m \notin S PROVE FALSE
    OBVIOUS
  <2>2. PICK n \in S : TRUE
    OBVIOUS
  <2>3. m \in Nat /\ m - 1 \in Nat /\ \A k \in S : k <= m - 1
    BY <2>1, <2>2
  <2>4. m - 1 \in B
    BY <2>3
  <2> HIDE DEF B, id
  <2>5. m <= m - 1
    BY <1>2, <2>4
  <2>6. QED
    BY <2>3, <2>5
<1>4. \E x \in S : \A y \in S : x >= y
  BY <1>3
<1>5. Max(S) \in S /\ \A y \in S : Max(S) >= y
  BY <1>4 DEF Max
<1>6. QED
  BY <1>5

\* The lesser and the greater of two numbers.
LEMMA MinPair ==
  ASSUME NEW x \in Nat, NEW y \in Nat
  PROVE  Min({x, y}) \in {x, y} /\ Min({x, y}) <= x /\ Min({x, y}) <= y
<1>1. \E z \in {x, y} : \A w \in {x, y} : z <= w
  OBVIOUS
<1>2. QED
  BY <1>1 DEF Min

LEMMA MaxPair ==
  ASSUME NEW x \in Int, NEW y \in Int
  PROVE  Max({x, y}) \in {x, y} /\ Max({x, y}) >= x /\ Max({x, y}) >= y
<1>1. \E z \in {x, y} : \A w \in {x, y} : z >= w
  OBVIOUS
<1>2. QED
  BY <1>1 DEF Max

\* A least element is the minimum, a greatest one the maximum.
LEMMA MinIs ==
  ASSUME NEW S \in SUBSET Nat, NEW x \in S, \A y \in S : x <= y
  PROVE  Min(S) = x
<1>1. Min(S) \in S /\ \A y \in S : Min(S) <= y
  BY DEF Min
<1>2. Min(S) \in Nat /\ x \in Nat /\ Min(S) <= x
  BY <1>1
<1>3. QED
  BY <1>1, <1>2

LEMMA MaxIs ==
  ASSUME NEW S \in SUBSET Nat, NEW x \in S, \A y \in S : y <= x
  PROVE  Max(S) = x
<1>1. Max(S) \in S /\ \A y \in S : Max(S) >= y
  BY DEF Max
<1>2. Max(S) \in Nat /\ x \in Nat /\ Max(S) >= x
  BY <1>1
<1>3. QED
  BY <1>1, <1>2
=============================================================================
