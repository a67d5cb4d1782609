--------------------------- MODULE BpeWordsProofs ---------------------------
(***************************************************************************)
(* Proofs about words, for every word over every set of units: the         *)
(* frequency changes that merge_word reports are exactly the difference of *)
(* the pair counts before and after, and the word it returns is the one a  *)
(* left-to-right replacement of the pair gives. What comes first is used   *)
(* by the other modules too: induction over numbers, finite sets and       *)
(* sequences, stated with sets, so that it can be cited, and what follows  *)
(* from it for sums, cardinalities, flattened sequences and ordered sets.  *)
(***************************************************************************)
EXTENDS BpeWords, SequencesExt, SequenceTheorems, FiniteSetTheorems,
        WellFoundedInduction, TLAPS

\* The sum of f[i] over the i in S (Functions!SumFunctionOnSet).
Sum(f, S) == MapThenFoldSet(+, 0, LAMBDA i : f[i], LAMBDA s : CHOOSE x \in s : TRUE, S)

-----------------------------------------------------------------------------
(* Induction. *)

\* A set of numbers with 0 and every successor has all numbers.
LEMMA NatInd ==
  ASSUME NEW S \in SUBSET Nat, 0 \in S, \A n \in S : n + 1 \in S
  PROVE  S = Nat
<1> SUFFICES ASSUME Nat \ S # {} PROVE FALSE
  OBVIOUS
<1> DEFINE R == OpToRel(<, Nat)
           T == Nat \ S
<1>1. PICK x \in T : \A y \in T : ~(<<y, x>> \in R)
  <2> HIDE DEF R, T
  <2>1. IsWellFoundedOn(R, Nat)
    BY NatLessThanWellFounded DEF R
  <2> QED BY <2>1, WFMin DEF T
<1>2. x \in Nat /\ x # 0 /\ x - 1 \in Nat
  OBVIOUS
<1>3. <<x - 1, x>> \in R
  BY <1>2 DEF OpToRel
<1>4. x - 1 \in S
  BY <1>1, <1>2, <1>3
<1> QED BY <1>2, <1>4

\* A non-empty set of numbers has a least element.
LEMMA Least ==
  ASSUME NEW S \in SUBSET Nat, S # {}
  PROVE  \E n \in S : \A m \in S : n <= m
<1> DEFINE T == {n \in Nat : \A m \in S : n <= m}
<1>1. PICK m \in S : TRUE
  OBVIOUS
<1>2. m + 1 \notin T
  OBVIOUS
<1>3. 0 \in T
  OBVIOUS
<1>4. T # Nat
  BY <1>2
<1>5. PICK n \in T : n + 1 \notin T
  <2> HIDE DEF T
  <2>1. T \in SUBSET Nat
    BY DEF T
  <2> QED BY <1>3, <1>4, <2>1, NatInd
<1>6. PICK k \in S : k < n + 1
  BY <1>5
<1>7. k = n
  BY <1>5, <1>6
<1> QED BY <1>5, <1>7

\* A set of subsets of S with {} that is closed under adding elements has S.
LEMMA SubsetInd ==
  ASSUME NEW S, IsFiniteSet(S), NEW Q, {} \in Q,
         \A T \in SUBSET S : \A x \in S \ T : T \in Q => T \cup {x} \in Q
  PROVE  S \in Q
<1> DEFINE N == {n \in Nat : \A T \in SUBSET S : Cardinality(T) = n => T \in Q}
<1>1. 0 \in N
  BY FS_Subset, FS_EmptySet
<1>2. ASSUME NEW n \in N
      PROVE  n + 1 \in N
  <2> SUFFICES ASSUME NEW T \in SUBSET S, Cardinality(T) = n + 1
               PROVE  T \in Q
    OBVIOUS
  <2>1. IsFiniteSet(T)
    BY FS_Subset
  <2>2. PICK x \in T : TRUE
    BY <2>1, FS_EmptySet
  <2>3. T \ {x} \in SUBSET S /\ Cardinality(T \ {x}) = n
    <3>1. n \in Nat /\ IsFiniteSet(T) /\ x \in T /\ Cardinality(T) = n + 1
      BY <2>1
    <3> HIDE DEF N
    <3>2. Cardinality(T \ {x}) = Cardinality(T) - 1
      BY <3>1, FS_RemoveElement
    <3> QED BY <3>1, <3>2
  <2>4. T \ {x} \in Q /\ x \in S \ (T \ {x}) /\ T = (T \ {x}) \cup {x}
    BY <2>3
  <2> HIDE DEF N
  <2> QED BY <2>3, <2>4
<1>3. N = Nat
  <2>1. N \in SUBSET Nat
    OBVIOUS
  <2> HIDE DEF N
  <2> QED BY <1>1, <1>2, <2>1, NatInd
<1>4. Cardinality(S) \in Nat
  BY FS_CardinalityType
<1> QED BY <1>3, <1>4

-----------------------------------------------------------------------------
(* Sums. *)

\* it sums f over every subset of S, by taking one element after the other.
SumsOver(it, f, S) ==
  it = [s \in SUBSET S |->
          IF s = {} THEN 0
          ELSE f[CHOOSE x \in s : TRUE] + it[s \ {CHOOSE x \in s : TRUE}]]

\* The recursive function inside the fold exists.
LEMMA SumsExist ==
  ASSUME NEW f, NEW S, IsFiniteSet(S)
  PROVE  \E it : SumsOver(it, f, S)
<1> DEFINE Pick(s) == CHOOSE x \in s : TRUE
           Small(n) == {s \in SUBSET S : Cardinality(s) <= n}
           Is(it, n) == it = [s \in Small(n) |->
                                IF s = {} THEN 0 ELSE f[Pick(s)] + it[s \ {Pick(s)}]]
           N == {n \in Nat : \E it : Is(it, n)}
<1>1. \A s \in SUBSET S : s # {} =>
        /\ s \ {Pick(s)} \in SUBSET S
        /\ Cardinality(s) \in Nat \ {0}
        /\ Cardinality(s \ {Pick(s)}) = Cardinality(s) - 1
  <2> TAKE s \in SUBSET S
  <2> HAVE s # {}
  <2>1. IsFiniteSet(s)
    BY FS_Subset
  <2>2. Pick(s) \in s
    OBVIOUS
  <2>3. Cardinality(s) \in Nat \ {0}
    BY <2>1, FS_CardinalityType, FS_EmptySet
  <2> QED BY <2>1, <2>2, <2>3, FS_RemoveElement
<1>2. \A s \in SUBSET S : Cardinality(s) \in Nat
  BY FS_Subset, FS_CardinalityType
<1> HIDE DEF Pick
<1>3. 0 \in N
  <2> DEFINE it == [s \in Small(0) |-> 0]
  <2>1. \A s \in Small(0) : s = {}
    <3> TAKE s \in Small(0)
    <3>1. s \in SUBSET S /\ Cardinality(s) \in Nat /\ Cardinality(s) <= 0
      BY <1>2
    <3>2. IsFiniteSet(s) /\ Cardinality(s) = 0
      BY <3>1, FS_Subset
    <3> HIDE DEF Small
    <3> QED BY <3>2, FS_EmptySet
  <2>2. Is(it, 0)
    BY <2>1
  <2> QED BY <2>2
<1>4. ASSUME NEW n \in N
      PROVE  n + 1 \in N
  <2>0. n \in Nat
    OBVIOUS
  <2>1. PICK g : Is(g, n)
    OBVIOUS
  <2> DEFINE h == [s \in Small(n + 1) |->
                     IF s = {} THEN 0 ELSE f[Pick(s)] + g[s \ {Pick(s)}]]
  <2>2. \A s \in Small(n) : s \in Small(n + 1) /\ h[s] = g[s]
    <3> TAKE s \in Small(n)
    <3>1. s \in Small(n + 1)
      BY <1>2, <2>0
    <3> HIDE DEF Small
    <3> QED BY <2>1, <3>1
  <2>3. \A s \in Small(n + 1) : s # {} => s \ {Pick(s)} \in Small(n)
    BY <1>1, <2>0
  <2>4. \A s \in Small(n + 1) : s # {} => h[s \ {Pick(s)}] = g[s \ {Pick(s)}]
    <3> HIDE DEF h, Small
    <3> QED BY <2>2, <2>3
  <2>5. Is(h, n + 1)
    <3>1. \A s \in Small(n + 1) :
            h[s] = IF s = {} THEN 0 ELSE f[Pick(s)] + h[s \ {Pick(s)}]
      <4> HIDE DEF Small
      <4>1. \A s \in Small(n + 1) :
              h[s] = IF s = {} THEN 0 ELSE f[Pick(s)] + g[s \ {Pick(s)}]
        OBVIOUS
      <4> HIDE DEF h
      <4> QED BY <2>4, <4>1
    <3> DEFINE D == Small(n + 1)
    <3>2. h = [s \in D |-> h[s]]
      OBVIOUS
    <3> HIDE DEF h, D
    <3> QED BY <3>1, <3>2 DEF D
  <2>6. \E it : Is(it, n + 1)
    BY <2>5
  <2> HIDE DEF Is
  <2> QED BY <2>0, <2>6
<1>5. Cardinality(S) \in N
  <2>1. N \in SUBSET Nat
    OBVIOUS
  <2> HIDE DEF N
  <2> QED BY <1>3, <1>4, <2>1, NatInd, FS_CardinalityType
<1>6. Small(Cardinality(S)) = SUBSET S
  BY FS_Subset
<1> QED BY <1>5, <1>6 DEF Pick, SumsOver

\* A sum is a value of such a function.
LEMMA SumIsOver ==
  ASSUME NEW f, NEW S, IsFiniteSet(S)
  PROVE  \E it : SumsOver(it, f, S) /\ Sum(f, S) = it[S]
<1> DEFINE it == CHOOSE g : SumsOver(g, f, S)
<1>1. SumsOver(it, f, S)
  BY SumsExist
<1>2. Sum(f, S) = it[S]
  BY Zenon DEF Sum, MapThenFoldSet, SumsOver
<1> QED BY <1>1, <1>2

\* Two such functions agree on the sets they share.
LEMMA SumsAgree ==
  ASSUME NEW f, NEW S, NEW T \in SUBSET S, IsFiniteSet(S),
         NEW g, SumsOver(g, f, S), NEW h, SumsOver(h, f, T)
  PROVE  g[T] = h[T]
<1> DEFINE Pick(s) == CHOOSE x \in s : TRUE
           N == {n \in Nat : \A s \in SUBSET T : Cardinality(s) = n => g[s] = h[s]}
<1>1. \A s \in SUBSET T : IsFiniteSet(s) /\ Cardinality(s) \in Nat
  BY FS_Subset, FS_CardinalityType
<1>2. \A s \in SUBSET T : s # {} => Pick(s) \in s
  OBVIOUS
<1>3. \A s \in SUBSET T :
        /\ g[s] = IF s = {} THEN 0 ELSE f[Pick(s)] + g[s \ {Pick(s)}]
        /\ h[s] = IF s = {} THEN 0 ELSE f[Pick(s)] + h[s \ {Pick(s)}]
  <2> TAKE s \in SUBSET T
  <2>1. s \in SUBSET S
    OBVIOUS
  <2> QED BY <2>1 DEF SumsOver
<1> HIDE DEF Pick
<1>4. 0 \in N
  BY <1>1, <1>3, FS_EmptySet
<1>5. ASSUME NEW n \in N
      PROVE  n + 1 \in N
  <2> SUFFICES ASSUME NEW s \in SUBSET T, Cardinality(s) = n + 1
               PROVE  g[s] = h[s]
    OBVIOUS
  <2>0. n \in Nat
    OBVIOUS
  <2>1. s # {}
    BY <2>0, FS_EmptySet
  <2>2. s \ {Pick(s)} \in SUBSET T /\ Cardinality(s \ {Pick(s)}) = n
    <3>1. Cardinality(s \ {Pick(s)}) = Cardinality(s) - 1
      BY <1>1, <1>2, <2>1, FS_RemoveElement
    <3> QED BY <2>0, <3>1
  <2>3. g[s \ {Pick(s)}] = h[s \ {Pick(s)}]
    BY <2>2
  <2> HIDE DEF N
  <2> QED BY <1>3, <2>1, <2>3
<1>6. N = Nat
  <2>1. N \in SUBSET Nat
    OBVIOUS
  <2> HIDE DEF N
  <2> QED BY <1>4, <1>5, <2>1, NatInd
<1> QED BY <1>1, <1>6

\* The sum over a function is a sum over its domain.
LEMMA SumOfFunction == ASSUME NEW f PROVE SumFunction(f) = Sum(f, DOMAIN f)
BY Zenon DEF SumFunction, SumFunctionOnSet, FoldFunctionOnSet, Sum

\* A sum over nothing is 0.
LEMMA SumEmpty == ASSUME NEW f PROVE Sum(f, {}) = 0
<1>1. PICK g : SumsOver(g, f, {}) /\ Sum(f, {}) = g[{}]
  BY SumIsOver, FS_EmptySet
<1>2. {} \in SUBSET {}
  OBVIOUS
<1> QED BY <1>1, <1>2 DEF SumsOver

\* A sum is one of its terms and the sum of the others.
LEMMA SumStep ==
  ASSUME NEW f, NEW S, IsFiniteSet(S), S # {}
  PROVE  \E x \in S : Sum(f, S) = f[x] + Sum(f, S \ {x})
<1> DEFINE x == CHOOSE x \in S : TRUE
<1>1. x \in S
  OBVIOUS
<1>2. PICK g : SumsOver(g, f, S) /\ Sum(f, S) = g[S]
  BY SumIsOver
<1>3. IsFiniteSet(S \ {x})
  BY FS_RemoveElement
<1>4. PICK h : SumsOver(h, f, S \ {x}) /\ Sum(f, S \ {x}) = h[S \ {x}]
  BY <1>3, SumIsOver
<1>5. g[S \ {x}] = h[S \ {x}]
  BY <1>2, <1>4, SumsAgree
<1>6. g[S] = f[x] + g[S \ {x}]
  <2>1. S \in SUBSET S
    OBVIOUS
  <2> QED BY <1>2, <2>1 DEF SumsOver
<1> QED BY <1>1, <1>2, <1>4, <1>5, <1>6

\* A sum of integers is an integer.
LEMMA SumType ==
  ASSUME NEW f, NEW S, IsFiniteSet(S), \A i \in S : f[i] \in Int
  PROVE  Sum(f, S) \in Int
<1> DEFINE N == {n \in Nat : \A T \in SUBSET S : Cardinality(T) = n => Sum(f, T) \in Int}
<1>1. \A T \in SUBSET S : IsFiniteSet(T) /\ Cardinality(T) \in Nat
  BY FS_Subset, FS_CardinalityType
<1>2. 0 \in N
  BY <1>1, SumEmpty, FS_EmptySet
<1>3. ASSUME NEW n \in N
      PROVE  n + 1 \in N
  <2> SUFFICES ASSUME NEW T \in SUBSET S, Cardinality(T) = n + 1
               PROVE  Sum(f, T) \in Int
    OBVIOUS
  <2>0. n \in Nat
    OBVIOUS
  <2>1. T # {}
    BY <2>0, FS_EmptySet
  <2>2. PICK x \in T : Sum(f, T) = f[x] + Sum(f, T \ {x})
    BY <1>1, <2>1, SumStep
  <2>3. T \ {x} \in SUBSET S /\ Cardinality(T \ {x}) = n
    <3>1. Cardinality(T \ {x}) = Cardinality(T) - 1
      BY <1>1, FS_RemoveElement
    <3> QED BY <2>0, <3>1
  <2>4. Sum(f, T \ {x}) \in Int
    BY <2>3
  <2> QED BY <2>2, <2>4
<1>4. N = Nat
  <2>1. N \in SUBSET Nat
    OBVIOUS
  <2> HIDE DEF N
  <2> QED BY <1>2, <1>3, <2>1, NatInd
<1> QED BY <1>1, <1>4

\* A sum does not depend on the order in which its terms are taken.
LEMMA SumRemove ==
  ASSUME NEW f, NEW S, IsFiniteSet(S), \A i \in S : f[i] \in Int, NEW x \in S
  PROVE  Sum(f, S) = f[x] + Sum(f, S \ {x})
<1> DEFINE N == {n \in Nat : \A T \in SUBSET S : Cardinality(T) = n =>
                   \A y \in T : Sum(f, T) = f[y] + Sum(f, T \ {y})}
<1>1. \A T \in SUBSET S : IsFiniteSet(T) /\ Cardinality(T) \in Nat /\ Sum(f, T) \in Int
  BY FS_Subset, FS_CardinalityType, SumType
<1>2. 0 \in N
  BY <1>1, FS_EmptySet
<1>3. ASSUME NEW n \in N
      PROVE  n + 1 \in N
  <2> SUFFICES ASSUME NEW T \in SUBSET S, Cardinality(T) = n + 1, NEW y \in T
               PROVE  Sum(f, T) = f[y] + Sum(f, T \ {y})
    OBVIOUS
  <2>0. n \in Nat
    OBVIOUS
  <2>1. PICK z \in T : Sum(f, T) = f[z] + Sum(f, T \ {z})
    BY <1>1, SumStep
  <2>2. \A v \in T : /\ T \ {v} \in SUBSET S
                    /\ \A u \in T \ {v} :
                         Sum(f, T \ {v}) = f[u] + Sum(f, (T \ {v}) \ {u})
    <3> TAKE v \in T
    <3>1. Cardinality(T \ {v}) = Cardinality(T) - 1
      BY <1>1, FS_RemoveElement
    <3> QED BY <2>0, <3>1
  <2>3. (T \ {z}) \ {y} = (T \ {y}) \ {z} /\ (T \ {z}) \ {y} \in SUBSET S
    OBVIOUS
  <2>4. f[y] \in Int /\ f[z] \in Int /\ Sum(f, (T \ {z}) \ {y}) \in Int
    BY <1>1, <2>3
  <2> HIDE DEF N
  <2>5. CASE y = z
    BY <2>1, <2>5
  <2>6. CASE y # z
    <3>1. Sum(f, T \ {z}) = f[y] + Sum(f, (T \ {z}) \ {y})
      BY <2>2, <2>6
    <3>2. Sum(f, T \ {y}) = f[z] + Sum(f, (T \ {y}) \ {z})
      BY <2>2, <2>6
    <3>3. Sum(f, (T \ {z}) \ {y}) = Sum(f, (T \ {y}) \ {z})
      BY <2>3
    <3> QED BY <2>1, <2>4, <3>1, <3>2, <3>3
  <2> QED BY <2>5, <2>6
<1>4. N = Nat
  <2>1. N \in SUBSET Nat
    OBVIOUS
  <2> HIDE DEF N
  <2> QED BY <1>2, <1>3, <2>1, NatInd
<1>5. S \in SUBSET S
  OBVIOUS
<1> QED BY <1>1, <1>4, <1>5

\* An index that is added adds its term.
LEMMA SumAdd ==
  ASSUME NEW f, NEW S, IsFiniteSet(S), \A i \in S : f[i] \in Int,
         NEW T \in SUBSET S, NEW x \in S \ T
  PROVE  Sum(f, T \cup {x}) = f[x] + Sum(f, T)
<1>1. IsFiniteSet(T \cup {x}) /\ (T \cup {x}) \ {x} = T
  BY FS_Subset, FS_AddElement
<1> QED BY <1>1, SumRemove

\* A sum of differences is the difference of the sums.
LEMMA SumMinus ==
  ASSUME NEW S, IsFiniteSet(S), NEW f, NEW g, NEW h,
         \A i \in S : f[i] \in Int /\ g[i] \in Int /\ h[i] = f[i] - g[i]
  PROVE  Sum(h, S) = Sum(f, S) - Sum(g, S)
<1> DEFINE Q == {T \in SUBSET S : Sum(h, T) = Sum(f, T) - Sum(g, T)}
<1>1. {} \in Q
  BY SumEmpty
<1>2. ASSUME NEW T \in SUBSET S, NEW x \in S \ T, T \in Q
      PROVE  T \cup {x} \in Q
  <2>1. \A i \in S : f[i] \in Int /\ g[i] \in Int /\ h[i] \in Int
    OBVIOUS
  <2>2. /\ Sum(f, T \cup {x}) = f[x] + Sum(f, T)
        /\ Sum(g, T \cup {x}) = g[x] + Sum(g, T)
        /\ Sum(h, T \cup {x}) = h[x] + Sum(h, T)
    BY <2>1, SumAdd
  <2>3. IsFiniteSet(T)
    BY FS_Subset
  <2>4. Sum(f, T) \in Int /\ Sum(g, T) \in Int
    BY <2>1, <2>3, SumType
  <2> QED BY <1>2, <2>2, <2>4
<1> HIDE DEF Q
<1>3. S \in Q
  BY <1>1, <1>2, SubsetInd
<1> QED BY <1>3 DEF Q

\* Sums are monotone.
LEMMA SumLeq ==
  ASSUME NEW S, IsFiniteSet(S), NEW f, NEW g,
         \A i \in S : f[i] \in Int /\ g[i] \in Int /\ f[i] <= g[i]
  PROVE  Sum(f, S) <= Sum(g, S)
<1> DEFINE Q == {T \in SUBSET S : Sum(f, T) <= Sum(g, T)}
<1>1. {} \in Q
  BY SumEmpty
<1>2. ASSUME NEW T \in SUBSET S, NEW x \in S \ T, T \in Q
      PROVE  T \cup {x} \in Q
  <2>1. /\ Sum(f, T \cup {x}) = f[x] + Sum(f, T)
        /\ Sum(g, T \cup {x}) = g[x] + Sum(g, T)
    BY SumAdd
  <2>2. IsFiniteSet(T)
    BY FS_Subset
  <2>3. Sum(f, T) \in Int /\ Sum(g, T) \in Int
    BY <2>2, SumType
  <2> QED BY <1>2, <2>1, <2>3
<1> HIDE DEF Q
<1>3. S \in Q
  BY <1>1, <1>2, SubsetInd
<1> QED BY <1>3 DEF Q

\* Equal terms have equal sums.
LEMMA SumEqual ==
  ASSUME NEW S, IsFiniteSet(S), NEW f, NEW g,
         \A i \in S : f[i] \in Int /\ f[i] = g[i]
  PROVE  Sum(f, S) = Sum(g, S)
<1>1. Sum(f, S) <= Sum(g, S) /\ Sum(g, S) <= Sum(f, S)
  BY SumLeq
<1>2. Sum(f, S) \in Int /\ Sum(g, S) \in Int
  BY SumType
<1> QED BY <1>1, <1>2

\* A sum of zeros is 0.
LEMMA SumZero ==
  ASSUME NEW S, IsFiniteSet(S), NEW f, \A i \in S : f[i] = 0
  PROVE  Sum(f, S) = 0
<1>1. Sum(f, S) = Sum(f, S) - Sum(f, S)
  BY SumMinus
<1>2. Sum(f, S) \in Int
  BY SumType
<1> QED BY <1>1, <1>2

\* A sum of natural numbers is one.
LEMMA SumNonnegative ==
  ASSUME NEW S, IsFiniteSet(S), NEW f, \A i \in S : f[i] \in Nat
  PROVE  Sum(f, S) \in Nat
<1> DEFINE z == [i \in S |-> 0]
<1>1. Sum(z, S) = 0
  BY SumZero
<1>2. Sum(z, S) <= Sum(f, S)
  BY SumLeq
<1>3. Sum(f, S) \in Int
  BY SumType
<1> QED BY <1>1, <1>2, <1>3

\* A sum of natural numbers with a positive one is positive.
LEMMA SumPositive ==
  ASSUME NEW S, IsFiniteSet(S), NEW f, \A i \in S : f[i] \in Nat,
         NEW x \in S, f[x] > 0
  PROVE  Sum(f, S) > 0
<1>1. Sum(f, S) = f[x] + Sum(f, S \ {x})
  BY SumRemove
<1>2. IsFiniteSet(S \ {x})
  BY FS_RemoveElement
<1>3. Sum(f, S \ {x}) \in Nat
  BY <1>2, SumNonnegative
<1> QED BY <1>1, <1>3

\* Terms that are 0 may be left out.
LEMMA SumOn ==
  ASSUME NEW S, IsFiniteSet(S), NEW f, \A i \in S : f[i] \in Int,
         NEW T \in SUBSET S, \A i \in S \ T : f[i] = 0
  PROVE  Sum(f, S) = Sum(f, T)
<1> DEFINE U == S \ T
           Q == {R \in SUBSET U : Sum(f, T \cup R) = Sum(f, T)}
<1>1. {} \in Q
  <2>1. T \cup {} = T
    OBVIOUS
  <2> QED BY <2>1
<1>2. ASSUME NEW R \in SUBSET U, NEW x \in U \ R, R \in Q
      PROVE  R \cup {x} \in Q
  <2>1. T \cup R \in SUBSET S /\ x \in S \ (T \cup R) /\ f[x] = 0
    OBVIOUS
  <2>2. Sum(f, (T \cup R) \cup {x}) = f[x] + Sum(f, T \cup R)
    BY <2>1, SumAdd
  <2>3. IsFiniteSet(T \cup R)
    BY <2>1, FS_Subset
  <2>4. Sum(f, T \cup R) \in Int
    BY <2>1, <2>3, SumType
  <2>5. (T \cup R) \cup {x} = T \cup (R \cup {x}) /\ Sum(f, T \cup R) = Sum(f, T)
    BY <1>2
  <2>6. Sum(f, (T \cup R) \cup {x}) = Sum(f, T \cup R)
    BY <2>1, <2>2, <2>4
  <2>7. Sum(f, T \cup (R \cup {x})) = Sum(f, T)
    BY <2>5, <2>6, Zenon
  <2> QED BY <2>7
<1>3. IsFiniteSet(U)
  BY FS_Subset
<1>4. U \in Q
  <2> HIDE DEF Q, U
  <2> QED BY <1>1, <1>2, <1>3, SubsetInd
<1>5. T \cup U = S
  OBVIOUS
<1> QED BY <1>4, <1>5

-----------------------------------------------------------------------------
(* Cardinalities. *)

\* Moving a set of numbers keeps its cardinality.
LEMMA CardinalityShift ==
  ASSUME NEW S \in SUBSET Int, IsFiniteSet(S), NEW n \in Int
  PROVE  /\ IsFiniteSet({i + n : i \in S})
         /\ Cardinality({i + n : i \in S}) = Cardinality(S)
<1> DEFINE T == {i + n : i \in S}
           f == [i \in S |-> i + n]
<1>1. f \in Bijection(S, T)
  <2>1. f \in [S -> T] /\ \A i, j \in S : f[i] = f[j] => i = j
    OBVIOUS
  <2>2. \A t \in T : \E i \in S : f[i] = t
    OBVIOUS
  <2> HIDE DEF f, T
  <2> QED BY <2>1, <2>2 DEF Bijection, Injection, Surjection, IsInjective
<1> QED BY <1>1, FS_Bijection DEF ExistsBijection

\* The cardinalities of disjoint sets add up.
LEMMA CardinalityDisjoint ==
  ASSUME NEW S, IsFiniteSet(S), NEW T, IsFiniteSet(T), S \cap T = {}
  PROVE  /\ IsFiniteSet(S \cup T)
         /\ Cardinality(S \cup T) = Cardinality(S) + Cardinality(T)
<1>1. /\ IsFiniteSet(S \cup T)
      /\ Cardinality(S \cup T) = Cardinality(S) + Cardinality(T) - Cardinality(S \cap T)
  BY FS_Union
<1>2. Cardinality(S \cap T) = 0
  BY FS_EmptySet
<1>3. Cardinality(S) \in Nat /\ Cardinality(T) \in Nat
  BY FS_CardinalityType
<1> QED BY <1>1, <1>2, <1>3

-----------------------------------------------------------------------------
(* Sequences. *)

\* A set of sequences that has every sequence whose shorter ones it has, has
\* all of them.
LEMMA SeqInd ==
  ASSUME NEW U, NEW Q,
         \A s \in Seq(U) : (\A t \in Seq(U) : Len(t) < Len(s) => t \in Q) => s \in Q
  PROVE  \A s \in Seq(U) : s \in Q
<1> DEFINE N == {n \in Nat : \A s \in Seq(U) : Len(s) < n => s \in Q}
<1>1. 0 \in N
  OBVIOUS
<1>2. ASSUME NEW n \in N
      PROVE  n + 1 \in N
  <2> SUFFICES ASSUME NEW s \in Seq(U), Len(s) < n + 1
               PROVE  s \in Q
    OBVIOUS
  <2>1. \A t \in Seq(U) : Len(t) < Len(s) => t \in Q
    <3> TAKE t \in Seq(U)
    <3>1. Len(t) \in Nat /\ Len(s) \in Nat
      OBVIOUS
    <3> QED BY <3>1
  <2> QED BY <2>1
<1>3. N = Nat
  <2>1. N \in SUBSET Nat
    OBVIOUS
  <2> HIDE DEF N
  <2> QED BY <1>1, <1>2, <2>1, NatInd
<1> SUFFICES ASSUME NEW s \in Seq(U) PROVE s \in Q
  OBVIOUS
<1>4. Len(s) \in Nat
  OBVIOUS
<1>5. Len(s) + 1 \in N /\ Len(s) < Len(s) + 1
  <2> HIDE DEF N
  <2> QED BY <1>3, <1>4
<1> QED BY <1>5

\* A sequence is empty, or an element and the rest.
LEMMA SeqCons ==
  ASSUME NEW U, NEW s \in Seq(U), s # << >>
  PROVE  s[1] \in U /\ Tail(s) \in Seq(U) /\ s = <<s[1]>> \o Tail(s) /\ Len(s) = Len(Tail(s)) + 1
<1>1. Len(s) \in Nat \ {0} /\ 1 \in 1..Len(s) /\ Len(s) \in 1..Len(s) /\ s[1] \in U
  BY EmptySeq, ElementOfSeq
<1>2. s = <<s[1]>> \o SubSeq(s, 2, Len(s))
  <2>1. SubSeq(s, 1, Len(s)) = <<s[1]>> \o SubSeq(s, 1 + 1, Len(s))
    BY <1>1, SubSeqRecursiveFirst
  <2> QED BY <2>1, SubSeqFull
<1>3. \A i \in 2..Len(s) : s[i] \in U
  BY <1>1, ElementOfSeq
<1>4. SubSeq(s, 2, Len(s)) \in Seq(U)
  BY <1>1, <1>3, SubSeqProperties
<1>5. Len(<<s[1]>> \o SubSeq(s, 2, Len(s))) = 1 + Len(SubSeq(s, 2, Len(s)))
  BY <1>1, <1>4
<1>6. Len(SubSeq(s, 2, Len(s))) \in Nat
  BY <1>4
<1>7. Len(s) = Len(SubSeq(s, 2, Len(s))) + 1
  BY <1>2, <1>5, <1>6
<1>8. Tail(s) = SubSeq(s, 2, Len(s))
  BY TailIsSubSeq
<1> QED BY <1>1, <1>2, <1>4, <1>7, <1>8

\* What an element in front adds.
LEMMA ConsFacts ==
  ASSUME NEW U, NEW x \in U, NEW t \in Seq(U)
  PROVE  /\ <<x>> \o t \in Seq(U)
         /\ Len(<<x>> \o t) = Len(t) + 1 /\ Len(t) \in Nat
         /\ (<<x>> \o t)[1] = x
         /\ \A i \in 1..Len(t) : (<<x>> \o t)[i + 1] = t[i]
         /\ \A i \in 2..Len(t) + 1 : (<<x>> \o t)[i] = t[i - 1]
<1>1. <<x>> \in Seq(U) /\ Len(<<x>>) = 1 /\ Len(t) \in Nat /\ <<x>>[1] = x
  OBVIOUS
<1> DEFINE v == <<x>> \o t
<1>2. /\ v \in Seq(U) /\ Len(v) = 1 + Len(t)
      /\ \A i \in 1..1 + Len(t) : v[i] = IF i <= 1 THEN <<x>>[i] ELSE t[i - 1]
  BY <1>1, ConcatProperties
<1> HIDE DEF v
<1>3. v[1] = x /\ \A i \in 2..Len(t) + 1 : v[i] = t[i - 1]
  BY <1>1, <1>2
<1>4. \A i \in 1..Len(t) : v[i + 1] = t[i]
  BY <1>1, <1>3
<1> QED BY <1>1, <1>2, <1>3, <1>4 DEF v

\* Sequences that start alike go on alike.
LEMMA ConsEqual ==
  ASSUME NEW U, NEW x \in U, NEW s \in Seq(U), NEW y \in U, NEW t \in Seq(U),
         <<x>> \o s = <<y>> \o t
  PROVE  x = y /\ s = t
<1>1. x = y
  BY ConsFacts
<1>2. Len(s) = Len(t)
  BY ConsFacts
<1>3. \A i \in 1..Len(s) : s[i] = t[i]
  BY <1>2, ConsFacts
<1> QED BY <1>1, <1>2, <1>3, SeqEqual

\* A word with a unit in front, and two words in a row.
Onto(x, s) == <<x>> \o s

Cat(s, t) == s \o t

\* How units in front and concatenation go together.
LEMMA ConsAlgebra ==
  ASSUME NEW U
  PROVE  /\ << >> \in Seq(U)
         /\ \A s \in Seq(U) : Cat(<< >>, s) = s /\ Cat(s, << >>) = s
         /\ \A s, t \in Seq(U) : Cat(s, t) \in Seq(U) /\ (Cat(s, t) = << >> => s = << >> /\ t = << >>)
         /\ \A s, t, u \in Seq(U) : Cat(Cat(s, t), u) = Cat(s, Cat(t, u))
         /\ \A x \in U, s \in Seq(U) : Onto(x, s) \in Seq(U) /\ Onto(x, s) # << >>
         /\ \A x \in U, s, t \in Seq(U) : Cat(Onto(x, s), t) = Onto(x, Cat(s, t))
         /\ \A x, y \in U, s, t \in Seq(U) : Onto(x, s) = Onto(y, t) => x = y /\ s = t
         /\ \A s \in Seq(U) : s # << >> => \E x \in U, t \in Seq(U) : s = Onto(x, t)
<1>1. << >> \in Seq(U) /\ \A x \in U : <<x>> \in Seq(U)
  OBVIOUS
<1>2. \A s \in Seq(U) : Cat(<< >>, s) = s /\ Cat(s, << >>) = s
  BY ConcatEmptySeq DEF Cat
<1>3. \A s, t \in Seq(U) : Cat(s, t) \in Seq(U) /\ (Cat(s, t) = << >> => s = << >> /\ t = << >>)
  BY ConcatProperties, ConcatEqualIffEmpty DEF Cat
<1>4. \A s, t, u \in Seq(U) : Cat(Cat(s, t), u) = Cat(s, Cat(t, u))
  <2>1. \A s, t, u \in Seq(U) : (s \o t) \o u = s \o (t \o u)
    BY ConcatAssociative
  <2> QED BY <2>1, Zenon DEF Cat
<1>5. ASSUME NEW x \in U, NEW s \in Seq(U)
      PROVE  Onto(x, s) \in Seq(U) /\ Onto(x, s) # << >>
  <2>1. Len(<<x>> \o s) = Len(s) + 1 /\ Len(s) \in Nat /\ <<x>> \o s \in Seq(U)
    BY ConsFacts
  <2> QED BY <2>1 DEF Onto
<1>6. \A x \in U, s, t \in Seq(U) : Cat(Onto(x, s), t) = Onto(x, Cat(s, t))
  <2>1. \A x \in U, s, t \in Seq(U) : Cat(Cat(<<x>>, s), t) = Cat(<<x>>, Cat(s, t))
    BY <1>1, <1>4, Zenon
  <2> QED BY <2>1, Zenon DEF Onto, Cat
<1>7. \A x, y \in U, s, t \in Seq(U) : Onto(x, s) = Onto(y, t) => x = y /\ s = t
  BY ConsEqual DEF Onto
<1>8. ASSUME NEW s \in Seq(U), s # << >>
      PROVE  \E x \in U, t \in Seq(U) : s = Onto(x, t)
  <2>1. s[1] \in U /\ Tail(s) \in Seq(U) /\ s = Onto(s[1], Tail(s))
    BY <1>8, SeqCons DEF Onto
  <2> QED BY <2>1, Zenon
<1> QED BY <1>1, <1>2, <1>3, <1>4, <1>5, <1>6, <1>7, <1>8, Zenon

-----------------------------------------------------------------------------
(* Flattening, and sets of positions. *)

\* A non-empty set of positions of a sequence has a first and a last one.
LEMMA EndsOf ==
  ASSUME NEW n \in Nat, NEW S \in SUBSET (1..n), S # {}
  PROVE  /\ Max(S) \in S /\ \A x \in S : x <= Max(S)
         /\ Min(S) \in S /\ \A x \in S : Min(S) <= x
<1>1. \E x \in S : \A y \in S : x <= y
  BY Least
<1> DEFINE T == {n - x : x \in S}
<1>2. PICK m \in T : \A y \in T : m <= y
  <2>1. T \in SUBSET Nat /\ T # {}
    <3>1. \A x \in S : n - x \in Nat
      OBVIOUS
    <3>2. \E x \in S : n - x \in T
      OBVIOUS
    <3> QED BY <3>1, <3>2
  <2> HIDE DEF T
  <2> QED BY <2>1, Least
<1>3. PICK x \in S : m = n - x
  OBVIOUS
<1>4. \A y \in S : x >= y
  <2> TAKE y \in S
  <2>1. m <= n - y
    BY <1>2
  <2> QED BY <1>3, <2>1
<1>5. Max(S) \in S /\ \A y \in S : Max(S) >= y
  BY <1>3, <1>4, Zenon DEF Max
<1>6. Min(S) \in S /\ \A y \in S : Min(S) <= y
  BY <1>1, Zenon DEF Min
<1>7. \A y \in S : y <= Max(S)
  BY <1>5
<1> QED BY <1>5, <1>6, <1>7

\* What the recursion of FlattenSeq computes.
Flattens(f, ss) ==
  f = [i \in 1..Len(ss) |-> IF i = 1 THEN ss[i] ELSE Cat(f[i - 1], ss[i])]

\* FlattenSeq is the last value of that recursion.
LEMMA FlattenUnfold ==
  ASSUME NEW U, NEW ss \in Seq(Seq(U))
  PROVE  /\ Len(ss) = 0 => FlattenSeq(ss) = << >>
         /\ Len(ss) # 0 => \E f : Flattens(f, ss) /\ FlattenSeq(ss) = f[Len(ss)]
<1>0. Len(ss) \in Nat
  OBVIOUS
<1>1. Len(ss) = 0 => FlattenSeq(ss) = << >>
  BY DEF FlattenSeq
<1> DEFINE Step(x, i) == x \o ss[i]
           Is(g, n) == g = [i \in 1..n |-> IF i = 1 THEN ss[i] ELSE Step(g[i - 1], i)]
           S == {n \in Nat : \E g : Is(g, n)}
<1>2. 0 \in S
  <2> DEFINE g == [i \in 1..0 |-> << >>]
  <2>1. Is(g, 0)
    OBVIOUS
  <2> QED BY <2>1
<1>3. ASSUME NEW n \in S PROVE n + 1 \in S
  <2>1. PICK g : Is(g, n)
    OBVIOUS
  <2>2. n \in Nat
    OBVIOUS
  <2> DEFINE h == [i \in 1..n + 1 |->
                     IF i # n + 1 THEN g[i]
                     ELSE IF i = 1 THEN ss[i] ELSE Step(g[n], i)]
  <2> HIDE DEF Step
  <2>3. \A i \in 1..n + 1 : h[i] = IF i = 1 THEN ss[i] ELSE Step(h[i - 1], i)
    <3> TAKE i \in 1..n + 1
    <3>1. CASE i = n + 1
      <4>1. i # 1 => h[i - 1] = g[n]
        BY <2>2, <3>1
      <4> QED BY <2>2, <3>1, <4>1
    <3>2. CASE i # n + 1
      <4>1. i \in 1..n /\ (i # 1 => i - 1 \in 1..n /\ h[i - 1] = g[i - 1])
        BY <2>2, <3>2
      <4>2. g[i] = IF i = 1 THEN ss[i] ELSE Step(g[i - 1], i)
        BY <2>1, <4>1
      <4> QED BY <3>2, <4>1, <4>2
    <3> QED BY <3>1, <3>2
  <2>4. Is(h, n + 1)
    BY <2>3, Zenon
  <2>5. \E f : Is(f, n + 1)
    BY <2>4
  <2> HIDE DEF Is
  <2> QED BY <2>2, <2>5
<1>4. S = Nat
  <2>1. S \in SUBSET Nat
    OBVIOUS
  <2> HIDE DEF S
  <2> QED BY <1>2, <1>3, <2>1, NatInd
<1>5. \E g : Is(g, Len(ss))
  BY <1>0, <1>4
<1> DEFINE f == CHOOSE g : Is(g, Len(ss))
<1>6. Is(f, Len(ss))
  BY <1>5, Zenon
<1>7. Flattens(f, ss)
  BY <1>6, Zenon DEF Flattens, Cat
<1>8. Len(ss) # 0 => FlattenSeq(ss) = f[Len(ss)]
  BY Zenon DEF FlattenSeq, Step, Is
<1> QED BY <1>1, <1>7, <1>8

\* A sequence over what is closed under concatenation.
SeqsIn(W, ss) ==
  /\ \A x, y \in W : Cat(x, y) \in W
  /\ Len(ss) \in Nat /\ \A i \in 1..Len(ss) : ss[i] \in W

Unfolds(f, ss, n) == f[1] = ss[1] /\ \A i \in 1..n : i # 1 => f[i] = Cat(f[i - 1], ss[i])

\* Its values are concatenations, and those of a prefix are the same.
LEMMA FlattensIs ==
  ASSUME NEW W, NEW ss, SeqsIn(W, ss), NEW f, Flattens(f, ss)
  PROVE  /\ \A i \in 1..Len(ss) : f[i] \in W
         /\ Len(ss) # 0 => Unfolds(f, ss, Len(ss))
<1> DEFINE n == Len(ss)
           S == {i \in Nat : i \in 1..n => f[i] \in W}
<1>1. \A i \in 1..n : f[i] = IF i = 1 THEN ss[i] ELSE Cat(f[i - 1], ss[i])
  BY DEF Flattens
<1>2. n \in Nat /\ (\A i \in 1..n : ss[i] \in W) /\ \A x, y \in W : Cat(x, y) \in W
  BY DEF SeqsIn
<1> HIDE DEF n
<1>3. 0 \in S
  OBVIOUS
<1>4. ASSUME NEW i \in S PROVE i + 1 \in S
  <2> SUFFICES ASSUME i + 1 \in 1..n PROVE f[i + 1] \in W
    OBVIOUS
  <2>1. CASE i = 0
    BY <1>1, <1>2, <2>1
  <2>2. CASE i # 0
    <3>1. i \in 1..n /\ i + 1 # 1 /\ i + 1 - 1 = i
      BY <1>2, <2>2
    <3>2. f[i] \in W /\ ss[i + 1] \in W
      BY <1>2, <3>1
    <3>3. f[i + 1] = Cat(f[i], ss[i + 1])
      BY <1>1, <3>1
    <3> QED BY <1>2, <3>2, <3>3
  <2> QED BY <2>1, <2>2
<1>5. S = Nat
  <2>1. S \in SUBSET Nat
    OBVIOUS
  <2> HIDE DEF S
  <2> QED BY <1>3, <1>4, <2>1, NatInd
<1>6. \A i \in 1..n : f[i] \in W
  <2> TAKE i \in 1..n
  <2>1. i \in Nat
    BY <1>2
  <2>2. i \in S
    BY <1>5, <2>1
  <2> QED BY <2>2
<1>7. n # 0 => f[1] = ss[1]
  BY <1>1, <1>2
<1>8. \A i \in 1..n : i # 1 => f[i] = Cat(f[i - 1], ss[i])
  BY <1>1
<1> QED BY <1>6, <1>7, <1>8 DEF n, Unfolds

\* The same for a sequence with one more element.
LEMMA FlattensAgree ==
  ASSUME NEW n \in Nat, NEW ss, NEW tt, \A i \in 1..n : ss[i] = tt[i],
         NEW f, NEW g, Unfolds(f, ss, n), Unfolds(g, tt, n)
  PROVE  \A i \in 1..n : f[i] = g[i]
<1> DEFINE S == {i \in Nat : i \in 1..n => f[i] = g[i]}
<1>1. 0 \in S
  OBVIOUS
<1>2. ASSUME NEW i \in S PROVE i + 1 \in S
  <2> SUFFICES ASSUME i + 1 \in 1..n PROVE f[i + 1] = g[i + 1]
    OBVIOUS
  <2>1. CASE i = 0
    BY <2>1 DEF Unfolds
  <2>2. CASE i # 0
    <3>1. i \in 1..n /\ i + 1 # 1 /\ i + 1 - 1 = i
      BY <2>2
    <3>2. f[i] = g[i] /\ ss[i + 1] = tt[i + 1]
      BY <3>1
    <3>3. f[i + 1] = Cat(f[i], ss[i + 1]) /\ g[i + 1] = Cat(g[i], tt[i + 1])
      BY <3>1 DEF Unfolds
    <3> QED BY <3>2, <3>3
  <2> QED BY <2>1, <2>2
<1>3. S = Nat
  <2>1. S \in SUBSET Nat
    OBVIOUS
  <2> HIDE DEF S
  <2> QED BY <1>1, <1>2, <2>1, NatInd
<1> QED BY <1>3

\* Flattening gives a sequence, and goes on by one sequence at a time.
LEMMA Flattened ==
  ASSUME NEW U, NEW ss \in Seq(Seq(U))
  PROVE  /\ FlattenSeq(ss) \in Seq(U)
         /\ \A s \in Seq(U) : FlattenSeq(Append(ss, s)) = FlattenSeq(ss) \o s
<1> DEFINE W == Seq(U)
           n == Len(ss)
<1>1. \A x, y \in W : Cat(x, y) \in W
  BY ConcatProperties DEF Cat
<1>2. << >> \in W /\ \A x \in W : Cat(<< >>, x) = x
  BY ConcatEmptySeq DEF Cat
<1>3. /\ n = 0 => FlattenSeq(ss) = << >>
      /\ n # 0 => \E f : Flattens(f, ss) /\ FlattenSeq(ss) = f[n]
  BY FlattenUnfold
<1>4. \A s \in W : /\ Append(ss, s) \in Seq(W)
                    /\ Len(Append(ss, s)) = n + 1
                    /\ \A i \in 1..n + 1 : Append(ss, s)[i] = IF i = n + 1 THEN s ELSE ss[i]
  <2> HIDE DEF W
  <2>1. ss \in Seq(W)
    BY DEF W
  <2> QED BY <2>1, AppendProperties
<1>5. \A tt \in Seq(W) : Len(tt) = 0 \/ \E f : Flattens(f, tt) /\ FlattenSeq(tt) = f[Len(tt)]
  BY FlattenUnfold
<1> HIDE DEF W
<1>6. n \in Nat /\ \A i \in 1..n : ss[i] \in W
  <2>1. ss \in Seq(W)
    BY DEF W
  <2> QED BY <2>1
<1>7. FlattenSeq(ss) \in W
  <2>1. CASE n = 0
    BY <1>2, <1>3, <2>1
  <2>2. CASE n # 0
    <3>1. PICK f : Flattens(f, ss) /\ FlattenSeq(ss) = f[n]
      BY <1>3, <2>2
    <3>2. \A i \in 1..n : f[i] \in W
      <4>1. SeqsIn(W, ss)
        BY <1>1, <1>6 DEF SeqsIn
      <4> QED BY <3>1, <4>1, FlattensIs
    <3> QED BY <1>6, <2>2, <3>1, <3>2
  <2> QED BY <2>1, <2>2
<1>8. ASSUME NEW s \in W
      PROVE  FlattenSeq(Append(ss, s)) = Cat(FlattenSeq(ss), s)
  <2> DEFINE tt == Append(ss, s)
  <2>1. /\ tt \in Seq(W) /\ Len(tt) = n + 1 /\ tt[n + 1] = s
        /\ \A i \in 1..n : tt[i] = ss[i]
    BY <1>4, <1>6
  <2> HIDE DEF tt
  <2>2. PICK g : Flattens(g, tt) /\ FlattenSeq(tt) = g[n + 1]
    BY <1>5, <1>6, <2>1
  <2>3. Len(tt) \in Nat /\ \A i \in 1..Len(tt) : tt[i] \in W
    BY <2>1
  <2>4. Unfolds(g, tt, Len(tt))
    <3>1. Len(tt) # 0
      BY <1>6, <2>1
    <3>2. SeqsIn(W, tt)
      BY <1>1, <2>3 DEF SeqsIn
    <3> QED BY <2>2, <3>1, <3>2, FlattensIs
  <2>5. CASE n = 0
    BY <1>2, <1>3, <2>1, <2>2, <2>4, <2>5 DEF tt, Unfolds
  <2>6. CASE n # 0
    <3>1. PICK f : Flattens(f, ss) /\ FlattenSeq(ss) = f[n]
      BY <1>3, <2>6
    <3>2. Unfolds(f, ss, n)
      <4>1. SeqsIn(W, ss)
        BY <1>1, <1>6 DEF SeqsIn
      <4> QED BY <2>6, <3>1, <4>1, FlattensIs
    <3>3. n \in 1..n /\ n + 1 \in 1..Len(tt) /\ n + 1 # 1 /\ n + 1 - 1 = n
          /\ 1..n \subseteq 1..Len(tt)
      BY <1>6, <2>1, <2>6
    <3>4. Unfolds(g, tt, n)
      BY <2>4, <3>3 DEF Unfolds
    <3>5. f[n] = g[n]
      <4>1. \A i \in 1..n : f[i] = g[i]
        <5>1. \A i \in 1..n : ss[i] = tt[i]
          BY <2>1
        <5> HIDE DEF n
        <5> QED BY ONLY <1>6, <3>2, <3>4, <5>1, FlattensAgree
      <4> QED BY <3>3, <4>1
    <3>6. g[n + 1] = Cat(g[n], s)
      BY <2>1, <2>4, <3>3 DEF Unfolds
    <3> QED BY <2>2, <3>1, <3>5, <3>6 DEF tt
  <2> QED BY <2>5, <2>6
<1> QED BY <1>7, <1>8 DEF W, Cat

\* A position of what is flattened is one of a position.
LEMMA FlattenMap ==
  ASSUME NEW U, NEW n \in Nat, NEW f, \A i \in 1..n : f[i] \in Seq(U)
  PROVE  FlattenSeq([i \in 1..n |-> f[i]]) \in Seq(U)
<1> DEFINE ss == [i \in 1..n |-> f[i]]
           W == Seq(U)
<1>1. \A i \in 1..n : ss[i] \in W
  OBVIOUS
<1>2. ss = [i \in 1..n |-> ss[i]]
  OBVIOUS
<1> HIDE DEF ss, W
<1>3. ss \in Seq(W)
  BY <1>1, <1>2
<1> QED BY <1>3, Flattened DEF ss, W

\* A word is a sequence of its units.
LEMMA ElementsOf ==
  ASSUME NEW U, NEW w \in Seq(U), NEW x
  PROVE  w \in Seq(Elements(w) \cup {x}) /\ w \in Seq(Elements(w))
<1>1. Len(w) \in Nat /\ w = [i \in 1..Len(w) |-> w[i]] /\ DOMAIN w = 1..Len(w)
  OBVIOUS
<1>2. \A i \in 1..Len(w) : w[i] \in Elements(w)
  BY <1>1 DEF Elements
<1> QED BY <1>1, <1>2

\* A sequence with an element is its front and its last element.
LEMMA FrontIs ==
  ASSUME NEW W, NEW s \in Seq(W), s # << >>
  PROVE  Front(s) \in Seq(W) /\ Last(s) \in W /\ s = Append(Front(s), Last(s))
<1>1. Len(s) \in Nat \ {0} /\ \A i \in 1..Len(s) : s[i] \in W
  OBVIOUS
<1>2. Front(s) = [i \in 1..Len(s) - 1 |-> s[i]]
  BY <1>1, SubSeqProperties DEF Front
<1>3. Last(s) = s[Len(s)]
  BY DEF Last
<1>4. Front(s) \in Seq(W) /\ Len(Front(s)) = Len(s) - 1
  BY <1>1, <1>2
<1>5. Last(s) \in W
  BY <1>1, <1>3
<1>6. s = Append(Front(s), Last(s))
  BY <1>1, <1>2, <1>3, <1>4, <1>5
<1> QED BY <1>4, <1>5, <1>6

-----------------------------------------------------------------------------
(* Sequences that are mapped unit by unit. *)

\* What h makes of the units of s, put one behind the other.
Mapped(h, s) == FlattenSeq([i \in DOMAIN s |-> h[s[i]]])

\* Flattening two sequences in a row.
LEMMA FlattenCat ==
  ASSUME NEW U
  PROVE  /\ FlattenSeq(<< >>) = << >>
         /\ \A ss, tt \in Seq(Seq(U)) : FlattenSeq(Cat(ss, tt)) = Cat(FlattenSeq(ss), FlattenSeq(tt))
<1> DEFINE W == Seq(U)
           F(ss) == FlattenSeq(ss)
<1>1. \A ss \in Seq(W) : F(ss) \in W /\ \A s \in W : F(Append(ss, s)) = Cat(F(ss), s)
  BY Flattened DEF Cat
<1>2. F(<< >>) = << >>
  BY DEF FlattenSeq
<1>3. /\ \A s \in W : Cat(s, << >>) = s
      /\ \A s, t, u \in W : Cat(Cat(s, t), u) = Cat(s, Cat(t, u))
  BY ConsAlgebra
<1> HIDE DEF W, F
<1>4. /\ \A ss, tt \in Seq(W) : Cat(ss, tt) \in Seq(W)
      /\ \A ss \in Seq(W) : Cat(ss, << >>) = ss
      /\ \A ss, tt \in Seq(W), s \in W : Cat(ss, Append(tt, s)) = Append(Cat(ss, tt), s)
  <2>1. /\ \A ss, tt \in Seq(W) : Cat(ss, tt) \in Seq(W)
        /\ \A ss \in Seq(W) : Cat(ss, << >>) = ss
        /\ \A x, y, z \in Seq(W) : Cat(Cat(x, y), z) = Cat(x, Cat(y, z))
    BY ConsAlgebra
  <2>2. \A ss \in Seq(W), s \in W : Append(ss, s) = Cat(ss, <<s>>) /\ <<s>> \in Seq(W)
    BY AppendIsConcat DEF Cat
  <2>3. ASSUME NEW x \in Seq(W), NEW y \in Seq(W), NEW s \in W
        PROVE  Cat(x, Append(y, s)) = Append(Cat(x, y), s)
    <3> DEFINE o == <<s>>
    <3>1. Append(y, s) = Cat(y, o) /\ o \in Seq(W) /\ Cat(x, y) \in Seq(W)
      BY <2>1, <2>2, <2>3
    <3>2. Append(Cat(x, y), s) = Cat(Cat(x, y), o)
      BY <2>2, <2>3, <3>1
    <3> HIDE DEF o
    <3>3. Cat(Cat(x, y), o) = Cat(x, Cat(y, o))
      BY <2>1, <2>3, <3>1
    <3> QED BY <3>1, <3>2, <3>3
  <2> QED BY <2>1, <2>3
<1> SUFFICES ASSUME NEW ss \in Seq(W)
             PROVE  \A tt \in Seq(W) : F(Cat(ss, tt)) = Cat(F(ss), F(tt))
  BY <1>2 DEF W, F
<1> DEFINE Q == {tt \in Seq(W) : F(Cat(ss, tt)) = Cat(F(ss), F(tt))}
<1>5. ASSUME NEW tt \in Seq(W), \A s \in Seq(W) : Len(s) < Len(tt) => s \in Q
      PROVE  tt \in Q
  <2>1. CASE tt = << >>
    <3>1. F(ss) \in W
      BY <1>1
    <3> QED BY <1>2, <1>3, <1>4, <2>1, <3>1
  <2>2. CASE tt # << >>
    <3>1. PICK f \in Seq(W), l \in W : tt = Append(f, l) /\ Len(f) < Len(tt)
      <4>1. Front(tt) \in Seq(W) /\ Last(tt) \in W /\ tt = Append(Front(tt), Last(tt))
        BY <2>2, FrontIs
      <4>2. Len(Front(tt)) < Len(Append(Front(tt), Last(tt)))
        BY <4>1
      <4> QED BY <4>1, <4>2
    <3>2. f \in Q
      BY <1>5, <3>1
    <3>3. F(Cat(ss, f)) = Cat(F(ss), F(f))
      BY <3>2
    <3>4. F(Cat(ss, tt)) = Cat(F(Cat(ss, f)), l)
      <4>1. Cat(ss, f) \in Seq(W) /\ Cat(ss, tt) = Append(Cat(ss, f), l)
        BY <1>4, <3>1
      <4> QED BY <1>1, <3>1, <4>1
    <3>5. F(tt) = Cat(F(f), l) /\ F(f) \in W /\ F(ss) \in W
      BY <1>1, <3>1
    <3>6. Cat(Cat(F(ss), F(f)), l) = Cat(F(ss), Cat(F(f), l))
      BY <1>3, <3>1, <3>5
    <3> QED BY <3>3, <3>4, <3>5, <3>6
  <2> QED BY <2>1, <2>2
<1> HIDE DEF Q
<1>6. \A tt \in Seq(W) : tt \in Q
  BY <1>5, SeqInd
<1> QED BY <1>6 DEF Q

\* The parts of a flattened sequence are over what the whole is over.
LEMMA FlattenOver ==
  ASSUME NEW U, NEW V \in SUBSET U
  PROVE  \A ss \in Seq(Seq(U)) : FlattenSeq(ss) \in Seq(V) => ss \in Seq(Seq(V))
<1> DEFINE W == Seq(U)
           X == Seq(V)
           F(ss) == FlattenSeq(ss)
           Q == {ss \in Seq(W) : F(ss) \in X => ss \in Seq(X)}
<1>1. \A ss \in Seq(W) : F(ss) \in W /\ \A s \in W : F(Append(ss, s)) = Cat(F(ss), s)
  BY Flattened DEF Cat
<1>2. \A s, t \in W : Cat(s, t) \in X => s \in X /\ t \in X
  <2> TAKE s, t \in W
  <2> SUFFICES ASSUME Cat(s, t) \in X PROVE s \in X /\ t \in X
    OBVIOUS
  <2> DEFINE w == Cat(s, t)
  <2>1. /\ Len(s) \in Nat /\ Len(t) \in Nat /\ Len(w) = Len(s) + Len(t)
        /\ \A i \in 1..Len(s) : w[i] = s[i]
        /\ \A i \in 1..Len(t) : w[i + Len(s)] = t[i]
    BY ConcatProperties DEF Cat
  <2>2. \A i \in 1..Len(w) : w[i] \in V
    OBVIOUS
  <2> HIDE DEF w
  <2>3. \A i \in 1..Len(s) : s[i] \in V
    BY <2>1, <2>2
  <2>4. \A i \in 1..Len(t) : t[i] \in V
    <3> TAKE i \in 1..Len(t)
    <3>1. i + Len(s) \in 1..Len(w)
      BY <2>1
    <3> QED BY <2>1, <2>2, <3>1
  <2>5. ASSUME NEW v \in Seq(U), \A i \in 1..Len(v) : v[i] \in V
        PROVE  v \in Seq(V)
    <3>1. v = [i \in 1..Len(v) |-> v[i]] /\ Len(v) \in Nat
      OBVIOUS
    <3> QED BY ONLY <2>5, <3>1
  <2> QED BY <2>3, <2>4, <2>5
<1> HIDE DEF F, W, X
<1>5. ASSUME NEW tt \in Seq(W), \A s \in Seq(W) : Len(s) < Len(tt) => s \in Q
      PROVE  tt \in Q
  <2>1. CASE tt = << >>
    BY <2>1
  <2>2. CASE tt # << >>
    <3>1. PICK f \in Seq(W), l \in W : tt = Append(f, l) /\ Len(f) < Len(tt)
      <4>1. Front(tt) \in Seq(W) /\ Last(tt) \in W /\ tt = Append(Front(tt), Last(tt))
        BY <2>2, FrontIs
      <4>2. Len(Front(tt)) < Len(Append(Front(tt), Last(tt)))
        BY <4>1
      <4> QED BY <4>1, <4>2
    <3>2. f \in Q /\ F(tt) = Cat(F(f), l) /\ F(f) \in W
      BY <1>1, <1>5, <3>1
    <3>3. F(tt) \in X => F(f) \in X /\ l \in X
      BY <1>2, <3>1, <3>2
    <3>4. F(tt) \in X => f \in Seq(X) /\ l \in X
      BY <3>2, <3>3
    <3>5. F(tt) \in X => tt \in Seq(X)
      BY <3>1, <3>4, AppendProperties
    <3> QED BY <3>5
  <2> QED BY <2>1, <2>2
<1> HIDE DEF Q
<1>6. \A tt \in Seq(W) : tt \in Q
  BY <1>5, SeqInd
<1> QED BY <1>6 DEF Q, F, W, X

\* A function of the units E with values in W.
Into(h, E, W) == \A x \in E : h[x] \in W

\* h of each unit.
Image(h, s) == [i \in DOMAIN s |-> h[s[i]]]

\* The images of two sequences in a row are one behind the other.
LEMMA ImageCat ==
  ASSUME NEW E, NEW W, NEW h, Into(h, E, W)
  PROVE  /\ \A s \in Seq(E) : /\ Image(h, s) \in Seq(W) /\ Len(Image(h, s)) = Len(s)
                            /\ \A i \in 1..Len(s) : Image(h, s)[i] = h[s[i]]
         /\ \A s, t \in Seq(E) : Image(h, Cat(s, t)) = Cat(Image(h, s), Image(h, t))
<1>0. ASSUME NEW s \in Seq(E)
      PROVE  /\ Image(h, s) \in Seq(W) /\ Len(Image(h, s)) = Len(s)
             /\ \A i \in 1..Len(s) : Image(h, s)[i] = h[s[i]]
  <2>1. Len(s) \in Nat /\ DOMAIN s = 1..Len(s) /\ \A i \in 1..Len(s) : s[i] \in E
    OBVIOUS
  <2> QED BY <2>1 DEF Image, Into
<1> SUFFICES ASSUME NEW s \in Seq(E), NEW t \in Seq(E)
             PROVE  Image(h, Cat(s, t)) = Cat(Image(h, s), Image(h, t))
  BY <1>0
<1> DEFINE w == Cat(s, t)
<1>1. /\ w \in Seq(E) /\ Len(w) = Len(s) + Len(t) /\ Len(s) \in Nat /\ Len(t) \in Nat
      /\ \A i \in 1..Len(w) : w[i] = IF i <= Len(s) THEN s[i] ELSE t[i - Len(s)]
  BY ConcatProperties DEF Cat
<1> HIDE DEF w
<1> DEFINE a == Image(h, s)
           b == Image(h, t)
           c == Image(h, w)
           d == Cat(a, b)
<1>2. /\ a \in Seq(W) /\ Len(a) = Len(s) /\ \A i \in 1..Len(s) : a[i] = h[s[i]]
      /\ b \in Seq(W) /\ Len(b) = Len(t) /\ \A i \in 1..Len(t) : b[i] = h[t[i]]
      /\ c \in Seq(W) /\ Len(c) = Len(w) /\ \A i \in 1..Len(w) : c[i] = h[w[i]]
  BY <1>1, <1>0
<1> HIDE DEF a, b, c
<1>3. /\ d \in Seq(W) /\ Len(d) = Len(a) + Len(b)
      /\ \A i \in 1..Len(a) + Len(b) : d[i] = IF i <= Len(a) THEN a[i] ELSE b[i - Len(a)]
  <2>1. a \in Seq(W) /\ b \in Seq(W)
    BY <1>2
  <2>2. /\ a \o b \in Seq(W) /\ Len(a \o b) = Len(a) + Len(b)
        /\ \A i \in 1..Len(a) + Len(b) : (a \o b)[i] = IF i <= Len(a) THEN a[i] ELSE b[i - Len(a)]
    BY ONLY <2>1, ConcatProperties
  <2> QED BY <2>2, Zenon DEF Cat
<1> HIDE DEF d
<1>4. Len(c) = Len(d)
  BY <1>1, <1>2, <1>3
<1>5. \A i \in 1..Len(c) : c[i] = d[i]
  <2> TAKE i \in 1..Len(c)
  <2>1. CASE i <= Len(s)
    <3>1. i \in 1..Len(s) /\ i \in 1..Len(w) /\ i \in 1..Len(a) + Len(b)
      BY <1>1, <1>2, <2>1
    <3>2. w[i] = s[i] /\ d[i] = a[i]
      BY <1>1, <1>2, <1>3, <2>1, <3>1
    <3> QED BY <1>2, <3>1, <3>2
  <2>2. CASE ~(i <= Len(s))
    <3>1. i - Len(s) \in 1..Len(t) /\ i \in 1..Len(w) /\ i \in 1..Len(a) + Len(b)
      BY <1>1, <1>2, <2>2
    <3>2. w[i] = t[i - Len(s)] /\ d[i] = b[i - Len(s)]
      BY <1>1, <1>2, <1>3, <2>2, <3>1
    <3> QED BY <1>2, <3>1, <3>2
  <2> QED BY <2>1, <2>2
<1>6. c = d
  BY <1>2, <1>3, <1>4, <1>5, SeqEqual
<1> QED BY <1>6 DEF a, b, c, d, w

\* A function of the units E that gives sequences over U.
Maps(h, E, U) == \A x \in E : h[x] \in Seq(U)

\* The map is the sum of its parts.
LEMMA MapCat ==
  ASSUME NEW E, NEW U, NEW h, Maps(h, E, U)
  PROVE  /\ Mapped(h, << >>) = << >>
         /\ \A s \in Seq(E) : Mapped(h, s) \in Seq(U)
         /\ \A s, t \in Seq(E) : Mapped(h, Cat(s, t)) = Cat(Mapped(h, s), Mapped(h, t))
         /\ \A x \in E : Mapped(h, Onto(x, << >>)) = h[x] /\ Mapped(h, <<x>>) = h[x]
         /\ \A x \in E, s \in Seq(E) : Mapped(h, Onto(x, s)) = Cat(h[x], Mapped(h, s))
<1> DEFINE W == Seq(U)
           m(s) == [i \in DOMAIN s |-> h[s[i]]]
<1>1. \A x \in E : h[x] \in W
  BY DEF Maps
<1>2. FlattenSeq(<< >>) = << >> /\ \A ss, tt \in Seq(W) : FlattenSeq(Cat(ss, tt)) = Cat(FlattenSeq(ss), FlattenSeq(tt))
  BY FlattenCat
<1>3. /\ << >> \in W
      /\ \A ss \in Seq(W) : FlattenSeq(ss) \in W /\ \A s \in W : FlattenSeq(Append(ss, s)) = Cat(FlattenSeq(ss), s)
      /\ \A x \in W : Cat(<< >>, x) = x
  BY Flattened, ConsAlgebra DEF Cat
<1> HIDE DEF W
<1>4. ASSUME NEW s \in Seq(E) PROVE m(s) \in Seq(W) /\ Len(m(s)) = Len(s) /\ \A i \in 1..Len(s) : m(s)[i] = h[s[i]]
  <2>1. Len(s) \in Nat /\ DOMAIN s = 1..Len(s) /\ \A i \in 1..Len(s) : s[i] \in E
    OBVIOUS
  <2> QED BY <1>1, <2>1
<1>5. ASSUME NEW s \in Seq(E), NEW t \in Seq(E) PROVE m(Cat(s, t)) = Cat(m(s), m(t))
  <2>1. /\ \A r \in Seq(E) : /\ Image(h, r) \in Seq(W) /\ Len(Image(h, r)) = Len(r)
                            /\ \A i \in 1..Len(r) : Image(h, r)[i] = h[r[i]]
        /\ \A q, r \in Seq(E) : Image(h, Cat(q, r)) = Cat(Image(h, q), Image(h, r))
    <3>1. Into(h, E, W)
      BY <1>1 DEF Into
    <3> QED BY ONLY <3>1, ImageCat
  <2>2. Image(h, Cat(s, t)) = Cat(Image(h, s), Image(h, t))
    BY <1>5, <2>1
  <2> QED BY <2>2, Zenon DEF Image
<1>6. \A s : Mapped(h, s) = FlattenSeq(m(s))
  BY Zenon DEF Mapped
<1>7. Mapped(h, << >>) = << >>
  <2>1. m(<< >>) = << >>
    OBVIOUS
  <2> HIDE DEF m
  <2> QED BY <1>2, <1>6, <2>1, Zenon
<1>8. ASSUME NEW x \in E PROVE <<x>> \in Seq(E) /\ Mapped(h, <<x>>) = h[x]
  <2>1. m(<<x>>) = Append(<< >>, h[x])
    OBVIOUS
  <2>2. FlattenSeq(Append(<< >>, h[x])) = Cat(FlattenSeq(<< >>), h[x])
    <3>1. << >> \in Seq(W) /\ h[x] \in W
      BY <1>1
    <3> QED BY <1>3, <3>1
  <2>3. Cat(<< >>, h[x]) = h[x]
    BY <1>1, <1>3
  <2> QED BY <1>2, <1>6, <2>1, <2>2, <2>3
<1>9. \A x \in E, s \in Seq(E) : Onto(x, s) = Cat(<<x>>, s) /\ Onto(x, << >>) = <<x>>
  <2> TAKE x \in E, s \in Seq(E)
  <2>1. Onto(x, << >>) = <<x>>
    BY ConcatEmptySeq DEF Onto
  <2> QED BY <2>1 DEF Onto, Cat
<1> HIDE DEF m
<1>10. \A s \in Seq(E) : Mapped(h, s) \in W
  BY <1>3, <1>4, <1>6
<1>11. \A s, t \in Seq(E) : Mapped(h, Cat(s, t)) = Cat(Mapped(h, s), Mapped(h, t))
  <2> TAKE s, t \in Seq(E)
  <2>1. m(s) \in Seq(W) /\ m(t) \in Seq(W) /\ m(Cat(s, t)) = Cat(m(s), m(t))
    BY <1>4, <1>5
  <2> QED BY <1>2, <1>6, <2>1
<1>12. \A x \in E : Mapped(h, Onto(x, << >>)) = h[x]
  <2>1. << >> \in Seq(E)
    OBVIOUS
  <2> QED BY <1>8, <1>9, <2>1
<1>13. \A x \in E, s \in Seq(E) : Mapped(h, Onto(x, s)) = Cat(h[x], Mapped(h, s))
  BY <1>8, <1>9, <1>11
<1> QED BY <1>7, <1>8, <1>10, <1>11, <1>12, <1>13 DEF W

\* A sequence is empty, or a unit in front of a shorter one.
LEMMA OntoCases ==
  ASSUME NEW E, NEW s \in Seq(E)
  PROVE  s = << >> \/ \E x \in E, t \in Seq(E) : s = Onto(x, t) /\ Len(t) < Len(s)
<1> SUFFICES ASSUME s # << >> PROVE \E x \in E, t \in Seq(E) : s = Onto(x, t) /\ Len(t) < Len(s)
  OBVIOUS
<1>1. s[1] \in E /\ Tail(s) \in Seq(E) /\ s = <<s[1]>> \o Tail(s) /\ Len(s) = Len(Tail(s)) + 1
  BY SeqCons
<1>2. Len(Tail(s)) < Len(s)
  BY <1>1
<1>3. s = Onto(s[1], Tail(s))
  BY <1>1, Zenon DEF Onto
<1> QED BY <1>1, <1>2, <1>3, Zenon

\* Maps that agree on the units agree.
LEMMA MapSame ==
  ASSUME NEW E, NEW s \in Seq(E), NEW g, NEW h, \A x \in E : g[x] = h[x]
  PROVE  Mapped(g, s) = Mapped(h, s)
<1>1. \A i \in DOMAIN s : g[s[i]] = h[s[i]]
  OBVIOUS
<1>2. [i \in DOMAIN s |-> g[s[i]]] = [i \in DOMAIN s |-> h[s[i]]]
  BY <1>1
<1> QED BY <1>2 DEF Mapped

\* h after g is k.
Composes(g, E, D, h, U, k) ==
  Maps(g, E, D) /\ Maps(h, D, U) /\ \A x \in E : k[x] = Mapped(h, g[x])

\* A map of what a map gives.
LEMMA MapMap ==
  ASSUME NEW E, NEW D, NEW U, NEW g, NEW h, NEW k, Composes(g, E, D, h, U, k)
  PROVE  Maps(k, E, U) /\ \A s \in Seq(E) : Mapped(h, Mapped(g, s)) = Mapped(k, s)
<1> DEFINE G(s) == Mapped(g, s)
           H(s) == Mapped(h, s)
           K(s) == Mapped(k, s)
           Q == {s \in Seq(E) : H(G(s)) = K(s)}
<1>0. Maps(g, E, D) /\ Maps(h, D, U) /\ \A x \in E : k[x] = H(g[x])
  BY DEF Composes
<1>1. /\ G(<< >>) = << >> /\ \A s \in Seq(E) : G(s) \in Seq(D)
      /\ \A x \in E, s \in Seq(E) : G(Onto(x, s)) = Cat(g[x], G(s))
  BY <1>0, MapCat
<1>2. /\ H(<< >>) = << >> /\ \A s \in Seq(D) : H(s) \in Seq(U)
      /\ \A s, t \in Seq(D) : H(Cat(s, t)) = Cat(H(s), H(t))
  BY <1>0, MapCat
<1>3. Maps(k, E, U) /\ \A x \in E : k[x] = H(g[x]) /\ g[x] \in Seq(D)
  BY <1>0, <1>2 DEF Maps
<1>4. /\ K(<< >>) = << >>
      /\ \A x \in E, s \in Seq(E) : K(Onto(x, s)) = Cat(k[x], K(s))
  BY <1>3, MapCat
<1> HIDE DEF G, H, K
<1>5. ASSUME NEW s \in Seq(E), \A t \in Seq(E) : Len(t) < Len(s) => t \in Q
      PROVE  s \in Q
  <2>1. CASE s = << >>
    BY <1>1, <1>2, <1>4, <2>1
  <2>2. ASSUME NEW x \in E, NEW t \in Seq(E), s = Onto(x, t), Len(t) < Len(s)
        PROVE  s \in Q
    <3>1. H(G(t)) = K(t)
      BY <1>5, <2>2
    <3>2. H(G(s)) = Cat(H(g[x]), H(G(t)))
      BY <1>1, <1>2, <1>3, <2>2
    <3> QED BY <1>3, <1>4, <2>2, <3>1, <3>2
  <2> QED BY <2>1, <2>2, OntoCases
<1> HIDE DEF Q
<1>6. \A s \in Seq(E) : s \in Q
  BY <1>5, SeqInd
<1> QED BY <1>3, <1>6 DEF Q, G, H, K

\* Mapping what is flattened is mapping each sequence.
LEMMA MapFlatten ==
  ASSUME NEW E, NEW U, NEW h, Maps(h, E, U), NEW k, \A t \in Seq(E) : k[t] = Mapped(h, t)
  PROVE  /\ Maps(k, Seq(E), U)
         /\ \A ss \in Seq(Seq(E)) : Mapped(h, FlattenSeq(ss)) = Mapped(k, ss)
<1> DEFINE W == Seq(E)
           id == [t \in W |-> t]
<1>1. Maps(id, W, E) /\ \A t \in W : k[t] = Mapped(h, id[t])
  BY DEF Maps
<1>2. ASSUME NEW ss \in Seq(W) PROVE FlattenSeq(ss) = Mapped(id, ss)
  <2> HIDE DEF W
  <2>1. \A i \in DOMAIN ss : id[ss[i]] = ss[i]
    OBVIOUS
  <2> HIDE DEF id
  <2>2. ss = [i \in DOMAIN ss |-> ss[i]]
    OBVIOUS
  <2>3. ss = [i \in DOMAIN ss |-> id[ss[i]]]
    BY <2>1, <2>2
  <2> QED BY <2>3, Zenon DEF Mapped
<1> HIDE DEF W, id
<1>3. Composes(id, W, E, h, U, k)
  BY <1>1 DEF Composes
<1>4. Maps(k, W, U) /\ \A ss \in Seq(W) : Mapped(h, Mapped(id, ss)) = Mapped(k, ss)
  BY ONLY <1>3, MapMap
<1> QED BY <1>2, <1>4 DEF W

\* A sequence flattened alone.
LEMMA FlattenOne ==
  ASSUME NEW U, NEW s \in Seq(U)
  PROVE  FlattenSeq(<<s>>) = s
<1> DEFINE W == Seq(U)
<1>1. << >> \in Seq(W) /\ s \in W
  OBVIOUS
<1>2. FlattenSeq(Append(<< >>, s)) = FlattenSeq(<< >>) \o s /\ FlattenSeq(<< >>) = << >>
  <2> HIDE DEF W
  <2> QED BY <1>1, Flattened, FlattenCat DEF W
<1>3. << >> \o s = s
  BY ConcatEmptySeq
<1>4. Append(<< >>, s) = <<s>>
  OBVIOUS
<1> QED BY <1>2, <1>3, <1>4

\* The ends of a word, and of two words in a row.
LEMMA EndsAre ==
  ASSUME NEW E
  PROVE  /\ \A x \in E, s \in Seq(E) : Head(Onto(x, s)) = x
         /\ \A x \in E : Last(Onto(x, << >>)) = x /\ Last(<<x>>) = x /\ Head(<<x>>) = x
         /\ \A s \in Seq(E) : s # << >> =>
              /\ Last(s) \in E /\ Head(s) \in E
              /\ \A x \in E : Last(Onto(x, s)) = Last(s)
         /\ \A s, t \in Seq(E) :
              /\ t # << >> => Cat(s, t) # << >> /\ Last(Cat(s, t)) = Last(t)
              /\ s # << >> => Cat(s, t) # << >> /\ Head(Cat(s, t)) = Head(s)
<1>1. ASSUME NEW s \in Seq(E), NEW t \in Seq(E)
      PROVE  /\ t # << >> => Cat(s, t) # << >> /\ Last(Cat(s, t)) = Last(t)
             /\ s # << >> => Cat(s, t) # << >> /\ Head(Cat(s, t)) = Head(s)
  <2> DEFINE w == Cat(s, t)
  <2>1. /\ w \in Seq(E) /\ Len(w) = Len(s) + Len(t) /\ Len(s) \in Nat /\ Len(t) \in Nat
        /\ \A i \in 1..Len(w) : w[i] = IF i <= Len(s) THEN s[i] ELSE t[i - Len(s)]
    BY <1>1, ConcatProperties DEF Cat
  <2> HIDE DEF w
  <2>2. ASSUME t # << >> PROVE w # << >> /\ Last(w) = Last(t)
    <3>1. Len(t) # 0 /\ Len(w) \in 1..Len(w) /\ ~(Len(w) <= Len(s)) /\ Len(w) - Len(s) = Len(t)
      BY <2>1, <2>2
    <3>2. w[Len(w)] = t[Len(t)]
      BY <2>1, <3>1
    <3> QED BY <2>1, <3>1, <3>2 DEF Last
  <2>3. ASSUME s # << >> PROVE w # << >> /\ Head(w) = Head(s)
    <3>1. Len(s) # 0 /\ 1 \in 1..Len(w) /\ 1 <= Len(s)
      BY <2>1, <2>3
    <3>2. w[1] = s[1] /\ w # << >>
      BY <2>1, <3>1
    <3> QED BY <2>1, <2>3, <3>2
  <2> QED BY <2>2, <2>3 DEF w
<1>2. \A x \in E : <<x>> \in Seq(E) /\ <<x>> # << >> /\ Last(<<x>>) = x /\ Head(<<x>>) = x
  BY DEF Last
<1>3. \A x, s : Onto(x, s) = Cat(<<x>>, s)
  BY DEF Onto, Cat
<1>4. \A x \in E, s \in Seq(E) : Head(Onto(x, s)) = x
  BY <1>1, <1>2, <1>3
<1>5. ASSUME NEW s \in Seq(E), s # << >>
      PROVE  /\ Last(s) \in E /\ Head(s) \in E
             /\ \A x \in E : Last(Onto(x, s)) = Last(s)
  <2>1. Last(s) \in E
    BY <1>5, FrontIs
  <2>2. Head(s) \in E
    BY <1>5
  <2> QED BY <1>1, <1>2, <1>3, <1>5, <2>1, <2>2
<1>6. \A x \in E : Onto(x, << >>) = <<x>>
  <2> TAKE x \in E
  <2>1. <<x>> \in Seq(E)
    OBVIOUS
  <2> QED BY <2>1, ConcatEmptySeq DEF Onto
<1> QED BY <1>1, <1>2, <1>4, <1>5, <1>6

\* What a word maps to ends in what its ends map to.
LEMMA MapEnds ==
  ASSUME NEW E, NEW U, NEW h, Maps(h, E, U), \A x \in E : h[x] # << >>
  PROVE  \A s \in Seq(E) : s # << >> =>
           /\ Mapped(h, s) # << >>
           /\ Last(Mapped(h, s)) = Last(h[Last(s)])
           /\ Head(Mapped(h, s)) = Head(h[Head(s)])
<1> TAKE s \in Seq(E)
<1> SUFFICES ASSUME s # << >>
             PROVE  /\ Mapped(h, s) # << >>
                    /\ Last(Mapped(h, s)) = Last(h[Last(s)])
                    /\ Head(Mapped(h, s)) = Head(h[Head(s)])
  OBVIOUS
<1> DEFINE f == Front(s)
           l == Last(s)
<1>1. f \in Seq(E) /\ l \in E /\ s = Cat(f, <<l>>) /\ <<l>> \in Seq(E)
  <2>1. f \in Seq(E) /\ l \in E /\ s = Append(f, l)
    BY FrontIs
  <2> HIDE DEF f, l
  <2>2. Append(f, l) = f \o <<l>>
    BY <2>1, AppendIsConcat
  <2> QED BY <2>1, <2>2 DEF Cat
<1>2. PICK x \in E, t \in Seq(E) : s = Onto(x, t)
  BY OntoCases
<1> HIDE DEF f, l
<1>3. /\ \A r \in Seq(E) : Mapped(h, r) \in Seq(U)
      /\ \A q, r \in Seq(E) : Mapped(h, Cat(q, r)) = Cat(Mapped(h, q), Mapped(h, r))
      /\ \A y \in E : Mapped(h, <<y>>) = h[y]
      /\ \A y \in E, r \in Seq(E) : Mapped(h, Onto(y, r)) = Cat(h[y], Mapped(h, r))
  BY MapCat
<1>4. \A y \in E : h[y] \in Seq(U) /\ h[y] # << >>
  BY DEF Maps
<1>5. /\ Mapped(h, s) = Cat(Mapped(h, f), h[l]) /\ Mapped(h, f) \in Seq(U)
      /\ Mapped(h, s) = Cat(h[x], Mapped(h, t)) /\ Mapped(h, t) \in Seq(U)
  BY <1>1, <1>2, <1>3
<1>6. Head(s) = x
  BY <1>2, EndsAre
<1>7. Mapped(h, s) # << >> /\ Last(Mapped(h, s)) = Last(h[l])
  <2>1. \A u, v \in Seq(U) : v # << >> => Cat(u, v) # << >> /\ Last(Cat(u, v)) = Last(v)
    BY EndsAre
  <2>2. h[l] \in Seq(U) /\ h[l] # << >>
    BY <1>1, <1>4
  <2> QED BY <1>5, <2>1, <2>2
<1>8. Head(Mapped(h, s)) = Head(h[x])
  BY <1>4, <1>5, EndsAre
<1> QED BY <1>6, <1>7, <1>8 DEF l

-----------------------------------------------------------------------------
(* Sets of integers in order. *)

\* How many elements are before x.
Rank(S, x) == Cardinality({y \in S : y < x})

Ascending(s) == \A i, j \in 1..Len(s) : i < j => s[i] < s[j]

\* Every position of an ordered set has an element with so many before it.
LEMMA RankOnto ==
  ASSUME NEW S \in SUBSET Int, IsFiniteSet(S)
  PROVE  /\ Cardinality(S) \in Nat
         /\ \A x \in S : Rank(S, x) \in 0..Cardinality(S) - 1
         /\ \A x, z \in S : x < z => Rank(S, x) < Rank(S, z)
         /\ \A k \in 1..Cardinality(S) : \E x \in S : Rank(S, x) = k - 1
<1> DEFINE n == Cardinality(S)
           B(x) == {y \in S : y < x}
<1>0. n \in Nat
  BY FS_CardinalityType
<1>1. ASSUME NEW x \in S
      PROVE  IsFiniteSet(B(x)) /\ Cardinality(B(x)) \in Nat /\ Rank(S, x) = Cardinality(B(x))
  BY FS_Subset, FS_CardinalityType DEF Rank
<1>2. ASSUME NEW x \in S, NEW T \in SUBSET S, B(x) \cup {x} \subseteq T
      PROVE  Rank(S, x) < Cardinality(T)
  <2>1. /\ IsFiniteSet(B(x) \cup {x})
        /\ Cardinality(B(x) \cup {x}) = Cardinality(B(x)) + 1
    <3>1. x \notin B(x)
      OBVIOUS
    <3> HIDE DEF B
    <3> QED BY <1>1, <3>1, FS_AddElement
  <2>2. IsFiniteSet(T) /\ Cardinality(T) \in Nat
    BY FS_Subset, FS_CardinalityType
  <2>3. Cardinality(B(x) \cup {x}) <= Cardinality(T)
    <3> HIDE DEF B
    <3> QED BY <1>2, <2>2, FS_Subset
  <2> HIDE DEF B
  <2> QED BY <1>1, <2>1, <2>2, <2>3
<1>3. \A x \in S : Rank(S, x) \in 0..n - 1
  <2> TAKE x \in S
  <2>1. Rank(S, x) < n
    BY <1>2
  <2>2. Rank(S, x) \in Nat
    BY <1>1
  <2> HIDE DEF n
  <2> QED BY <1>0, <2>1, <2>2
<1>4. \A x, z \in S : x < z => Rank(S, x) < Rank(S, z)
  <2> SUFFICES ASSUME NEW x \in S, NEW z \in S, x < z PROVE Rank(S, x) < Rank(S, z)
    OBVIOUS
  <2>0. \A y \in S : y \in Int
    OBVIOUS
  <2>1. B(z) \in SUBSET S /\ B(x) \cup {x} \subseteq B(z)
    <3>1. \A y \in S : y < x => y < z
      BY <2>0
    <3> QED BY <3>1
  <2>2. Rank(S, x) < Cardinality(B(z))
    <3> HIDE DEF B
    <3> QED BY <1>2, <2>1
  <2> QED BY <1>1, <2>2
<1> DEFINE f == [x \in S |-> Rank(S, x)]
           R == {Rank(S, x) : x \in S}
<1>5. f \in Bijection(S, R)
  <2>1. f \in [S -> R] /\ \A t \in R : \E x \in S : f[x] = t
    OBVIOUS
  <2>2. \A x, z \in S : f[x] = f[z] => x = z
    <3> SUFFICES ASSUME NEW x \in S, NEW z \in S, Rank(S, x) = Rank(S, z) PROVE x = z
      OBVIOUS
    <3>1. x \in Int /\ z \in Int /\ Rank(S, x) \in Int
      BY <1>0, <1>3
    <3>2. ~(x < z) /\ ~(z < x)
      BY <1>4, <3>1
    <3> QED BY <3>1, <3>2
  <2> HIDE DEF f, R
  <2> QED BY <2>1, <2>2 DEF Bijection, Injection, Surjection, IsInjective
<1>6. IsFiniteSet(R) /\ Cardinality(R) = n
  <2> HIDE DEF f, R
  <2> QED BY <1>5, FS_Bijection DEF ExistsBijection
<1>7. IsFiniteSet(0..n - 1) /\ Cardinality(0..n - 1) = n
  <2>1. n - 1 \in Int /\ (0 > n - 1 <=> n = 0)
    BY <1>0
  <2> HIDE DEF n
  <2> QED BY <1>0, <2>1, FS_Interval
<1>8. R = 0..n - 1
  <2>1. R \subseteq 0..n - 1
    BY <1>3
  <2> HIDE DEF R, n
  <2> QED BY <1>6, <1>7, <2>1, FS_Subset
<1>9. \A k \in 1..n : \E x \in S : Rank(S, x) = k - 1
  <2> TAKE k \in 1..n
  <2>1. k - 1 \in 0..n - 1
    BY <1>0
  <2>2. k - 1 \in R
    BY <1>8, <2>1
  <2> QED BY <2>2
<1> QED BY <1>0, <1>3, <1>4, <1>9

\* InOrder gives the elements of a finite set, each once, in ascending order.
LEMMA Ordered ==
  ASSUME NEW S \in SUBSET Int, IsFiniteSet(S)
  PROVE  /\ InOrder(S) \in Seq(Int) /\ Len(InOrder(S)) = Cardinality(S)
         /\ Ascending(InOrder(S))
         /\ Elements(InOrder(S)) = S
<1> DEFINE n == Cardinality(S)
           g(k) == CHOOSE x \in S : Cardinality({y \in S : y < x}) = k - 1
           s == [k \in 1..n |-> g(k)]
<1>0. n \in Nat
  BY RankOnto
<1>1. \A k \in 1..n : g(k) \in S /\ Rank(S, g(k)) = k - 1
  <2> TAKE k \in 1..n
  <2>1. \E x \in S : Cardinality({y \in S : y < x}) = k - 1
    BY RankOnto DEF Rank
  <2> QED BY <2>1 DEF Rank
<1>2. InOrder(S) = s \o << >>
  BY DEF InOrder
<1> HIDE DEF g
<1>3. s \in Seq(Int) /\ Len(s) = n /\ \A k \in 1..n : s[k] = g(k)
  <2>1. \A k \in 1..n : g(k) \in Int
    BY <1>1
  <2> HIDE DEF n
  <2> QED BY <1>0, <2>1
<1>4. InOrder(S) = s
  <2> HIDE DEF s
  <2> QED BY <1>2, <1>3, ConcatEmptySeq
<1> HIDE DEF s
<1>5. Ascending(s)
  <2> SUFFICES ASSUME NEW i \in 1..n, NEW j \in 1..n, i < j PROVE g(i) < g(j)
    BY <1>3 DEF Ascending
  <2>1. g(i) \in Int /\ g(j) \in Int /\ g(i) \in S /\ g(j) \in S
    BY <1>1
  <2>2. Rank(S, g(i)) = i - 1 /\ Rank(S, g(j)) = j - 1
    BY <1>1
  <2>3. g(j) < g(i) => Rank(S, g(j)) < Rank(S, g(i))
    BY <2>1, RankOnto
  <2>4. i \in Int /\ j \in Int
    OBVIOUS
  <2>5. g(i) # g(j)
    BY <2>2, <2>4
  <2>6. ~(g(j) < g(i))
    BY <2>2, <2>3, <2>4
  <2> QED BY <2>1, <2>5, <2>6
<1>6. Elements(s) = S
  <2>1. \A x \in Elements(s) : x \in S
    BY <1>0, <1>1, <1>3 DEF Elements
  <2>2. ASSUME NEW x \in S PROVE x \in Elements(s)
    <3> DEFINE k == Rank(S, x) + 1
    <3>1. k \in 1..n /\ Rank(S, x) = k - 1 /\ Rank(S, x) \in Int
      BY <1>0, RankOnto
    <3>2. g(k) \in S /\ Rank(S, g(k)) = Rank(S, x)
      BY <1>1, <3>1
    <3>3. g(k) = x
      <4>1. x \in Int /\ g(k) \in Int
        BY <3>2
      <4>2. ~(x < g(k)) /\ ~(g(k) < x)
        <5>1. \A y, z \in S : y < z => Rank(S, y) < Rank(S, z)
          BY RankOnto
        <5> HIDE DEF k
        <5>2. ~(Rank(S, x) < Rank(S, g(k))) /\ ~(Rank(S, g(k)) < Rank(S, x))
          BY <3>1, <3>2
        <5> QED BY <3>2, <5>1, <5>2
      <4> QED BY <4>1, <4>2
    <3> HIDE DEF k
    <3>4. s[k] = x /\ k \in DOMAIN s
      BY <1>0, <1>3, <3>1, <3>3
    <3> QED BY <3>4 DEF Elements
  <2> QED BY <2>1, <2>2
<1> QED BY <1>3, <1>4, <1>5, <1>6

\* There is no other way to list a set in ascending order.
LEMMA OrderedOnly ==
  ASSUME NEW s \in Seq(Int), Ascending(s)
  PROVE  /\ IsFiniteSet(Elements(s)) /\ InOrder(Elements(s)) = s
<1> DEFINE S == Elements(s)
           n == Len(s)
<1>0. n \in Nat /\ DOMAIN s = 1..n /\ \A i \in 1..n : s[i] \in Int
  OBVIOUS
<1>1. S \in SUBSET Int /\ \A i \in 1..n : s[i] \in S
  BY <1>0 DEF Elements
<1>2. \A i, j \in 1..n : (i < j <=> s[i] < s[j]) /\ (s[i] = s[j] => i = j)
  <2> SUFFICES ASSUME NEW i \in 1..n, NEW j \in 1..n
               PROVE  (i < j <=> s[i] < s[j]) /\ (s[i] = s[j] => i = j)
    OBVIOUS
  <2>1. s[i] \in Int /\ s[j] \in Int /\ i \in Int /\ j \in Int
    BY <1>0
  <2>2. (i < j => s[i] < s[j]) /\ (j < i => s[j] < s[i])
    BY DEF Ascending
  <2> QED BY <2>1, <2>2
<1>3. s \in Bijection(1..n, S)
  <2>1. s \in [1..n -> S] /\ \A t \in S : \E i \in 1..n : s[i] = t
    BY <1>0, <1>1 DEF Elements
  <2> HIDE DEF S, n
  <2> QED BY <1>2, <2>1 DEF Bijection, Injection, Surjection, IsInjective
<1>4. IsFiniteSet(1..n) /\ Cardinality(1..n) = n
  <2> HIDE DEF n
  <2> QED BY <1>0, FS_Interval
<1>5. IsFiniteSet(S) /\ Cardinality(S) = n
  <2> HIDE DEF S, n
  <2> QED BY <1>3, <1>4, FS_Bijection DEF ExistsBijection
<1> DEFINE t == InOrder(S)
<1>6. /\ t \in Seq(Int) /\ Len(t) = n /\ Ascending(t) /\ Elements(t) = S
  <2> HIDE DEF S, n
  <2> QED BY <1>1, <1>5, Ordered
<1> HIDE DEF t, S
<1>60. \A i \in 1..n : t[i] \in Int
  BY <1>6
<1> DEFINE Same(m) == \A i \in 1..n : i <= m => s[i] = t[i]
           N == {m \in Nat : Same(m)}
<1>7. 0 \in N
  OBVIOUS
<1>8. ASSUME NEW m \in N PROVE m + 1 \in N
  <2> SUFFICES ASSUME m + 1 \in 1..n PROVE s[m + 1] = t[m + 1]
    OBVIOUS
  <2> DEFINE i == m + 1
  <2>1. i \in 1..n /\ (\A j \in 1..n : j < i => s[j] = t[j]) /\ i \in Int
    OBVIOUS
  <2> HIDE DEF i
  <2>2. PICK j \in 1..n : t[j] = s[i]
    <3>1. s[i] \in Elements(t) /\ DOMAIN t = 1..n
      BY <1>1, <1>6, <2>1
    <3> QED BY <3>1 DEF Elements
  <2>3. PICK k \in 1..n : s[k] = t[i]
    <3>1. t[i] \in S
      BY <1>6, <2>1 DEF Elements
    <3> QED BY <1>0, <3>1 DEF Elements, S
  <2>4. ~(j < i)
    BY <1>2, <2>1, <2>2
  <2>5. ~(k < i)
    <3>1. k < i => t[k] = t[i] /\ t[k] < t[i]
      BY <1>6, <2>1, <2>3 DEF Ascending
    <3> QED BY <1>60, <2>1, <3>1
  <2>6. j # i => t[i] < s[i]
    <3>1. j # i => i < j
      BY <2>1, <2>4
    <3> QED BY <1>6, <2>1, <2>2, <3>1 DEF Ascending
  <2>7. k # i => s[i] < t[i]
    <3>1. k # i => i < k
      BY <2>1, <2>5
    <3> QED BY <1>2, <2>1, <2>3, <3>1
  <2>8. s[i] \in Int /\ t[i] \in Int
    BY <1>0, <1>60, <2>1
  <2> QED BY <2>2, <2>3, <2>6, <2>7, <2>8 DEF i
<1>9. N = Nat
  <2>1. N \in SUBSET Nat
    OBVIOUS
  <2> HIDE DEF N
  <2> QED BY <1>7, <1>8, <2>1, NatInd
<1>10. \A i \in 1..n : s[i] = t[i]
  <2>1. n \in N
    BY <1>0, <1>9
  <2> QED BY <1>0, <2>1
<1>11. s = t
  BY <1>0, <1>6, <1>10, SeqEqual
<1> QED BY <1>5, <1>11 DEF t, S

\* What comes before can be listed first.
LEMMA OrderedCat ==
  ASSUME NEW S \in SUBSET Int, IsFiniteSet(S), NEW T \in SUBSET Int, IsFiniteSet(T),
         \A x \in S : \A y \in T : x < y
  PROVE  InOrder(S \cup T) = InOrder(S) \o InOrder(T)
<1> DEFINE s == InOrder(S)
           t == InOrder(T)
           v == s \o t
<1>1. /\ s \in Seq(Int) /\ Ascending(s) /\ Elements(s) = S
      /\ t \in Seq(Int) /\ Ascending(t) /\ Elements(t) = T
  BY Ordered
<1> HIDE DEF s, t
<1>2. /\ v \in Seq(Int) /\ Len(v) = Len(s) + Len(t)
      /\ \A i \in 1..Len(s) + Len(t) : v[i] = IF i <= Len(s) THEN s[i] ELSE t[i - Len(s)]
  BY <1>1, ConcatProperties
<1>3. /\ Len(s) \in Nat /\ Len(t) \in Nat
      /\ DOMAIN s = 1..Len(s) /\ DOMAIN t = 1..Len(t) /\ DOMAIN v = 1..Len(s) + Len(t)
      /\ \A i \in 1..Len(s) : s[i] \in Int
      /\ \A i \in 1..Len(t) : t[i] \in Int
  BY <1>1, <1>2
<1> HIDE DEF v
<1>4. \A i \in 1..Len(s) : s[i] \in S /\ v[i] = s[i]
  <2>1. \A i \in 1..Len(s) : s[i] \in S
    BY <1>1, <1>3 DEF Elements
  <2> QED BY <1>2, <1>3, <2>1
<1>5. \A i \in 1..Len(s) + Len(t) :
        i > Len(s) => i - Len(s) \in 1..Len(t) /\ v[i] = t[i - Len(s)] /\ v[i] \in T
  <2> TAKE i \in 1..Len(s) + Len(t)
  <2> SUFFICES ASSUME i > Len(s)
               PROVE  i - Len(s) \in 1..Len(t) /\ v[i] = t[i - Len(s)] /\ v[i] \in T
    OBVIOUS
  <2>1. i - Len(s) \in 1..Len(t) /\ ~(i <= Len(s))
    BY <1>3
  <2>2. v[i] = t[i - Len(s)]
    BY <1>2, <2>1
  <2>3. t[i - Len(s)] \in T
    BY <1>1, <1>3, <2>1 DEF Elements
  <2> QED BY <2>1, <2>2, <2>3
<1>6. Ascending(v)
  <2> SUFFICES ASSUME NEW i \in 1..Len(s) + Len(t), NEW j \in 1..Len(s) + Len(t), i < j
               PROVE  v[i] < v[j]
    BY <1>2 DEF Ascending
  <2>1. CASE j <= Len(s)
    <3>1. i \in 1..Len(s) /\ j \in 1..Len(s)
      BY <1>3, <2>1
    <3> QED BY <1>1, <1>4, <3>1 DEF Ascending
  <2>2. CASE i <= Len(s) /\ j > Len(s)
    <3>1. i \in 1..Len(s)
      BY <1>3, <2>2
    <3> QED BY <1>4, <1>5, <2>2, <3>1
  <2>3. CASE i > Len(s)
    <3>1. i - Len(s) \in 1..Len(t) /\ j - Len(s) \in 1..Len(t) /\ i - Len(s) < j - Len(s)
          /\ j > Len(s)
      BY <1>3, <2>3
    <3>2. t[i - Len(s)] < t[j - Len(s)]
      BY <1>1, <3>1 DEF Ascending
    <3> QED BY <1>5, <2>3, <3>1, <3>2
  <2> QED BY <1>3, <2>1, <2>2, <2>3
<1>7. Elements(v) = S \cup T
  <2>1. ASSUME NEW x \in Elements(v) PROVE x \in S \cup T
    <3>1. PICK i \in 1..Len(s) + Len(t) : x = v[i]
      BY <1>3 DEF Elements
    <3>2. CASE i <= Len(s)
      <4>1. i \in 1..Len(s)
        BY <1>3, <3>2
      <4> QED BY <1>4, <3>1, <4>1
    <3>3. CASE i > Len(s)
      BY <1>5, <3>1, <3>3
    <3> QED BY <1>3, <3>2, <3>3
  <2>2. ASSUME NEW x \in S PROVE x \in Elements(v)
    <3>1. PICK i \in 1..Len(s) : s[i] = x
      BY <1>1, <1>3 DEF Elements
    <3>2. i \in 1..Len(s) + Len(t) /\ v[i] = x
      BY <1>3, <1>4, <3>1
    <3> QED BY <1>3, <3>2 DEF Elements
  <2>3. ASSUME NEW x \in T PROVE x \in Elements(v)
    <3>1. PICK i \in 1..Len(t) : t[i] = x
      BY <1>1, <1>3 DEF Elements
    <3>2. i + Len(s) \in 1..Len(s) + Len(t) /\ i + Len(s) > Len(s) /\ i + Len(s) - Len(s) = i
      BY <1>3
    <3>3. v[i + Len(s)] = x
      BY <1>5, <3>1, <3>2
    <3> QED BY <1>3, <3>2, <3>3 DEF Elements
  <2> QED BY <2>1, <2>2, <2>3
<1>8. InOrder(S \cup T) = v
  BY <1>2, <1>6, <1>7, OrderedOnly
<1> QED BY <1>8 DEF v, s, t

\* Moving a set moves its list.
LEMMA OrderedShift ==
  ASSUME NEW S \in SUBSET Int, IsFiniteSet(S), NEW n \in Int
  PROVE  /\ Len(InOrder({x + n : x \in S})) = Len(InOrder(S))
         /\ \A k \in 1..Len(InOrder(S)) : InOrder({x + n : x \in S})[k] = InOrder(S)[k] + n
<1> DEFINE s == InOrder(S)
           T == {x + n : x \in S}
           v == [k \in 1..Len(s) |-> s[k] + n]
<1>1. s \in Seq(Int) /\ Ascending(s) /\ Elements(s) = S
  BY Ordered
<1> HIDE DEF s
<1>2. Len(s) \in Nat /\ \A i \in 1..Len(s) : s[i] \in Int
  BY <1>1
<1>3. v \in Seq(Int) /\ Len(v) = Len(s) /\ \A k \in 1..Len(s) : v[k] = s[k] + n
  BY <1>2
<1> HIDE DEF v
<1>4. Ascending(v)
  BY <1>1, <1>2, <1>3 DEF Ascending
<1>5. Elements(v) = T
  <2>0. DOMAIN s = 1..Len(s) /\ DOMAIN v = 1..Len(s)
    BY <1>1, <1>3
  <2>1. \A x \in Elements(v) : \E k \in 1..Len(s) : x = s[k] + n
    BY <1>3, <2>0 DEF Elements
  <2>2. \A k \in 1..Len(s) : s[k] \in S /\ v[k] \in Elements(v)
    <3>1. \A k \in 1..Len(s) : s[k] \in Elements(s)
      BY <2>0 DEF Elements
    <3>2. \A k \in 1..Len(s) : v[k] \in Elements(v)
      BY <2>0 DEF Elements
    <3> QED BY <1>1, <3>1, <3>2
  <2>3. \A x \in S : \E k \in 1..Len(s) : s[k] = x
    BY <1>1, <2>0 DEF Elements
  <2>4. \A x \in T : \E k \in 1..Len(s) : x = v[k]
    BY <1>3, <2>3
  <2>5. \A x \in T : x \in Elements(v)
    BY <2>2, <2>4
  <2> QED BY <2>1, <2>2, <2>5
<1>6. InOrder(T) = v
  <2> HIDE DEF T
  <2> QED BY <1>3, <1>4, <1>5, OrderedOnly
<1> QED BY <1>3, <1>6 DEF s

-----------------------------------------------------------------------------
(* Counting. *)

PairPositions(w, k) == {i \in 1..Len(w) - 1 : PairAt(w, i) = k}

UnitPositions(w, u) == {i \in DOMAIN w : w[i] = u}

\* 1 when k joins the end of u and the start of v.
Seam(u, v, k) ==
  IF u # << >> /\ v # << >> /\ <<u[Len(u)], v[1]>> = k THEN 1 ELSE 0

\* A word has finitely many positions, and a count is a number.
LEMMA CountType ==
  ASSUME NEW U, NEW w \in Seq(U), NEW k
  PROVE  /\ IsFiniteSet(PairPositions(w, k)) /\ IsFiniteSet(UnitPositions(w, k))
         /\ PairCount(w, k) = Cardinality(PairPositions(w, k))
         /\ UnitCount(w, k) = Cardinality(UnitPositions(w, k))
         /\ PairCount(w, k) \in Nat /\ UnitCount(w, k) \in Nat
<1>1. Len(w) \in Nat /\ DOMAIN w = 1..Len(w)
  OBVIOUS
<1>2. IsFiniteSet(1..Len(w)) /\ IsFiniteSet(1..Len(w) - 1)
  BY <1>1, FS_Interval
<1>3. IsFiniteSet(PairPositions(w, k)) /\ IsFiniteSet(UnitPositions(w, k))
  BY <1>1, <1>2, FS_Subset DEF PairPositions, UnitPositions
<1> QED BY <1>3, FS_CardinalityType DEF PairCount, UnitCount, PairPositions, UnitPositions

\* The units of a concatenation are those of its parts.
LEMMA UnitCountConcat ==
  ASSUME NEW U, NEW u \in Seq(U), NEW v \in Seq(U), NEW x
  PROVE  UnitCount(u \o v, x) = UnitCount(u, x) + UnitCount(v, x)
<1> DEFINE n == Len(u)
           V == UnitPositions(v, x)
           W == {i + n : i \in V}
<1>1. n \in Nat /\ Len(v) \in Nat /\ u \o v \in Seq(U) /\ Len(u \o v) = n + Len(v)
  OBVIOUS
<1>2. /\ \A i \in 1..n : (u \o v)[i] = u[i]
      /\ \A i \in 1..Len(v) : (u \o v)[i + n] = v[i]
  OBVIOUS
<1>3. \A i \in n + 1..n + Len(v) : i - n \in 1..Len(v) /\ i = (i - n) + n
  BY <1>1
<1>4. UnitPositions(u \o v, x) = UnitPositions(u, x) \cup W
  BY <1>1, <1>2, <1>3 DEF UnitPositions
<1>5. UnitPositions(u, x) \cap W = {}
  BY <1>1 DEF UnitPositions
<1>6. IsFiniteSet(W) /\ Cardinality(W) = Cardinality(V)
  <2>1. V \in SUBSET Int
    BY <1>1 DEF UnitPositions
  <2>2. IsFiniteSet(V)
    BY CountType
  <2>3. n \in Int
    BY <1>1
  <2> HIDE DEF V, n
  <2> QED BY <2>1, <2>2, <2>3, CardinalityShift
<1>7. Cardinality(UnitPositions(u, x) \cup W) = Cardinality(UnitPositions(u, x)) + Cardinality(V)
  <2>1. IsFiniteSet(UnitPositions(u, x))
    BY CountType
  <2> HIDE DEF W, V
  <2> QED BY <1>5, <1>6, <2>1, CardinalityDisjoint
<1> QED BY <1>1, <1>4, <1>7, CountType

\* The pairs of a concatenation are those of its parts and the one that joins
\* them.
LEMMA PairCountConcat ==
  ASSUME NEW U, NEW u \in Seq(U), NEW v \in Seq(U), NEW k
  PROVE  PairCount(u \o v, k) = PairCount(u, k) + PairCount(v, k) + Seam(u, v, k)
<1> DEFINE n == Len(u)
           V == PairPositions(v, k)
           W == {i + n : i \in V}
           J == IF Seam(u, v, k) = 1 THEN {n} ELSE {}
<1>1. n \in Nat /\ Len(v) \in Nat /\ u \o v \in Seq(U) /\ Len(u \o v) = n + Len(v)
  OBVIOUS
<1>2. /\ \A i \in 1..n : (u \o v)[i] = u[i]
      /\ \A i \in 1..Len(v) : (u \o v)[i + n] = v[i]
  OBVIOUS
<1>3. \A i \in n + 1..n + Len(v) - 1 :
        /\ i - n \in 1..Len(v) - 1 /\ i = (i - n) + n
        /\ PairAt(u \o v, i) = PairAt(v, i - n)
  BY <1>1, <1>2 DEF PairAt
<1>4. \A i \in 1..n - 1 : PairAt(u \o v, i) = PairAt(u, i)
  BY <1>1, <1>2 DEF PairAt
<1>5. n # 0 /\ Len(v) # 0 => PairAt(u \o v, n) = <<u[n], v[1]>>
  BY <1>1, <1>2 DEF PairAt
<1>6. /\ (Len(v) = 0 <=> v = << >>) /\ (n = 0 <=> u = << >>)
      /\ Seam(u, v, k) \in {0, 1}
  BY DEF Seam
<1>7. Seam(u, v, k) = 1 <=> n # 0 /\ Len(v) # 0 /\ PairAt(u \o v, n) = k
  BY <1>5, <1>6 DEF Seam
<1>8. \A i : i \in J <=> i = n /\ n # 0 /\ Len(v) # 0 /\ PairAt(u \o v, n) = k
  BY <1>7
<1>9. \A i : i \in W <=> i \in n + 1..n + Len(v) - 1 /\ PairAt(u \o v, i) = k
  <2>1. ASSUME NEW i \in W
        PROVE  i \in n + 1..n + Len(v) - 1 /\ PairAt(u \o v, i) = k
    <3>1. PICK j \in V : i = j + n
      OBVIOUS
    <3>2. j \in 1..Len(v) - 1 /\ PairAt(v, j) = k
      BY DEF PairPositions
    <3> QED BY <1>1, <1>3, <3>1, <3>2
  <2>2. ASSUME NEW i \in n + 1..n + Len(v) - 1, PairAt(u \o v, i) = k
        PROVE  i \in W
    BY <1>3, <2>2 DEF PairPositions
  <2> QED BY <2>1, <2>2
<1>10. \A i : i \in PairPositions(u, k) <=> i \in 1..n - 1 /\ PairAt(u \o v, i) = k
  BY <1>4 DEF PairPositions
<1>11. \A i : i \in PairPositions(u \o v, k)
                <=> i \in 1..n + Len(v) - 1 /\ PairAt(u \o v, i) = k
  BY <1>1 DEF PairPositions
<1>12. \A i : i \in 1..n + Len(v) - 1
                <=> \/ i \in 1..n - 1
                    \/ i = n /\ n # 0 /\ Len(v) # 0
                    \/ i \in n + 1..n + Len(v) - 1
  BY <1>1
<1>13. /\ PairPositions(u \o v, k) = (PairPositions(u, k) \cup W) \cup J
       /\ PairPositions(u, k) \cap W = {}
       /\ (PairPositions(u, k) \cup W) \cap J = {}
  <2>1. \A i : ~(i \in 1..n - 1 /\ i \in n + 1..n + Len(v) - 1)
    BY <1>1
  <2>2. n \notin 1..n - 1 /\ n \notin n + 1..n + Len(v) - 1
    BY <1>1
  <2> HIDE DEF W, J, n
  <2> QED BY <1>8, <1>9, <1>10, <1>11, <1>12, <2>1, <2>2
<1>14. IsFiniteSet(W) /\ Cardinality(W) = Cardinality(V)
  <2>1. V \in SUBSET Int
    BY <1>1 DEF PairPositions
  <2>2. IsFiniteSet(V)
    BY CountType
  <2>3. n \in Int
    BY <1>1
  <2> HIDE DEF V, n
  <2> QED BY <2>1, <2>2, <2>3, CardinalityShift
<1>15. IsFiniteSet(J) /\ Cardinality(J) = Seam(u, v, k)
  BY <1>6, FS_EmptySet, FS_Singleton
<1>16. IsFiniteSet(PairPositions(u, k))
  BY CountType
<1>17. /\ IsFiniteSet(PairPositions(u, k) \cup W)
       /\ Cardinality(PairPositions(u, k) \cup W)
            = Cardinality(PairPositions(u, k)) + Cardinality(V)
  <2> HIDE DEF W, V
  <2> QED BY <1>13, <1>14, <1>16, CardinalityDisjoint
<1>18. Cardinality(PairPositions(u \o v, k))
         = (Cardinality(PairPositions(u, k)) + Cardinality(V)) + Seam(u, v, k)
  <2> HIDE DEF W, V, J
  <2> QED BY <1>13, <1>15, <1>17, CardinalityDisjoint
<1> QED BY <1>1, <1>18, CountType

\* The counts of the shortest words.
LEMMA ShortCounts ==
  ASSUME NEW a, NEW b, NEW k
  PROVE  /\ UnitCount(<< >>, k) = 0
         /\ UnitCount(<<a>>, k) = IF a = k THEN 1 ELSE 0
         /\ PairCount(<<a>>, k) = 0
         /\ PairCount(<<a, b>>, k) = IF <<a, b>> = k THEN 1 ELSE 0
<1>1. {i \in DOMAIN << >> : << >>[i] = k} = {}
  OBVIOUS
<1>2. {i \in DOMAIN <<a>> : <<a>>[i] = k} = IF a = k THEN {1} ELSE {}
  OBVIOUS
<1>3. PairPositions(<<a>>, k) = {}
  BY DEF PairPositions
<1>4. PairPositions(<<a, b>>, k) = IF <<a, b>> = k THEN {1} ELSE {}
  <2>1. Len(<<a, b>>) - 1 = 1 /\ 1..1 = {1} /\ PairAt(<<a, b>>, 1) = <<a, b>>
    BY DEF PairAt
  <2> QED BY <2>1 DEF PairPositions
<1>5. Cardinality({}) = 0 /\ Cardinality({1}) = 1
  BY FS_EmptySet, FS_Singleton
<1>6. PairCount(<<a>>, k) = Cardinality({}) /\ PairCount(<<a, b>>, k) = Cardinality(PairPositions(<<a, b>>, k))
  BY <1>3 DEF PairCount, PairPositions
<1>7. UnitCount(<< >>, k) = Cardinality({}) /\ UnitCount(<<a>>, k) = Cardinality(IF a = k THEN {1} ELSE {})
  BY <1>1, <1>2, Zenon DEF UnitCount
<1> QED BY <1>4, <1>5, <1>6, <1>7

\* What does not occur has count 0, and only that.
LEMMA Occurs ==
  ASSUME NEW U, NEW w \in Seq(U), NEW k
  PROVE  /\ k \in PairsOf(w) <=> PairCount(w, k) > 0
         /\ k \in Elements(w) <=> UnitCount(w, k) > 0
<1>1. k \in PairsOf(w) <=> PairPositions(w, k) # {}
  BY DEF PairsOf, PairPositions
<1>2. k \in Elements(w) <=> UnitPositions(w, k) # {}
  BY DEF Elements, UnitPositions
<1>3. \A S : IsFiniteSet(S) => (Cardinality(S) = 0 <=> S = {})
  BY FS_EmptySet
<1>4. /\ PairCount(w, k) = 0 <=> PairPositions(w, k) = {}
      /\ UnitCount(w, k) = 0 <=> UnitPositions(w, k) = {}
  BY <1>3, CountType, Zenon
<1>5. PairCount(w, k) \in Nat /\ UnitCount(w, k) \in Nat
  BY CountType
<1> QED BY <1>1, <1>2, <1>4, <1>5

\* A pair has the units it is made of.
LEMMA PairElements ==
  ASSUME NEW U, NEW w \in Seq(U), NEW k \in PairsOf(w)
  PROVE  /\ k = <<k[1], k[2]>>
         /\ k[1] \in Elements(w) /\ k[2] \in Elements(w)
         /\ k[1] \in U /\ k[2] \in U
<1>1. PICK i \in 1..Len(w) - 1 : k = <<w[i], w[i + 1]>>
  BY DEF PairsOf, PairAt
<1>2. i \in DOMAIN w /\ i + 1 \in DOMAIN w
  BY <1>1
<1> QED BY <1>1, <1>2 DEF Elements

\* A unit occurs at least as often as the pairs it ends, or begins.
LEMMA PairsBelowUnits ==
  ASSUME NEW U, NEW w \in Seq(U), NEW k
  PROVE  PairCount(w, k) <= UnitCount(w, k[2]) /\ PairCount(w, k) <= UnitCount(w, k[1])
<1> DEFINE P == PairPositions(w, k)
           Q == {i + 1 : i \in P}
<1>1. Len(w) \in Nat /\ DOMAIN w = 1..Len(w)
  OBVIOUS
<1>2. P \in SUBSET Int
  BY <1>1 DEF PairPositions
<1>3. IsFiniteSet(P)
  BY CountType
<1>4. Cardinality(Q) = Cardinality(P)
  <2>1. 1 \in Int
    OBVIOUS
  <2> HIDE DEF P
  <2> QED BY <1>2, <1>3, <2>1, CardinalityShift, Zenon
<1>5. \A i \in P : i \in DOMAIN w /\ i + 1 \in DOMAIN w /\ w[i] = k[1] /\ w[i + 1] = k[2]
  BY <1>1 DEF PairPositions, PairAt
<1>6. P \subseteq UnitPositions(w, k[1]) /\ Q \subseteq UnitPositions(w, k[2])
  BY <1>5 DEF UnitPositions
<1>7. IsFiniteSet(UnitPositions(w, k[1])) /\ IsFiniteSet(UnitPositions(w, k[2]))
  BY CountType
<1>8. /\ Cardinality(P) <= Cardinality(UnitPositions(w, k[1]))
      /\ Cardinality(Q) <= Cardinality(UnitPositions(w, k[2]))
  <2> HIDE DEF P, Q
  <2> QED BY <1>6, <1>7, FS_Subset
<1>9. /\ PairCount(w, k) = Cardinality(P)
      /\ UnitCount(w, k[1]) = Cardinality(UnitPositions(w, k[1]))
      /\ UnitCount(w, k[2]) = Cardinality(UnitPositions(w, k[2]))
  BY CountType
<1> QED BY <1>4, <1>8, <1>9

-----------------------------------------------------------------------------
(* The scan of merge_word, one iteration after the other. *)

ScanStart == [i |-> 1, out |-> << >>, last |-> << >>, changes |-> << >>]

ScanNext(w, freq, tp, target, s) ==
  IF s.i >= Len(w) THEN s ELSE ScanStep(w, freq, tp, target, s)

\* Its definition by recursion defines it.
LEMMA ScanUnfold ==
  ASSUME NEW w, Len(w) \in Nat, NEW freq, NEW tp, NEW target
  PROVE  LET scan == Scan(w, freq, tp, target)
         IN /\ scan[0] = ScanStart
            /\ \A n \in 0..Len(w) - 1 :
                 scan[n + 1] = ScanNext(w, freq, tp, target, scan[n])
<1> DEFINE Step(x) == CHOOSE next \in {IF s.i >= Len(w) THEN s ELSE ScanStep(w, freq, tp, target, s) :
                                         s \in {x}} : TRUE
           Is(g, m) == g = [n \in 0..m |-> IF n = 0 THEN ScanStart ELSE Step(g[n - 1])]
           S == {m \in Nat : \E g : Is(g, m)}
<1>1. ASSUME NEW x
      PROVE  Step(x) = ScanNext(w, freq, tp, target, x)
  <2>1. {IF s.i >= Len(w) THEN s ELSE ScanStep(w, freq, tp, target, s) : s \in {x}}
          = {ScanNext(w, freq, tp, target, x)}
    BY DEF ScanNext
  <2> QED BY <2>1
<1> HIDE DEF Step
<1>2. 0 \in S
  <2> DEFINE g == [n \in 0..0 |-> ScanStart]
  <2>1. Is(g, 0)
    OBVIOUS
  <2> QED BY <2>1
<1>3. ASSUME NEW m \in S
      PROVE  m + 1 \in S
  <2>1. PICK g : Is(g, m)
    OBVIOUS
  <2>2. m \in Nat
    OBVIOUS
  <2> DEFINE h == [n \in 0..m + 1 |-> IF n = m + 1 THEN Step(g[m]) ELSE g[n]]
  <2>3. \A n \in 0..m + 1 : h[n] = IF n = 0 THEN ScanStart ELSE Step(h[n - 1])
    <3> TAKE n \in 0..m + 1
    <3>1. CASE n = m + 1
      BY <2>2, <3>1
    <3>2. CASE n # m + 1
      <4>1. n \in 0..m /\ (n # 0 => n - 1 \in 0..m /\ h[n - 1] = g[n - 1])
        BY <2>2, <3>2
      <4>2. g[n] = IF n = 0 THEN ScanStart ELSE Step(g[n - 1])
        BY <2>1, <4>1
      <4> QED BY <4>1, <4>2
    <3> QED BY <3>1, <3>2
  <2>4. Is(h, m + 1)
    BY <2>3, Zenon
  <2>5. \E f : Is(f, m + 1)
    BY <2>4
  <2> HIDE DEF Is
  <2> QED BY <2>2, <2>5
<1>4. S = Nat
  <2>1. S \in SUBSET Nat
    OBVIOUS
  <2> HIDE DEF S
  <2> QED BY <1>2, <1>3, <2>1, NatInd
<1>5. \E g : Is(g, Len(w))
  BY <1>4
<1> DEFINE scan == CHOOSE g : Is(g, Len(w))
<1>6. Is(scan, Len(w))
  BY <1>5, Zenon
<1>7. Scan(w, freq, tp, target) = scan
  BY Zenon DEF Scan, Step, ScanStart
<1> HIDE DEF scan
<1>8. scan[0] = ScanStart
  BY <1>6
<1>9. ASSUME NEW n \in 0..Len(w) - 1
      PROVE  scan[n + 1] = Step(scan[n])
  <2>1. n + 1 \in 0..Len(w) /\ n + 1 # 0 /\ (n + 1) - 1 = n
    OBVIOUS
  <2> QED BY <1>6, <2>1
<1> QED BY <1>1, <1>7, <1>8, <1>9

\* merge_word returns what the end of the scan holds.
LEMMA MergeWordUnfold ==
  ASSUME NEW w, NEW freq, NEW tp, NEW target
  PROVE  LET end == Scan(w, freq, tp, target)[Len(w)]
         IN MergeWord(w, freq, tp, target) =
              [idxs |-> end.out \o SubSeq(w, end.i, Len(w)), changes |-> end.changes]
<1> DEFINE last == Scan(w, freq, tp, target)[Len(w)]
           Result(end) == [idxs |-> end.out \o SubSeq(w, end.i, Len(w)),
                           changes |-> end.changes]
<1>1. {Result(end) : end \in {last}} = {Result(last)}
  BY Zenon
<1>2. MergeWord(w, freq, tp, target) = CHOOSE result \in {Result(end) : end \in {last}} : TRUE
  BY Zenon DEF MergeWord
<1> QED BY <1>1, <1>2, Zenon

-----------------------------------------------------------------------------
(* What the scan has done after some iterations. *)

\* The word the scan has made so far: what it wrote and what it has not read.
Current(w, s) == s.out \o SubSeq(w, s.i, Len(w))

\* last_tp is the pair that ends the output and the next unit, and the changes
\* are the difference of the counts of this word and of the old one.
ScanOK(U, w, freq, s) ==
  /\ s = [i |-> s.i, out |-> s.out, last |-> s.last, changes |-> s.changes]
  /\ s.i \in 1..Len(w) + 1
  /\ s.out \in Seq(U)
  /\ s.i <= Len(w) =>
       s.last = IF s.out = << >> THEN << >> ELSE <<s.out[Len(s.out)], w[s.i]>>
  /\ DOMAIN s.changes \subseteq U \X U
  /\ \A k : Entry(s.changes, k) \in Int
  /\ \A k : Entry(s.changes, k) = freq * (PairCount(Current(w, s), k) - PairCount(w, k))

\* The frequency differences that one iteration adds.
LEMMA AddedChanges ==
  ASSUME NEW V, NEW left \in Seq(V), NEW entered \in Seq(V), NEW changes, NEW freq \in Int,
         \A k : Entry(changes, k) \in Int, NEW k
  PROVE  Entry(AddLocalChanges(changes, freq, left, entered), k)
           = Entry(changes, k) + freq * (UnitCount(entered, k) - UnitCount(left, k))
<1>1. UnitCount(entered, k) \in Nat /\ UnitCount(left, k) \in Nat
  BY CountType
<1>2. CASE k \in DOMAIN changes \cup Elements(left) \cup Elements(entered)
  BY <1>2 DEF AddLocalChanges, Entry
<1>3. CASE k \notin DOMAIN changes \cup Elements(left) \cup Elements(entered)
  <2>1. UnitCount(entered, k) = 0 /\ UnitCount(left, k) = 0
    BY <1>1, <1>3, Occurs
  <2>2. Entry(AddLocalChanges(changes, freq, left, entered), k) = 0 /\ Entry(changes, k) = 0
    BY <1>3 DEF AddLocalChanges, Entry
  <2> QED BY <2>1, <2>2
<1> QED BY <1>2, <1>3

\* What is left to read starts with the next unit, or the next two.
LEMMA Unread ==
  ASSUME NEW U, NEW w \in Seq(U), NEW i \in 1..Len(w)
  PROVE  /\ SubSeq(w, i, Len(w)) = <<w[i]>> \o SubSeq(w, i + 1, Len(w))
         /\ SubSeq(w, i + 1, Len(w)) \in Seq(U)
         /\ i + 1 > Len(w) => SubSeq(w, i + 1, Len(w)) = << >>
         /\ i + 1 <= Len(w) => /\ SubSeq(w, i + 1, Len(w)) # << >>
                               /\ SubSeq(w, i + 1, Len(w))[1] = w[i + 1]
<1>1. Len(w) \in Nat /\ i \in 1..Len(w) /\ Len(w) \in i..Len(w)
  OBVIOUS
<1>2. SubSeq(w, i, Len(w)) = <<w[i]>> \o SubSeq(w, i + 1, Len(w))
  BY <1>1, SubSeqRecursiveFirst
<1>3. \A j \in i + 1..Len(w) : w[j] \in U
  BY <1>1
<1>4. /\ SubSeq(w, i + 1, Len(w)) \in Seq(U)
      /\ Len(SubSeq(w, i + 1, Len(w))) = IF i + 1 <= Len(w) THEN Len(w) - i ELSE 0
  BY <1>1, <1>3, SubSeqProperties
<1>5. i + 1 <= Len(w) => SubSeq(w, i + 1, Len(w))[1] = w[i + 1]
  BY <1>1
<1>6. i + 1 > Len(w) => SubSeq(w, i + 1, Len(w)) = << >>
  BY <1>1, SubSeqEmpty
<1>7. i + 1 <= Len(w) => Len(SubSeq(w, i + 1, Len(w))) # 0
  BY <1>1, <1>4
<1>8. SubSeq(w, i + 1, Len(w)) = << >> => Len(SubSeq(w, i + 1, Len(w))) = 0
  OBVIOUS
<1> QED BY <1>2, <1>4, <1>5, <1>6, <1>7, <1>8

\* An iteration that merges nothing moves one unit to the output.
LEMMA ScanSkip ==
  ASSUME NEW U, NEW w \in Seq(U), NEW freq \in Int, NEW tp, NEW target \in U, NEW s,
         ScanOK(U, w, freq, s), s.i < Len(w), PairAt(w, s.i) # tp
  PROVE  ScanOK(U, w, freq, ScanStep(w, freq, tp, target, s))
<1> DEFINE t == ScanStep(w, freq, tp, target, s)
           rest == SubSeq(w, s.i + 1, Len(w))
<1>1. s.i \in 1..Len(w) - 1 /\ s.out \in Seq(U) /\ Len(w) \in Nat
  BY DEF ScanOK
<1>2. t = [i |-> s.i + 1, out |-> Append(s.out, w[s.i]),
           last |-> PairAt(w, s.i), changes |-> s.changes]
  BY DEF ScanStep, ScanOK
<1>3. w[s.i] \in U /\ Append(s.out, w[s.i]) = s.out \o <<w[s.i]>>
  <2>1. w[s.i] \in U
    BY <1>1
  <2> DEFINE x == w[s.i]
             out == s.out
  <2>2. x \in U /\ out \in Seq(U)
    BY <1>1, <2>1
  <2> HIDE DEF x, out
  <2>3. Append(out, x) = out \o <<x>>
    BY ONLY <2>2
  <2> QED BY <2>1, <2>3 DEF x, out
<1>4. Current(w, t) = Current(w, s)
  <2>0. t.i = s.i + 1 /\ t.out = s.out \o <<w[s.i]>>
    BY <1>2, <1>3
  <2>1. Current(w, t) = (s.out \o <<w[s.i]>>) \o rest
    <3> HIDE DEF t
    <3> QED BY <2>0, Zenon DEF Current
  <2>2. Current(w, s) = s.out \o (<<w[s.i]>> \o rest)
    <3>1. s.i \in 1..Len(w)
      BY <1>1
    <3>2. SubSeq(w, s.i, Len(w)) = <<w[s.i]>> \o rest
      BY <3>1, Unread, Zenon
    <3> QED BY <3>2, Zenon DEF Current
  <2>3. rest \in Seq(U)
    BY <1>1, Unread
  <2>4. (s.out \o <<w[s.i]>>) \o rest = s.out \o (<<w[s.i]>> \o rest)
    <3> DEFINE x == <<w[s.i]>>
               out == s.out
    <3>1. x \in Seq(U) /\ out \in Seq(U)
      BY <1>1, <1>3
    <3> HIDE DEF x, rest, out
    <3>2. (out \o x) \o rest = out \o (x \o rest)
      BY <2>3, <3>1, ConcatAssociative
    <3> QED BY <3>2 DEF x, out
  <2> QED BY <2>1, <2>2, <2>4, Zenon
<1>5. t.out \in Seq(U) /\ t.out # << >> /\ t.out[Len(t.out)] = w[s.i]
  BY <1>1, <1>2, <1>3
<1>6. t.last = <<t.out[Len(t.out)], w[t.i]>>
  BY <1>2, <1>5 DEF PairAt
<1>7. t.i \in 1..Len(w) + 1
  BY <1>1, <1>2
<1> QED BY <1>2, <1>4, <1>5, <1>6, <1>7 DEF ScanOK

\* An iteration that merges replaces two units of the word by one, and reports
\* the pairs around them that come and go.
LEMMA ScanMerge ==
  ASSUME NEW U, NEW w \in Seq(U), NEW freq \in Int, NEW tp, NEW target \in U, NEW s,
         ScanOK(U, w, freq, s), s.i < Len(w), PairAt(w, s.i) = tp
  PROVE  ScanOK(U, w, freq, ScanStep(w, freq, tp, target, s))
<1> DEFINE t == ScanStep(w, freq, tp, target, s)
           a == w[s.i]
           b == w[s.i + 1]
           rest == SubSeq(w, s.i + 2, Len(w))
           left == <<tp>> \o OldNeighbours(w, tp, s)
           entered == NewNeighbours(w, target, s)
<1>1. s.i \in 1..Len(w) - 1 /\ s.out \in Seq(U) /\ Len(w) \in Nat /\ tp = <<a, b>>
  BY DEF ScanOK, PairAt
<1>2. t = [i |-> s.i + 2, out |-> Append(s.out, target),
           last |-> IF s.i + 2 > Len(w) THEN s.last ELSE <<target, w[s.i + 2]>>,
           changes |-> AddLocalChanges(s.changes, freq, left, entered)]
  BY DEF ScanStep
<1>3. a \in U /\ b \in U /\ rest \in Seq(U) /\ Append(s.out, target) = s.out \o <<target>>
  <2>1. s.i + 1 \in 1..Len(w) /\ (s.i + 1) + 1 = s.i + 2
    BY <1>1
  <2>2. SubSeq(w, (s.i + 1) + 1, Len(w)) \in Seq(U)
    BY <2>1, Unread
  <2>3. rest \in Seq(U)
    BY <2>1, <2>2
  <2>4. a \in U /\ b \in U
    BY <1>1
  <2>5. Append(s.out, target) = s.out \o <<target>>
    BY <1>1, AppendIsConcat
  <2> QED BY <2>3, <2>4, <2>5
<1>4. s.last = IF s.out = << >> THEN << >> ELSE <<s.out[Len(s.out)], a>>
  BY <1>1 DEF ScanOK
<1>5. /\ s.i + 2 > Len(w) => rest = << >>
      /\ s.i + 2 <= Len(w) => rest # << >> /\ rest[1] = w[s.i + 2] /\ w[s.i + 2] \in U
  <2>1. s.i + 1 \in 1..Len(w) /\ (s.i + 1) + 1 = s.i + 2
    BY <1>1
  <2>2. s.i + 2 <= Len(w) => w[s.i + 2] \in U
    BY <1>1
  <2> QED BY <2>1, <2>2, Unread
<1>6. Current(w, s) = s.out \o (<<a>> \o (<<b>> \o rest))
  <2>1. SubSeq(w, s.i, Len(w)) = <<a>> \o (<<b>> \o rest)
    <3>1. s.i \in 1..Len(w) /\ s.i + 1 \in 1..Len(w) /\ (s.i + 1) + 1 = s.i + 2
      BY <1>1
    <3>2. SubSeq(w, s.i, Len(w)) = <<a>> \o SubSeq(w, s.i + 1, Len(w))
      BY <3>1, Unread
    <3>3. SubSeq(w, s.i + 1, Len(w)) = <<b>> \o rest
      BY <3>1, Unread
    <3> QED BY <3>2, <3>3
  <2> QED BY <2>1, Zenon DEF Current
<1>7. Current(w, t) = s.out \o (<<target>> \o rest)
  <2>0. t.i = s.i + 2 /\ t.out = s.out \o <<target>>
    BY <1>2, <1>3
  <2>1. Current(w, t) = (s.out \o <<target>>) \o rest
    <3> HIDE DEF t
    <3> QED BY <2>0, Zenon DEF Current
  <2>3. (s.out \o <<target>>) \o rest = s.out \o (<<target>> \o rest)
    <3> DEFINE x == <<target>>
               out == s.out
    <3>1. x \in Seq(U) /\ out \in Seq(U)
      BY <1>1
    <3> HIDE DEF x, rest, out
    <3>2. out \in Seq(U) /\ x \in Seq(U) /\ rest \in Seq(U)
      BY <1>3, <3>1
    <3>3. (out \o x) \o rest = out \o (x \o rest)
      BY ONLY <3>2, ConcatAssociative
    <3> QED BY <3>3 DEF x, out
  <2> QED BY <2>1, <2>3
<1> DEFINE oldL == IF s.last = << >> THEN << >> ELSE <<s.last>>
           oldR == IF s.i + 2 > Len(w) THEN << >> ELSE <<<<b, w[s.i + 2]>>>>
           newL == IF s.last = << >> THEN << >> ELSE <<<<s.last[1], target>>>>
           newR == IF s.i + 2 > Len(w) THEN << >> ELSE <<<<target, w[s.i + 2]>>>>
<1>8. left = <<tp>> \o (oldL \o oldR) /\ entered = newL \o newR
  BY <1>1 DEF OldNeighbours, NewNeighbours
<1>9. s.out # << >> => s.out[Len(s.out)] \in U
  BY <1>1
<1>10. /\ oldL \in Seq(U \X U) /\ oldR \in Seq(U \X U)
       /\ newL \in Seq(U \X U) /\ newR \in Seq(U \X U)
       /\ <<tp>> \in Seq(U \X U)
  <2>1. tp \in U \X U /\ (s.last # << >> => s.last \in U \X U /\ <<s.last[1], target>> \in U \X U)
    BY <1>1, <1>3, <1>4, <1>9
  <2>2. s.i + 2 <= Len(w) => <<b, w[s.i + 2]>> \in U \X U /\ <<target, w[s.i + 2]>> \in U \X U
    BY <1>3, <1>5
  <2>3. ~(s.i + 2 > Len(w)) => s.i + 2 <= Len(w)
    BY <1>1
  <2> DEFINE P == U \X U
  <2>4. \A p \in P : <<p>> \in Seq(P)
    OBVIOUS
  <2>5. << >> \in Seq(P)
    OBVIOUS
  <2> QED BY <2>1, <2>2, <2>3, <2>4, <2>5
<1>11. left \in Seq(U \X U) /\ entered \in Seq(U \X U)
  <2> HIDE DEF oldL, oldR, newL, newR, left, entered
  <2> DEFINE P == U \X U
  <2>1. oldL \o oldR \in Seq(P) /\ newL \o newR \in Seq(P)
    BY <1>10
  <2>2. <<tp>> \o (oldL \o oldR) \in Seq(P)
    BY <1>10, <2>1
  <2> QED BY <1>8, <2>1, <2>2
<1>12. ASSUME NEW k
       PROVE  /\ PairCount(Current(w, t), k) - PairCount(Current(w, s), k)
                   = UnitCount(entered, k) - UnitCount(left, k)
              /\ PairCount(Current(w, t), k) \in Nat /\ PairCount(Current(w, s), k) \in Nat
  <2> DEFINE end == <<b>> \o rest
             old == <<a>> \o end
             new == <<target>> \o rest
  <2>1. /\ <<a>> \in Seq(U) /\ <<b>> \in Seq(U) /\ <<target>> \in Seq(U)
        /\ end \in Seq(U) /\ old \in Seq(U) /\ new \in Seq(U)
    BY <1>3
  <2>2. PairCount(Current(w, s), k) = PairCount(s.out, k) + PairCount(old, k) + Seam(s.out, old, k)
    BY <1>1, <1>6, <2>1, PairCountConcat
  <2>3. PairCount(old, k) = PairCount(<<a>>, k) + PairCount(end, k) + Seam(<<a>>, end, k)
    BY <2>1, PairCountConcat
  <2>4. PairCount(end, k) = PairCount(<<b>>, k) + PairCount(rest, k) + Seam(<<b>>, rest, k)
    BY <1>3, <2>1, PairCountConcat
  <2>5. Seam(<<a>>, end, k) = IF tp = k THEN 1 ELSE 0
    <3>1. end # << >> /\ end[1] = b
      BY <1>3
    <3>2. <<a>> # << >> /\ Len(<<a>>) = 1 /\ <<a>>[1] = a
      OBVIOUS
    <3> HIDE DEF end
    <3> QED BY <1>1, <3>1, <3>2 DEF Seam
  <2>6. PairCount(Current(w, t), k) = PairCount(s.out, k) + PairCount(new, k) + Seam(s.out, new, k)
    BY <1>1, <1>7, <2>1, PairCountConcat
  <2>7. PairCount(new, k) = PairCount(<<target>>, k) + PairCount(rest, k) + Seam(<<target>>, rest, k)
    BY <1>3, <2>1, PairCountConcat
  <2>8. PairCount(<<target>>, k) = 0 /\ PairCount(<<a>>, k) = 0 /\ PairCount(<<b>>, k) = 0
    BY ShortCounts
  <2>9. \A p \in U \X U : UnitCount(<<p>>, k) = IF p = k THEN 1 ELSE 0
    BY ShortCounts
  <2>10. UnitCount(<< >>, k) = 0
    BY ShortCounts
  <2>11. tp \in U \X U
    BY <1>1, <1>3
  <2>12. UnitCount(<<tp>>, k) = IF tp = k THEN 1 ELSE 0
    BY <2>9, <2>11
  <2>13. Seam(s.out, old, k) = UnitCount(oldL, k)
    <3>1. old # << >> /\ old[1] = a
      BY <1>3
    <3>2. CASE s.out = << >>
      BY <1>4, <2>10, <3>2 DEF Seam
    <3>3. CASE s.out # << >>
      <4>1. <<s.out[Len(s.out)], a>> \in U \X U /\ oldL = <<<<s.out[Len(s.out)], a>>>>
        BY <1>3, <1>4, <1>9, <3>3
      <4> HIDE DEF oldL
      <4> QED BY <2>9, <3>1, <3>3, <4>1 DEF Seam
    <3> QED BY <3>2, <3>3
  <2>14. Seam(s.out, new, k) = UnitCount(newL, k)
    <3>1. new # << >> /\ new[1] = target
      BY <1>3
    <3>2. CASE s.out = << >>
      BY <1>4, <2>10, <3>2 DEF Seam
    <3>3. CASE s.out # << >>
      <4>1. <<s.out[Len(s.out)], target>> \in U \X U /\ newL = <<<<s.out[Len(s.out)], target>>>>
        BY <1>3, <1>4, <1>9, <3>3
      <4> HIDE DEF newL
      <4> QED BY <2>9, <3>1, <3>3, <4>1 DEF Seam
    <3> QED BY <3>2, <3>3
  <2>15. Seam(<<b>>, rest, k) = UnitCount(oldR, k)
    <3>1. <<b>> # << >> /\ Len(<<b>>) = 1 /\ <<b>>[1] = b
      OBVIOUS
    <3>2. CASE s.i + 2 > Len(w)
      BY <1>5, <2>10, <3>2 DEF Seam
    <3>3. CASE s.i + 2 <= Len(w)
      <4>1. /\ <<b, w[s.i + 2]>> \in U \X U /\ oldR = <<<<b, w[s.i + 2]>>>>
            /\ rest # << >> /\ rest[1] = w[s.i + 2]
        BY <1>1, <1>3, <1>5, <3>3
      <4> HIDE DEF oldR, rest
      <4> QED BY <2>9, <3>1, <4>1 DEF Seam
    <3> QED BY <1>1, <3>2, <3>3
  <2>16. Seam(<<target>>, rest, k) = UnitCount(newR, k)
    <3>1. <<target>> # << >> /\ Len(<<target>>) = 1 /\ <<target>>[1] = target
      OBVIOUS
    <3>2. CASE s.i + 2 > Len(w)
      BY <1>5, <2>10, <3>2 DEF Seam
    <3>3. CASE s.i + 2 <= Len(w)
      <4>1. /\ <<target, w[s.i + 2]>> \in U \X U /\ newR = <<<<target, w[s.i + 2]>>>>
            /\ rest # << >> /\ rest[1] = w[s.i + 2]
        BY <1>1, <1>3, <1>5, <3>3
      <4> HIDE DEF newR, rest
      <4> QED BY <2>9, <3>1, <4>1 DEF Seam
    <3> QED BY <1>1, <3>2, <3>3
  <2>17. /\ UnitCount(left, k) = UnitCount(<<tp>>, k) + (UnitCount(oldL, k) + UnitCount(oldR, k))
         /\ UnitCount(entered, k) = UnitCount(newL, k) + UnitCount(newR, k)
    <3> HIDE DEF oldL, oldR, newL, newR, left, entered
    <3> DEFINE P == U \X U
    <3>1. oldL \o oldR \in Seq(P)
      BY <1>10
    <3>2. UnitCount(oldL \o oldR, k) = UnitCount(oldL, k) + UnitCount(oldR, k)
      BY <1>10, UnitCountConcat
    <3>3. UnitCount(<<tp>> \o (oldL \o oldR), k) = UnitCount(<<tp>>, k) + UnitCount(oldL \o oldR, k)
      <4> DEFINE x == <<tp>>
                 y == oldL \o oldR
      <4>1. x \in Seq(P) /\ y \in Seq(P)
        BY <1>10, <3>1
      <4> HIDE DEF x, y, P
      <4>2. UnitCount(x \o y, k) = UnitCount(x, k) + UnitCount(y, k)
        BY <4>1, UnitCountConcat
      <4> QED BY <4>2 DEF x, y
    <3>4. UnitCount(newL \o newR, k) = UnitCount(newL, k) + UnitCount(newR, k)
      BY <1>10, UnitCountConcat
    <3> QED BY <1>8, <3>2, <3>3, <3>4
  <2>18. /\ UnitCount(oldL, k) \in Nat /\ UnitCount(oldR, k) \in Nat
         /\ UnitCount(newL, k) \in Nat /\ UnitCount(newR, k) \in Nat
         /\ PairCount(s.out, k) \in Nat /\ PairCount(rest, k) \in Nat
    <3> HIDE DEF oldL, oldR, newL, newR, rest
    <3> QED BY <1>1, <1>3, <1>10, CountType
  <2>19. UnitCount(<<tp>>, k) \in Nat /\ Seam(<<a>>, end, k) = UnitCount(<<tp>>, k)
    BY <2>12, <2>5
  <2> HIDE DEF a, b, end, old, new, oldL, oldR, newL, newR, rest, left, entered, t
  <2>20. /\ PairCount(Current(w, s), k)
              = PairCount(s.out, k) + PairCount(rest, k) + UnitCount(left, k)
         /\ UnitCount(left, k) \in Nat
    BY <2>2, <2>8, <2>13, <2>15, <2>17, <2>18, <2>19, <2>3, <2>4
  <2>21. /\ PairCount(Current(w, t), k)
              = PairCount(s.out, k) + PairCount(rest, k) + UnitCount(entered, k)
         /\ UnitCount(entered, k) \in Nat
    BY <2>6, <2>7, <2>8, <2>14, <2>16, <2>17, <2>18
  <2> QED BY <2>18, <2>20, <2>21
<1>13. ASSUME NEW k
       PROVE  /\ Entry(t.changes, k) \in Int
              /\ Entry(t.changes, k) = freq * (PairCount(Current(w, t), k) - PairCount(w, k))
  <2>1. Entry(t.changes, k) = Entry(s.changes, k) + freq * (UnitCount(entered, k) - UnitCount(left, k))
    <3>1. \A q : Entry(s.changes, q) \in Int
      BY DEF ScanOK
    <3>2. t.changes = AddLocalChanges(s.changes, freq, left, entered)
      BY <1>2
    <3> HIDE DEF t, left, entered
    <3>3. Entry(AddLocalChanges(s.changes, freq, left, entered), k)
            = Entry(s.changes, k) + freq * (UnitCount(entered, k) - UnitCount(left, k))
      BY <1>11, <3>1, AddedChanges
    <3> QED BY <3>2, <3>3
  <2>2. /\ Entry(s.changes, k) \in Int
        /\ Entry(s.changes, k) = freq * (PairCount(Current(w, s), k) - PairCount(w, k))
    BY DEF ScanOK
  <2>3. PairCount(w, k) \in Nat /\ UnitCount(entered, k) \in Nat /\ UnitCount(left, k) \in Nat
    <3> HIDE DEF left, entered
    <3> QED BY <1>11, CountType
  <2>4. \A x, y, z \in Int : freq * (x - z) + freq * (y - x) = freq * (y - z)
    OBVIOUS
  <2>5. PairCount(Current(w, s), k) \in Int /\ PairCount(Current(w, t), k) \in Int /\ PairCount(w, k) \in Int
    BY <1>12, <2>3
  <2>6. PairCount(Current(w, t), k) - PairCount(Current(w, s), k) = UnitCount(entered, k) - UnitCount(left, k)
    BY <1>12, <2>3, <2>5
  <2> DEFINE x == PairCount(Current(w, s), k)
             y == PairCount(Current(w, t), k)
             z == PairCount(w, k)
             e == Entry(s.changes, k)
             d == UnitCount(entered, k) - UnitCount(left, k)
  <2>7. /\ x \in Int /\ y \in Int /\ z \in Int /\ e = freq * (x - z) /\ d = y - x
        /\ Entry(t.changes, k) = e + freq * d
    BY <2>1, <2>2, <2>5, <2>6
  <2> HIDE DEF x, y, z, e, d
  <2>8. freq * (x - z) + freq * (y - x) = freq * (y - z)
    BY ONLY <2>4, <2>7
  <2>9. freq * (y - z) \in Int
    BY ONLY <2>7, freq \in Int
  <2>10. Entry(t.changes, k) = freq * (y - z)
    BY ONLY <2>7, <2>8
  <2> QED BY <2>9, <2>10 DEF y, z
<1>14. /\ t = [i |-> t.i, out |-> t.out, last |-> t.last, changes |-> t.changes]
       /\ t.i = s.i + 2 /\ t.out = s.out \o <<target>>
       /\ t.last = IF s.i + 2 > Len(w) THEN s.last ELSE <<target, w[s.i + 2]>>
  BY <1>2, <1>3
<1>15. t.out \in Seq(U) /\ t.out # << >> /\ t.out[Len(t.out)] = target
  <2> HIDE DEF t
  <2>1. s.out \o <<target>> \in Seq(U) /\ s.out \o <<target>> # << >>
        /\ (s.out \o <<target>>)[Len(s.out \o <<target>>)] = target
    BY <1>1
  <2> QED BY <1>14, <2>1
<1>16. t.i <= Len(w) => t.last = <<t.out[Len(t.out)], w[t.i]>>
  <2> HIDE DEF t
  <2> QED BY <1>1, <1>14, <1>15
<1>17. t.i \in 1..Len(w) + 1
  <2>1. t.i = s.i + 2
    BY <1>14
  <2> HIDE DEF t
  <2> QED BY <1>1, <2>1
<1>18. DOMAIN t.changes \subseteq U \X U
  <2>1. t.changes = AddLocalChanges(s.changes, freq, left, entered)
    BY <1>2
  <2>2. DOMAIN s.changes \subseteq U \X U
    BY DEF ScanOK
  <2> DEFINE P == U \X U
  <2>3. Elements(left) \subseteq P /\ Elements(entered) \subseteq P
    <3>1. left \in Seq(P) /\ entered \in Seq(P)
      BY <1>11
    <3> HIDE DEF P, left, entered
    <3> QED BY <3>1 DEF Elements
  <2> HIDE DEF t, left, entered
  <2> QED BY <2>1, <2>2, <2>3 DEF AddLocalChanges
<1> HIDE DEF t
<1>19. ScanOK(U, w, freq, t)
  BY <1>13, <1>14, <1>15, <1>16, <1>17, <1>18 DEF ScanOK
<1> QED BY <1>19 DEF t

\* Every iteration keeps what is said above, and advances by a unit or ends.
LEMMA ScanIsOK ==
  ASSUME NEW U, NEW w \in Seq(U), NEW freq \in Int, NEW tp, NEW target \in U
  PROVE  \A n \in 0..Len(w) :
           LET s == Scan(w, freq, tp, target)[n]
           IN ScanOK(U, w, freq, s) /\ (s.i >= n + 1 \/ s.i >= Len(w))
<1> DEFINE scan == Scan(w, freq, tp, target)
           OK(n) == ScanOK(U, w, freq, scan[n]) /\ (scan[n].i >= n + 1 \/ scan[n].i >= Len(w))
           S == {n \in Nat : n <= Len(w) => OK(n)}
<1>0. Len(w) \in Nat
  OBVIOUS
<1>1. /\ scan[0] = ScanStart
      /\ \A n \in 0..Len(w) - 1 : scan[n + 1] = ScanNext(w, freq, tp, target, scan[n])
  BY <1>0, ScanUnfold
<1>2. OK(0)
  <2>1. Current(w, ScanStart) = w
    <3>1. SubSeq(w, 1, Len(w)) = w
      BY SubSeqFull
    <3>2. << >> \o w = w
      OBVIOUS
    <3>3. ScanStart.out = << >> /\ ScanStart.i = 1
      BY DEF ScanStart
    <3> QED BY <3>1, <3>2, <3>3, Zenon DEF Current
  <2>2. DOMAIN << >> = {} /\ \A k : Entry(<< >>, k) = 0
    BY DEF Entry
  <2>3. \A k : Entry(<< >>, k) = freq * (PairCount(Current(w, ScanStart), k) - PairCount(w, k))
    <3> TAKE k
    <3>1. PairCount(w, k) \in Nat
      BY CountType
    <3>2. PairCount(w, k) - PairCount(w, k) = 0
      BY <3>1
    <3> QED BY <2>1, <2>2, <3>2
  <2>4. << >> \in Seq(U)
    OBVIOUS
  <2>5. ScanStart = [i |-> 1, out |-> << >>, last |-> << >>, changes |-> << >>]
    BY DEF ScanStart
  <2>6. ScanOK(U, w, freq, ScanStart)
    <3> HIDE DEF ScanStart
    <3> QED BY <1>0, <2>2, <2>3, <2>4, <2>5 DEF ScanOK
  <2> QED BY <1>1, <2>5, <2>6
<1>3. ASSUME NEW n \in Nat, n + 1 <= Len(w), OK(n)
      PROVE  OK(n + 1)
  <2> DEFINE s == scan[n]
  <2>1. scan[n + 1] = ScanNext(w, freq, tp, target, s)
    BY <1>0, <1>1, <1>3
  <2>2. CASE s.i >= Len(w)
    BY <1>3, <2>1, <2>2 DEF ScanNext
  <2>3. CASE ~(s.i >= Len(w))
    <3>1. s.i \in Nat /\ s.i < Len(w) /\ scan[n + 1] = ScanStep(w, freq, tp, target, s)
      BY <1>0, <1>3, <2>1, <2>3 DEF ScanNext, ScanOK
    <3>2. ScanOK(U, w, freq, s)
      BY <1>3
    <3>3. ScanOK(U, w, freq, scan[n + 1])
      <4>1. CASE PairAt(w, s.i) = tp
        BY <3>1, <3>2, <4>1, ScanMerge
      <4>2. CASE PairAt(w, s.i) # tp
        BY <3>1, <3>2, <4>2, ScanSkip
      <4> QED BY <4>1, <4>2
    <3>4. scan[n + 1].i \in {s.i + 1, s.i + 2}
      BY <3>1, <3>2 DEF ScanStep, ScanOK
    <3> HIDE DEF scan
    <3> QED BY <1>3, <2>3, <3>1, <3>3, <3>4
  <2> QED BY <2>2, <2>3
<1> HIDE DEF OK
<1>4. S = Nat
  <2>1. S \in SUBSET Nat /\ 0 \in S
    BY <1>2
  <2>2. ASSUME NEW n \in S PROVE n + 1 \in S
    BY <1>0, <1>3
  <2> HIDE DEF S
  <2> QED BY <2>1, <2>2, NatInd
<1>5. \A n \in 0..Len(w) : OK(n)
  BY <1>4
<1> QED BY <1>5 DEF OK

\* The frequency changes merge_word reports are exactly the differences of the
\* pair counts of the word it returns and of the word it was given.
THEOREM ChangesAreExact ==
  ASSUME NEW U, NEW w \in Seq(U), NEW freq \in Int, NEW tp, NEW target \in U
  PROVE  LET m == MergeWord(w, freq, tp, target)
         IN /\ m.idxs \in Seq(U)
            /\ DOMAIN m.changes \subseteq U \X U
            /\ \A k : /\ Entry(m.changes, k) \in Int
                      /\ Entry(m.changes, k) = freq * (PairCount(m.idxs, k) - PairCount(w, k))
<1> DEFINE end == Scan(w, freq, tp, target)[Len(w)]
           m == MergeWord(w, freq, tp, target)
<1>1. ScanOK(U, w, freq, end) /\ Len(w) \in Nat
  <2>1. Len(w) \in Nat /\ Len(w) \in 0..Len(w)
    OBVIOUS
  <2> QED BY <2>1, ScanIsOK
<1>2. m.idxs = Current(w, end) /\ m.changes = end.changes
  BY MergeWordUnfold DEF Current
<1> HIDE DEF end, m
<1>3. end.out \in Seq(U) /\ SubSeq(w, end.i, Len(w)) \in Seq(U)
  <2>1. end.out \in Seq(U) /\ end.i \in 1..Len(w) + 1
    BY <1>1 DEF ScanOK
  <2>2. \A j \in end.i..Len(w) : w[j] \in U
    BY <1>1, <2>1
  <2>3. end.i \in Int
    BY <1>1, <2>1
  <2> QED BY <1>1, <2>1, <2>2, <2>3, SubSeqProperties
<1>4. Current(w, end) \in Seq(U)
  BY <1>3 DEF Current
<1>5. \A k : /\ Entry(m.changes, k) \in Int
             /\ Entry(m.changes, k) = freq * (PairCount(m.idxs, k) - PairCount(w, k))
  BY <1>1, <1>2 DEF ScanOK
<1>6. DOMAIN m.changes \subseteq U \X U
  BY <1>1, <1>2 DEF ScanOK
<1> QED BY <1>2, <1>4, <1>5, <1>6 DEF m

-----------------------------------------------------------------------------
(* The word that merge_word returns. *)

\* from[i] is what a left-to-right replacement makes of w from position i on.
Rewrites(from, U, w, tp, target) ==
  /\ from \in [1..Len(w) + 1 -> Seq(U)]
  /\ from[Len(w) + 1] = << >>
  /\ \A i \in 1..Len(w) :
       from[i] = IF i < Len(w) /\ PairAt(w, i) = tp
                 THEN <<target>> \o from[i + 2]
                 ELSE <<w[i]>> \o from[i + 1]

\* The definition of Replaced by recursion defines it.
LEMMA ReplacedUnfold ==
  ASSUME NEW U, NEW w \in Seq(U), NEW tp, NEW target \in U
  PROVE  \E from : Rewrites(from, U, w, tp, target) /\ Replaced(w, tp, target) = from[1]
<1> DEFINE n == Len(w)
           Body(g, i) == IF i > n THEN << >>
                         ELSE IF i < n /\ PairAt(w, i) = tp
                              THEN <<target>> \o g[i + 2]
                              ELSE <<w[i]>> \o g[i + 1]
           Is(g, m) == g = [i \in n + 1 - m..n + 1 |-> Body(g, i)]
           S == {m \in Nat : m <= n => \E g : Is(g, m)}
<1>0. n \in Nat /\ DOMAIN w = 1..n
  OBVIOUS
<1> HIDE DEF n, Body, Is
<1>1. 0 \in S
  <2> DEFINE g == [i \in n + 1 - 0..n + 1 |-> << >>]
  <2>1. \A i \in n + 1 - 0..n + 1 : g[i] = Body(g, i)
    BY <1>0 DEF Body
  <2>2. Is(g, 0)
    BY <2>1 DEF Is
  <2> QED BY <2>2
<1>2. ASSUME NEW m \in S
      PROVE  m + 1 \in S
  <2> SUFFICES ASSUME m + 1 <= n
               PROVE  \E f : Is(f, m + 1)
    OBVIOUS
  <2>1. m \in Nat /\ m <= n
    BY <1>0
  <2>2. PICK g : Is(g, m)
    BY <2>1
  <2>3. g = [i \in n + 1 - m..n + 1 |-> Body(g, i)]
    BY <2>2 DEF Is
  <2> DEFINE D == n + 1 - (m + 1)..n + 1
             k == n + 1 - (m + 1)
             h == [i \in D |-> IF i = k THEN Body(g, k) ELSE g[i]]
  <2>4. /\ k \in D /\ k >= 1
        /\ \A i \in n + 1 - m..n + 1 : i \in D /\ i # k
        /\ \A i \in D : i # k => i \in n + 1 - m..n + 1
    BY <1>0, <2>1
  <2>5. \A i \in D : i # k => g[i] = Body(g, i)
    BY <2>3, <2>4
  <2>6. \A i \in n + 1 - m..n + 1 : h[i] = g[i]
    BY <2>4
  <2>7. \A i \in D : i <= n => i + 1 \in n + 1 - m..n + 1
    BY <1>0, <2>1
  <2>8. \A i \in D : i < n => i + 2 \in n + 1 - m..n + 1
    BY <1>0, <2>1
  <2>9. \A i \in D : Body(h, i) = Body(g, i)
    <3> TAKE i \in D
    <3>1. i \in Int
      BY <1>0, <2>1
    <3>2. i <= n => h[i + 1] = g[i + 1]
      BY <2>6, <2>7
    <3>3. i < n => h[i + 2] = g[i + 2]
      BY <2>6, <2>8
    <3> HIDE DEF D, h
    <3> QED BY <1>0, <3>1, <3>2, <3>3 DEF Body
  <2>10. \A i \in D : h[i] = Body(h, i)
    <3> TAKE i \in D
    <3>1. h[i] = IF i = k THEN Body(g, k) ELSE g[i]
      OBVIOUS
    <3> HIDE DEF D, h
    <3> QED BY <2>5, <2>9, <3>1
  <2>11. Is(h, m + 1)
    <3>1. h = [i \in D |-> h[i]]
      OBVIOUS
    <3> HIDE DEF h
    <3> QED BY <2>10, <3>1, Zenon DEF Is
  <2> QED BY <2>11
<1>3. S = Nat
  <2>1. S \in SUBSET Nat
    OBVIOUS
  <2> HIDE DEF S
  <2> QED BY <1>1, <1>2, <2>1, NatInd
<1> DEFINE from == CHOOSE g : g = [i \in 1..n + 1 |-> Body(g, i)]
<1>4. from = [i \in 1..n + 1 |-> Body(from, i)]
  <2>0. n \in S /\ n <= n
    <3> HIDE DEF S
    <3> QED BY <1>0, <1>3
  <2>1. \E g : Is(g, n)
    BY <2>0
  <2>2. n + 1 - n = 1
    BY <1>0
  <2>3. \E g : g = [i \in 1..n + 1 |-> Body(g, i)]
    BY <2>1, <2>2, Zenon DEF Is
  <2> QED BY <2>3, Zenon
<1>5. Replaced(w, tp, target) = from[1]
  BY Zenon DEF Replaced, n, Body
<1> HIDE DEF from
<1>6. \A i \in 1..n + 1 : from[i] = Body(from, i)
  BY <1>4
<1>7. /\ from[n + 1] = << >>
      /\ \A i \in 1..n : from[i] = IF i < n /\ PairAt(w, i) = tp
                                   THEN <<target>> \o from[i + 2]
                                   ELSE <<w[i]>> \o from[i + 1]
  <2>1. n + 1 \in 1..n + 1 /\ n + 1 > n
    BY <1>0
  <2>2. \A i \in 1..n : i \in 1..n + 1 /\ ~(i > n)
    BY <1>0
  <2>3. Body(from, n + 1) = << >>
    BY <2>1 DEF Body
  <2>4. \A i \in 1..n : Body(from, i) = IF i < n /\ PairAt(w, i) = tp
                                       THEN <<target>> \o from[i + 2]
                                       ELSE <<w[i]>> \o from[i + 1]
    BY <2>2 DEF Body
  <2> QED BY <1>6, <2>1, <2>2, <2>3, <2>4
<1> DEFINE T == {m \in Nat : \A i \in 1..n + 1 : n + 1 - i <= m => from[i] \in Seq(U)}
<1>8. 0 \in T
  <2>1. \A i \in 1..n + 1 : n + 1 - i <= 0 => i = n + 1
    BY <1>0
  <2>2. from[n + 1] \in Seq(U)
    BY <1>7
  <2> QED BY <2>1, <2>2
<1>9. ASSUME NEW m \in T
      PROVE  m + 1 \in T
  <2> SUFFICES ASSUME NEW i \in 1..n + 1, n + 1 - i <= m + 1
               PROVE  from[i] \in Seq(U)
    OBVIOUS
  <2>0. m \in Nat /\ \A j \in 1..n + 1 : n + 1 - j <= m => from[j] \in Seq(U)
    OBVIOUS
  <2>1. CASE i = n + 1
    <3>1. << >> \in Seq(U) /\ from[i] = << >>
      BY <1>7, <2>1
    <3> QED BY <3>1
  <2>2. CASE i # n + 1
    <3>1. i \in 1..n /\ w[i] \in U
      BY <1>0, <2>2 DEF n
    <3>2. from[i + 1] \in Seq(U)
      BY <1>0, <2>0, <3>1
    <3>3. i < n => from[i + 2] \in Seq(U)
      BY <1>0, <2>0, <3>1
    <3>4. <<target>> \in Seq(U) /\ <<w[i]>> \in Seq(U)
      BY <3>1
    <3>5. i < n => <<target>> \o from[i + 2] \in Seq(U)
      BY <3>3, <3>4
    <3>6. <<w[i]>> \o from[i + 1] \in Seq(U)
      BY <3>2, <3>4
    <3>7. from[i] = IF i < n /\ PairAt(w, i) = tp
                    THEN <<target>> \o from[i + 2] ELSE <<w[i]>> \o from[i + 1]
      BY <1>7, <3>1
    <3> HIDE DEF T
    <3> QED BY <3>5, <3>6, <3>7
  <2> QED BY <2>1, <2>2
<1>10. T = Nat
  <2>1. T \in SUBSET Nat
    OBVIOUS
  <2> HIDE DEF T
  <2> QED BY <1>8, <1>9, <2>1, NatInd
<1>11. \A i \in 1..n + 1 : from[i] \in Seq(U)
  <2>1. n \in T /\ \A i \in 1..n + 1 : n + 1 - i <= n
    BY <1>0, <1>10
  <2> QED BY <2>1
<1>12. from \in [1..n + 1 -> Seq(U)]
  BY <1>4, <1>11
<1>13. Rewrites(from, U, w, tp, target)
  BY <1>7, <1>12 DEF Rewrites, n
<1> QED BY <1>5, <1>13

\* What s wrote, and what is to come of what it has not read.
Completes(from, s) == s.out \o from[s.i] = from[1]

\* One iteration writes what the replacement puts in place of what it reads.
LEMMA ScanRewrites ==
  ASSUME NEW U, NEW w \in Seq(U), NEW freq \in Int, NEW tp, NEW target \in U,
         NEW from, Rewrites(from, U, w, tp, target),
         NEW s, ScanOK(U, w, freq, s), s.i < Len(w), Completes(from, s)
  PROVE  Completes(from, ScanStep(w, freq, tp, target, s))
<1> DEFINE t == ScanStep(w, freq, tp, target, s)
           out == s.out
           x == IF PairAt(w, s.i) = tp THEN <<target>> ELSE <<w[s.i]>>
           next == IF PairAt(w, s.i) = tp THEN s.i + 2 ELSE s.i + 1
           y == from[next]
<1>1. s.i \in 1..Len(w) - 1 /\ out \in Seq(U) /\ Len(w) \in Nat /\ w[s.i] \in U
  BY DEF ScanOK
<1>2. t.i = next /\ t.out = out \o x
  <2>1. CASE PairAt(w, s.i) = tp
    BY <1>1, <2>1, AppendIsConcat DEF ScanStep
  <2>2. CASE PairAt(w, s.i) # tp
    <3>1. s = [i |-> s.i, out |-> s.out, last |-> s.last, changes |-> s.changes]
      BY DEF ScanOK
    <3> QED BY <1>1, <2>2, <3>1, AppendIsConcat DEF ScanStep
  <2> QED BY <2>1, <2>2
<1>3. x \in Seq(U) /\ y \in Seq(U)
  <2>1. next \in 1..Len(w) + 1
    BY <1>1
  <2>2. from \in [1..Len(w) + 1 -> Seq(U)]
    BY DEF Rewrites
  <2>3. y \in Seq(U)
    <3> HIDE DEF next
    <3> QED BY <2>1, <2>2
  <2> QED BY <1>1, <2>3
<1>4. from[s.i] = x \o y
  <2>1. s.i \in 1..Len(w)
    BY <1>1
  <2> QED BY <2>1 DEF Rewrites
<1>5. (out \o x) \o y = out \o (x \o y)
  <2>1. out \in Seq(U) /\ x \in Seq(U) /\ y \in Seq(U)
    BY <1>1, <1>3
  <2> HIDE DEF out, x, y
  <2> QED BY <2>1, ConcatAssociative
<1>6. out \o from[s.i] = from[1]
  BY DEF Completes
<1>7. Completes(from, t)
  <2> HIDE DEF x, next, t, out
  <2> QED BY <1>2, <1>4, <1>5, <1>6, Zenon DEF Completes
<1> QED BY <1>7

\* What the scan wrote has no occurrence of the pair, and the unit it will
\* read next does not make one.
Free(w, tp, s) ==
  /\ PairCount(s.out, tp) = 0
  /\ s.i <= Len(w) /\ s.out # << >> => <<s.out[Len(s.out)], w[s.i]>> # tp

\* One iteration keeps it so, for a target that is not in the pair.
LEMMA ScanFrees ==
  ASSUME NEW U, NEW w \in Seq(U), NEW freq \in Int, NEW tp, NEW target \in U,
         tp[1] # target, tp[2] # target,
         NEW s, ScanOK(U, w, freq, s), s.i < Len(w), Free(w, tp, s)
  PROVE  Free(w, tp, ScanStep(w, freq, tp, target, s))
<1> DEFINE t == ScanStep(w, freq, tp, target, s)
           out == s.out
           a == IF PairAt(w, s.i) = tp THEN target ELSE w[s.i]
           x == <<a>>
<1>1. /\ s.i \in 1..Len(w) - 1 /\ out \in Seq(U) /\ Len(w) \in Nat /\ w[s.i] \in U
      /\ s = [i |-> s.i, out |-> s.out, last |-> s.last, changes |-> s.changes]
  BY DEF ScanOK
<1>2. t.i = (IF PairAt(w, s.i) = tp THEN s.i + 2 ELSE s.i + 1) /\ t.out = out \o x
  BY <1>1, AppendIsConcat DEF ScanStep
<1>3. a \in U /\ x \in Seq(U) /\ x # << >> /\ x[1] = a
  BY <1>1
<1>4. t.out # << >> /\ t.out[Len(t.out)] = a
  <2> HIDE DEF t, a
  <2>1. out \o <<a>> # << >> /\ (out \o <<a>>)[Len(out \o <<a>>)] = a
    BY <1>1, <1>3
  <2> QED BY <1>2, <2>1
<1>5. PairCount(out \o x, tp) = 0
  <2>1. Seam(out, x, tp) = 0
    <3>1. CASE out = << >>
      BY <3>1 DEF Seam
    <3>2. CASE out # << >>
      <4>1. <<out[Len(out)], w[s.i]>> # tp
        BY <1>1, <3>2 DEF Free
      <4>2. <<out[Len(out)], target>> # tp
        OBVIOUS
      <4>3. <<out[Len(out)], a>> # tp
        BY <4>1, <4>2
      <4> HIDE DEF x, a, out
      <4> QED BY <1>3, <4>3 DEF Seam
    <3> QED BY <3>1, <3>2
  <2>2. PairCount(out, tp) = 0 /\ PairCount(x, tp) = 0
    BY ShortCounts DEF Free
  <2> HIDE DEF out, x
  <2>3. PairCount(out \o x, tp) = PairCount(out, tp) + PairCount(x, tp) + Seam(out, x, tp)
    BY <1>1, <1>3, PairCountConcat
  <2> QED BY <2>1, <2>2, <2>3
<1>6. <<a, w[t.i]>> # tp
  <2>1. CASE PairAt(w, s.i) = tp
    BY <2>1
  <2>2. CASE PairAt(w, s.i) # tp
    BY <1>2, <2>2 DEF PairAt
  <2> QED BY <2>1, <2>2
<1>7. Free(w, tp, t)
  <2> HIDE DEF t, a, x, out
  <2> QED BY <1>2, <1>4, <1>5, <1>6 DEF Free
<1> QED BY <1>7

\* What both lemmas say of one iteration holds of every number of them.
LEMMA ScanWrites ==
  ASSUME NEW U, NEW w \in Seq(U), NEW freq \in Int, NEW tp, NEW target \in U,
         NEW from, Rewrites(from, U, w, tp, target)
  PROVE  LET s == Scan(w, freq, tp, target)[Len(w)]
         IN /\ Completes(from, s)
            /\ tp[1] # target /\ tp[2] # target => Free(w, tp, s)
<1> DEFINE scan == Scan(w, freq, tp, target)
           OK(s) == /\ Completes(from, s)
                    /\ tp[1] # target /\ tp[2] # target => Free(w, tp, s)
           S == {n \in Nat : n <= Len(w) => OK(scan[n])}
<1>1. /\ scan[0] = ScanStart
      /\ \A n \in 0..Len(w) - 1 : scan[n + 1] = ScanNext(w, freq, tp, target, scan[n])
  BY ScanUnfold
<1>2. \A n \in 0..Len(w) : ScanOK(U, w, freq, scan[n])
  BY ScanIsOK
<1>3. OK(ScanStart)
  <2>1. ScanStart.i = 1 /\ ScanStart.out = << >>
    BY DEF ScanStart
  <2>2. from[1] \in Seq(U)
    BY DEF Rewrites
  <2>3. Completes(from, ScanStart)
    <3>1. << >> \o from[1] = from[1]
      BY <2>2
    <3> QED BY <2>1, <3>1, Zenon DEF Completes
  <2>4. PairCount(<< >>, tp) = 0
    <3>1. {i \in 1..Len(<< >>) - 1 : PairAt(<< >>, i) = tp} = {}
      OBVIOUS
    <3> QED BY <3>1, FS_EmptySet, Zenon DEF PairCount
  <2> HIDE DEF ScanStart
  <2> QED BY <2>1, <2>3, <2>4 DEF Free
<1>4. ASSUME NEW s, ScanOK(U, w, freq, s), OK(s)
      PROVE  OK(ScanNext(w, freq, tp, target, s))
  <2>1. CASE s.i >= Len(w)
    BY <1>4, <2>1 DEF ScanNext
  <2>2. CASE ~(s.i >= Len(w))
    <3>1. s.i < Len(w) /\ ScanNext(w, freq, tp, target, s) = ScanStep(w, freq, tp, target, s)
      BY <1>4, <2>2 DEF ScanNext, ScanOK
    <3> DEFINE t == ScanStep(w, freq, tp, target, s)
    <3>2. Completes(from, t)
      BY <1>4, <3>1, ScanRewrites
    <3>3. tp[1] # target /\ tp[2] # target => Free(w, tp, t)
      BY <1>4, <3>1, ScanFrees
    <3> HIDE DEF t
    <3> QED BY <3>1, <3>2, <3>3 DEF t
  <2> QED BY <2>1, <2>2
<1> HIDE DEF OK, scan
<1>5. S = Nat
  <2>0. Len(w) \in Nat
    OBVIOUS
  <2>1. S \in SUBSET Nat /\ 0 \in S
    BY <1>1, <1>3
  <2>2. ASSUME NEW n \in S PROVE n + 1 \in S
    <3> SUFFICES ASSUME n + 1 <= Len(w)
                 PROVE  OK(scan[n + 1])
      OBVIOUS
    <3>1. n \in 0..Len(w) - 1 /\ n \in 0..Len(w) /\ OK(scan[n])
      BY <2>0
    <3> QED BY <1>1, <1>2, <1>4, <3>1
  <2> HIDE DEF S
  <2> QED BY <2>1, <2>2, NatInd
<1>6. OK(scan[Len(w)])
  <2>1. Len(w) \in Nat /\ Len(w) <= Len(w)
    OBVIOUS
  <2> QED BY <1>5, <2>1
<1> QED BY <1>6 DEF OK, scan

\* merge_word returns the word a left-to-right replacement of the pair gives.
THEOREM MergeWordReplaces ==
  ASSUME NEW U, NEW w \in Seq(U), NEW freq \in Int, NEW tp, NEW target \in U
  PROVE  MergeWord(w, freq, tp, target).idxs = Replaced(w, tp, target)
<1> DEFINE end == Scan(w, freq, tp, target)[Len(w)]
<1>1. PICK from : Rewrites(from, U, w, tp, target) /\ Replaced(w, tp, target) = from[1]
  BY ReplacedUnfold
<1>2. end.out \o from[end.i] = from[1]
  <2>1. Completes(from, end)
    BY <1>1, ScanWrites
  <2> HIDE DEF end
  <2> QED BY <2>1, Zenon DEF Completes
<1>3. MergeWord(w, freq, tp, target).idxs = end.out \o SubSeq(w, end.i, Len(w))
  BY MergeWordUnfold
<1>4. Len(w) \in Nat /\ end.i \in 1..Len(w) + 1 /\ end.i >= Len(w)
  <2>1. Len(w) \in Nat /\ Len(w) \in 0..Len(w)
    OBVIOUS
  <2>2. ScanOK(U, w, freq, end) /\ (end.i >= Len(w) + 1 \/ end.i >= Len(w))
    BY <2>1, ScanIsOK
  <2> HIDE DEF end
  <2> QED BY <2>1, <2>2 DEF ScanOK
<1> HIDE DEF end
<1>5. from[Len(w) + 1] = << >> /\ SubSeq(w, Len(w) + 1, Len(w)) = << >>
  BY <1>1, <1>4, SubSeqEmpty DEF Rewrites
<1>6. from[end.i] = SubSeq(w, end.i, Len(w))
  <2>1. CASE end.i = Len(w) + 1
    BY <1>5, <2>1
  <2>2. CASE end.i # Len(w) + 1
    <3>1. end.i = Len(w) /\ Len(w) \in 1..Len(w)
      BY <1>4, <2>2
    <3>2. SubSeq(w, Len(w), Len(w)) = <<w[Len(w)]>> \o SubSeq(w, Len(w) + 1, Len(w))
      BY <3>1, Unread
    <3>3. from[Len(w)] = <<w[Len(w)]>> \o from[Len(w) + 1]
      <4>1. ~(Len(w) < Len(w))
        BY <1>4
      <4> QED BY <1>1, <3>1, <4>1, Zenon DEF Rewrites
    <3> QED BY <1>5, <3>1, <3>2, <3>3, Zenon
  <2> QED BY <2>1, <2>2
<1> QED BY <1>1, <1>2, <1>3, <1>6

\* No occurrence of the pair is left in the word, when the target is new.
LEMMA MergeWordRemoves ==
  ASSUME NEW U, NEW w \in Seq(U), NEW freq \in Int, NEW tp, NEW target \in U,
         tp[1] # target, tp[2] # target
  PROVE  PairCount(MergeWord(w, freq, tp, target).idxs, tp) = 0
<1> DEFINE end == Scan(w, freq, tp, target)[Len(w)]
           rest == SubSeq(w, end.i, Len(w))
           out == end.out
<1>1. Free(w, tp, end)
  BY ReplacedUnfold, ScanWrites
<1>2. MergeWord(w, freq, tp, target).idxs = out \o rest
  BY MergeWordUnfold
<1>3. Len(w) \in Nat /\ end.i \in 1..Len(w) + 1 /\ end.i >= Len(w) /\ out \in Seq(U)
  <2>1. Len(w) \in Nat /\ Len(w) \in 0..Len(w)
    OBVIOUS
  <2>2. ScanOK(U, w, freq, end) /\ (end.i >= Len(w) + 1 \/ end.i >= Len(w))
    BY <2>1, ScanIsOK
  <2> HIDE DEF end
  <2> QED BY <2>1, <2>2 DEF ScanOK
<1>4. PairCount(out, tp) = 0
  BY <1>1 DEF Free
<1>5. CASE end.i = Len(w) + 1
  <2>1. rest = << >>
    BY <1>3, <1>5, SubSeqEmpty
  <2>2. out \o << >> = out
    BY <1>3
  <2> QED BY <1>2, <1>4, <2>1, <2>2
<1>6. CASE end.i # Len(w) + 1
  <2>1. end.i = Len(w) /\ Len(w) \in 1..Len(w) /\ w[Len(w)] \in U
    BY <1>3, <1>6
  <2> DEFINE x == <<w[Len(w)]>>
  <2>2. x \in Seq(U) /\ x # << >> /\ x[1] = w[end.i]
    BY <2>1
  <2>3. rest = x
    <3>1. SubSeq(w, Len(w), Len(w)) = <<w[Len(w)]>> \o SubSeq(w, Len(w) + 1, Len(w))
      BY <2>1, Unread
    <3>2. SubSeq(w, Len(w) + 1, Len(w)) = << >>
      BY <2>1, SubSeqEmpty
    <3>3. x \o << >> = x
      BY <2>2
    <3> QED BY <2>1, <3>1, <3>2, <3>3, Zenon
  <2>4. PairCount(x, tp) = 0
    BY ShortCounts
  <2>5. Seam(out, x, tp) = 0
    <3>1. end.i <= Len(w)
      BY <2>1
    <3> HIDE DEF x, end
    <3> QED BY <1>1, <2>2, <3>1 DEF Free, Seam
  <2>6. PairCount(out \o x, tp) = PairCount(out, tp) + PairCount(x, tp) + Seam(out, x, tp)
    <3> HIDE DEF out, x
    <3> QED BY <1>3, <2>2, PairCountConcat
  <2> HIDE DEF out, x
  <2> QED BY <1>2, <1>4, <2>3, <2>4, <2>5, <2>6
<1> QED BY <1>5, <1>6

\* A word without the pair stays as it is.
LEMMA NothingToReplace ==
  ASSUME NEW U, NEW w \in Seq(U), NEW tp, NEW target \in U, tp \notin PairsOf(w)
  PROVE  Replaced(w, tp, target) = w
<1>0. Len(w) \in Nat
  OBVIOUS
<1>1. PICK from : Rewrites(from, U, w, tp, target) /\ Replaced(w, tp, target) = from[1]
  BY ReplacedUnfold
<1>2. \A i \in 1..Len(w) : ~(i < Len(w) /\ PairAt(w, i) = tp)
  BY DEF PairsOf
<1>3. \A i \in 1..Len(w) : from[i] = <<w[i]>> \o from[i + 1]
  BY <1>1, <1>2 DEF Rewrites
<1> DEFINE Same(i) == from[i] = SubSeq(w, i, Len(w))
           S == {m \in Nat : \A i \in 1..Len(w) + 1 : Len(w) + 1 - i = m => Same(i)}
<1>4. 0 \in S
  <2>1. Same(Len(w) + 1)
    BY <1>0, <1>1, SubSeqEmpty DEF Rewrites
  <2> HIDE DEF Same
  <2> QED BY <1>0, <2>1
<1>5. ASSUME NEW m \in S
      PROVE  m + 1 \in S
  <2> SUFFICES ASSUME NEW i \in 1..Len(w) + 1, Len(w) + 1 - i = m + 1
               PROVE  Same(i)
    OBVIOUS
  <2>1. i \in 1..Len(w) /\ Same(i + 1)
    <3> HIDE DEF Same
    <3> QED BY <1>0
  <2>2. SubSeq(w, i, Len(w)) = <<w[i]>> \o SubSeq(w, i + 1, Len(w))
    BY <2>1, Unread
  <2> QED BY <1>3, <2>1, <2>2, Zenon
<1>6. S = Nat
  <2>1. S \in SUBSET Nat
    OBVIOUS
  <2> HIDE DEF S
  <2> QED BY <1>4, <1>5, <2>1, NatInd
<1>7. Same(1)
  <2> HIDE DEF Same
  <2>1. Len(w) \in Nat /\ 1 \in 1..Len(w) + 1 /\ Len(w) + 1 - 1 = Len(w)
    BY <1>0
  <2> QED BY <1>6, <2>1
<1> QED BY <1>1, <1>7, SubSeqFull

-----------------------------------------------------------------------------
(* How a replacement by a new unit changes the counts. *)

\* What becomes of v when occurrences of tp in it give way to target, as far
\* as counts and the first unit are concerned.
Shrinks(r, v, tp, target) ==
  /\ r = << >> <=> v = << >>
  /\ v # << >> => r[1] \in {v[1], target}
  /\ \A k : k[1] # target /\ k[2] # target => PairCount(r, k) <= PairCount(v, k)
  /\ \A u : u \notin {tp[1], tp[2], target} => UnitCount(r, u) = UnitCount(v, u)
  /\ UnitCount(r, target) <= PairCount(v, tp)

\* A unit that stays.
LEMMA ShrinksKeep ==
  ASSUME NEW U, NEW target, target \notin U, NEW tp, NEW v \in Seq(U),
         NEW r \in Seq(U \cup {target}), Shrinks(r, v, tp, target), NEW a \in U
  PROVE  Shrinks(<<a>> \o r, <<a>> \o v, tp, target)
<1> DEFINE x == <<a>>
           V == U \cup {target}
<1>1. x \in Seq(U) /\ x \in Seq(V) /\ v \in Seq(V) /\ x # << >> /\ Len(x) = 1 /\ x[1] = a
  OBVIOUS
<1>2. \A k : PairCount(x, k) = 0 /\ UnitCount(x, k) = IF a = k THEN 1 ELSE 0
  BY ShortCounts
<1>3. /\ x \o r # << >> /\ x \o v # << >>
      /\ (x \o r)[1] = a /\ (x \o v)[1] = a
  BY <1>1
<1> HIDE DEF x, V
<1>4. \A k : /\ PairCount(x \o r, k) = PairCount(x, k) + PairCount(r, k) + Seam(x, r, k)
             /\ PairCount(x \o v, k) = PairCount(x, k) + PairCount(v, k) + Seam(x, v, k)
             /\ UnitCount(x \o r, k) = UnitCount(x, k) + UnitCount(r, k)
             /\ UnitCount(x \o v, k) = UnitCount(x, k) + UnitCount(v, k)
  BY <1>1, PairCountConcat, UnitCountConcat DEF V
<1>5. \A k : /\ PairCount(r, k) \in Nat /\ PairCount(v, k) \in Nat
             /\ UnitCount(r, k) \in Nat /\ UnitCount(v, k) \in Nat
             /\ Seam(x, r, k) \in {0, 1} /\ Seam(x, v, k) \in {0, 1}
  BY CountType DEF Seam
<1>6. ASSUME NEW k, k[1] # target, k[2] # target
      PROVE  PairCount(x \o r, k) <= PairCount(x \o v, k)
  <2>1. PairCount(r, k) <= PairCount(v, k)
    BY <1>6 DEF Shrinks
  <2>2. Seam(x, r, k) <= Seam(x, v, k)
    <3>1. CASE r = << >>
      BY <1>5, <3>1 DEF Seam
    <3>2. CASE r # << >>
      <4>1. v # << >> /\ r[1] \in {v[1], target}
        BY <3>2 DEF Shrinks
      <4>2. <<a, target>> # k
        BY <1>6
      <4>3. <<a, r[1]>> = k => <<a, v[1]>> = k
        BY <4>1, <4>2
      <4> QED BY <1>1, <3>2, <4>1, <4>3 DEF Seam
    <3> QED BY <3>1, <3>2
  <2>3. PairCount(x, k) = 0
    BY <1>2
  <2> QED BY <1>4, <1>5, <2>1, <2>2, <2>3
<1>7. ASSUME NEW u, u \notin {tp[1], tp[2], target}
      PROVE  UnitCount(x \o r, u) = UnitCount(x \o v, u)
  BY <1>4, <1>7 DEF Shrinks
<1>8. UnitCount(x \o r, target) <= PairCount(x \o v, tp)
  <2>1. UnitCount(x, target) = 0 /\ PairCount(x, tp) = 0
    BY <1>2
  <2>2. UnitCount(r, target) <= PairCount(v, tp)
    BY DEF Shrinks
  <2> QED BY <1>4, <1>5, <2>1, <2>2
<1>9. Shrinks(x \o r, x \o v, tp, target)
  BY <1>3, <1>6, <1>7, <1>8 DEF Shrinks
<1> QED BY <1>9 DEF x

\* A pair that is replaced.
LEMMA ShrinksMerge ==
  ASSUME NEW U, NEW target, target \notin U, NEW tp, NEW v \in Seq(U),
         NEW r \in Seq(U \cup {target}), Shrinks(r, v, tp, target),
         NEW a \in U, NEW b \in U, tp = <<a, b>>
  PROVE  Shrinks(<<target>> \o r, <<a>> \o (<<b>> \o v), tp, target)
<1> DEFINE x == <<a>>
           y == <<b>>
           z == <<target>>
           end == y \o v
           V == U \cup {target}
<1>1. /\ x \in Seq(U) /\ y \in Seq(U) /\ z \in Seq(V) /\ end \in Seq(U)
      /\ x # << >> /\ Len(x) = 1 /\ x[1] = a /\ end # << >> /\ end[1] = b
      /\ z # << >> /\ Len(z) = 1 /\ z[1] = target
  OBVIOUS
<1>2. \A k : /\ PairCount(x, k) = 0 /\ UnitCount(x, k) = IF a = k THEN 1 ELSE 0
             /\ PairCount(y, k) = 0 /\ UnitCount(y, k) = IF b = k THEN 1 ELSE 0
             /\ PairCount(z, k) = 0 /\ UnitCount(z, k) = IF target = k THEN 1 ELSE 0
  BY ShortCounts
<1>3. z \o r # << >> /\ x \o end # << >> /\ (z \o r)[1] = target
  BY <1>1
<1> HIDE DEF x, y, z, V
<1>4. \A k : /\ PairCount(end, k) = PairCount(y, k) + PairCount(v, k) + Seam(y, v, k)
             /\ UnitCount(end, k) = UnitCount(y, k) + UnitCount(v, k)
  BY <1>1, PairCountConcat, UnitCountConcat
<1> HIDE DEF end
<1>5. \A k : /\ PairCount(z \o r, k) = PairCount(z, k) + PairCount(r, k) + Seam(z, r, k)
             /\ PairCount(x \o end, k) = PairCount(x, k) + PairCount(end, k) + Seam(x, end, k)
             /\ UnitCount(z \o r, k) = UnitCount(z, k) + UnitCount(r, k)
             /\ UnitCount(x \o end, k) = UnitCount(x, k) + UnitCount(end, k)
  BY <1>1, PairCountConcat, UnitCountConcat DEF V
<1>6. \A k : /\ PairCount(r, k) \in Nat /\ PairCount(v, k) \in Nat
             /\ UnitCount(r, k) \in Nat /\ UnitCount(v, k) \in Nat
             /\ Seam(y, v, k) \in {0, 1} /\ Seam(x, end, k) \in {0, 1}
  BY CountType DEF Seam
<1>7. ASSUME NEW k, k[1] # target, k[2] # target
      PROVE  PairCount(z \o r, k) <= PairCount(x \o end, k)
  <2>1. PairCount(r, k) <= PairCount(v, k)
    BY <1>7 DEF Shrinks
  <2>2. Seam(z, r, k) = 0
    BY <1>1, <1>7 DEF Seam
  <2>3. PairCount(z, k) = 0 /\ PairCount(x, k) = 0 /\ PairCount(y, k) = 0
    BY <1>2
  <2> QED BY <1>4, <1>5, <1>6, <2>1, <2>2, <2>3
<1>8. ASSUME NEW u, u \notin {tp[1], tp[2], target}
      PROVE  UnitCount(z \o r, u) = UnitCount(x \o end, u)
  <2>1. UnitCount(x, u) = 0 /\ UnitCount(y, u) = 0 /\ UnitCount(z, u) = 0
    BY <1>2, <1>8
  <2>2. UnitCount(r, u) = UnitCount(v, u)
    BY <1>8 DEF Shrinks
  <2> QED BY <1>4, <1>5, <1>6, <2>1, <2>2
<1>9. UnitCount(z \o r, target) <= PairCount(x \o end, tp)
  <2>1. UnitCount(z, target) = 1 /\ PairCount(x, tp) = 0 /\ PairCount(y, tp) = 0
    BY <1>2
  <2>2. UnitCount(r, target) <= PairCount(v, tp)
    BY DEF Shrinks
  <2>3. Seam(x, end, tp) = 1
    BY <1>1 DEF Seam
  <2> QED BY <1>4, <1>5, <1>6, <2>1, <2>2, <2>3
<1>10. Shrinks(z \o r, x \o end, tp, target)
  BY <1>3, <1>7, <1>8, <1>9 DEF Shrinks
<1> QED BY <1>10 DEF x, y, z, end

\* A replacement by a new unit makes no pair more frequent but those of the new
\* unit, leaves the other units alone, and writes the new unit at most once for
\* each occurrence of the pair.
LEMMA ReplacedShrinks ==
  ASSUME NEW U, NEW w \in Seq(U), NEW tp, NEW target, target \notin U
  PROVE  Shrinks(Replaced(w, tp, target), w, tp, target)
<1> DEFINE V == U \cup {target}
           v(i) == SubSeq(w, i, Len(w))
<1>0. Len(w) \in Nat /\ w \in Seq(V) /\ target \in V
  OBVIOUS
<1>1. PICK from : Rewrites(from, V, w, tp, target) /\ Replaced(w, tp, target) = from[1]
  <2> HIDE DEF V
  <2> QED BY <1>0, ReplacedUnfold
<1> DEFINE OK(i) == Shrinks(from[i], v(i), tp, target)
           S == {m \in Nat : \A i \in 1..Len(w) + 1 : Len(w) + 1 - i <= m => OK(i)}
<1>2. 0 \in S
  <2>1. from[Len(w) + 1] = << >> /\ v(Len(w) + 1) = << >>
    BY <1>0, <1>1, SubSeqEmpty DEF Rewrites
  <2>2. UnitCount(<< >>, target) = 0
    BY ShortCounts
  <2>3. << >> \in Seq(U)
    OBVIOUS
  <2>4. \A k : PairCount(<< >>, k) \in Nat
    BY <2>3, CountType
  <2>5. Shrinks(<< >>, << >>, tp, target)
    <3> DEFINE e == << >>
    <3>1. UnitCount(e, target) = 0 /\ \A k : PairCount(e, k) \in Nat
      BY <2>2, <2>4
    <3>2. e = << >>
      OBVIOUS
    <3>3. Shrinks(e, e, tp, target)
      <4> HIDE DEF e
      <4> QED BY <3>1, <3>2 DEF Shrinks
    <3> QED BY <3>3
  <2>6. OK(Len(w) + 1)
    BY <2>1, <2>5, Zenon
  <2> HIDE DEF OK
  <2> QED BY <1>0, <2>6
<1>3. ASSUME NEW m \in S
      PROVE  m + 1 \in S
  <2> SUFFICES ASSUME NEW i \in 1..Len(w) + 1, Len(w) + 1 - i <= m + 1
               PROVE  OK(i)
    OBVIOUS
  <2> HIDE DEF OK, V, v
  <2>1. CASE i = Len(w) + 1
    BY <1>0, <2>1
  <2>2. CASE i # Len(w) + 1 /\ ~(i < Len(w) /\ PairAt(w, i) = tp)
    <3>1. i \in 1..Len(w) /\ OK(i + 1) /\ w[i] \in U /\ i + 1 \in 1..Len(w) + 1
      BY <1>0, <2>2
    <3>2. v(i) = <<w[i]>> \o v(i + 1) /\ v(i + 1) \in Seq(U)
      BY <3>1, Unread DEF v
    <3>3. from[i] = <<w[i]>> \o from[i + 1]
      BY <1>1, <2>2, <3>1, Zenon DEF Rewrites
    <3>4. from[i + 1] \in Seq(U \cup {target})
      BY <1>1, <3>1 DEF Rewrites, V
    <3>5. Shrinks(<<w[i]>> \o from[i + 1], <<w[i]>> \o v(i + 1), tp, target)
      <4>1. Shrinks(from[i + 1], v(i + 1), tp, target)
        BY <3>1 DEF OK
      <4> QED BY <3>1, <3>2, <3>4, <4>1, ShrinksKeep
    <3> QED BY <3>2, <3>3, <3>5, Zenon DEF OK
  <2>3. CASE i # Len(w) + 1 /\ i < Len(w) /\ PairAt(w, i) = tp
    <3>1. /\ i \in 1..Len(w) /\ i + 1 \in 1..Len(w) /\ i + 2 \in 1..Len(w) + 1
          /\ OK(i + 2) /\ w[i] \in U /\ w[i + 1] \in U /\ (i + 1) + 1 = i + 2
      BY <1>0, <2>3
    <3>2. v(i) = <<w[i]>> \o v(i + 1)
      BY <3>1, Unread DEF v
    <3>3. v(i + 1) = <<w[i + 1]>> \o v(i + 2) /\ v(i + 2) \in Seq(U)
      <4>1. v(i + 1) = <<w[i + 1]>> \o v((i + 1) + 1) /\ v((i + 1) + 1) \in Seq(U)
        BY <3>1, Unread DEF v
      <4> QED BY <3>1, <4>1
    <3>4. from[i] = <<target>> \o from[i + 2]
      BY <1>1, <2>3, <3>1, Zenon DEF Rewrites
    <3>5. from[i + 2] \in Seq(U \cup {target})
      BY <1>1, <3>1 DEF Rewrites, V
    <3>6. Shrinks(<<target>> \o from[i + 2], <<w[i]>> \o (<<w[i + 1]>> \o v(i + 2)), tp, target)
      <4>1. Shrinks(from[i + 2], v(i + 2), tp, target)
        BY <3>1 DEF OK
      <4>2. tp = <<w[i], w[i + 1]>>
        BY <2>3 DEF PairAt
      <4> QED BY <3>1, <3>3, <3>5, <4>1, <4>2, ShrinksMerge
    <3> QED BY <3>2, <3>3, <3>4, <3>6, Zenon DEF OK
  <2> QED BY <2>1, <2>2, <2>3
<1>4. S = Nat
  <2>1. S \in SUBSET Nat
    OBVIOUS
  <2> HIDE DEF S
  <2> QED BY <1>2, <1>3, <2>1, NatInd
<1>5. OK(1)
  <2> HIDE DEF OK
  <2>1. Len(w) \in Nat /\ 1 \in 1..Len(w) + 1 /\ Len(w) + 1 - 1 <= Len(w)
    BY <1>0
  <2> QED BY <1>4, <2>1
<1>6. v(1) = w
  BY SubSeqFull
<1> QED BY <1>1, <1>5, <1>6

-----------------------------------------------------------------------------
(* Inventories: words with the positive number of times they occur. *)

Inventory(U) == Seq([idxs : Seq(U), freq : Nat \ {0}])

PairSum(ws, k) == SumFunction([i \in DOMAIN ws |-> ws[i].freq * PairCount(ws[i].idxs, k)])

UnitSum(ws, u) == SumFunction([i \in DOMAIN ws |-> ws[i].freq * UnitCount(ws[i].idxs, u)])

\* An inventory has finitely many words.
LEMMA InventoryType ==
  ASSUME NEW U, NEW ws \in Inventory(U)
  PROVE  /\ IsFiniteSet(DOMAIN ws) /\ DOMAIN ws \subseteq Nat
         /\ \A i \in DOMAIN ws :
              /\ ws[i] = [idxs |-> ws[i].idxs, freq |-> ws[i].freq]
              /\ ws[i].idxs \in Seq(U) /\ ws[i].freq \in Nat \ {0}
              /\ \A k : /\ ws[i].freq * PairCount(ws[i].idxs, k) \in Nat
                        /\ ws[i].freq * UnitCount(ws[i].idxs, k) \in Nat
                        /\ ws[i].freq * PairCount(ws[i].idxs, k) > 0
                             <=> k \in PairsOf(ws[i].idxs)
                        /\ ws[i].freq * UnitCount(ws[i].idxs, k) > 0
                             <=> k \in Elements(ws[i].idxs)
<1>1. DOMAIN ws = 1..Len(ws) /\ Len(ws) \in Nat
  BY DEF Inventory
<1>2. IsFiniteSet(DOMAIN ws) /\ DOMAIN ws \subseteq Nat
  BY <1>1, FS_Interval
<1>3. ASSUME NEW i \in DOMAIN ws
      PROVE  /\ ws[i] = [idxs |-> ws[i].idxs, freq |-> ws[i].freq]
             /\ ws[i].idxs \in Seq(U) /\ ws[i].freq \in Nat \ {0}
             /\ \A k : /\ ws[i].freq * PairCount(ws[i].idxs, k) \in Nat
                       /\ ws[i].freq * UnitCount(ws[i].idxs, k) \in Nat
                       /\ ws[i].freq * PairCount(ws[i].idxs, k) > 0
                            <=> k \in PairsOf(ws[i].idxs)
                       /\ ws[i].freq * UnitCount(ws[i].idxs, k) > 0
                            <=> k \in Elements(ws[i].idxs)
  <2>1. ws[i] \in [idxs : Seq(U), freq : Nat \ {0}]
    <3> DEFINE E == [idxs : Seq(U), freq : Nat \ {0}]
    <3>1. ws \in Seq(E)
      BY DEF Inventory
    <3> HIDE DEF E
    <3>2. ws[i] \in E
      BY <1>1, <3>1
    <3> QED BY <3>2 DEF E
  <2> DEFINE w == ws[i].idxs
             f == ws[i].freq
  <2>2. /\ ws[i] = [idxs |-> ws[i].idxs, freq |-> ws[i].freq]
        /\ w \in Seq(U) /\ f \in Nat \ {0}
    BY <2>1
  <2> HIDE DEF w, f
  <2>3. \A n \in Nat : f * n \in Nat /\ (f * n > 0 <=> n > 0)
    BY <2>2
  <2>4. \A k : /\ PairCount(w, k) \in Nat /\ UnitCount(w, k) \in Nat
               /\ k \in PairsOf(w) <=> PairCount(w, k) > 0
               /\ k \in Elements(w) <=> UnitCount(w, k) > 0
    BY <2>2, CountType, Occurs
  <2>5. \A k : /\ f * PairCount(w, k) \in Nat /\ f * UnitCount(w, k) \in Nat
               /\ f * PairCount(w, k) > 0 <=> k \in PairsOf(w)
               /\ f * UnitCount(w, k) > 0 <=> k \in Elements(w)
    BY <2>3, <2>4
  <2> QED BY <2>2, <2>5 DEF w, f
<1> QED BY <1>2, <1>3

\* A weighted count is a number, and positive for what occurs.
LEMMA WeightedCounts ==
  ASSUME NEW U, NEW ws \in Inventory(U), NEW k
  PROVE  /\ PairSum(ws, k) \in Nat /\ UnitSum(ws, k) \in Nat
         /\ PairSum(ws, k) > 0 <=> \E i \in DOMAIN ws : k \in PairsOf(ws[i].idxs)
         /\ UnitSum(ws, k) > 0 <=> \E i \in DOMAIN ws : k \in Elements(ws[i].idxs)
<1> DEFINE D == DOMAIN ws
           f == [i \in D |-> ws[i].freq * PairCount(ws[i].idxs, k)]
           g == [i \in D |-> ws[i].freq * UnitCount(ws[i].idxs, k)]
<1>1. IsFiniteSet(D)
  BY InventoryType
<1>2. PairSum(ws, k) = Sum(f, D) /\ UnitSum(ws, k) = Sum(g, D)
  BY SumOfFunction, Zenon DEF PairSum, UnitSum
<1>3. \A i \in D : /\ f[i] \in Nat /\ g[i] \in Nat
                   /\ f[i] > 0 <=> k \in PairsOf(ws[i].idxs)
                   /\ g[i] > 0 <=> k \in Elements(ws[i].idxs)
  BY InventoryType
<1> HIDE DEF f, g, D
<1>4. Sum(f, D) \in Nat /\ Sum(g, D) \in Nat
  BY <1>1, <1>3, SumNonnegative
<1>5. (\E i \in D : k \in PairsOf(ws[i].idxs)) => Sum(f, D) > 0
  BY <1>1, <1>3, SumPositive
<1>6. (\E i \in D : k \in Elements(ws[i].idxs)) => Sum(g, D) > 0
  BY <1>1, <1>3, SumPositive
<1>7. ~(\E i \in D : k \in PairsOf(ws[i].idxs)) => Sum(f, D) = 0
  <2>1. ~(\E i \in D : k \in PairsOf(ws[i].idxs)) => \A i \in D : f[i] = 0
    BY <1>3
  <2> QED BY <1>1, <2>1, SumZero
<1>8. ~(\E i \in D : k \in Elements(ws[i].idxs)) => Sum(g, D) = 0
  <2>1. ~(\E i \in D : k \in Elements(ws[i].idxs)) => \A i \in D : g[i] = 0
    BY <1>3
  <2> QED BY <1>1, <2>1, SumZero
<1> QED BY <1>2, <1>4, <1>5, <1>6, <1>7, <1>8 DEF D

\* A unit weighs at least as much as a pair it is part of.
LEMMA PairWeighsLess ==
  ASSUME NEW U, NEW ws \in Inventory(U), NEW k
  PROVE  PairSum(ws, k) <= UnitSum(ws, k[1]) /\ PairSum(ws, k) <= UnitSum(ws, k[2])
<1> DEFINE D == DOMAIN ws
           f == [i \in D |-> ws[i].freq * PairCount(ws[i].idxs, k)]
           g(u) == [i \in D |-> ws[i].freq * UnitCount(ws[i].idxs, u)]
<1>1. IsFiniteSet(D)
  BY InventoryType
<1>2. PairSum(ws, k) = Sum(f, D) /\ \A u : UnitSum(ws, u) = Sum(g(u), D)
  BY SumOfFunction, Zenon DEF PairSum, UnitSum
<1>3. ASSUME NEW u \in {k[1], k[2]}
      PROVE  Sum(f, D) <= Sum(g(u), D)
  <2>1. ASSUME NEW i \in D
        PROVE  f[i] \in Int /\ g(u)[i] \in Int /\ f[i] <= g(u)[i]
    <3> DEFINE w == ws[i].idxs
    <3>1. w \in Seq(U) /\ ws[i].freq \in Nat
      BY InventoryType
    <3>2. PairCount(w, k) \in Nat /\ UnitCount(w, u) \in Nat /\ PairCount(w, k) <= UnitCount(w, u)
      BY <3>1, CountType, PairsBelowUnits
    <3>3. \A m, n \in Nat : m <= n => ws[i].freq * m <= ws[i].freq * n
                              /\ ws[i].freq * m \in Int /\ ws[i].freq * n \in Int
      BY <3>1
    <3> QED BY <3>2, <3>3
  <2> HIDE DEF f, g, D
  <2> QED BY <1>1, <2>1, SumLeq
<1> QED BY <1>2, <1>3

\* The inventory after merge_word rewrote the words in occ.
MergedBy(ws, occ, tp, target) ==
  [i \in DOMAIN ws |->
     IF i \in occ
     THEN [ws[i] EXCEPT !.idxs = MergeWord(ws[i].idxs, ws[i].freq, tp, target).idxs]
     ELSE ws[i]]

\* The reported change of the pair k, over the words in occ.
ReportedChange(ws, occ, tp, target, k) ==
  SumFunction([i \in occ |->
    Entry(MergeWord(ws[i].idxs, ws[i].freq, tp, target).changes, k)])

\* v is the word i of the inventory after the rewriting.
Rewritten(U, ws, occ, tp, target, i, v) ==
  LET w == ws[i].idxs
      m == MergeWord(w, ws[i].freq, tp, target)
  IN /\ v = [ws[i] EXCEPT !.idxs = Replaced(@, tp, target)]
     /\ v = [idxs |-> v.idxs, freq |-> ws[i].freq]
     /\ v.idxs \in Seq(U \cup {target})
     /\ PairCount(v.idxs, tp) = 0
     /\ Shrinks(v.idxs, w, tp, target)
     /\ DOMAIN m.changes \subseteq (U \cup {target}) \X (U \cup {target})
     /\ i \notin occ => v = ws[i]
     /\ \A k : /\ Entry(m.changes, k) \in Int
               /\ Entry(m.changes, k)
                    = ws[i].freq * PairCount(v.idxs, k) - ws[i].freq * PairCount(w, k)

\* What rewriting does to each word of an inventory, when every word with the
\* pair is rewritten and the target is new.
LEMMA MergedWord ==
  ASSUME NEW U, NEW ws \in Inventory(U), NEW occ \in SUBSET DOMAIN ws, NEW tp,
         NEW target, target \notin U, tp[1] # target, tp[2] # target,
         \A i \in DOMAIN ws : tp \in PairsOf(ws[i].idxs) => i \in occ,
         NEW i \in DOMAIN ws
  PROVE  Rewritten(U, ws, occ, tp, target, i, MergedBy(ws, occ, tp, target)[i])
<1> DEFINE w == ws[i].idxs
           f == ws[i].freq
           V == U \cup {target}
           v == MergedBy(ws, occ, tp, target)[i]
           m == MergeWord(w, f, tp, target)
<1>1. ws[i] = [idxs |-> w, freq |-> f] /\ w \in Seq(U) /\ w \in Seq(V) /\ f \in Int /\ target \in V
  BY InventoryType
<1>2. v = IF i \in occ THEN [ws[i] EXCEPT !.idxs = m.idxs] ELSE ws[i]
  BY DEF MergedBy
<1> HIDE DEF w, f, V, v
<1>3. m.idxs = Replaced(w, tp, target)
  BY <1>1, MergeWordReplaces
<1>4. v = [ws[i] EXCEPT !.idxs = Replaced(@, tp, target)] /\ v = [idxs |-> Replaced(w, tp, target), freq |-> f]
  <2>1. CASE i \in occ
    <3>1. v = [ws[i] EXCEPT !.idxs = Replaced(w, tp, target)]
      BY <1>2, <1>3, <2>1
    <3>2. ws[i].idxs = w
      BY DEF w
    <3> QED BY <1>1, <3>1, <3>2
  <2>2. CASE i \notin occ
    <3>1. tp \notin PairsOf(w)
      BY <2>2 DEF w
    <3>2. Replaced(w, tp, target) = w
      BY <1>1, <3>1, NothingToReplace
    <3>3. ws[i].idxs = w
      BY DEF w
    <3> QED BY <1>1, <1>2, <2>2, <3>2, <3>3
  <2> QED BY <2>1, <2>2
<1>5. v.idxs = Replaced(w, tp, target)
  BY <1>4
<1>6. Shrinks(v.idxs, w, tp, target)
  BY <1>1, <1>5, ReplacedShrinks DEF V
<1>7. /\ m.idxs \in Seq(V) /\ DOMAIN m.changes \subseteq V \X V
      /\ \A k : /\ Entry(m.changes, k) \in Int
                /\ Entry(m.changes, k) = f * (PairCount(m.idxs, k) - PairCount(w, k))
  BY <1>1, ChangesAreExact
<1>8. PairCount(m.idxs, tp) = 0
  BY <1>1, MergeWordRemoves
<1> HIDE DEF m
<1>9. ASSUME NEW k
      PROVE  Entry(m.changes, k) = f * PairCount(v.idxs, k) - f * PairCount(w, k)
  <2>1. PairCount(v.idxs, k) \in Nat /\ PairCount(w, k) \in Nat
    BY <1>1, <1>3, <1>5, <1>7, CountType
  <2>2. \A x, y \in Nat : f * (x - y) = f * x - f * y
    BY <1>1
  <2>3. Entry(m.changes, k) = f * (PairCount(v.idxs, k) - PairCount(w, k))
    BY <1>3, <1>5, <1>7
  <2> QED BY <2>1, <2>2, <2>3
<1>10. i \notin occ => v = ws[i]
  BY <1>2
<1>11. v = [idxs |-> v.idxs, freq |-> f]
  <2>1. v = [idxs |-> Replaced(w, tp, target), freq |-> f]
    BY <1>4
  <2> QED BY <1>5, <2>1
<1>12. v.idxs \in Seq(V) /\ PairCount(v.idxs, tp) = 0
  BY <1>3, <1>5, <1>7, <1>8
<1>13. Rewritten(U, ws, occ, tp, target, i, v)
  BY <1>4, <1>6, <1>7, <1>9, <1>10, <1>11, <1>12 DEF Rewritten, w, f, V, m
<1> QED BY <1>13 DEF v

\* vs is the rewritten inventory: the changes are exact, the pair is gone, and
\* only pairs with the new unit get more frequent, never above the merged pair.
RewritesAll(U, ws, occ, tp, target, vs) ==
  /\ vs \in Inventory(U \cup {target}) /\ DOMAIN vs = DOMAIN ws
  /\ vs = [i \in DOMAIN ws |-> [ws[i] EXCEPT !.idxs = Replaced(@, tp, target)]]
  /\ PairSum(vs, tp) = 0
  /\ \A k : ReportedChange(ws, occ, tp, target, k) = PairSum(vs, k) - PairSum(ws, k)
  /\ \A k : k[1] # target /\ k[2] # target => PairSum(vs, k) <= PairSum(ws, k)
  /\ \A k : k[1] = target \/ k[2] = target =>
       PairSum(ws, k) = 0 /\ PairSum(vs, k) <= PairSum(ws, tp)
  /\ \A u : u \notin {tp[1], tp[2], target} => UnitSum(vs, u) = UnitSum(ws, u)

\* merge_word over an inventory (the loop of _step), for every inventory, pair
\* and new unit, when every word with the pair is rewritten.
THEOREM MergedInventory ==
  ASSUME NEW U, NEW ws \in Inventory(U), NEW occ \in SUBSET DOMAIN ws, NEW tp,
         NEW target, target \notin U, tp[1] # target, tp[2] # target,
         \A i \in DOMAIN ws : tp \in PairsOf(ws[i].idxs) => i \in occ
  PROVE  RewritesAll(U, ws, occ, tp, target, MergedBy(ws, occ, tp, target))
<1> DEFINE D == DOMAIN ws
           V == U \cup {target}
           vs == MergedBy(ws, occ, tp, target)
           old(k) == [i \in D |-> ws[i].freq * PairCount(ws[i].idxs, k)]
           new(k) == [i \in D |-> vs[i].freq * PairCount(vs[i].idxs, k)]
           oldU(u) == [i \in D |-> ws[i].freq * UnitCount(ws[i].idxs, u)]
           newU(u) == [i \in D |-> vs[i].freq * UnitCount(vs[i].idxs, u)]
<1>1. IsFiniteSet(D) /\ D \subseteq Nat /\ DOMAIN vs = D
  BY InventoryType DEF MergedBy
<1>2. vs = [i \in D |-> vs[i]]
  BY DEF MergedBy
<1> HIDE DEF vs
<1>3. ASSUME NEW i \in D
      PROVE  /\ vs[i] = [ws[i] EXCEPT !.idxs = Replaced(@, tp, target)]
             /\ vs[i] = [idxs |-> vs[i].idxs, freq |-> ws[i].freq]
             /\ vs[i].idxs \in Seq(V)
             /\ PairCount(vs[i].idxs, tp) = 0
             /\ Shrinks(vs[i].idxs, ws[i].idxs, tp, target)
             /\ i \notin occ => vs[i] = ws[i]
             /\ \A k : i \in occ => Entry(MergeWord(ws[i].idxs, ws[i].freq, tp, target).changes, k)
                  = ws[i].freq * PairCount(vs[i].idxs, k) - ws[i].freq * PairCount(ws[i].idxs, k)
  <2>1. Rewritten(U, ws, occ, tp, target, i, vs[i])
    BY MergedWord DEF vs
  <2> QED BY <2>1, Zenon DEF Rewritten
<1>4. \A i \in D : ws[i].freq \in Nat \ {0} /\ vs[i].freq = ws[i].freq /\ ws[i].idxs \in Seq(U)
  <2> TAKE i \in D
  <2>1. ws[i].freq \in Nat \ {0} /\ ws[i].idxs \in Seq(U)
    BY InventoryType
  <2> QED BY <1>3, <2>1
<1>5. vs \in Inventory(V)
  <2> DEFINE E == [idxs : Seq(V), freq : Nat \ {0}]
  <2>1. \A i \in D : vs[i] \in E
    BY <1>3, <1>4
  <2>2. D = 1..Len(ws) /\ Len(ws) \in Nat
    BY DEF Inventory
  <2> HIDE DEF E, D
  <2>3. vs \in Seq(E)
    BY <1>1, <1>2, <2>1, <2>2
  <2> QED BY <2>3 DEF E, Inventory
<1>6. \A k : /\ PairSum(vs, k) = Sum(new(k), D) /\ PairSum(ws, k) = Sum(old(k), D)
             /\ UnitSum(vs, k) = Sum(newU(k), D) /\ UnitSum(ws, k) = Sum(oldU(k), D)
  BY <1>1, SumOfFunction, Zenon DEF PairSum, UnitSum
<1>7. \A k : \A i \in D : /\ new(k)[i] \in Nat /\ old(k)[i] \in Nat
                          /\ newU(k)[i] \in Nat /\ oldU(k)[i] \in Nat
                          /\ new(k)[i] = ws[i].freq * PairCount(vs[i].idxs, k)
                          /\ old(k)[i] = ws[i].freq * PairCount(ws[i].idxs, k)
                          /\ newU(k)[i] = ws[i].freq * UnitCount(vs[i].idxs, k)
                          /\ oldU(k)[i] = ws[i].freq * UnitCount(ws[i].idxs, k)
  <2> TAKE k
  <2> TAKE i \in D
  <2>1. /\ ws[i].freq * PairCount(ws[i].idxs, k) \in Nat
        /\ ws[i].freq * UnitCount(ws[i].idxs, k) \in Nat
    BY InventoryType
  <2>2. /\ vs[i].freq * PairCount(vs[i].idxs, k) \in Nat
        /\ vs[i].freq * UnitCount(vs[i].idxs, k) \in Nat
    BY <1>1, <1>5, InventoryType
  <2> QED BY <1>4, <2>1, <2>2
<1>8. \A i \in D : \A m, n \in Nat : m <= n => ws[i].freq * m <= ws[i].freq * n
  <2>1. ASSUME NEW f \in Nat, NEW m \in Nat, NEW n \in Nat, m <= n
        PROVE  f * m <= f * n
    <3> DEFINE d == n - m
    <3>1. d \in Nat /\ n = m + d
      BY <2>1
    <3> HIDE DEF d
    <3>2. f * d \in Nat /\ f * m \in Nat
      BY ONLY f \in Nat, m \in Nat, <3>1
    <3>3. f * (m + d) = f * m + f * d
      BY ONLY f \in Nat, m \in Nat, <3>1
    <3> QED BY <3>1, <3>2, <3>3
  <2>2. \A i \in D : ws[i].freq \in Nat
    BY <1>4
  <2> QED BY <2>1, <2>2
<1>9. \A i \in D : \A k : /\ PairCount(vs[i].idxs, k) \in Nat /\ PairCount(ws[i].idxs, k) \in Nat
                          /\ UnitCount(vs[i].idxs, k) \in Nat /\ UnitCount(ws[i].idxs, k) \in Nat
  BY <1>3, <1>4, CountType
<1> HIDE DEF new, old, newU, oldU, D, V
<1>10. PairSum(vs, tp) = 0
  <2>1. \A i \in D : new(tp)[i] = 0
    <3> TAKE i \in D
    <3>1. \A n \in Nat : n * 0 = 0
      OBVIOUS
    <3>2. PairCount(vs[i].idxs, tp) = 0
      BY <1>3
    <3>3. new(tp)[i] = ws[i].freq * PairCount(vs[i].idxs, tp)
      BY <1>7
    <3> QED BY <1>4, <3>1, <3>2, <3>3
  <2> QED BY <1>1, <1>6, <2>1, SumZero
<1>11. ASSUME NEW k
       PROVE  ReportedChange(ws, occ, tp, target, k) = PairSum(vs, k) - PairSum(ws, k)
  <2> DEFINE c == [i \in occ |-> Entry(MergeWord(ws[i].idxs, ws[i].freq, tp, target).changes, k)]
             d == [i \in D |-> new(k)[i] - old(k)[i]]
  <2>1. ReportedChange(ws, occ, tp, target, k) = Sum(c, occ)
    BY SumOfFunction, Zenon DEF ReportedChange
  <2>2. Sum(d, D) = Sum(new(k), D) - Sum(old(k), D)
    <3>1. \A i \in D : new(k)[i] \in Int /\ old(k)[i] \in Int /\ d[i] = new(k)[i] - old(k)[i]
      BY <1>7
    <3> HIDE DEF d
    <3> QED BY <1>1, <3>1, SumMinus
  <2>3. occ \in SUBSET D
    BY DEF D
  <2>4. \A i \in D : d[i] \in Int
    BY <1>7
  <2>5. \A i \in D \ occ : d[i] = 0
    <3> TAKE i \in D \ occ
    <3>1. vs[i] = ws[i]
      BY <1>3
    <3>2. new(k)[i] = old(k)[i] /\ new(k)[i] \in Nat
      BY <1>7, <3>1
    <3> QED BY <3>2
  <2>6. \A i \in occ : c[i] = d[i]
    <3> TAKE i \in occ
    <3>1. i \in D
      BY <2>3
    <3>2. c[i] = ws[i].freq * PairCount(vs[i].idxs, k) - ws[i].freq * PairCount(ws[i].idxs, k)
      BY <1>3, <3>1
    <3>3. d[i] = new(k)[i] - old(k)[i]
      BY <3>1
    <3> HIDE DEF c, d
    <3> QED BY <1>7, <3>1, <3>2, <3>3
  <2> HIDE DEF c, d
  <2>7. Sum(d, D) = Sum(d, occ)
    <3>1. IsFiniteSet(D)
      BY <1>1
    <3> QED BY <2>3, <2>4, <2>5, <3>1, SumOn
  <2>8. IsFiniteSet(occ)
    BY <1>1, <2>3, FS_Subset
  <2>9. Sum(c, occ) = Sum(d, occ)
    BY <2>3, <2>4, <2>6, <2>8, SumEqual
  <2> QED BY <1>6, <2>1, <2>2, <2>7, <2>9
<1>12. ASSUME NEW k, k[1] # target, k[2] # target
       PROVE  PairSum(vs, k) <= PairSum(ws, k)
  <2>1. ASSUME NEW i \in D
        PROVE  new(k)[i] \in Int /\ old(k)[i] \in Int /\ new(k)[i] <= old(k)[i]
    <3>1. PairCount(vs[i].idxs, k) <= PairCount(ws[i].idxs, k)
      BY <1>3, <1>12 DEF Shrinks
    <3>2. ws[i].freq * PairCount(vs[i].idxs, k) <= ws[i].freq * PairCount(ws[i].idxs, k)
      BY <1>8, <1>9, <3>1
    <3>3. /\ new(k)[i] \in Int /\ new(k)[i] = ws[i].freq * PairCount(vs[i].idxs, k)
          /\ old(k)[i] \in Int /\ old(k)[i] = ws[i].freq * PairCount(ws[i].idxs, k)
      BY <1>7
    <3> QED BY <3>2, <3>3
  <2>2. Sum(new(k), D) <= Sum(old(k), D)
    <3> DEFINE f == new(k)
               g == old(k)
    <3>1. \A i \in D : f[i] \in Int /\ g[i] \in Int /\ f[i] <= g[i]
      BY <2>1
    <3> HIDE DEF f, g
    <3>2. Sum(f, D) <= Sum(g, D)
      BY <1>1, <3>1, SumLeq
    <3> QED BY <3>2 DEF f, g
  <2> QED BY <1>6, <2>2
<1>13. ASSUME NEW k, k[1] = target \/ k[2] = target
       PROVE  PairSum(ws, k) = 0 /\ PairSum(vs, k) <= PairSum(ws, tp)
  <2>1. ASSUME NEW i \in D
        PROVE  PairCount(ws[i].idxs, k) = 0
    <3>1. k \notin PairsOf(ws[i].idxs)
      BY <1>4, <1>13, PairElements
    <3>2. ~(PairCount(ws[i].idxs, k) > 0)
      BY <1>4, <3>1, Occurs
    <3> QED BY <1>9, <3>2
  <2>2. PairSum(ws, k) = 0
    <3>1. \A i \in D : old(k)[i] = 0
      <4> TAKE i \in D
      <4>1. \A n \in Nat : n * 0 = 0
        OBVIOUS
      <4> QED BY <1>4, <1>7, <2>1, <4>1
    <3> QED BY <1>1, <1>6, <3>1, SumZero
  <2>3. ASSUME NEW i \in D
        PROVE  new(k)[i] \in Int /\ old(tp)[i] \in Int /\ new(k)[i] <= old(tp)[i]
    <3>1. UnitCount(vs[i].idxs, target) <= PairCount(ws[i].idxs, tp)
      BY <1>3 DEF Shrinks
    <3>2. PairCount(vs[i].idxs, k) <= UnitCount(vs[i].idxs, target)
      BY <1>3, <1>13, PairsBelowUnits
    <3>3. PairCount(vs[i].idxs, k) <= PairCount(ws[i].idxs, tp)
      BY <1>9, <3>1, <3>2
    <3>4. ws[i].freq * PairCount(vs[i].idxs, k) <= ws[i].freq * PairCount(ws[i].idxs, tp)
      BY <1>8, <1>9, <3>3
    <3>5. /\ new(k)[i] \in Int /\ new(k)[i] = ws[i].freq * PairCount(vs[i].idxs, k)
          /\ old(tp)[i] \in Int /\ old(tp)[i] = ws[i].freq * PairCount(ws[i].idxs, tp)
      BY <1>7
    <3> QED BY <3>4, <3>5
  <2>4. PairSum(vs, k) <= PairSum(ws, tp)
    <3> DEFINE f == new(k)
               g == old(tp)
    <3>1. \A i \in D : f[i] \in Int /\ g[i] \in Int /\ f[i] <= g[i]
      BY <2>3
    <3> HIDE DEF f, g
    <3>2. Sum(f, D) <= Sum(g, D)
      BY <1>1, <3>1, SumLeq
    <3> QED BY <1>6, <3>2 DEF f, g
  <2> QED BY <2>2, <2>4
<1>14. ASSUME NEW u, u \notin {tp[1], tp[2], target}
       PROVE  UnitSum(vs, u) = UnitSum(ws, u)
  <2>1. ASSUME NEW i \in D
        PROVE  newU(u)[i] \in Int /\ newU(u)[i] = oldU(u)[i]
    <3>1. UnitCount(vs[i].idxs, u) = UnitCount(ws[i].idxs, u)
      BY <1>3, <1>14 DEF Shrinks
    <3> QED BY <1>7, <3>1
  <2> DEFINE f == newU(u)
             g == oldU(u)
  <2>2. \A i \in D : f[i] \in Int /\ f[i] = g[i]
    BY <2>1
  <2> HIDE DEF f, g
  <2>3. Sum(f, D) = Sum(g, D)
    BY <1>1, <2>2, SumEqual
  <2> QED BY <1>6, <2>3 DEF f, g
<1>15. vs = [i \in D |-> [ws[i] EXCEPT !.idxs = Replaced(@, tp, target)]]
  BY <1>2, <1>3, Zenon
<1> QED BY <1>1, <1>5, <1>10, <1>11, <1>12, <1>13, <1>14, <1>15 DEF RewritesAll, vs, D, V

\* A word gains a pair only where the rewriting reports it, and only a pair
\* with the new unit.
LEMMA MergedOccurrences ==
  ASSUME NEW U, NEW ws \in Inventory(U), NEW occ \in SUBSET DOMAIN ws, NEW tp,
         NEW target, target \notin U, tp[1] # target, tp[2] # target,
         \A i \in DOMAIN ws : tp \in PairsOf(ws[i].idxs) => i \in occ,
         NEW i \in DOMAIN ws, NEW k
  PROVE  /\ k[1] = target \/ k[2] = target => k \notin PairsOf(ws[i].idxs)
         /\ k \in PairsOf(MergedBy(ws, occ, tp, target)[i].idxs) /\ k \notin PairsOf(ws[i].idxs) =>
              /\ i \in occ
              /\ k[1] = target \/ k[2] = target
              /\ Entry(MergeWord(ws[i].idxs, ws[i].freq, tp, target).changes, k) > 0
         /\ DOMAIN MergeWord(ws[i].idxs, ws[i].freq, tp, target).changes
              \subseteq (U \cup {target}) \X (U \cup {target})
<1> DEFINE V == U \cup {target}
           v == MergedBy(ws, occ, tp, target)[i]
           m == MergeWord(ws[i].idxs, ws[i].freq, tp, target)
           f == ws[i].freq
           w == ws[i].idxs
<1>1. w \in Seq(U) /\ f \in Nat \ {0}
  BY InventoryType
<1>2. Rewritten(U, ws, occ, tp, target, i, v)
  BY MergedWord
<1>3. /\ v.idxs \in Seq(V) /\ Shrinks(v.idxs, w, tp, target)
      /\ DOMAIN m.changes \subseteq V \X V
      /\ i \notin occ => v = ws[i]
      /\ Entry(m.changes, k) = f * PairCount(v.idxs, k) - f * PairCount(w, k)
  BY <1>2 DEF Rewritten
<1> HIDE DEF V, v, m, f, w
<1>4. /\ PairCount(v.idxs, k) \in Nat /\ PairCount(w, k) \in Nat
      /\ k \in PairsOf(v.idxs) <=> PairCount(v.idxs, k) > 0
      /\ k \in PairsOf(w) <=> PairCount(w, k) > 0
  BY <1>1, <1>3, CountType, Occurs
<1>5. ASSUME k[1] = target \/ k[2] = target PROVE k \notin PairsOf(w)
  BY <1>1, <1>5, PairElements
<1>6. ASSUME k \in PairsOf(v.idxs), k \notin PairsOf(w)
      PROVE  i \in occ /\ (k[1] = target \/ k[2] = target) /\ Entry(m.changes, k) > 0
  <2>1. PairCount(v.idxs, k) > 0 /\ PairCount(w, k) = 0
    BY <1>4, <1>6
  <2>2. i \in occ
    BY <1>3, <1>6 DEF w
  <2>3. k[1] = target \/ k[2] = target
    BY <1>3, <1>4, <2>1 DEF Shrinks
  <2>4. \A n \in Nat : n > 0 => f * n > 0 /\ f * 0 = 0
    BY <1>1
  <2>5. Entry(m.changes, k) > 0
    BY <1>1, <1>3, <1>4, <2>1, <2>4
  <2> QED BY <2>2, <2>3, <2>5
<1> QED BY <1>3, <1>5, <1>6 DEF V, v, m, f, w

\* What no word reports did not change.
LEMMA NothingReported ==
  ASSUME NEW ws, NEW occ, IsFiniteSet(occ), NEW tp, NEW target, NEW k,
         \A i \in occ : k \notin DOMAIN MergeWord(ws[i].idxs, ws[i].freq, tp, target).changes
  PROVE  ReportedChange(ws, occ, tp, target, k) = 0
<1> DEFINE c == [i \in occ |-> Entry(MergeWord(ws[i].idxs, ws[i].freq, tp, target).changes, k)]
<1>1. ReportedChange(ws, occ, tp, target, k) = Sum(c, occ)
  BY SumOfFunction, Zenon DEF ReportedChange
<1>2. \A i \in occ : c[i] = 0
  BY DEF Entry
<1> HIDE DEF c
<1> QED BY <1>1, <1>2, SumZero

-----------------------------------------------------------------------------
(* Replaced, unit by unit. *)

\* What becomes of a word from some position on is what becomes of the rest.
LEMMA ReplacedRest ==
  ASSUME NEW U, NEW v \in Seq(U), NEW tp, NEW target \in U,
         NEW f, Rewrites(f, U, v, tp, target),
         NEW u \in Seq(U), NEW k \in Nat, Len(v) = Len(u) + k,
         \A i \in 1..Len(u) : v[i + k] = u[i]
  PROVE  f[k + 1] = Replaced(u, tp, target)
<1>1. PICK g : Rewrites(g, U, u, tp, target) /\ Replaced(u, tp, target) = g[1]
  BY ReplacedUnfold
<1> DEFINE n == Len(u)
           S == {m \in Nat : \A i \in 1..n + 1 : n + 1 - i <= m => f[i + k] = g[i]}
<1>0. n \in Nat /\ Len(v) = n + k
  OBVIOUS
<1>2. /\ f[n + k + 1] = << >>
      /\ \A i \in 1..n + k :
           f[i] = IF i < n + k /\ PairAt(v, i) = tp
                  THEN <<target>> \o f[i + 2] ELSE <<v[i]>> \o f[i + 1]
      /\ g[n + 1] = << >>
      /\ \A i \in 1..n : g[i] = IF i < n /\ PairAt(u, i) = tp
                                THEN <<target>> \o g[i + 2] ELSE <<u[i]>> \o g[i + 1]
  BY <1>0, <1>1 DEF Rewrites
<1>3. \A i \in 1..n : v[i + k] = u[i] /\ (i < n => PairAt(v, i + k) = PairAt(u, i))
  <2> TAKE i \in 1..n
  <2>0. v[i + k] = u[i]
    OBVIOUS
  <2>1. i < n => i + 1 \in 1..n /\ (i + 1) + k = (i + k) + 1
    BY <1>0
  <2>2. i < n => v[(i + 1) + k] = u[i + 1]
    BY <2>1
  <2> QED BY <2>0, <2>1, <2>2 DEF PairAt
<1> HIDE DEF n
<1>4. 0 \in S
  <2>1. \A i \in 1..n + 1 : n + 1 - i <= 0 => i = n + 1 /\ i + k = n + k + 1
    BY <1>0
  <2> QED BY <1>2, <2>1
<1>5. ASSUME NEW m \in S
      PROVE  m + 1 \in S
  <2>00. m + 1 \in Nat
    OBVIOUS
  <2> SUFFICES ASSUME NEW i \in 1..n + 1, n + 1 - i <= m + 1
               PROVE  f[i + k] = g[i]
    BY <2>00
  <2>0. m \in Nat /\ \A j \in 1..n + 1 : n + 1 - j <= m => f[j + k] = g[j]
    OBVIOUS
  <2>1. CASE i = n + 1
    BY <1>0, <1>2, <2>1
  <2>2. CASE i # n + 1
    <3>1. i \in 1..n /\ i + k \in 1..n + k /\ (i < n <=> i + k < n + k)
      BY <1>0, <2>2
    <3>2. f[(i + 1) + k] = g[i + 1] /\ (i + 1) + k = (i + k) + 1
      BY <1>0, <2>0, <3>1
    <3>3. i < n => f[(i + 2) + k] = g[i + 2] /\ (i + 2) + k = (i + k) + 2
      BY <1>0, <2>0, <3>1
    <3>4. f[i + k] = IF i < n /\ PairAt(v, i + k) = tp
                     THEN <<target>> \o f[(i + k) + 2] ELSE <<v[i + k]>> \o f[(i + k) + 1]
      BY <1>2, <3>1
    <3>5. g[i] = IF i < n /\ PairAt(u, i) = tp
                 THEN <<target>> \o g[i + 2] ELSE <<u[i]>> \o g[i + 1]
      BY <1>2, <3>1
    <3> HIDE DEF S
    <3> QED BY <1>3, <3>1, <3>2, <3>3, <3>4, <3>5
  <2> QED BY <2>1, <2>2
<1>6. S = Nat
  <2>1. S \in SUBSET Nat
    OBVIOUS
  <2> HIDE DEF S
  <2> QED BY <1>4, <1>5, <2>1, NatInd
<1>7. n \in S /\ 1 \in 1..n + 1 /\ n + 1 - 1 <= n /\ 1 + k = k + 1
  BY <1>0, <1>6
<1>8. f[1 + k] = g[1]
  BY <1>7
<1> QED BY <1>1, <1>7, <1>8

\* The replacement leaves the empty word as it is.
LEMMA ReplacedNone ==
  ASSUME NEW U, NEW tp, NEW target \in U
  PROVE  Replaced(<< >>, tp, target) = << >>
<1>1. << >> \in Seq(U) /\ Len(<< >>) = 0
  OBVIOUS
<1>2. PICK f : Rewrites(f, U, << >>, tp, target) /\ Replaced(<< >>, tp, target) = f[1]
  BY <1>1, ReplacedUnfold
<1> QED BY <1>1, <1>2 DEF Rewrites

\* It leaves a word of one unit as it is.
LEMMA ReplacedOne ==
  ASSUME NEW U, NEW tp, NEW target \in U, NEW x \in U
  PROVE  Replaced(Onto(x, << >>), tp, target) = Onto(x, << >>)
<1>1. <<x>> \in Seq(U) /\ Len(<<x>>) = 1 /\ <<x>>[1] = x /\ <<x>> \o << >> = <<x>>
  BY ConcatEmptySeq
<1> DEFINE w == <<x>>
<1> HIDE DEF w
<1>2. w \in Seq(U)
  BY <1>1 DEF w
<1>3. PICK f : Rewrites(f, U, w, tp, target) /\ Replaced(w, tp, target) = f[1]
  BY <1>2, ReplacedUnfold
<1>4. Rewrites(f, U, <<x>>, tp, target) /\ Replaced(<<x>>, tp, target) = f[1]
  BY <1>3 DEF w
<1>5. f[2] = << >> /\ f[1] = <<x>> \o f[2]
  BY <1>1, <1>4 DEF Rewrites
<1>6. Onto(x, << >>) = <<x>>
  BY <1>1 DEF Onto
<1> QED BY <1>1, <1>4, <1>5, <1>6

\* It gives a word over the same units.
LEMMA ReplacedType ==
  ASSUME NEW U, NEW tp, NEW target \in U, NEW u \in Seq(U)
  PROVE  Replaced(u, tp, target) \in Seq(U)
<1>1. PICK f : Rewrites(f, U, u, tp, target) /\ Replaced(u, tp, target) = f[1]
  BY ReplacedUnfold
<1>2. 1 \in 1..Len(u) + 1
  OBVIOUS
<1> QED BY <1>1, <1>2 DEF Rewrites

\* It goes on behind the pair where a word starts with it, and behind the first
\* unit where it does not.
LEMMA ReplacedTwo ==
  ASSUME NEW U, NEW tp, NEW target \in U, NEW x \in U, NEW y \in U, NEW u \in Seq(U)
  PROVE  Replaced(Onto(x, Onto(y, u)), tp, target)
           = IF <<x, y>> = tp THEN Onto(target, Replaced(u, tp, target))
                              ELSE Onto(x, Replaced(Onto(y, u), tp, target))
<1> DEFINE t == <<y>> \o u
           v == <<x>> \o t
<1>1. /\ t \in Seq(U) /\ Len(t) = Len(u) + 1 /\ Len(u) \in Nat /\ t[1] = y
      /\ \A i \in 1..Len(u) : t[i + 1] = u[i]
  BY ConsFacts
<1>2. /\ v \in Seq(U) /\ Len(v) = Len(t) + 1 /\ v[1] = x
      /\ \A i \in 1..Len(t) : v[i + 1] = t[i]
  BY <1>1, ConsFacts
<1> HIDE DEF t, v
<1>3. PICK f : Rewrites(f, U, v, tp, target) /\ Replaced(v, tp, target) = f[1]
  BY <1>2, ReplacedUnfold
<1>4. f[1 + 1] = Replaced(t, tp, target)
  <2>1. 1 \in Nat /\ Len(v) = Len(t) + 1 /\ \A i \in 1..Len(t) : v[i + 1] = t[i]
    BY <1>2
  <2>2. v \in Seq(U) /\ t \in Seq(U) /\ Rewrites(f, U, v, tp, target)
    BY <1>1, <1>2, <1>3
  <2> QED BY <2>1, <2>2, ReplacedRest
<1>5. f[2 + 1] = Replaced(u, tp, target)
  <2>1. Len(v) = Len(u) + 2
    BY <1>1, <1>2
  <2>2. \A i \in 1..Len(u) : v[i + 2] = u[i]
    <3> TAKE i \in 1..Len(u)
    <3>1. i + 1 \in 1..Len(t) /\ (i + 1) + 1 = i + 2
      BY <1>1
    <3> QED BY <1>1, <1>2, <3>1
  <2>3. v \in Seq(U) /\ Rewrites(f, U, v, tp, target) /\ 2 \in Nat
    BY <1>2, <1>3
  <2> QED BY <2>1, <2>2, <2>3, ReplacedRest
<1>6. f[1] = IF <<x, y>> = tp THEN <<target>> \o f[3] ELSE <<x>> \o f[2]
  <2>1. 1 \in 1..Len(v) /\ 1 < Len(v) /\ v[2] = y
    BY <1>1, <1>2
  <2>2. PairAt(v, 1) = <<x, y>>
    BY <1>2, <2>1 DEF PairAt
  <2>3. f[1] = IF 1 < Len(v) /\ PairAt(v, 1) = tp
               THEN <<target>> \o f[1 + 2] ELSE <<v[1]>> \o f[1 + 1]
    BY <1>3, <2>1 DEF Rewrites
  <2> QED BY <1>2, <2>1, <2>2, <2>3
<1>7. Replaced(v, tp, target) = IF <<x, y>> = tp THEN <<target>> \o Replaced(u, tp, target)
                                                  ELSE <<x>> \o Replaced(t, tp, target)
  BY <1>3, <1>4, <1>5, <1>6
<1>8. Onto(y, u) = t /\ Onto(x, Onto(y, u)) = v
  BY Zenon DEF Onto, t, v
<1>9. \A z : Onto(target, z) = <<target>> \o z /\ Onto(x, z) = <<x>> \o z
  BY DEF Onto
<1> QED BY <1>7, <1>8, <1>9

\* The three shapes of a word, seen from its front.
LEMMA WordCases ==
  ASSUME NEW U, NEW s \in Seq(U)
  PROVE  \/ s = << >>
         \/ \E x \in U : s = Onto(x, << >>)
         \/ \E x, y \in U, t \in Seq(U) :
              s = Onto(x, Onto(y, t)) /\ Len(t) < Len(s) /\ Len(Onto(y, t)) < Len(s)
<1> SUFFICES ASSUME s # << >>
             PROVE  \/ \E x \in U : s = Onto(x, << >>)
                    \/ \E x, y \in U, t \in Seq(U) :
                         s = Onto(x, Onto(y, t)) /\ Len(t) < Len(s) /\ Len(Onto(y, t)) < Len(s)
  OBVIOUS
<1> DEFINE x == s[1]
           r == Tail(s)
<1>1. x \in U /\ r \in Seq(U) /\ s = Onto(x, r) /\ Len(s) = Len(r) + 1
  BY SeqCons DEF Onto
<1> HIDE DEF x, r
<1>2. CASE r = << >>
  BY <1>1, <1>2, Zenon
<1>3. CASE r # << >>
  <2> DEFINE y == r[1]
             t == Tail(r)
  <2>1. y \in U /\ t \in Seq(U) /\ r = Onto(y, t) /\ Len(r) = Len(t) + 1
    BY <1>1, <1>3, SeqCons DEF Onto
  <2> HIDE DEF y, t
  <2>2. Len(t) < Len(s) /\ Len(r) < Len(s)
    <3>1. Len(t) \in Nat
      BY <2>1
    <3> QED BY <1>1, <2>1, <3>1
  <2>3. s = Onto(x, Onto(y, t)) /\ Len(Onto(y, t)) < Len(s)
    BY <1>1, <2>1, <2>2, Zenon
  <2> QED BY <1>1, <2>1, <2>2, <2>3, Zenon
<1> QED BY <1>2, <1>3

-----------------------------------------------------------------------------
(* Segments of a word. *)

\* s stands somewhere in w.
Segment(U, s, w) == s \in Seq(U) /\ \E a, b \in Seq(U) : w = Cat(a, Cat(s, b))

\* Replacing in a word replaces in each of the parts the result is cut into:
\* the scan starts afresh wherever the result has a border.
LEMMA ReplacedSuffix ==
  ASSUME NEW U, NEW tp, NEW target \in U
  PROVE  \A w, x, z \in Seq(U) :
           Replaced(w, tp, target) = Cat(x, z) =>
             \E a, b \in Seq(U) : w = Cat(a, b) /\ Replaced(b, tp, target) = z
<1> DEFINE S == Seq(U)
           R(w) == Replaced(w, tp, target)
           Cut(w) == \A x, z \in S : R(w) = Cat(x, z) => \E a, b \in S : w = Cat(a, b) /\ R(b) = z
           Q == {w \in S : Cut(w)}
<1>1. /\ << >> \in S
      /\ \A s \in S : Cat(<< >>, s) = s /\ Cat(s, << >>) = s
      /\ \A s, u \in S : Cat(s, u) \in S /\ (Cat(s, u) = << >> => s = << >> /\ u = << >>)
      /\ \A p \in U, s \in S : Onto(p, s) \in S /\ Onto(p, s) # << >>
      /\ \A p \in U, s, u \in S : Cat(Onto(p, s), u) = Onto(p, Cat(s, u))
      /\ \A p, q \in U, s, u \in S : Onto(p, s) = Onto(q, u) => p = q /\ s = u
      /\ \A s \in S : s # << >> => \E p \in U, u \in S : s = Onto(p, u)
  BY ConsAlgebra, Zenon
<1>2. /\ R(<< >>) = << >>
      /\ \A p \in U : R(Onto(p, << >>)) = Onto(p, << >>)
      /\ \A u \in S : R(u) \in S
      /\ \A p, q \in U, u \in S :
           R(Onto(p, Onto(q, u))) = IF <<p, q>> = tp THEN Onto(target, R(u))
                                                     ELSE Onto(p, R(Onto(q, u)))
  <2>1. R(<< >>) = << >>
    BY ReplacedNone
  <2>2. \A p \in U : R(Onto(p, << >>)) = Onto(p, << >>)
    BY ReplacedOne
  <2>3. \A u \in S : R(u) \in S
    BY ReplacedType
  <2>4. \A p, q \in U, u \in S :
          R(Onto(p, Onto(q, u))) = IF <<p, q>> = tp THEN Onto(target, R(u))
                                                    ELSE Onto(p, R(Onto(q, u)))
    BY ReplacedTwo
  <2> QED BY <2>1, <2>2, <2>3, <2>4
<1>3. ASSUME NEW s \in S
      PROVE  \/ s = << >>
             \/ \E p \in U : s = Onto(p, << >>)
             \/ \E p, q \in U, t \in S :
                  s = Onto(p, Onto(q, t)) /\ Len(t) < Len(s) /\ Len(Onto(q, t)) < Len(s)
  BY WordCases, Zenon
<1> HIDE DEF R, S
<1>4. ASSUME NEW w \in S, \A t \in S : Len(t) < Len(w) => Cut(t)
      PROVE  Cut(w)
  <2> SUFFICES ASSUME NEW x \in S, NEW z \in S, R(w) = Cat(x, z)
               PROVE  \E a, b \in S : w = Cat(a, b) /\ R(b) = z
    OBVIOUS
  <2>1. CASE x = << >>
    <3>1. R(w) = z /\ w = Cat(<< >>, w) /\ << >> \in S
      BY <1>1, <2>1
    <3> QED BY <3>1
  <2>2. CASE x # << >>
    <3>1. PICK h \in U, y \in S : x = Onto(h, y)
      BY <1>1, <2>2
    <3>2. R(w) = Onto(h, Cat(y, z)) /\ Cat(y, z) \in S /\ R(w) # << >>
      BY <1>1, <3>1
    <3>3. w # << >>
      BY <1>2, <3>2
    <3>4. ASSUME NEW p \in U, w = Onto(p, << >>)
          PROVE  \E a, b \in S : w = Cat(a, b) /\ R(b) = z
      <4>1. Onto(p, << >>) = Onto(h, Cat(y, z))
        BY <1>2, <3>2, <3>4
      <4>2. Cat(y, z) = << >>
        BY <1>1, <3>2, <4>1
      <4>3. z = << >> /\ Cat(w, << >>) = w
        BY <1>1, <4>2
      <4> QED BY <1>1, <1>2, <4>3
    <3>5. ASSUME NEW p \in U, NEW q \in U, NEW u \in S, w = Onto(p, Onto(q, u)),
                 Len(u) < Len(w), Len(Onto(q, u)) < Len(w)
          PROVE  \E a, b \in S : w = Cat(a, b) /\ R(b) = z
      <4>1. Onto(q, u) \in S /\ R(u) \in S /\ R(Onto(q, u)) \in S
        BY <1>1, <1>2
      <4>2. CASE <<p, q>> = tp
        <5>1. Onto(target, R(u)) = Onto(h, Cat(y, z))
          BY <1>2, <3>2, <3>5, <4>2
        <5>2. R(u) = Cat(y, z)
          BY <1>1, <3>2, <4>1, <5>1
        <5>3. PICK a, b \in S : u = Cat(a, b) /\ R(b) = z
          BY <1>4, <3>5, <5>2
        <5>4. Onto(q, u) = Cat(Onto(q, a), b) /\ Onto(q, a) \in S
          BY <1>1, <5>3
        <5>5. w = Cat(Onto(p, Onto(q, a)), b) /\ Onto(p, Onto(q, a)) \in S
          BY <1>1, <3>5, <5>4
        <5> QED BY <5>3, <5>5
      <4>3. CASE <<p, q>> # tp
        <5>1. Onto(p, R(Onto(q, u))) = Onto(h, Cat(y, z))
          BY <1>2, <3>2, <3>5, <4>3
        <5>2. R(Onto(q, u)) = Cat(y, z)
          BY <1>1, <3>2, <4>1, <5>1
        <5>3. PICK a, b \in S : Onto(q, u) = Cat(a, b) /\ R(b) = z
          BY <1>4, <3>5, <4>1, <5>2
        <5>4. w = Cat(Onto(p, a), b) /\ Onto(p, a) \in S
          BY <1>1, <3>5, <5>3
        <5> QED BY <5>3, <5>4
      <4> QED BY <4>2, <4>3
    <3> QED BY <1>3, <3>3, <3>4, <3>5
  <2> QED BY <2>1, <2>2
<1>5. \A w \in S : Cut(w)
  <2> HIDE DEF Cut
  <2>1. ASSUME NEW w \in Seq(U), \A t \in Seq(U) : Len(t) < Len(w) => t \in Q
        PROVE  w \in Q
    BY <1>4, <2>1 DEF S
  <2> HIDE DEF Q
  <2>2. \A w \in Seq(U) : w \in Q
    BY <2>1, SeqInd
  <2> QED BY <2>2 DEF Q, S
<1> QED BY <1>5 DEF R, S

\* The same seen from the other end.
LEMMA ReplacedPrefix ==
  ASSUME NEW U, NEW tp, NEW target \in U
  PROVE  \A w, x, z \in Seq(U) :
           Replaced(w, tp, target) = Cat(x, z) =>
             \E a, b \in Seq(U) : w = Cat(a, b) /\ Replaced(a, tp, target) = x
<1> DEFINE S == Seq(U)
           R(w) == Replaced(w, tp, target)
           Cut(w) == \A x, z \in S : R(w) = Cat(x, z) => \E a, b \in S : w = Cat(a, b) /\ R(a) = x
           Q == {w \in S : Cut(w)}
<1>1. /\ << >> \in S
      /\ \A s \in S : Cat(<< >>, s) = s /\ Cat(s, << >>) = s
      /\ \A s, u \in S : Cat(s, u) \in S /\ (Cat(s, u) = << >> => s = << >> /\ u = << >>)
      /\ \A p \in U, s \in S : Onto(p, s) \in S /\ Onto(p, s) # << >>
      /\ \A p \in U, s, u \in S : Cat(Onto(p, s), u) = Onto(p, Cat(s, u))
      /\ \A p, q \in U, s, u \in S : Onto(p, s) = Onto(q, u) => p = q /\ s = u
      /\ \A s \in S : s # << >> => \E p \in U, u \in S : s = Onto(p, u)
  BY ConsAlgebra, Zenon
<1>2. /\ R(<< >>) = << >>
      /\ \A p \in U : R(Onto(p, << >>)) = Onto(p, << >>)
      /\ \A u \in S : R(u) \in S
      /\ \A p, q \in U, u \in S :
           R(Onto(p, Onto(q, u))) = IF <<p, q>> = tp THEN Onto(target, R(u))
                                                     ELSE Onto(p, R(Onto(q, u)))
  <2>1. R(<< >>) = << >>
    BY ReplacedNone
  <2>2. \A p \in U : R(Onto(p, << >>)) = Onto(p, << >>)
    BY ReplacedOne
  <2>3. \A u \in S : R(u) \in S
    BY ReplacedType
  <2>4. \A p, q \in U, u \in S :
          R(Onto(p, Onto(q, u))) = IF <<p, q>> = tp THEN Onto(target, R(u))
                                                    ELSE Onto(p, R(Onto(q, u)))
    BY ReplacedTwo
  <2> QED BY <2>1, <2>2, <2>3, <2>4
<1>3. ASSUME NEW s \in S
      PROVE  \/ s = << >>
             \/ \E p \in U : s = Onto(p, << >>)
             \/ \E p, q \in U, t \in S :
                  s = Onto(p, Onto(q, t)) /\ Len(t) < Len(s) /\ Len(Onto(q, t)) < Len(s)
  BY WordCases, Zenon
<1> HIDE DEF R, S
<1>4. ASSUME NEW w \in S, \A t \in S : Len(t) < Len(w) => Cut(t)
      PROVE  Cut(w)
  <2> SUFFICES ASSUME NEW x \in S, NEW z \in S, R(w) = Cat(x, z)
               PROVE  \E a, b \in S : w = Cat(a, b) /\ R(a) = x
    OBVIOUS
  <2>1. CASE x = << >>
    <3>1. R(<< >>) = x /\ w = Cat(<< >>, w) /\ << >> \in S
      BY <1>1, <1>2, <2>1
    <3> QED BY <3>1
  <2>2. CASE x # << >>
    <3>1. PICK h \in U, y \in S : x = Onto(h, y)
      BY <1>1, <2>2
    <3>2. R(w) = Onto(h, Cat(y, z)) /\ Cat(y, z) \in S /\ R(w) # << >>
      BY <1>1, <3>1
    <3>3. w # << >>
      BY <1>2, <3>2
    <3>4. ASSUME NEW p \in U, w = Onto(p, << >>)
          PROVE  \E a, b \in S : w = Cat(a, b) /\ R(a) = x
      <4>1. Onto(p, << >>) = Onto(h, Cat(y, z))
        BY <1>2, <3>2, <3>4
      <4>2. Cat(y, z) = << >> /\ p = h
        BY <1>1, <3>2, <4>1
      <4>3. y = << >> /\ Cat(w, << >>) = w
        BY <1>1, <4>2
      <4>4. R(w) = x
        BY <1>2, <3>1, <3>4, <4>2, <4>3
      <4> QED BY <1>1, <4>3, <4>4
    <3>5. ASSUME NEW p \in U, NEW q \in U, NEW u \in S, w = Onto(p, Onto(q, u)),
                 Len(u) < Len(w), Len(Onto(q, u)) < Len(w)
          PROVE  \E a, b \in S : w = Cat(a, b) /\ R(a) = x
      <4>1. Onto(q, u) \in S /\ R(u) \in S /\ R(Onto(q, u)) \in S
        BY <1>1, <1>2
      <4>2. CASE <<p, q>> = tp
        <5>1. Onto(target, R(u)) = Onto(h, Cat(y, z))
          BY <1>2, <3>2, <3>5, <4>2
        <5>2. R(u) = Cat(y, z) /\ target = h
          BY <1>1, <3>2, <4>1, <5>1
        <5>3. PICK a, b \in S : u = Cat(a, b) /\ R(a) = y
          BY <1>4, <3>5, <5>2
        <5>4. Onto(q, u) = Cat(Onto(q, a), b) /\ Onto(q, a) \in S
          BY <1>1, <5>3
        <5>5. w = Cat(Onto(p, Onto(q, a)), b) /\ Onto(p, Onto(q, a)) \in S
          BY <1>1, <3>5, <5>4
        <5>6. R(Onto(p, Onto(q, a))) = x
          BY <1>2, <3>1, <4>2, <5>2, <5>3
        <5> QED BY <5>5, <5>6
      <4>3. CASE <<p, q>> # tp
        <5>1. Onto(p, R(Onto(q, u))) = Onto(h, Cat(y, z))
          BY <1>2, <3>2, <3>5, <4>3
        <5>2. R(Onto(q, u)) = Cat(y, z) /\ p = h
          BY <1>1, <3>2, <4>1, <5>1
        <5>3. PICK a, b \in S : Onto(q, u) = Cat(a, b) /\ R(a) = y
          BY <1>4, <3>5, <4>1, <5>2
        <5>4. w = Cat(Onto(p, a), b) /\ Onto(p, a) \in S
          BY <1>1, <3>5, <5>3
        <5>5. R(Onto(p, a)) = Onto(p, y)
          <6>1. CASE a = << >>
            BY <1>2, <5>3, <6>1
          <6>2. CASE a # << >>
            <7>1. PICK g \in U, c \in S : a = Onto(g, c)
              BY <1>1, <6>2
            <7>2. Onto(q, u) = Onto(g, Cat(c, b)) /\ Cat(c, b) \in S
              BY <1>1, <5>3, <7>1
            <7>3. g = q
              BY <1>1, <7>2
            <7>4. R(Onto(p, Onto(q, c))) = Onto(p, R(Onto(q, c)))
              BY <1>2, <4>3
            <7> QED BY <5>3, <7>1, <7>3, <7>4
          <6> QED BY <6>1, <6>2
        <5>6. R(Onto(p, a)) = x
          BY <3>1, <5>2, <5>5
        <5> QED BY <5>4, <5>6
      <4> QED BY <4>2, <4>3
    <3> QED BY <1>3, <3>3, <3>4, <3>5
  <2> QED BY <2>1, <2>2
<1>5. \A w \in S : Cut(w)
  <2> HIDE DEF Cut
  <2>1. ASSUME NEW w \in Seq(U), \A t \in Seq(U) : Len(t) < Len(w) => t \in Q
        PROVE  w \in Q
    BY <1>4, <2>1 DEF S
  <2> HIDE DEF Q
  <2>2. \A w \in Seq(U) : w \in Q
    BY <2>1, SeqInd
  <2> QED BY <2>2 DEF Q, S
<1> QED BY <1>5 DEF R, S

-----------------------------------------------------------------------------
(* Spelling. *)

\* What the contents of units are made of: bytes or scalars.
Letter == Int

\* The contents c gives the units of s, put one behind the other, are t.
Spells(c, s, t) ==
  \E f : /\ f[1] = t /\ f[Len(s) + 1] = << >>
         /\ \A i \in 1..Len(s) + 1 : f[i] \in Seq(Letter)
         /\ \A i \in 1..Len(s) : f[i] = c[s[i]] \o f[i + 1]

\* t is the content of x and a spelling of r.
Starts(c, x, r, t) == \E u \in Seq(Letter) : Spells(c, r, u) /\ t = c[x] \o u

\* The empty word spells nothing.
LEMMA SpellsNone ==
  ASSUME NEW c
  PROVE  /\ Spells(c, << >>, << >>)
         /\ \A t : Spells(c, << >>, t) => t = << >>
<1>1. Len(<< >>) = 0 /\ << >> \in Seq(Letter)
  OBVIOUS
<1>2. Spells(c, << >>, << >>)
  <2> DEFINE f == [i \in {1} |-> << >>]
  <2>1. f[1] = << >>
    OBVIOUS
  <2> HIDE DEF f
  <2>2. \A i \in 1..1 : f[i] \in Seq(Letter)
    <3>1. \A i \in 1..1 : i = 1
      OBVIOUS
    <3> QED BY <1>1, <2>1, <3>1
  <2> QED BY <1>1, <2>1, <2>2 DEF Spells
<1>3. \A t : Spells(c, << >>, t) => t = << >>
  BY <1>1 DEF Spells
<1> QED BY <1>2, <1>3

\* A unit in front spells its content first.
LEMMA SpellsRest ==
  ASSUME NEW U, NEW c
  PROVE  \A x \in U, r \in Seq(U) : \A t : Spells(c, Onto(x, r), t) => Starts(c, x, r, t)
<1> SUFFICES ASSUME NEW x \in U, NEW r \in Seq(U), NEW t, Spells(c, Onto(x, r), t)
             PROVE  \E u \in Seq(Letter) : Spells(c, r, u) /\ t = c[x] \o u
  BY DEF Starts
<1> DEFINE s == Onto(x, r)
<1>1. /\ Len(s) = Len(r) + 1 /\ Len(r) \in Nat /\ s[1] = x
      /\ \A i \in 1..Len(r) : s[i + 1] = r[i]
  BY ConsFacts DEF Onto
<1>2. Spells(c, s, t)
  OBVIOUS
<1> HIDE DEF s
<1>3. PICK f : /\ f[1] = t /\ f[Len(s) + 1] = << >>
               /\ \A i \in 1..Len(s) + 1 : f[i] \in Seq(Letter)
               /\ \A i \in 1..Len(s) : f[i] = c[s[i]] \o f[i + 1]
  BY <1>2 DEF Spells
<1> DEFINE g == [i \in 1..Len(r) + 1 |-> f[i + 1]]
<1>4. \A i \in 1..Len(r) + 1 : g[i] = f[i + 1]
  OBVIOUS
<1> HIDE DEF g
<1>5. g[1] = f[2] /\ g[Len(r) + 1] = << >>
  BY <1>1, <1>3, <1>4
<1>6. \A i \in 1..Len(r) + 1 : g[i] \in Seq(Letter)
  BY <1>1, <1>3, <1>4
<1>7. ASSUME NEW i \in 1..Len(r)
      PROVE  g[i] = c[r[i]] \o g[i + 1]
  <2>1. i + 1 \in 1..Len(s) /\ i \in 1..Len(r) + 1 /\ i + 1 \in 1..Len(r) + 1
    BY <1>1
  <2>2. f[i + 1] = c[s[i + 1]] \o f[(i + 1) + 1]
    BY <1>3, <2>1
  <2>3. s[i + 1] = r[i]
    BY <1>1
  <2> QED BY <1>4, <2>1, <2>2, <2>3
<1>8. Spells(c, r, f[2])
  BY <1>5, <1>6, <1>7 DEF Spells
<1>9. f[1] = c[s[1]] \o f[2] /\ f[2] \in Seq(Letter)
  <2>1. 1 \in 1..Len(s) /\ 2 \in 1..Len(s) + 1 /\ 1 + 1 = 2
    BY <1>1
  <2> QED BY <1>3, <2>1
<1> QED BY <1>1, <1>3, <1>8, <1>9

\* ... and the rest behind it.
LEMMA SpellsCons ==
  ASSUME NEW U, NEW x \in U, NEW r \in Seq(U), NEW c, NEW u \in Seq(Letter), c[x] \in Seq(Letter),
         Spells(c, r, u)
  PROVE  Spells(c, Onto(x, r), c[x] \o u) /\ c[x] \o u \in Seq(Letter)
<1> DEFINE s == Onto(x, r)
           t == c[x] \o u
<1>0. t \in Seq(Letter)
  BY ConcatProperties
<1>1. /\ Len(s) = Len(r) + 1 /\ Len(r) \in Nat /\ s[1] = x
      /\ \A i \in 1..Len(r) : s[i + 1] = r[i]
  BY ConsFacts DEF Onto
<1>2. PICK g : /\ g[1] = u /\ g[Len(r) + 1] = << >>
               /\ \A i \in 1..Len(r) + 1 : g[i] \in Seq(Letter)
               /\ \A i \in 1..Len(r) : g[i] = c[r[i]] \o g[i + 1]
  BY DEF Spells
<1>3. t = c[x] \o g[1]
  BY <1>2
<1> HIDE DEF s, t
<1> DEFINE f == [i \in 1..Len(r) + 2 |-> IF i = 1 THEN t ELSE g[i - 1]]
<1>4. f[1] = t /\ \A i \in 1..Len(r) + 1 : f[i + 1] = g[i]
  <2>1. 1 \in 1..Len(r) + 2
    BY <1>1
  <2>2. f[1] = t
    BY <2>1
  <2>3. ASSUME NEW i \in 1..Len(r) + 1
        PROVE  f[i + 1] = g[i]
    <3>1. i + 1 \in 1..Len(r) + 2 /\ i + 1 # 1 /\ (i + 1) - 1 = i
      BY <1>1
    <3> QED BY <3>1
  <2> QED BY <2>2, <2>3
<1> HIDE DEF f
<1>5. f[Len(s) + 1] = << >>
  <2>1. Len(r) + 1 \in 1..Len(r) + 1 /\ Len(s) + 1 = (Len(r) + 1) + 1
    BY <1>1
  <2> QED BY <1>2, <1>4, <2>1
<1>6. ASSUME NEW i \in 1..Len(s) + 1
      PROVE  f[i] \in Seq(Letter)
  <2>1. CASE i = 1
    BY <1>0, <1>4, <2>1
  <2>2. CASE i # 1
    <3>1. i - 1 \in 1..Len(r) + 1 /\ (i - 1) + 1 = i
      BY <1>1, <2>2
    <3> QED BY <1>2, <1>4, <3>1
  <2> QED BY <2>1, <2>2
<1>7. ASSUME NEW i \in 1..Len(s)
      PROVE  f[i] = c[s[i]] \o f[i + 1]
  <2>1. CASE i = 1
    <3>1. 1 \in 1..Len(r) + 1
      BY <1>1
    <3>2. f[1 + 1] = g[1]
      BY <1>4, <3>1
    <3> QED BY <1>1, <1>3, <1>4, <2>1, <3>2
  <2>2. CASE i # 1
    <3> DEFINE j == i - 1
    <3>1. j \in 1..Len(r) /\ j \in 1..Len(r) + 1 /\ j + 1 \in 1..Len(r) + 1 /\ j + 1 = i
      BY <1>1, <2>2
    <3> HIDE DEF j
    <3>2. f[j + 1] = g[j] /\ f[(j + 1) + 1] = g[j + 1] /\ s[j + 1] = r[j]
      BY <1>1, <1>4, <3>1
    <3>3. g[j] = c[r[j]] \o g[j + 1]
      BY <1>2, <3>1
    <3> QED BY <3>1, <3>2, <3>3
  <2> QED BY <2>1, <2>2
<1>8. Spells(c, s, t)
  BY <1>4, <1>5, <1>6, <1>7 DEF Spells
<1> QED BY <1>0, <1>8 DEF s, t

\* A word of one unit spells the content of the unit.
LEMMA SpellsOne ==
  ASSUME NEW c, NEW x, c[x] \in Seq(Letter)
  PROVE  Spells(c, Onto(x, << >>), c[x])
<1>1. Spells(c, << >>, << >>) /\ << >> \in Seq({x}) /\ << >> \in Seq(Letter) /\ x \in {x}
  BY SpellsNone
<1>2. Spells(c, Onto(x, << >>), c[x] \o << >>)
  BY <1>1, SpellsCons
<1>3. c[x] \o << >> = c[x]
  BY ConcatEmptySeq
<1> QED BY <1>2, <1>3

\* The contents c of the units, and target spelled like the pair tp: what is
\* left of a word after a replacement spells what the word spells.
LEMMA ReplacedSpells ==
  ASSUME NEW T, NEW a \in T, NEW b \in T, NEW target, NEW c, NEW d,
         \A x \in T : c[x] \in Seq(Letter) /\ d[x] = c[x],
         d[target] = c[a] \o c[b]
  PROVE  \A r \in Seq(T) : \A t : Spells(d, Replaced(r, <<a, b>>, target), t) => Spells(c, r, t)
<1> DEFINE U == T \cup {target}
           tp == <<a, b>>
           S == Seq(T)
           R(w) == Replaced(w, tp, target)
           Same(w) == \A t : Spells(d, R(w), t) => Spells(c, w, t)
           Q == {w \in S : Same(w)}
<1>0. target \in U /\ T \subseteq U /\ S \subseteq Seq(U)
  OBVIOUS
<1>1. /\ R(<< >>) = << >>
      /\ \A p \in T : R(Onto(p, << >>)) = Onto(p, << >>)
      /\ \A u \in S : R(u) \in Seq(U)
      /\ \A p, q \in T, u \in S :
           R(Onto(p, Onto(q, u))) = IF <<p, q>> = tp THEN Onto(target, R(u))
                                                     ELSE Onto(p, R(Onto(q, u)))
  <2> HIDE DEF U, S, tp
  <2>1. R(<< >>) = << >>
    BY <1>0, ReplacedNone
  <2>2. \A p \in U : R(Onto(p, << >>)) = Onto(p, << >>)
    BY <1>0, ReplacedOne
  <2>3. \A u \in Seq(U) : R(u) \in Seq(U)
    BY <1>0, ReplacedType
  <2>4. \A p, q \in U, u \in Seq(U) :
          R(Onto(p, Onto(q, u))) = IF <<p, q>> = tp THEN Onto(target, R(u))
                                                    ELSE Onto(p, R(Onto(q, u)))
    <3> TAKE p, q \in U, u \in Seq(U)
    <3> QED BY <1>0, ReplacedTwo
  <2> HIDE DEF R
  <2> QED BY <1>0, <2>1, <2>2, <2>3, <2>4
<1>2. \A w \in S : \/ w = << >>
                   \/ \E p \in T : w = Onto(p, << >>)
                   \/ \E p, q \in T, t \in S :
                        w = Onto(p, Onto(q, t)) /\ Len(t) < Len(w) /\ Len(Onto(q, t)) < Len(w)
  BY WordCases, Zenon
<1>3. \A p \in T, u \in S : Onto(p, u) \in S
  BY ConsAlgebra, Zenon
<1>4. \A p \in U, r \in Seq(U) : \A t : Spells(d, Onto(p, r), t) => Starts(d, p, r, t)
  BY ONLY SpellsRest
<1>5. \A p, q, z \in Seq(Letter) : (p \o q) \o z = p \o (q \o z)
  BY ONLY ConcatAssociative
<1>6. ASSUME NEW w \in S, \A t \in S : Len(t) < Len(w) => Same(t)
      PROVE  Same(w)
  <2> SUFFICES ASSUME NEW t, Spells(d, R(w), t)
               PROVE  Spells(c, w, t)
    OBVIOUS
  <2>0. \A r \in S : Len(r) < Len(w) => \A z : Spells(d, R(r), z) => Spells(c, r, z)
    BY <1>6
  <2> HIDE DEF R, S, U, tp, Same
  <2>1. CASE w = << >>
    <3>1. t = << >>
      BY <1>1, <2>1, SpellsNone
    <3> QED BY <2>1, <3>1, SpellsNone
  <2>2. ASSUME NEW p \in T, w = Onto(p, << >>)
        PROVE  Spells(c, w, t)
    <3>0. << >> \in Seq(U) /\ p \in U /\ Spells(d, Onto(p, << >>), t)
      BY <1>0, <1>1, <2>2
    <3>1. PICK u \in Seq(Letter) : Spells(d, << >>, u) /\ t = d[p] \o u
      <4>1. Starts(d, p, << >>, t)
        BY <1>4, <3>0
      <4> QED BY <4>1, Zenon DEF Starts
    <3>2. u = << >>
      BY <3>1, SpellsNone
    <3>3. t = c[p]
      <4>1. c[p] \o << >> = c[p]
        BY ConcatEmptySeq
      <4> QED BY <3>1, <3>2, <4>1
    <3> QED BY <2>2, <3>3, SpellsOne
  <2>3. ASSUME NEW p \in T, NEW q \in T, NEW u \in S, w = Onto(p, Onto(q, u)),
               Len(u) < Len(w), Len(Onto(q, u)) < Len(w)
        PROVE  Spells(c, w, t)
    <3>0. u \in Seq(T) /\ Onto(q, u) \in S /\ Onto(q, u) \in Seq(T)
      BY <1>3 DEF S
    <3>1. R(u) \in Seq(U) /\ R(Onto(q, u)) \in Seq(U)
      BY <1>1, <3>0
    <3>2. c[p] \in Seq(Letter) /\ c[q] \in Seq(Letter) /\ p \in U
      BY <1>0
    <3>3. CASE <<p, q>> = tp
      <4>1. p = a /\ q = b
        BY <3>3 DEF tp
      <4>2. Spells(d, Onto(target, R(u)), t)
        BY <1>1, <2>3, <3>3
      <4>3. PICK z \in Seq(Letter) : Spells(d, R(u), z) /\ t = d[target] \o z
        <5>1. Starts(d, target, R(u), t)
          BY <1>0, <1>4, <3>1, <4>2
        <5> QED BY <5>1, Zenon DEF Starts
      <4>4. Spells(c, u, z)
        BY <2>0, <2>3, <4>3
      <4>5. Spells(c, Onto(q, u), c[q] \o z) /\ c[q] \o z \in Seq(Letter)
        BY <3>0, <3>2, <4>4, SpellsCons
      <4>6. Spells(c, Onto(p, Onto(q, u)), c[p] \o (c[q] \o z))
        BY <3>0, <3>2, <4>5, SpellsCons
      <4>7. (c[p] \o c[q]) \o z = c[p] \o (c[q] \o z)
        BY <1>5, <3>2, Zenon
      <4>8. d[target] = c[p] \o c[q]
        BY <4>1
      <4>9. t = c[p] \o (c[q] \o z)
        BY <4>3, <4>7, <4>8, Zenon
      <4> QED BY <2>3, <4>6, <4>9, Zenon
    <3>4. CASE <<p, q>> # tp
      <4>1. Spells(d, Onto(p, R(Onto(q, u))), t)
        BY <1>1, <2>3, <3>4
      <4>2. PICK z \in Seq(Letter) : Spells(d, R(Onto(q, u)), z) /\ t = d[p] \o z
        <5>1. Starts(d, p, R(Onto(q, u)), t)
          BY <1>4, <3>1, <3>2, <4>1
        <5> QED BY <5>1, Zenon DEF Starts
      <4>3. Spells(c, Onto(q, u), z)
        BY <2>0, <2>3, <3>0, <4>2
      <4>4. Spells(c, Onto(p, Onto(q, u)), c[p] \o z)
        BY <3>0, <3>2, <4>3, SpellsCons
      <4>5. d[p] = c[p]
        OBVIOUS
      <4> QED BY <2>3, <4>2, <4>4, <4>5, Zenon
    <3> QED BY <3>3, <3>4
  <2> QED BY <1>2, <2>1, <2>2, <2>3
<1>7. \A w \in S : Same(w)
  <2> HIDE DEF Same, R
  <2>1. ASSUME NEW w \in Seq(T), \A t \in Seq(T) : Len(t) < Len(w) => t \in Q
        PROVE  w \in Q
    BY <1>6, <2>1 DEF S
  <2> HIDE DEF Q
  <2>2. \A w \in Seq(T) : w \in Q
    BY <2>1, SeqInd
  <2> QED BY <2>2 DEF Q, S
<1> QED BY <1>7 DEF R, S, tp

\* Over units of one element each, and each of another one, a spelling is the
\* spelling of one word.
LEMMA LettersSpell ==
  ASSUME NEW T, NEW c, \A x \in T : c[x] \in Seq(Letter) /\ Len(c[x]) = 1,
         \A x, y \in T : c[x] = c[y] => x = y
  PROVE  \A s \in Seq(T) : \A r \in Seq(T) : \A t : Spells(c, s, t) /\ Spells(c, r, t) => s = r
<1> DEFINE S == Seq(T)
           One(s) == \A r \in S : \A t : Spells(c, s, t) /\ Spells(c, r, t) => s = r
           Q == {s \in S : One(s)}
<1>1. \A s \in S : s # << >> => \E x \in T, u \in S : s = Onto(x, u) /\ Len(u) < Len(s)
  <2> TAKE s \in S
  <2> HAVE s # << >>
  <2>1. s[1] \in T /\ Tail(s) \in S /\ s = <<s[1]>> \o Tail(s) /\ Len(s) = Len(Tail(s)) + 1
    BY SeqCons
  <2>2. Len(Tail(s)) \in Nat
    BY <2>1
  <2>3. s = Onto(s[1], Tail(s)) /\ Len(Tail(s)) < Len(s)
    BY <2>1, <2>2 DEF Onto
  <2> QED BY <2>1, <2>3, Zenon
<1>2. ASSUME NEW x \in T, NEW u \in Seq(Letter)
      PROVE  /\ c[x] \o u # << >>
             /\ \A y \in T, v \in Seq(Letter) : c[x] \o u = c[y] \o v => x = y /\ u = v
  <2>1. \A y \in T : c[y][1] \in Letter /\ c[y] = <<c[y][1]>>
    OBVIOUS
  <2> DEFINE e(y) == c[y][1]
  <2>2. \A y \in T, v \in Seq(Letter) : c[y] \o v = <<e(y)>> \o v /\ e(y) \in Letter
    BY <2>1
  <2>3. \A y \in T : c[y] = <<e(y)>>
    BY <2>1
  <2> HIDE DEF e
  <2>4. <<e(x)>> \o u # << >>
    <3>1. Len(<<e(x)>> \o u) = Len(u) + 1 /\ Len(u) \in Nat
      BY <2>2, ConsFacts
    <3> QED BY <3>1
  <2>5. ASSUME NEW y \in T, NEW v \in Seq(Letter), <<e(x)>> \o u = <<e(y)>> \o v
        PROVE  x = y /\ u = v
    <3>1. e(x) \in Letter /\ e(y) \in Letter
      BY <2>2
    <3>2. e(x) = e(y) /\ u = v
      <4>1. \A p, q \in Letter, a, b \in Seq(Letter) : <<p>> \o a = <<q>> \o b => p = q /\ a = b
        BY ONLY ConsEqual
      <4> QED BY ONLY <2>5, <3>1, <4>1
    <3>3. c[x] = c[y]
      BY <2>3, <3>2
    <3> QED BY <3>2, <3>3
  <2> QED BY <2>2, <2>4, <2>5
<1>3. ASSUME NEW s \in S, \A t \in S : Len(t) < Len(s) => One(t)
      PROVE  One(s)
  <2> SUFFICES ASSUME NEW r \in S, NEW t, Spells(c, s, t), Spells(c, r, t)
               PROVE  s = r
    OBVIOUS
  <2>0. \A z \in S : Len(z) < Len(s) =>
          \A y \in S : \A v : Spells(c, z, v) /\ Spells(c, y, v) => z = y
    BY <1>3
  <2> HIDE DEF One
  <2>1. \A z \in S : z # << >> /\ Spells(c, z, t) =>
          \E x \in T, u \in S, v \in Seq(Letter) :
            z = Onto(x, u) /\ Len(u) < Len(z) /\ Spells(c, u, v) /\ t = c[x] \o v
    <3> TAKE z \in S
    <3> HAVE z # << >> /\ Spells(c, z, t)
    <3>1. PICK x \in T, u \in S : z = Onto(x, u) /\ Len(u) < Len(z)
      BY <1>1
    <3>2. PICK v \in Seq(Letter) : Spells(c, u, v) /\ t = c[x] \o v
      <4>1. \A p \in T, q \in Seq(T) : \A k : Spells(c, Onto(p, q), k) => Starts(c, p, q, k)
        BY ONLY SpellsRest
      <4>2. Starts(c, x, u, t)
        BY <3>1, <4>1
      <4> QED BY <4>2, Zenon DEF Starts
    <3> QED BY <3>1, <3>2
  <2>2. \A z \in S : z # << >> /\ Spells(c, z, t) => t # << >>
    <3> TAKE z \in S
    <3> HAVE z # << >> /\ Spells(c, z, t)
    <3>1. PICK x \in T, u \in S, v \in Seq(Letter) :
            z = Onto(x, u) /\ Len(u) < Len(z) /\ Spells(c, u, v) /\ t = c[x] \o v
      BY <2>1
    <3>2. c[x] \o v # << >>
      BY <1>2
    <3> QED BY <3>1, <3>2
  <2>3. Spells(c, << >>, t) => t = << >>
    BY SpellsNone
  <2>4. t = << >> => s = r
    BY <2>2
  <2>5. ASSUME t # << >>
        PROVE  s = r
    <3>1. s # << >> /\ r # << >>
      BY <2>3, <2>5
    <3>2. PICK x \in T, u \in S, v \in Seq(Letter) :
            s = Onto(x, u) /\ Len(u) < Len(s) /\ Spells(c, u, v) /\ t = c[x] \o v
      BY <2>1, <3>1
    <3>3. PICK y \in T, p \in S, q \in Seq(Letter) :
            r = Onto(y, p) /\ Len(p) < Len(r) /\ Spells(c, p, q) /\ t = c[y] \o q
      BY <2>1, <3>1
    <3>4. x = y /\ v = q
      <4>1. c[x] \o v = c[y] \o q
        BY <3>2, <3>3
      <4>2. \A g \in T, k \in Seq(Letter) : c[x] \o v = c[g] \o k => x = g /\ v = k
        BY <1>2
      <4> QED BY ONLY <4>1, <4>2, y \in T, q \in Seq(Letter)
    <3>5. u = p
      BY <2>0, <3>2, <3>3, <3>4
    <3> QED BY <3>2, <3>3, <3>4, <3>5
  <2> QED BY <2>4, <2>5
<1>4. \A s \in S : One(s)
  <2> HIDE DEF One
  <2>1. ASSUME NEW s \in Seq(T), \A t \in Seq(T) : Len(t) < Len(s) => t \in Q
        PROVE  s \in Q
    BY <1>3, <2>1 DEF S
  <2> HIDE DEF Q
  <2>2. \A s \in Seq(T) : s \in Q
    BY <2>1, SeqInd
  <2> QED BY <2>2 DEF Q, S
<1> QED BY <1>4 DEF S

-----------------------------------------------------------------------------
(* An inventory whose segments are told apart by their spelling. *)

SpelledApart(U, ws, c) ==
  \A i, j \in DOMAIN ws : \A s, r :
    Segment(U, s, ws[i].idxs) /\ Segment(U, r, ws[j].idxs) =>
      \A t : Spells(c, s, t) /\ Spells(c, r, t) => s = r

\* The parts of a word are made of its units.
LEMMA Parts ==
  ASSUME NEW T, NEW U, NEW a \in Seq(U), NEW b \in Seq(U), Cat(a, b) \in Seq(T)
  PROVE  a \in Seq(T) /\ b \in Seq(T)
<1> DEFINE w == a \o b
<1>1. /\ w \in Seq(U) /\ Len(w) = Len(a) + Len(b) /\ Len(a) \in Nat /\ Len(b) \in Nat
      /\ \A i \in 1..Len(a) + Len(b) : w[i] = IF i <= Len(a) THEN a[i] ELSE b[i - Len(a)]
  BY ConcatProperties
<1>2. w \in Seq(T)
  BY DEF Cat
<1> HIDE DEF w
<1>3. \A i \in 1..Len(w) : w[i] \in T
  BY <1>2
<1>4. \A i \in 1..Len(a) : a[i] \in T
  BY <1>1, <1>3
<1>5. ASSUME NEW i \in 1..Len(b)
      PROVE  b[i] \in T
  <2>1. i + Len(a) \in 1..Len(w) /\ ~(i + Len(a) <= Len(a)) /\ (i + Len(a)) - Len(a) = i
    BY <1>1
  <2> QED BY <1>1, <1>3, <2>1
<1>6. a \in Seq(T)
  BY <1>4
<1>7. b \in Seq(T)
  BY <1>5
<1> QED BY <1>6, <1>7

\* So are its segments.
LEMMA SegmentParts ==
  ASSUME NEW T, NEW U, NEW s, NEW w \in Seq(T), Segment(U, s, w)
  PROVE  s \in Seq(T)
<1>1. PICK a, b \in Seq(U) : w = Cat(a, Cat(s, b))
  BY DEF Segment
<1>2. s \in Seq(U) /\ Cat(s, b) \in Seq(U)
  BY ConcatProperties DEF Segment, Cat
<1>3. Cat(s, b) \in Seq(T)
  BY <1>1, <1>2, Parts
<1> QED BY <1>2, <1>3, Parts

\* A unit of a word is a segment of it.
LEMMA UnitSegment ==
  ASSUME NEW U, NEW w \in Seq(U), NEW x \in Elements(w)
  PROVE  Segment(U, Onto(x, << >>), w)
<1>1. PICK i \in DOMAIN w : x = w[i]
  BY DEF Elements
<1> DEFINE a == SubSeq(w, 1, i - 1)
           b == SubSeq(w, i + 1, Len(w))
           s == Onto(x, << >>)
<1>2. i \in 1..Len(w) /\ Len(w) \in Nat /\ x \in U
  BY <1>1
<1>3. SubSeq(w, i, Len(w)) = <<x>> \o b /\ b \in Seq(U)
  BY <1>1, <1>2, Unread
<1>4. w = a \o SubSeq(w, i, Len(w)) /\ a \in Seq(U)
  <2>1. SubSeq(w, 1, i - 1) \o SubSeq(w, (i - 1) + 1, Len(w)) = SubSeq(w, 1, Len(w))
    <3>1. 1 \in 1..Len(w) + 1 /\ i - 1 \in 1 - 1..Len(w) /\ Len(w) \in i - 1..Len(w)
      BY <1>2
    <3> QED BY <3>1, ConcatAdjacentSubSeq
  <2>2. (i - 1) + 1 = i
    BY <1>2
  <2>3. \A k \in 1..i - 1 : w[k] \in U
    BY <1>2
  <2>4. a \in Seq(U)
    BY <1>2, <2>3, SubSeqProperties
  <2> QED BY <2>1, <2>2, <2>4, SubSeqFull
<1>5. s = <<x>> /\ s \in Seq(U)
  BY <1>2, ConcatEmptySeq DEF Onto
<1> HIDE DEF a, b, s
<1>6. w = a \o (s \o b)
  BY <1>3, <1>4, <1>5
<1>7. w = Cat(a, Cat(s, b))
  BY <1>6, Zenon DEF Cat
<1> QED BY <1>3, <1>4, <1>5, <1>7 DEF Segment, s

\* A segment of what a replacement leaves of a word is what it leaves of a
\* segment of the word.
LEMMA ReplacedSegment ==
  ASSUME NEW T, NEW U, T \subseteq U, NEW tp, NEW target \in U, NEW w \in Seq(T), NEW s,
         Segment(U, s, Replaced(w, tp, target))
  PROVE  \E u \in Seq(T) : Segment(U, u, w) /\ Replaced(u, tp, target) = s
<1>1. w \in Seq(U)
  OBVIOUS
<1>2. PICK a, b \in Seq(U) : Replaced(w, tp, target) = Cat(a, Cat(s, b))
  BY DEF Segment
<1>3. s \in Seq(U) /\ Cat(s, b) \in Seq(U)
  BY ConcatProperties DEF Segment, Cat
<1>4. PICK p, q \in Seq(U) : w = Cat(p, q) /\ Replaced(q, tp, target) = Cat(s, b)
  <2>1. \A v, x, z \in Seq(U) :
          Replaced(v, tp, target) = Cat(x, z) =>
            \E f, g \in Seq(U) : v = Cat(f, g) /\ Replaced(g, tp, target) = z
    BY ReplacedSuffix
  <2> QED BY <1>1, <1>2, <1>3, <2>1
<1>5. PICK u, v \in Seq(U) : q = Cat(u, v) /\ Replaced(u, tp, target) = s
  <2>1. \A k, x, z \in Seq(U) :
          Replaced(k, tp, target) = Cat(x, z) =>
            \E f, g \in Seq(U) : k = Cat(f, g) /\ Replaced(f, tp, target) = x
    BY ReplacedPrefix
  <2> QED BY <1>3, <1>4, <2>1
<1>6. Segment(U, u, w)
  BY <1>4, <1>5 DEF Segment
<1>7. u \in Seq(T)
  BY <1>6, SegmentParts
<1> QED BY <1>5, <1>6, <1>7

\* Words of single letters are told apart by their spelling.
LEMMA ApartAtFirst ==
  ASSUME NEW T, NEW U, NEW ws, \A i \in DOMAIN ws : ws[i].idxs \in Seq(T),
         NEW c, \A x \in T : c[x] \in Seq(Letter) /\ Len(c[x]) = 1,
         \A x, y \in T : c[x] = c[y] => x = y
  PROVE  SpelledApart(U, ws, c)
<1> SUFFICES ASSUME NEW i \in DOMAIN ws, NEW j \in DOMAIN ws, NEW s, NEW r,
                    Segment(U, s, ws[i].idxs), Segment(U, r, ws[j].idxs),
                    NEW t, Spells(c, s, t), Spells(c, r, t)
             PROVE  s = r
  BY DEF SpelledApart
<1>1. ws[i].idxs \in Seq(T) /\ ws[j].idxs \in Seq(T)
  OBVIOUS
<1>2. s \in Seq(T) /\ r \in Seq(T)
  BY <1>1, SegmentParts
<1>3. \A a, b \in Seq(T) : \A k : Spells(c, a, k) /\ Spells(c, b, k) => a = b
  BY LettersSpell
<1> QED BY <1>2, <1>3

\* vs are the words of ws with target for the pair <<a, b>>, spelled like it.
Respelled(T, U, a, b, target, c, d, ws, vs) ==
  /\ T \subseteq U /\ a \in T /\ b \in T /\ target \in U
  /\ \A x \in T : c[x] \in Seq(Letter) /\ d[x] = c[x]
  /\ d[target] = c[a] \o c[b]
  /\ DOMAIN vs = DOMAIN ws
  /\ \A i \in DOMAIN ws : /\ ws[i].idxs \in Seq(T)
                           /\ vs[i].idxs = Replaced(ws[i].idxs, <<a, b>>, target)

\* A merge keeps the words so.
LEMMA ApartAfterMerge ==
  ASSUME NEW T, NEW U, NEW a, NEW b, NEW target, NEW c, NEW d, NEW ws, NEW vs,
         Respelled(T, U, a, b, target, c, d, ws, vs), SpelledApart(U, ws, c)
  PROVE  SpelledApart(U, vs, d)
<1>0. /\ T \subseteq U /\ a \in T /\ b \in T /\ target \in U
      /\ \A x \in T : c[x] \in Seq(Letter) /\ d[x] = c[x]
      /\ d[target] = c[a] \o c[b]
      /\ DOMAIN vs = DOMAIN ws
      /\ \A i \in DOMAIN ws : /\ ws[i].idxs \in Seq(T)
                               /\ vs[i].idxs = Replaced(ws[i].idxs, <<a, b>>, target)
  BY Zenon DEF Respelled
<1> DEFINE tp == <<a, b>>
<1> SUFFICES ASSUME NEW i \in DOMAIN ws, NEW j \in DOMAIN ws, NEW s, NEW r,
                    Segment(U, s, vs[i].idxs), Segment(U, r, vs[j].idxs),
                    NEW t, Spells(d, s, t), Spells(d, r, t)
             PROVE  s = r
  BY <1>0 DEF SpelledApart
<1>1. \A u \in Seq(T) : \A k : Spells(d, Replaced(u, tp, target), k) => Spells(c, u, k)
  BY <1>0, ReplacedSpells
<1>2. /\ ws[i].idxs \in Seq(T) /\ vs[i].idxs = Replaced(ws[i].idxs, tp, target)
      /\ ws[j].idxs \in Seq(T) /\ vs[j].idxs = Replaced(ws[j].idxs, tp, target)
  BY <1>0
<1> HIDE DEF tp
<1>3. PICK u \in Seq(T) : Segment(U, u, ws[i].idxs) /\ Replaced(u, tp, target) = s
  <2>1. Segment(U, s, Replaced(ws[i].idxs, tp, target))
    BY <1>2
  <2> QED BY <1>0, <1>2, <2>1, ReplacedSegment
<1>4. PICK v \in Seq(T) : Segment(U, v, ws[j].idxs) /\ Replaced(v, tp, target) = r
  <2>1. Segment(U, r, Replaced(ws[j].idxs, tp, target))
    BY <1>2
  <2> QED BY <1>0, <1>2, <2>1, ReplacedSegment
<1>5. Spells(c, u, t) /\ Spells(c, v, t)
  BY <1>1, <1>3, <1>4
<1>6. u = v
  BY <1>3, <1>4, <1>5 DEF SpelledApart
<1> QED BY <1>3, <1>4, <1>6

\* What the contents of other units are does not matter.
LEMMA ApartAmongTokens ==
  ASSUME NEW T, NEW U, NEW c, NEW d, \A x \in T : d[x] = c[x],
         NEW ws, \A i \in DOMAIN ws : ws[i].idxs \in Seq(T),
         SpelledApart(U, ws, c)
  PROVE  SpelledApart(U, ws, d)
<1>1. ASSUME NEW s \in Seq(T), NEW t, Spells(d, s, t)
      PROVE  Spells(c, s, t)
  <2>1. \A i \in 1..Len(s) : d[s[i]] = c[s[i]]
    OBVIOUS
  <2>2. PICK f : /\ f[1] = t /\ f[Len(s) + 1] = << >>
                 /\ \A i \in 1..Len(s) + 1 : f[i] \in Seq(Letter)
                 /\ \A i \in 1..Len(s) : f[i] = d[s[i]] \o f[i + 1]
    BY <1>1 DEF Spells
  <2>3. \A i \in 1..Len(s) : f[i] = c[s[i]] \o f[i + 1]
    BY <2>1, <2>2
  <2> QED BY <2>2, <2>3 DEF Spells
<1> SUFFICES ASSUME NEW i \in DOMAIN ws, NEW j \in DOMAIN ws, NEW s, NEW r,
                    Segment(U, s, ws[i].idxs), Segment(U, r, ws[j].idxs),
                    NEW t, Spells(d, s, t), Spells(d, r, t)
             PROVE  s = r
  BY DEF SpelledApart
<1>2. s \in Seq(T) /\ r \in Seq(T)
  <2>1. ws[i].idxs \in Seq(T) /\ ws[j].idxs \in Seq(T)
    OBVIOUS
  <2> QED BY <2>1, SegmentParts
<1>3. Spells(c, s, t) /\ Spells(c, r, t)
  BY <1>1, <1>2
<1> QED BY <1>3 DEF SpelledApart

\* The units of such words have different contents.
LEMMA ApartUnits ==
  ASSUME NEW U, NEW ws, \A i \in DOMAIN ws : ws[i].idxs \in Seq(U),
         NEW c, SpelledApart(U, ws, c),
         NEW i \in DOMAIN ws, NEW j \in DOMAIN ws,
         NEW x \in Elements(ws[i].idxs), NEW y \in Elements(ws[j].idxs),
         c[x] \in Seq(Letter), c[x] = c[y]
  PROVE  x = y
<1> DEFINE s == Onto(x, << >>)
           r == Onto(y, << >>)
<1>1. Segment(U, s, ws[i].idxs) /\ Segment(U, r, ws[j].idxs)
  BY UnitSegment
<1>2. Spells(c, s, c[x]) /\ Spells(c, r, c[x])
  <2>1. c[y] \in Seq(Letter)
    OBVIOUS
  <2>2. Spells(c, s, c[x]) /\ Spells(c, r, c[y])
    BY <2>1, SpellsOne
  <2> QED BY <2>2
<1> HIDE DEF s, r
<1>3. s = r
  BY <1>1, <1>2 DEF SpelledApart
<1>4. s = <<x>> /\ r = <<y>>
  <2>1. <<x>> \o << >> = <<x>> /\ <<y>> \o << >> = <<y>>
    <3>1. <<x>> \in Seq({x, y}) /\ <<y>> \in Seq({x, y})
      OBVIOUS
    <3> QED BY <3>1, ConcatEmptySeq
  <2> QED BY <2>1 DEF s, r, Onto
<1>5. <<x>>[1] = x /\ <<y>>[1] = y
  OBVIOUS
<1> QED BY <1>3, <1>4, <1>5

-----------------------------------------------------------------------------
(* Cutting a sequence. *)

\* Where the piece that begins at the k-th cut ends.
PieceEnd(s, cuts, k) == IF k = Len(cuts) THEN Len(s) ELSE cuts[k + 1] - 1

PiecesAt(s, cuts) ==
  [k \in DOMAIN cuts |->
     SubSeq(s, cuts[k], IF k = Len(cuts) THEN Len(s) ELSE cuts[k + 1] - 1)]

\* A sequence is its pieces, put one behind the other.
LEMMA PiecesFlatten ==
  ASSUME NEW U, NEW s \in Seq(U), NEW cuts \in Seq(Int), Ascending(cuts), cuts # << >>,
         cuts[1] = 1, \A k \in 1..Len(cuts) : cuts[k] \in 1..Len(s)
  PROVE  PiecesAt(s, cuts) \in Seq(Seq(U)) /\ FlattenSeq(PiecesAt(s, cuts)) = s
<1> DEFINE n == Len(cuts)
           m == Len(s)
           E(k) == PieceEnd(s, cuts, k)
           P == PiecesAt(s, cuts)
           W == Seq(U)
<1>0. n \in Nat \ {0} /\ m \in Nat /\ DOMAIN cuts = 1..n /\ \A i \in 1..m : s[i] \in U
  OBVIOUS
<1>1. /\ E(n) = m
      /\ \A k \in 1..n : k # n => E(k) = cuts[k + 1] - 1 /\ k + 1 \in 1..n
  <2>1. E(n) = m /\ \A k \in 1..n : k # n => E(k) = cuts[k + 1] - 1
    BY DEF PieceEnd
  <2> HIDE DEF E, n
  <2>2. \A k \in 1..n : k # n => k + 1 \in 1..n
    BY <1>0
  <2> QED BY <2>1, <2>2
<1>2. \A k \in 1..n : E(k) \in cuts[k] - 1..m /\ E(k) \in 0..m /\ cuts[k] \in 1..m
  <2> TAKE k \in 1..n
  <2>1. k # n => cuts[k] < cuts[k + 1]
    BY <1>1 DEF Ascending
  <2>2. cuts[k] \in 1..m /\ (k # n => cuts[k + 1] \in 1..m)
    BY <1>1
  <2> HIDE DEF E, n, m
  <2> QED BY <1>0, <1>1, <2>1, <2>2
<1>3. P = [k \in 1..n |-> SubSeq(s, cuts[k], E(k))]
  BY <1>0 DEF PiecesAt, PieceEnd
<1> HIDE DEF E, n, m, P
<1>4. \A i, j \in Int : i >= 1 /\ j <= m => SubSeq(s, i, j) \in W
  <2> TAKE i, j \in Int
  <2> SUFFICES ASSUME i >= 1, j <= m PROVE SubSeq(s, i, j) \in W
    OBVIOUS
  <2>1. \A x \in i..j : s[x] \in U
    BY <1>0
  <2> QED BY <2>1, SubSeqProperties
<1>5. \A k \in 1..n : SubSeq(s, cuts[k], E(k)) \in W
  BY <1>0, <1>2, <1>4
<1> DEFINE Q(k) == [i \in 1..k |-> P[i]]
           N == {k \in Nat : k \in 1..n => Q(k) \in Seq(W) /\ FlattenSeq(Q(k)) = SubSeq(s, 1, E(k))}
<1>6. \A k \in 1..n : P[k] = SubSeq(s, cuts[k], E(k)) /\ P[k] \in W
  BY <1>3, <1>5
<1> HIDE DEF W
<1>7. 0 \in N
  OBVIOUS
<1>8. ASSUME NEW k \in N PROVE k + 1 \in N
  <2> SUFFICES ASSUME k + 1 \in 1..n
               PROVE  Q(k + 1) \in Seq(W) /\ FlattenSeq(Q(k + 1)) = SubSeq(s, 1, E(k + 1))
    OBVIOUS
  <2>1. Q(k) \in Seq(W) /\ Q(k + 1) \in Seq(W) /\ Q(k + 1) = Append(Q(k), P[k + 1])
    <3>1. ASSUME NEW j \in 1..n PROVE Q(j) \in Seq(W)
      <4>1. j \in Nat /\ \A i \in 1..j : P[i] \in W
        BY <1>0, <1>6
      <4> QED BY <4>1
    <3>2. k = 0 => Q(k) = << >>
      OBVIOUS
    <3>3. k # 0 => k \in 1..n
      BY <1>0
    <3>4. Q(k) \in Seq(W) /\ Len(Q(k)) = k
      <4>1. Q(k) \in Seq(W)
        BY <3>1, <3>2, <3>3
      <4> QED BY <4>1
    <3>5. Q(k + 1) = Append(Q(k), P[k + 1])
      BY <3>4
    <3> QED BY <3>1, <3>4, <3>5
  <2>2. FlattenSeq(Q(k + 1)) = FlattenSeq(Q(k)) \o SubSeq(s, cuts[k + 1], E(k + 1))
    <3>1. \A t \in W : FlattenSeq(Append(Q(k), t)) = FlattenSeq(Q(k)) \o t
      <4> HIDE DEF Q
      <4> QED BY <2>1, Flattened DEF W
    <3>2. P[k + 1] \in W
      BY <1>6
    <3> HIDE DEF Q
    <3> QED BY <1>6, <2>1, <3>1, <3>2
  <2> HIDE DEF Q
  <2>3. FlattenSeq(Q(k)) = SubSeq(s, 1, cuts[k + 1] - 1)
    <3>1. CASE k = 0
      <4>1. Q(k) = << >>
        BY <3>1 DEF Q
      <4>2. SubSeq(s, 1, 0) = << >> /\ cuts[k + 1] - 1 = 0
        BY <3>1, SubSeqEmpty
      <4> QED BY <4>1, <4>2, FlattenCat
    <3>2. CASE k # 0
      <4>1. k \in 1..n /\ k # n
        BY <1>0, <3>2
      <4>2. FlattenSeq(Q(k)) = SubSeq(s, 1, E(k)) /\ E(k) = cuts[k + 1] - 1
        BY <1>1, <4>1
      <4> QED BY <4>2
    <3> QED BY <3>1, <3>2
  <2>4. SubSeq(s, 1, cuts[k + 1] - 1) \o SubSeq(s, cuts[k + 1], E(k + 1)) = SubSeq(s, 1, E(k + 1))
    <3> DEFINE a == cuts[k + 1] - 1
    <3>1. /\ a \in 1 - 1..m /\ E(k + 1) \in a..m /\ cuts[k + 1] = a + 1
          /\ 1 \in 1..m + 1
      BY <1>0, <1>2
    <3> HIDE DEF a
    <3> QED BY <3>1, ConcatAdjacentSubSeq DEF a, m
  <2> QED BY <2>1, <2>2, <2>3, <2>4
<1>9. N = Nat
  <2>1. N \in SUBSET Nat
    OBVIOUS
  <2> HIDE DEF N
  <2> QED BY <1>7, <1>8, <2>1, NatInd
<1>10. n \in N /\ n \in 1..n
  <2>1. n \in 1..n
    BY <1>0
  <2> HIDE DEF N
  <2> QED BY <1>0, <1>9, <2>1
<1>11. Q(n) = P
  BY <1>3
<1>12. SubSeq(s, 1, m) = s
  BY SubSeqFull DEF m
<1> HIDE DEF Q
<1> QED BY <1>1, <1>10, <1>11, <1>12 DEF P, W

\* The same for the cuts of a set that holds the first position.
LEMMA CutsFlatten ==
  ASSUME NEW U, NEW s \in Seq(U), NEW S \in SUBSET (1..Len(s)), s = << >> \/ 1 \in S
  PROVE  /\ PiecesAt(s, InOrder(S)) \in Seq(Seq(U))
         /\ FlattenSeq(PiecesAt(s, InOrder(S))) = s
<1> DEFINE cuts == InOrder(S)
<1>0. Len(s) \in Nat /\ S \in SUBSET Int /\ IsFiniteSet(S)
  <2>1. Len(s) \in Nat
    OBVIOUS
  <2>2. IsFiniteSet(1..Len(s))
    BY <2>1, FS_Interval
  <2>3. IsFiniteSet(S)
    BY <2>2, FS_Subset
  <2> QED BY <2>1, <2>3
<1>1. cuts \in Seq(Int) /\ Ascending(cuts) /\ Elements(cuts) = S
  BY <1>0, Ordered
<1> HIDE DEF cuts
<1>2. Len(cuts) \in Nat /\ DOMAIN cuts = 1..Len(cuts) /\ \A k \in 1..Len(cuts) : cuts[k] \in S
  <2>1. Len(cuts) \in Nat /\ DOMAIN cuts = 1..Len(cuts)
    BY <1>1
  <2> QED BY <1>1, <2>1 DEF Elements
<1>3. CASE s = << >>
  <2>1. Len(s) = 0
    BY <1>3
  <2>2. Len(cuts) = 0
    <3>1. S = {}
      BY <2>1
    <3>2. 1 \in 1..Len(cuts) => FALSE
      BY <1>2, <3>1
    <3> QED BY <1>2, <3>2
  <2>3. PiecesAt(s, cuts) = << >>
    BY <1>2, <2>2 DEF PiecesAt
  <2>4. FlattenSeq(PiecesAt(s, cuts)) = << >>
    BY <2>3, FlattenCat
  <2>5. << >> \in Seq(Seq(U))
    OBVIOUS
  <2> QED BY <1>3, <2>3, <2>4, <2>5 DEF cuts
<1>4. CASE 1 \in S
  <2>1. PICK k \in 1..Len(cuts) : cuts[k] = 1
    BY <1>1, <1>2, <1>4 DEF Elements
  <2>2. 1 \in 1..Len(cuts) /\ cuts[1] \in 1..Len(s)
    <3>1. 1 \in 1..Len(cuts)
      BY <1>2, <2>1
    <3> QED BY <1>2, <3>1
  <2>3. k # 1 => cuts[1] < cuts[k]
    BY <1>1, <1>2, <2>1, <2>2 DEF Ascending
  <2>4. cuts[1] = 1
    BY <1>0, <2>1, <2>2, <2>3
  <2>5. cuts # << >> /\ \A j \in 1..Len(cuts) : cuts[j] \in 1..Len(s)
    <3>1. cuts = << >> => Len(cuts) = 0
      OBVIOUS
    <3>2. \A j \in 1..Len(cuts) : cuts[j] \in 1..Len(s)
      BY <1>2
    <3> QED BY <2>2, <3>1, <3>2
  <2>6. PiecesAt(s, cuts) \in Seq(Seq(U)) /\ FlattenSeq(PiecesAt(s, cuts)) = s
    BY <1>1, <2>4, <2>5, PiecesFlatten
  <2> QED BY <2>6 DEF cuts
<1> QED BY <1>3, <1>4, Zenon

\* A map that gives every unit alone changes nothing.
LEMMA MapSingles ==
  ASSUME NEW E, NEW h, \A x \in E : h[x] = <<x>>
  PROVE  \A s \in Seq(E) : Mapped(h, s) = s
<1> DEFINE Q == {s \in Seq(E) : Mapped(h, s) = s}
<1>0. Maps(h, E, E)
  <2>1. \A x \in E : <<x>> \in Seq(E)
    OBVIOUS
  <2> QED BY <2>1 DEF Maps
<1>1. /\ Mapped(h, << >>) = << >>
      /\ \A x \in E, s \in Seq(E) : Mapped(h, Onto(x, s)) = Cat(h[x], Mapped(h, s))
  BY <1>0, MapCat
<1>2. ASSUME NEW s \in Seq(E), \A t \in Seq(E) : Len(t) < Len(s) => t \in Q
      PROVE  s \in Q
  <2>1. CASE s = << >>
    BY <1>1, <2>1
  <2>2. ASSUME NEW x \in E, NEW t \in Seq(E), s = Onto(x, t), Len(t) < Len(s)
        PROVE  s \in Q
    <3>1. Mapped(h, t) = t
      BY <1>2, <2>2
    <3>2. Mapped(h, s) = Cat(<<x>>, t)
      BY <1>1, <2>2, <3>1
    <3> QED BY <2>2, <3>2 DEF Cat, Onto
  <2> QED BY <2>1, <2>2, OntoCases
<1> HIDE DEF Q
<1>3. \A s \in Seq(E) : s \in Q
  BY <1>2, SeqInd
<1> QED BY <1>3 DEF Q

\* Flattening takes the first sequence first.
LEMMA FlattenOnto ==
  ASSUME NEW U
  PROVE  \A s \in Seq(U), ss \in Seq(Seq(U)) : FlattenSeq(Onto(s, ss)) = Cat(s, FlattenSeq(ss))
<1> TAKE s \in Seq(U), ss \in Seq(Seq(U))
<1> DEFINE W == Seq(U)
<1>1. <<s>> \in Seq(W)
  OBVIOUS
<1>2. FlattenSeq(Cat(<<s>>, ss)) = Cat(FlattenSeq(<<s>>), FlattenSeq(ss))
  BY <1>1, FlattenCat
<1>3. FlattenSeq(<<s>>) = s
  BY FlattenOne
<1>4. Onto(s, ss) = Cat(<<s>>, ss)
  BY DEF Onto, Cat
<1> QED BY <1>2, <1>3, <1>4

\* The first unit and the others.
LEMMA HeadTailOnto ==
  ASSUME NEW U, NEW x \in U, NEW t \in Seq(U)
  PROVE  Head(Onto(x, t)) = x /\ Tail(Onto(x, t)) = t
<1> DEFINE s == <<x>> \o t
<1>1. s \in Seq(U) /\ Len(s) = Len(t) + 1 /\ Len(t) \in Nat /\ s[1] = x
      /\ \A i \in 1..Len(t) : s[i + 1] = t[i]
  BY ConsFacts
<1> HIDE DEF s
<1>2. Head(s) = x /\ Tail(s) \in Seq(U) /\ Len(Tail(s)) = Len(t)
      /\ \A i \in 1..Len(t) : Tail(s)[i] = t[i]
  BY <1>1
<1>3. Tail(s) = t
  BY <1>2, SeqEqual
<1> QED BY <1>2, <1>3 DEF s, Onto

\* A prefix of a sequence is empty, or begins with what that begins with.
LEMMA Pops ==
  ASSUME NEW U, NEW d \in Seq(U), NEW t \in Seq(U), NEW x \in U, NEW r \in Seq(U),
         Cat(d, t) = Onto(x, r)
  PROVE  d = << >> \/ \E e \in Seq(U) : d = Onto(x, e) /\ Cat(e, t) = r
<1> SUFFICES ASSUME d # << >> PROVE \E e \in Seq(U) : d = Onto(x, e) /\ Cat(e, t) = r
  OBVIOUS
<1>1. PICK y \in U, e \in Seq(U) : d = Onto(y, e)
  BY OntoCases
<1>2. Cat(e, t) \in Seq(U) /\ Cat(Onto(y, e), t) = Onto(y, Cat(e, t))
  BY ConsAlgebra
<1>3. Onto(y, Cat(e, t)) = Onto(x, r)
  BY <1>1, <1>2
<1>4. y = x /\ Cat(e, t) = r
  BY <1>2, <1>3, ConsAlgebra
<1> QED BY <1>1, <1>4

\* A tuple of five, one in front of the others.
LEMMA FiveOnto ==
  ASSUME NEW W, NEW a \in W, NEW b \in W, NEW c \in W, NEW d \in W, NEW e \in W
  PROVE  <<a, b, c, d, e>> = Onto(a, Onto(b, Onto(c, Onto(d, Onto(e, << >>)))))
<1>1. Onto(e, << >>) = <<e>> /\ <<e>> \in Seq(W)
  BY ConcatEmptySeq DEF Onto
<1>2. Onto(d, <<e>>) = <<d, e>> /\ <<d, e>> \in Seq(W)
  <2>1. \A i \in 1..2 : (<<d>> \o <<e>>)[i] = <<d, e>>[i]
    BY <1>1, ConsFacts
  <2>2. <<d>> \o <<e>> \in Seq(W) /\ Len(<<d>> \o <<e>>) = 2
    BY <1>1, ConsFacts
  <2>3. <<d, e>> \in Seq(W) /\ Len(<<d, e>>) = 2
    OBVIOUS
  <2> QED BY <2>1, <2>2, <2>3, SeqEqual DEF Onto
<1>3. Onto(c, <<d, e>>) = <<c, d, e>> /\ <<c, d, e>> \in Seq(W)
  <2>1. \A i \in 1..3 : (<<c>> \o <<d, e>>)[i] = <<c, d, e>>[i]
    BY <1>2, ConsFacts
  <2>2. <<c>> \o <<d, e>> \in Seq(W) /\ Len(<<c>> \o <<d, e>>) = 3
    BY <1>2, ConsFacts
  <2>3. <<c, d, e>> \in Seq(W) /\ Len(<<c, d, e>>) = 3
    OBVIOUS
  <2> QED BY <2>1, <2>2, <2>3, SeqEqual DEF Onto
<1>4. Onto(b, <<c, d, e>>) = <<b, c, d, e>> /\ <<b, c, d, e>> \in Seq(W)
  <2>1. \A i \in 1..4 : (<<b>> \o <<c, d, e>>)[i] = <<b, c, d, e>>[i]
    BY <1>3, ConsFacts
  <2>2. <<b>> \o <<c, d, e>> \in Seq(W) /\ Len(<<b>> \o <<c, d, e>>) = 4
    BY <1>3, ConsFacts
  <2>3. <<b, c, d, e>> \in Seq(W) /\ Len(<<b, c, d, e>>) = 4
    OBVIOUS
  <2> QED BY <2>1, <2>2, <2>3, SeqEqual DEF Onto
<1>5. Onto(a, <<b, c, d, e>>) = <<a, b, c, d, e>>
  <2>1. \A i \in 1..5 : (<<a>> \o <<b, c, d, e>>)[i] = <<a, b, c, d, e>>[i]
    BY <1>4, ConsFacts
  <2>2. <<a>> \o <<b, c, d, e>> \in Seq(W) /\ Len(<<a>> \o <<b, c, d, e>>) = 5
    BY <1>4, ConsFacts
  <2>3. <<a, b, c, d, e>> \in Seq(W) /\ Len(<<a, b, c, d, e>>) = 5
    OBVIOUS
  <2> QED BY <2>1, <2>2, <2>3, SeqEqual DEF Onto
<1> QED BY <1>1, <1>2, <1>3, <1>4, <1>5

=============================================================================
