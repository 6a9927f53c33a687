------------------------------- MODULE Induction -------------------------------
(***************************************************************************)
(* Induction over numbers, for a set of numbers instead of a predicate,    *)
(* and what follows from it for the folds that other modules use: a fold   *)
(* is a recursive function on the subsets of a finite set, and there is    *)
(* one that obeys its equation.                                            *)
(***************************************************************************)
EXTENDS Integers, FiniteSetsExt, FiniteSetTheorems, WellFoundedInduction, TLAPS

\* A set of numbers has a smallest one.
LEMMA SmallestNumber ==
  ASSUME NEW T, T \subseteq Nat, T # {}
  PROVE  \E x \in T : \A y \in T : x <= y
<1> DEFINE R == {ss \in Nat \X Nat : ss[1] < ss[2]}
<1>1. IsWellFoundedOn(R, Nat)
  BY NatLessThanWellFounded DEF OpToRel
<1>2. \A a, b \in Nat : a < b => <<a, b>> \in R
  <2> SUFFICES ASSUME NEW a \in Nat, NEW b \in Nat, a < b PROVE <<a, b>> \in R
    OBVIOUS
  <2> DEFINE p == <<a, b>>
  <2>1. p \in Nat \X Nat /\ p[1] = a /\ p[2] = b
    OBVIOUS
  <2> HIDE DEF p
  <2>2. p \in R
    BY <2>1
  <2> QED BY <2>2 DEF p
<1> HIDE DEF R
<1>3. PICK x \in T : \A y \in T : ~(<<y, x>> \in R)
  BY <1>1, WFMin
<1>4. \A y \in T : ~(y < x)
  BY <1>2, <1>3
<1> QED
  BY <1>4

\* A set of numbers that has the first, and with each number below n the next, has all up to n.
LEMMA UpTo ==
  ASSUME NEW T, NEW n \in Nat, 0 \in T, \A i \in 0 .. n - 1 : i \in T => i + 1 \in T
  PROVE  \A i \in 0 .. n : i \in T
<1> DEFINE Missing == {i \in 0 .. n : i \notin T}
<1> SUFFICES ASSUME Missing # {} PROVE FALSE
  OBVIOUS
<1>1. PICK x \in Missing : \A y \in Missing : x <= y
  <2>1. Missing \subseteq Nat
    OBVIOUS
  <2> HIDE DEF Missing
  <2> QED BY <2>1, SmallestNumber
<1>2. x - 1 \in 0 .. n - 1 /\ x - 1 \notin Missing
  BY <1>1
<1> QED
  BY <1>1, <1>2

\* A set of subsets that has the empty one, and each other one if it has it without some element, has all.
LEMMA AllSubsets ==
  ASSUME NEW S, IsFiniteSet(S), NEW T, {} \in T,
         \A s \in SUBSET S : s # {} => \E x \in s : s \ {x} \in T => s \in T
  PROVE  \A s \in SUBSET S : s \in T
<1> DEFINE N == Cardinality(S)
           All == {n \in 0 .. N : \A s \in SUBSET S : Cardinality(s) = n => s \in T}
<1>1. \A s \in SUBSET S : IsFiniteSet(s) /\ Cardinality(s) \in Nat /\ Cardinality(s) <= N
  BY FS_Subset, FS_CardinalityType
<1>2. N \in Nat
  BY <1>1
<1>3. 0 \in All
  <2>1. \A s \in SUBSET S : Cardinality(s) = 0 => s = {}
    BY <1>1, FS_EmptySet
  <2> HIDE DEF N
  <2> QED BY <1>2, <2>1
<1>4. ASSUME NEW n \in 0 .. N - 1, n \in All PROVE n + 1 \in All
  <2>a. n \in Nat
    BY <1>2
  <2>1. ASSUME NEW s \in SUBSET S, Cardinality(s) = n + 1 PROVE s \in T
    <3>1. s # {}
      <4>1. Cardinality({}) = 0
        BY FS_EmptySet
      <4> QED BY <2>a, <2>1, <4>1
    <3>2. PICK x \in s : s \ {x} \in T => s \in T
      BY <3>1
    <3>3. Cardinality(s \ {x}) = Cardinality(s) - 1
      BY <1>1, FS_RemoveElement
    <3>4. s \ {x} \in SUBSET S /\ Cardinality(s \ {x}) = n
      BY <2>a, <2>1, <3>3
    <3> QED BY <1>4, <3>2, <3>4
  <2> QED BY <1>2, <2>1
<1>5. \A n \in 0 .. N : n \in All
  <2> HIDE DEF All, N
  <2> QED BY <1>2, <1>3, <1>4, UpTo
<1> QED
  BY <1>1, <1>2, <1>5

\* A fold is a function on the subsets of S: it takes one element after the other out of them.
IsFold(iter, S, V, base, step, pick) ==
  /\ iter \in [SUBSET S -> V]
  /\ \A s \in SUBSET S : iter[s] = IF s = {} THEN base ELSE step[pick[s]][iter[s \ {pick[s]}]]

LEMMA FoldExists ==
  ASSUME NEW S, IsFiniteSet(S), NEW V, NEW base \in V,
         NEW pick, \A s \in SUBSET S : s # {} => pick[s] \in s,
         NEW step, \A x \in S, v \in V : step[x][v] \in V
  PROVE  \E iter : IsFold(iter, S, V, base, step, pick)
<1> DEFINE Small(n) == {s \in SUBSET S : Cardinality(s) <= n}
           Solves(iter, n) == /\ iter \in [Small(n) -> V]
                              /\ \A s \in Small(n) :
                                   iter[s] = IF s = {} THEN base ELSE step[pick[s]][iter[s \ {pick[s]}]]
           N == Cardinality(S)
           T == {n \in 0 .. N : \E iter : Solves(iter, n)}
<1>1. \A s \in SUBSET S : IsFiniteSet(s) /\ Cardinality(s) \in Nat /\ Cardinality(s) <= N
  BY FS_Subset, FS_CardinalityType
<1>2. N \in Nat
  BY <1>1
<1>3. \A s \in SUBSET S : s # {} => /\ s \ {pick[s]} \in SUBSET S
                                    /\ Cardinality(s \ {pick[s]}) = Cardinality(s) - 1
  BY <1>1, FS_RemoveElement
<1>4. 0 \in T
  <2>1. \A s \in SUBSET S : Cardinality(s) = 0 <=> s = {}
    BY <1>1, FS_EmptySet
  <2>2. Small(0) = {{}}
    BY <1>1, <2>1
  <2>3. Solves([s \in Small(0) |-> base], 0)
    BY <2>2
  <2> HIDE DEF Solves
  <2> QED BY <1>2, <2>3
<1>5. ASSUME NEW n \in 0 .. N - 1, n \in T PROVE n + 1 \in T
  <2>1. PICK iter : Solves(iter, n)
    BY <1>5
  <2>2. n \in Nat
    BY <1>2
  <2> DEFINE longer == [s \in Small(n + 1) |-> IF s = {} THEN base ELSE step[pick[s]][iter[s \ {pick[s]}]]]
  <2>3. \A s \in Small(n + 1) : s # {} => s \ {pick[s]} \in Small(n)
    BY <1>1, <1>3, <2>2
  <2>4. Small(n) \subseteq Small(n + 1)
    BY <1>1, <2>2
  <2>5. \A s \in Small(n) : longer[s] = iter[s]
    BY <2>1, <2>4
  <2>6. longer \in [Small(n + 1) -> V]
    BY <2>1, <2>3
  <2>7. \A s \in Small(n + 1) : longer[s] = IF s = {} THEN base ELSE step[pick[s]][longer[s \ {pick[s]}]]
    BY <2>3, <2>5
  <2>8. Solves(longer, n + 1)
    BY <2>6, <2>7
  <2> HIDE DEF Solves
  <2> QED BY <1>2, <2>8
<1>6. N \in T
  <2> HIDE DEF T, N
  <2> QED BY <1>2, <1>4, <1>5, UpTo
<1>7. PICK iter : Solves(iter, N)
  BY <1>6
<1>8. Small(N) = SUBSET S
  BY <1>1
<1>9. IsFold(iter, S, V, base, step, pick)
  BY <1>7, <1>8 DEF IsFold
<1> QED
  BY <1>9

\* The largest of the numbers up to i is i, and a set of numbers up to n has a largest one.
LEMMA LargestOfPrefix ==
  ASSUME NEW i \in Nat \ {0}
  PROVE  Max(1 .. i) = i /\ (1 .. i) \ {i} = 1 .. i - 1
<1>1. i \in 1 .. i /\ \A y \in 1 .. i : i >= y
  OBVIOUS
<1>2. \A x \in 1 .. i : (\A y \in 1 .. i : x >= y) => x = i
  BY <1>1
<1>3. Max(1 .. i) = i
  BY <1>1, <1>2 DEF Max
<1> QED
  BY <1>3

LEMMA LargestIsIn ==
  ASSUME NEW n \in Nat, NEW s \in SUBSET (1 .. n), s # {}
  PROVE  Max(s) \in s
<1> DEFINE T == {n - x : x \in s}
<1>1. T \subseteq Nat /\ T # {}
  <2>1. \A x \in s : n - x \in Nat
    OBVIOUS
  <2> QED BY <2>1
<1>2. PICK t \in T : \A u \in T : t <= u
  <2> HIDE DEF T
  <2> QED BY <1>1, SmallestNumber
<1>3. PICK x \in s : t = n - x
  OBVIOUS
<1>4. \A y \in s : n - x <= n - y
  BY <1>2, <1>3
<1>5. \A y \in s : x >= y
  BY <1>4
<1> QED
  BY <1>5 DEF Max

\* The equation that FoldLeft solves when it goes through n elements.
Largest(n) == [s \in SUBSET (1 .. n) |-> Max(s)]
LEMMA LeftFoldExists ==
  ASSUME NEW n \in Nat, NEW V, NEW base \in V,
         NEW step, \A i \in 1 .. n, v \in V : step[i][v] \in V
  PROVE  \E iter : IsFold(iter, 1 .. n, V, base, step, Largest(n))
<1>1. \A s \in SUBSET (1 .. n) : s # {} => Largest(n)[s] \in s
  BY LargestIsIn DEF Largest
<1>2. IsFiniteSet(1 .. n)
  BY FS_Interval
<1> DEFINE I == 1 .. n
<1> HIDE DEF I
<1> QED
  BY <1>1, <1>2, FoldExists DEF I
================================================================================
