----------------------- MODULE CoverageAnalysisProofs -----------------------
(***************************************************************************)
(* For any files, coverage maps, numbers of tests and retries: the types   *)
(* of CoverageAnalysis, and that without a retry every test that executes  *)
(* a statement is selected for it, and for each mutant in it: the loop     *)
(* over the statements ends at the innermost one.                          *)
(***************************************************************************)
EXTENDS CoverageAnalysis, Induction

-----------------------------------------------------------------------------
(* Locations.                                                              *)

\* Of two statements, one within the other, LocationHelper.isSmallerArea() prefers the
\* inner one (LocationHelper.ts:32-42), whatever their lines and columns.
THEOREM NestedIsSmaller ==
  ASSUME NEW inner \in Locations, NEW outer \in Locations,
         IsCoveredBy(inner, outer), inner # outer
  PROVE  IsSmallerArea(outer, inner) /\ ~IsSmallerArea(inner, outer)
<1>1. /\ inner.start \in Positions /\ inner.end \in Positions
      /\ outer.start \in Positions /\ outer.end \in Positions
  BY DEF Locations
<1>2. inner.start # outer.start \/ inner.end # outer.end
  BY DEF Locations
<1>3. \/ inner.start.line # outer.start.line \/ inner.start.column # outer.start.column
      \/ inner.end.line # outer.end.line \/ inner.end.column # outer.end.column
  BY <1>1, <1>2 DEF Positions
<1>4. /\ inner.start.line \in Nat /\ inner.start.column \in Nat
      /\ inner.end.line \in Nat /\ inner.end.column \in Nat
      /\ outer.start.line \in Nat /\ outer.start.column \in Nat
      /\ outer.end.line \in Nat /\ outer.end.column \in Nat
  BY <1>1 DEF Positions
<1>. DEFINE is == inner.start.line   ie == inner.end.line
            os == outer.start.line   oe == outer.end.line
            cis == inner.start.column   cie == inner.end.column
            cos == outer.start.column   coe == outer.end.column
<1>5. /\ os < is \/ (os = is /\ cos <= cis)
      /\ ie < oe \/ (ie = oe /\ cie <= coe)
  BY DEF IsCoveredBy, AtOrBefore
<1>6. /\ is \in Nat /\ ie \in Nat /\ os \in Nat /\ oe \in Nat
      /\ cis \in Nat /\ cie \in Nat /\ cos \in Nat /\ coe \in Nat
      /\ is # os \/ cis # cos \/ ie # oe \/ cie # coe
  BY <1>3, <1>4
<1>. HIDE DEF is, ie, os, oe, cis, cie, cos, coe
<1>7. \/ oe - os - (ie - is) > 0
      \/ oe - os - (ie - is) = 0 /\ (cis - cos) + (coe - cie) > 0
  BY <1>5, <1>6
<1>8. ~ \/ ie - is - (oe - os) > 0
        \/ ie - is - (oe - os) = 0 /\ (cos - cis) + (cie - coe) > 0
  BY <1>5, <1>6
<1>9. QED
  BY <1>7, <1>8 DEF IsSmallerArea, is, ie, os, oe, cis, cie, cos, coe

\* Of the first i locations `best` is a smallest one around the needle, if there is any.
Best(needle, haystack, i, best) ==
  IF best = NotFound THEN \A j \in 1 .. i : ~IsCoveredBy(needle, haystack[j])
  ELSE /\ best \in 1 .. i /\ IsCoveredBy(needle, haystack[best])
       /\ \A j \in 1 .. i : IsCoveredBy(needle, haystack[j]) => ~IsSmallerArea(haystack[best], haystack[j])

\* An area has lines, and columns on the last of them; the lines count first.
Lines(loc) == loc.end.line - loc.start.line
Columns(loc) == loc.end.column - loc.start.column
LEMMA AreaIsOrdered ==
  ASSUME NEW a \in Locations, NEW b \in Locations
  PROVE  /\ Lines(a) \in Int /\ Columns(a) \in Int
         /\ IsSmallerArea(a, b) <=> (Lines(a) > Lines(b) \/ (Lines(a) = Lines(b) /\ Columns(a) > Columns(b)))
<1> DEFINE asl == a.start.line   asc == a.start.column   ael == a.end.line   aec == a.end.column
           bsl == b.start.line   bsc == b.start.column   bel == b.end.line   bec == b.end.column
<1>1. /\ asl \in Int /\ asc \in Int /\ ael \in Int /\ aec \in Int
      /\ bsl \in Int /\ bsc \in Int /\ bel \in Int /\ bec \in Int
  BY DEF Locations, Positions
<1>2. IsSmallerArea(a, b) <=> \/ (ael - asl) - (bel - bsl) > 0
                              \/ (ael - asl) - (bel - bsl) = 0 /\ (bsc - asc) + (aec - bec) > 0
  BY DEF IsSmallerArea
<1>3. Lines(a) = ael - asl /\ Lines(b) = bel - bsl /\ Columns(a) = aec - asc /\ Columns(b) = bec - bsc
  BY DEF Lines, Columns
<1> HIDE DEF asl, asc, ael, aec, bsl, bsc, bel, bec
<1> QED
  BY <1>1, <1>2, <1>3

\* What is not smaller than an area is not smaller than a smaller one either.
LEMMA AreaOrder ==
  ASSUME NEW a \in Locations, NEW b \in Locations, NEW c \in Locations, IsSmallerArea(a, b), ~IsSmallerArea(a, c)
  PROVE  ~IsSmallerArea(b, c)
BY AreaIsOrdered

LEMMA AreaIrreflexive ==
  ASSUME NEW a \in Locations
  PROVE  ~IsSmallerArea(a, a)
BY DEF IsSmallerArea, Locations, Positions

\* What the loop over Object.keys() keeps: of the locations so far the smallest around the needle.
LEMMA SmallestIsFound ==
  ASSUME NEW needle \in Locations, NEW haystack \in Seq(Locations)
  PROVE  Best(needle, haystack, Len(haystack), FindMatchingStatementInMap(needle, haystack))
<1> DEFINE n == Len(haystack)
           V == 0 .. n
           after(i, best) == IF /\ IsCoveredBy(needle, haystack[i])
                                /\ best = NotFound \/ IsSmallerArea(haystack[best], haystack[i])
                             THEN i ELSE best
           ids == [id \in DOMAIN haystack |-> id]
           Solves(iter) ==
             iter = [s \in SUBSET (DOMAIN ids) |->
                       IF s = {} THEN NotFound ELSE after(ids[Max(s)], iter[s \ {Max(s)}])]
           find == CHOOSE iter : Solves(iter)
<1>1. n \in Nat /\ DOMAIN haystack = 1 .. n /\ DOMAIN ids = 1 .. n
  OBVIOUS
<1>2. FindMatchingStatementInMap(needle, haystack) = find[DOMAIN ids]
  BY DEF FindMatchingStatementInMap, FoldLeft, MapThenFoldSet
<1>3. \A i \in 1 .. n : ids[i] = i /\ haystack[i] \in Locations
  OBVIOUS
<1>4. Solves(find)
  <2> DEFINE step == [i \in 1 .. n |-> [v \in V |-> after(i, v)]]
  <2>1. \A i \in 1 .. n, v \in V : step[i][v] = after(i, v) /\ after(i, v) \in V
    <3>1. \A i \in 1 .. n, v \in V : after(i, v) \in {i, v} /\ i \in V
      BY <1>1
    <3> HIDE DEF after, n, V
    <3> QED BY <3>1
  <2>2. NotFound \in V
    BY <1>1 DEF NotFound
  <2> HIDE DEF after, step, n, V
  <2>3. PICK iter : IsFold(iter, 1 .. n, V, NotFound, step, Largest(n))
    BY <1>1, <2>1, <2>2, LeftFoldExists
  <2>4. \A s \in SUBSET (1 .. n) : s # {} => /\ Max(s) \in 1 .. n /\ iter[s \ {Max(s)}] \in V
                                             /\ Largest(n)[s] = Max(s) /\ ids[Max(s)] = Max(s)
    <3> HIDE DEF ids
    <3> QED BY <1>1, <1>3, <2>3, LargestIsIn DEF IsFold, Largest
  <2>5. \A s \in SUBSET (1 .. n) : iter[s] = IF s = {} THEN NotFound ELSE after(ids[Max(s)], iter[s \ {Max(s)}])
    <3> SUFFICES ASSUME NEW s \in SUBSET (1 .. n)
                 PROVE  iter[s] = IF s = {} THEN NotFound ELSE after(ids[Max(s)], iter[s \ {Max(s)}])
      OBVIOUS
    <3>1. iter[s] = IF s = {} THEN NotFound ELSE step[Largest(n)[s]][iter[s \ {Largest(n)[s]}]]
      BY <2>3 DEF IsFold
    <3> HIDE DEF ids
    <3>2. CASE s = {}
      BY <3>1, <3>2
    <3>3. CASE s # {}
      <4> DEFINE m == Max(s)   r == iter[s \ {m}]
      <4>1. m \in 1 .. n /\ r \in V /\ Largest(n)[s] = m /\ ids[m] = m
        BY <3>3, <2>4
      <4>2. iter[s] = step[m][r]
        BY <3>1, <3>3, <4>1
      <4>3. step[m][r] = after(m, r)
        <5> HIDE DEF m, r
        <5> QED BY <4>1, <2>1
      <4> QED BY <3>3, <4>1, <4>2, <4>3
    <3> QED BY <3>2, <3>3
  <2>6. Solves(iter)
    <3> HIDE DEF ids
    <3> QED BY <1>1, <2>3, <2>5 DEF IsFold
  <2> QED BY <2>6
<1> DEFINE run(i) == find[1 .. i]
<1>5. run(0) = NotFound /\ \A i \in 1 .. n : run(i) = after(i, run(i - 1))
  <2> HIDE DEF after, n, ids
  <2>1. \A s \in SUBSET (1 .. n) : find[s] = IF s = {} THEN NotFound ELSE after(ids[Max(s)], find[s \ {Max(s)}])
    <3> HIDE DEF find
    <3> QED BY <1>1, <1>4
  <2> HIDE DEF find
  <2>2. run(0) = NotFound
    BY <2>1, 1 .. 0 = {}
  <2>3. ASSUME NEW i \in 1 .. n PROVE run(i) = after(i, run(i - 1))
    <3>a. n \in Nat
      BY <1>1
    <3>b. i \in Nat \ {0} /\ i <= n
      BY <3>a
    <3>1. 1 .. i \in SUBSET (1 .. n) /\ i \in 1 .. i /\ i \in Nat \ {0}
      BY <3>a, <3>b
    <3>2. Max(1 .. i) = i /\ (1 .. i) \ {i} = 1 .. i - 1
      BY <3>1, LargestOfPrefix
    <3> QED BY <1>3, <2>1, <3>1, <3>2
  <2> QED BY <2>2, <2>3
<1> DEFINE T == {i \in V : Best(needle, haystack, i, run(i))}
<1>6. 0 \in T
  <2> HIDE DEF run, after, n
  <2>1. Best(needle, haystack, 0, NotFound)
    BY DEF Best
  <2> QED BY <1>1, <1>5, <2>1
<1>7. ASSUME NEW i \in 0 .. n - 1, i \in T PROVE i + 1 \in T
  <2> DEFINE b == run(i)   k == i + 1
  <2>1. k \in 1 .. n /\ k - 1 = i /\ i \in Nat /\ 1 .. k = (1 .. i) \cup {k} /\ k # NotFound
    BY <1>1 DEF NotFound
  <2>2. Best(needle, haystack, i, b)
    BY <1>7
  <2>3. run(k) = after(k, b)
    <3> HIDE DEF run, after, n
    <3> QED BY <1>5, <2>1
  <2>4. \A j \in 1 .. k : haystack[j] \in Locations
    BY <1>1, <1>3, <2>1
  <2> HIDE DEF b, k, run, n
  <2>5. CASE IsCoveredBy(needle, haystack[k]) /\ b = NotFound
    <3>1. run(k) = k
      BY <2>3, <2>5
    <3>2. Best(needle, haystack, k, k)
      BY <2>1, <2>2, <2>4, <2>5, AreaIrreflexive DEF Best
    <3> QED BY <1>1, <2>1, <3>1, <3>2 DEF k
  <2>6. CASE IsCoveredBy(needle, haystack[k]) /\ b # NotFound /\ IsSmallerArea(haystack[b], haystack[k])
    <3>1. run(k) = k
      BY <2>3, <2>6
    <3>2. Best(needle, haystack, k, k)
      <4>1. b \in 1 .. i /\ \A j \in 1 .. i : IsCoveredBy(needle, haystack[j]) => ~IsSmallerArea(haystack[b], haystack[j])
        BY <2>2, <2>6 DEF Best
      <4>2. \A j \in 1 .. i : IsCoveredBy(needle, haystack[j]) => ~IsSmallerArea(haystack[k], haystack[j])
        BY <2>1, <2>4, <2>6, <4>1, AreaOrder
      <4> QED BY <2>1, <2>4, <2>6, <4>2, AreaIrreflexive DEF Best
    <3> QED BY <1>1, <2>1, <3>1, <3>2 DEF k
  <2>7. CASE ~(IsCoveredBy(needle, haystack[k]) /\ (b = NotFound \/ IsSmallerArea(haystack[b], haystack[k])))
    <3>1. run(k) = b
      BY <2>3, <2>7
    <3>2. Best(needle, haystack, k, b)
      BY <2>1, <2>2, <2>7 DEF Best
    <3> QED BY <1>1, <2>1, <3>1, <3>2 DEF k
  <2> QED BY <2>5, <2>6, <2>7
<1>8. n \in T
  <2>1. n \in Nat
    BY <1>1
  <2> HIDE DEF T, n
  <2>2. \A i \in 0 .. n - 1 : i \in T => i + 1 \in T
    BY <1>7
  <2>3. \A i \in 0 .. n : i \in T
    BY <1>6, <2>1, <2>2, UpTo
  <2> QED BY <2>1, <2>3
<1> QED
  BY <1>1, <1>2, <1>8

\* A location within all others around the needle is the one that is found.
LEMMA InnermostIsFound ==
  ASSUME NEW needle \in Locations, NEW haystack \in Seq(Locations), IsInjective(haystack)
  PROVE  LET found == FindMatchingStatementInMap(needle, haystack)
             around == {i \in DOMAIN haystack : IsCoveredBy(needle, haystack[i])}
         IN  /\ found = NotFound <=> around = {}
             /\ \A i \in around : (\A j \in around : IsCoveredBy(haystack[i], haystack[j])) => found = i
<1> DEFINE found == FindMatchingStatementInMap(needle, haystack)
           around == {i \in DOMAIN haystack : IsCoveredBy(needle, haystack[i])}
<1>1. Len(haystack) \in Nat /\ DOMAIN haystack = 1 .. Len(haystack) /\ \A i \in DOMAIN haystack : haystack[i] \in Locations
  OBVIOUS
<1>2. Best(needle, haystack, Len(haystack), found)
  BY SmallestIsFound
<1>3. IF found = NotFound THEN around = {}
      ELSE found \in around /\ \A j \in around : ~IsSmallerArea(haystack[found], haystack[j])
  <2> HIDE DEF found
  <2> QED BY <1>1, <1>2 DEF Best
<1>4. ASSUME NEW i \in around, \A j \in around : IsCoveredBy(haystack[i], haystack[j]) PROVE found = i
  <2>1. found \in around /\ ~IsSmallerArea(haystack[found], haystack[i])
    BY <1>3
  <2>2. IsCoveredBy(haystack[i], haystack[found])
    BY <1>4, <2>1
  <2>3. haystack[i] \in Locations /\ haystack[found] \in Locations /\ i \in DOMAIN haystack /\ found \in DOMAIN haystack
    BY <1>1, <2>1
  <2> HIDE DEF found, around
  <2>4. haystack[i] = haystack[found]
    BY <2>1, <2>2, <2>3, NestedIsSmaller
  <2> QED BY <2>3, <2>4 DEF IsInjective
<1> QED
  <2> HIDE DEF found
  <2>1. found = NotFound <=> around = {}
    BY <1>3
  <2> QED BY <1>4, <2>1 DEF found

\* The counter of a mutant is that of the innermost statement around it, or else of the innermost function.
LEMMA CounterIsHome ==
  ASSUME NEW m \in Mutants, NEW c \in HomesOf(m)
  PROVE  c \in Counters /\ c # NoCounter /\ CounterOf(m) = c
<1> DEFINE file == m.file
           needle == m.location
           statements == CoverageMaps[file].statementMap
           functions == CoverageMaps[file].fnMap
           inStatements == {i \in DOMAIN statements : IsCoveredBy(needle, statements[i])}
           inFunctions == {i \in DOMAIN functions : IsCoveredBy(needle, functions[i])}
           S(i) == [file |-> file, kind |-> "Statement", index |-> i]
           F(i) == [file |-> file, kind |-> "Function", index |-> i]
<1>1. /\ file \in Files /\ needle \in Locations
      /\ statements \in Seq(Locations) /\ functions \in Seq(Locations)
  BY CoverageAssumption
<1>2. IsInjective(statements) /\ IsInjective(functions)
  BY <1>1, OneCounterPerPlace
<1>3. \A d : d \in Around(m, "Statement") <=> \E i \in inStatements : d = S(i)
  <2>1. \A d \in Counters : d.file = file /\ d.kind = "Statement" =>
          d.index \in DOMAIN statements /\ LocationOf(d) = statements[d.index] /\ d = S(d.index)
    BY DEF Counters, LocationOf
  <2>2. \A i \in DOMAIN statements : S(i) \in Counters /\ LocationOf(S(i)) = statements[i]
    BY <1>1 DEF Counters, LocationOf
  <2> QED BY <2>1, <2>2 DEF Around
<1>4. \A d : d \in Around(m, "Function") <=> \E i \in inFunctions : d = F(i)
  <2>1. \A d \in Counters : d.file = file /\ d.kind = "Function" =>
          d.index \in DOMAIN functions /\ LocationOf(d) = functions[d.index] /\ d = F(d.index)
    BY DEF Counters, LocationOf
  <2>2. \A i \in DOMAIN functions : F(i) \in Counters /\ LocationOf(F(i)) = functions[i]
    BY <1>1 DEF Counters, LocationOf
  <2> QED BY <2>1, <2>2 DEF Around
<1>5. \A i : LocationOf(S(i)) = statements[i] /\ LocationOf(F(i)) = functions[i]
  BY DEF LocationOf
<1>6. 0 \notin DOMAIN statements /\ 0 \notin DOMAIN functions
  BY <1>1
<1> DEFINE inStatement == FindMatchingStatementInMap(needle, statements)
           inFunction == FindMatchingStatementInMap(needle, functions)
<1>7. /\ inStatement = NotFound <=> inStatements = {}
      /\ \A i \in inStatements : (\A j \in inStatements : IsCoveredBy(statements[i], statements[j])) => inStatement = i
  BY <1>1, <1>2, InnermostIsFound
<1>8. \A i \in inFunctions : (\A j \in inFunctions : IsCoveredBy(functions[i], functions[j])) => inFunction = i
  BY <1>1, <1>2, InnermostIsFound
<1>9. CounterOf(m) = LET found == IF inStatement # NotFound THEN [kind |-> "Statement", index |-> inStatement]
                                  ELSE [kind |-> "Function", index |-> inFunction]
                     IN  IF found.index = NotFound THEN NoCounter
                         ELSE [file |-> file, kind |-> found.kind, index |-> found.index]
  BY DEF CounterOf, FindMatchingStatement
<1>10. c \in Counters
  BY DEF HomesOf, Innermost, Around
<1>11. \A i \in inStatements : S(i) # NoCounter /\ i # NotFound
  BY <1>6 DEF NoCounter, NotFound
<1>12. \A i \in inFunctions : F(i) # NoCounter /\ i # NotFound
  BY <1>6 DEF NoCounter, NotFound
<1>13. CASE Around(m, "Statement") # {}
  <2>1. c \in Around(m, "Statement") /\ \A d \in Around(m, "Statement") : IsCoveredBy(LocationOf(c), LocationOf(d))
    BY <1>13 DEF HomesOf, Innermost
  <2>2. PICK i \in inStatements : c = S(i)
    BY <1>3, <2>1
  <2> HIDE DEF inStatement, inStatements, S, statements
  <2>3. \A j \in inStatements : IsCoveredBy(statements[i], statements[j])
    BY <1>3, <1>5, <2>1, <2>2
  <2>4. inStatement = i
    BY <1>7, <2>3
  <2>5. CounterOf(m) = S(i)
    BY <1>9, <1>11, <2>4 DEF S
  <2> QED BY <1>10, <1>11, <2>2, <2>5
<1>14. CASE Around(m, "Statement") = {}
  <2>1. c \in Around(m, "Function") /\ \A d \in Around(m, "Function") : IsCoveredBy(LocationOf(c), LocationOf(d))
    BY <1>14 DEF HomesOf, Innermost
  <2>2. PICK i \in inFunctions : c = F(i)
    BY <1>4, <2>1
  <2>a. inStatement = NotFound
    <3> HIDE DEF inStatement, inStatements
    <3> QED BY <1>3, <1>7, <1>14
  <2> HIDE DEF inFunction, inFunctions, F, functions, inStatement
  <2>3. \A j \in inFunctions : IsCoveredBy(functions[i], functions[j])
    BY <1>4, <1>5, <2>1, <2>2
  <2>4. inFunction = i
    BY <1>8, <2>3
  <2>5. CounterOf(m) = F(i)
    BY <1>9, <1>12, <2>a, <2>4 DEF F
  <2> QED BY <1>10, <1>12, <2>2, <2>5
<1> QED
  BY <1>13, <1>14

-----------------------------------------------------------------------------
(* How many tests are reported, and how many deviations there are.         *)

Retries == MaxRetries - retriesLeft

\* In every phase the number of results and of deviations follows from the test and the
\* retries so far.
PhaseInv ==
  /\ at = "load" => test = 1
  /\ at = "done" => test = NumTests + 1
  /\ at \notin {"load", "done"} => test <= NumTests
  /\ at = "failed" => Retries > 0
  /\ \A i \in DOMAIN tests : tests[i] = i
  /\ at # "threw" => Len(tests) = IF at \in {"ran", "teardown"} THEN test ELSE test - 1
  /\ coverageAnalysis # "perTest" => deviations = <<>>
  /\ coverageAnalysis = "perTest" =>
       CASE at = "failed"   -> Len(deviations) = test + Retries - 2
         [] at = "teardown" -> Len(deviations) = test + Retries
         [] at = "threw"    -> Len(deviations) <= test + Retries
         [] OTHER           -> Len(deviations) = test + Retries - 1

TypeInv == TypeOK /\ PhaseInv

\* What a piece of code does to the counters.
LEMMA ExecuteCounts ==
  ASSUME TypeOK, NEW owners \in SUBSET (Tests \cup {NoTest}), Execute(owners)
  PROVE  /\ loaded' \in SUBSET Files /\ loaded \subseteq loaded'
         /\ counters' \in Counts
         /\ executed' \in [Counters -> SUBSET (Tests \cup {NoTest})]
         /\ \A c \in Counters :
              /\ counters[c] <= counters'[c]
              /\ counters'[c] = counters[c] \/ c.file \in loaded'
              /\ \/ executed'[c] = executed[c]
                 \/ executed'[c] = executed[c] \cup owners /\ counters'[c] > 0
<1>1. PICK files \in SUBSET Files, cs \in SUBSET Counters :
        /\ \A c \in cs : c.file \in loaded \cup files
        /\ loaded' = loaded \cup files
        /\ counters' = [c \in Counters |-> IF c \in cs THEN counters[c] + 1 ELSE counters[c]]
        /\ executed' = [c \in Counters |-> IF c \in cs THEN executed[c] \cup owners ELSE executed[c]]
  <2>1. PICK files \in SUBSET IF coverageAnalysis = "off" THEN {} ELSE Files :
          \E cs \in SUBSET {c \in Counters : c.file \in loaded \cup files} :
            /\ loaded' = loaded \cup files
            /\ counters' = [c \in Counters |-> IF c \in cs THEN counters[c] + 1 ELSE counters[c]]
            /\ executed' = [c \in Counters |->
                              IF c \in cs THEN executed[c] \cup owners ELSE executed[c]]
    BY Zenon DEF Execute
  <2>2. files \in SUBSET Files
    OBVIOUS
  <2>3. QED
    BY <2>1, <2>2, Zenon
<1>2. /\ loaded \in SUBSET Files /\ counters \in [Counters -> Nat]
      /\ executed \in [Counters -> SUBSET (Tests \cup {NoTest})]
  BY DEF TypeOK, Counts
<1>3. loaded' \in SUBSET Files /\ loaded \subseteq loaded'
  BY <1>1, <1>2
<1>4. counters' \in Counts
  BY <1>1, <1>2 DEF Counts
<1>5. executed' \in [Counters -> SUBSET (Tests \cup {NoTest})]
  BY <1>1, <1>2
<1>6. ASSUME NEW c \in Counters
      PROVE  /\ counters[c] <= counters'[c]
             /\ counters'[c] = counters[c] \/ c.file \in loaded'
             /\ \/ executed'[c] = executed[c]
                \/ executed'[c] = executed[c] \cup owners /\ counters'[c] > 0
  <2>1. CASE c \in cs
    BY <2>1, <1>1, <1>2
  <2>2. CASE c \notin cs
    BY <2>2, <1>1, <1>2
  <2>3. QED
    BY <2>1, <2>2
<1>7. QED
  BY <1>3, <1>4, <1>5, <1>6

LEMMA DeviationType ==
  ASSUME TypeOK
  PROVE  Deviation \in Counts /\ Nothing \in Counts
BY DEF TypeOK, Counts, Deviation, Nothing

LEMMA TypeInit == Init => TypeInv
<1>1. SUFFICES ASSUME Init PROVE TypeInv
  OBVIOUS
<1>2. NumTests \in Nat /\ MaxRetries \in Nat
  BY CoverageAssumption
<1>3. TypeOK
  BY <1>1, <1>2 DEF Init, TypeOK, Counts, Nothing, Tests
<1>4. PhaseInv
  BY <1>1, <1>2 DEF Init, PhaseInv, Retries
<1>5. QED
  BY <1>3, <1>4 DEF TypeInv

LEMMA TypeStep == TypeInv /\ [Next]_vars => TypeInv'
<1>1. SUFFICES ASSUME TypeInv, [Next]_vars PROVE TypeInv'
  OBVIOUS
<1>2. /\ NumTests \in Nat /\ MaxRetries \in Nat /\ retriesLeft \in 0 .. MaxRetries
      /\ test \in 1 .. NumTests + 1 /\ Len(tests) \in Nat /\ Len(deviations) \in Nat
      /\ tests \in Seq(Tests) /\ deviations \in Seq(Counts)
  BY <1>1, CoverageAssumption DEF TypeInv, TypeOK
<1>3. CASE Load
  <2>1. Tests \in SUBSET (Tests \cup {NoTest})
    OBVIOUS
  <2>2. TypeOK'
    BY <1>1, <1>2, <1>3, <2>1, ExecuteCounts DEF Load, Go, TypeInv, TypeOK, hooks
  <2>3. PhaseInv'
    BY <1>1, <1>2, <1>3 DEF Load, Go, TypeInv, TypeOK, PhaseInv, Retries, hooks
  <2>4. QED
    BY <2>2, <2>3 DEF TypeInv
<1>4. CASE SetUp
  <2>1. PICK last \in test .. NumTests : Execute(test .. last)
    BY <1>4 DEF SetUp
  <2>2. test .. last \in SUBSET (Tests \cup {NoTest})
    BY <1>2 DEF Tests
  <2>3. TypeOK'
    BY <1>1, <1>2, <1>4, <2>1, <2>2, ExecuteCounts DEF SetUp, Go, TypeInv, TypeOK, hooks
  <2>4. PhaseInv'
    BY <1>1, <1>2, <1>4 DEF SetUp, Go, TypeInv, TypeOK, PhaseInv, Retries, hooks
  <2>5. QED
    BY <2>3, <2>4 DEF TypeInv
<1>5. CASE BeforeEach
  <2>1. TypeOK'
    BY <1>1, <1>2, <1>5 DEF BeforeEach, Go, TypeInv, TypeOK, program, Counts
  <2>2. PhaseInv'
    BY <1>1, <1>2, <1>5 DEF BeforeEach, Go, TypeInv, TypeOK, PhaseInv, Retries
  <2>3. QED
    BY <2>1, <2>2 DEF TypeInv
<1>6. CASE RunTest
  <2>1. test \in Tests /\ {test} \in SUBSET (Tests \cup {NoTest})
    BY <1>1, <1>2, <1>6 DEF RunTest, Go, Tests, TypeInv, PhaseInv
  <2>2. /\ tests' \in Seq(Tests) /\ Len(tests') = Len(tests) + 1
        /\ \A i \in 1 .. Len(tests) : tests'[i] = tests[i]
        /\ tests'[Len(tests) + 1] = test
    BY <1>2, <1>6, <2>1 DEF RunTest
  <2>3. TypeOK'
    BY <1>1, <1>2, <1>6, <2>1, <2>2, ExecuteCounts DEF RunTest, Go, TypeInv, TypeOK, hooks
  <2>4. Len(tests) = test - 1
    BY <1>1, <1>6 DEF RunTest, Go, TypeInv, PhaseInv
  <2>5. \A i \in DOMAIN tests' : tests'[i] = i
    <3>1. SUFFICES ASSUME NEW i \in 1 .. Len(tests) + 1 PROVE tests'[i] = i
      BY <1>2, <2>2
    <3>2. CASE i \in 1 .. Len(tests)
      BY <3>2, <1>1, <1>2, <2>2 DEF TypeInv, PhaseInv
    <3>3. CASE i = Len(tests) + 1
      BY <3>3, <1>2, <2>2, <2>4
    <3>4. QED
      BY <3>2, <3>3, <1>2
  <2>6. PhaseInv'
    BY <1>1, <1>2, <1>6, <2>2, <2>4, <2>5
    DEF RunTest, Go, TypeInv, TypeOK, PhaseInv, Retries, hooks
  <2>7. QED
    BY <2>3, <2>6 DEF TypeInv
<1>7. CASE FailTest
  <2>1. {test} \in SUBSET (Tests \cup {NoTest})
    BY <1>1, <1>2, <1>7 DEF FailTest, Go, Tests, TypeInv, PhaseInv
  <2>2. TypeOK'
    BY <1>1, <1>2, <1>7, <2>1, ExecuteCounts DEF FailTest, Go, TypeInv, TypeOK, hooks
  <2>3. PhaseInv'
    BY <1>1, <1>2, <1>7 DEF FailTest, Go, TypeInv, TypeOK, PhaseInv, Retries, hooks
  <2>4. QED
    BY <2>2, <2>3 DEF TypeInv
<1>8. CASE AfterEach
  <2>1. /\ Deviation \in Counts /\ Nothing \in Counts
    BY <1>1, DeviationType DEF TypeInv
  <2>2. test <= NumTests
    BY <1>1, <1>8 DEF AfterEach, TypeInv, PhaseInv
  <2>3. PICK d \in Counts :
          deviations' = IF coverageAnalysis = "perTest" THEN Append(deviations, d) ELSE deviations
    BY <1>8, <2>1 DEF AfterEach
  <2>4. /\ deviations' \in Seq(Counts)
        /\ coverageAnalysis = "perTest" => Len(deviations') = Len(deviations) + 1
        /\ coverageAnalysis # "perTest" => deviations' = deviations
    BY <1>2, <2>3
  <2>5. PhaseInv'
    <3>1. /\ \/ at = "failed" /\ at' \in {"hook", "threw"}
             \/ at = "ran" /\ at' \in {"teardown", "threw"}
          /\ coverageAnalysis # "perTest" => at' # "threw"
          /\ UNCHANGED <<coverageAnalysis, tests, test, retriesLeft>>
      BY <1>8 DEF AfterEach, AfterTest
    <3>2. Len(deviations') \in Nat /\ Retries' = Retries /\ Retries \in Nat
      BY <3>1, <2>4, <1>2 DEF Retries
    <3>3. coverageAnalysis = "perTest" =>
            /\ at = "failed" => Len(deviations) = test + Retries - 2
            /\ at = "ran" => Len(deviations) = test + Retries - 1
      BY <1>1 DEF TypeInv, PhaseInv
    <3>4. (coverageAnalysis = "perTest" =>
            CASE at = "failed"   -> Len(deviations) = test + Retries - 2
              [] at = "teardown" -> Len(deviations) = test + Retries
              [] at = "threw"    -> Len(deviations) <= test + Retries
              [] OTHER           -> Len(deviations) = test + Retries - 1)'
      BY <3>1, <3>2, <3>3, <1>2, <2>4
    <3>5. (/\ \A i \in DOMAIN tests : tests[i] = i
           /\ at # "threw" => Len(tests) = IF at \in {"ran", "teardown"} THEN test ELSE test - 1)'
      BY <3>1, <1>1 DEF TypeInv, PhaseInv
    <3>6. (coverageAnalysis # "perTest" => deviations = <<>>)'
      BY <3>1, <1>1, <2>4 DEF TypeInv, PhaseInv
    <3>7. QED
      BY <3>1, <3>4, <3>5, <3>6, <2>2 DEF PhaseInv
  <2>6. at' \in {"hook", "teardown", "threw"}
    BY <1>8 DEF AfterEach, AfterTest
  <2>7. Len(deviations') <= NumTests + MaxRetries
    <3>1. CASE coverageAnalysis = "perTest"
      BY <3>1, <1>1, <1>2, <1>8, <2>2, <2>4
      DEF AfterEach, AfterTest, TypeInv, TypeOK, PhaseInv, Retries, program
    <3>2. CASE coverageAnalysis # "perTest"
      BY <3>2, <1>1, <2>4 DEF TypeInv, TypeOK
    <3>3. QED
      BY <3>1, <3>2
  <2>8. TypeOK'
    BY <1>1, <1>8, <2>4, <2>6, <2>7 DEF AfterEach, TypeInv, TypeOK, program, Counts
  <2>9. QED
    BY <2>5, <2>8 DEF TypeInv
<1>9. CASE TearDown
  <2>1. {NoTest} \in SUBSET (Tests \cup {NoTest})
    OBVIOUS
  <2>2. test <= NumTests
    BY <1>1, <1>9 DEF TearDown, Go, TypeInv, PhaseInv
  <2>3. TypeOK'
    BY <1>1, <1>2, <1>9, <2>1, <2>2, ExecuteCounts DEF TearDown, Go, TypeInv, TypeOK, hooks
  <2>4. PhaseInv'
    BY <1>1, <1>2, <1>9, <2>2 DEF TearDown, Go, TypeInv, TypeOK, PhaseInv, Retries, hooks
  <2>5. QED
    BY <2>3, <2>4 DEF TypeInv
<1>10. CASE UNCHANGED vars
  <2>1. TypeOK'
    BY <1>1, <1>10 DEF TypeInv, TypeOK, vars, program, hooks, Counts
  <2>2. PhaseInv'
    BY <1>1, <1>10 DEF TypeInv, PhaseInv, Retries, vars, program, hooks
  <2>3. QED
    BY <2>1, <2>2 DEF TypeInv
<1>11. QED
  BY <1>1, <1>3, <1>4, <1>5, <1>6, <1>7, <1>8, <1>9, <1>10 DEF Next

\* Every variable keeps its type; there are never more deviations than attempts of tests.
THEOREM TypeCorrect == Spec => []TypeOK
<1>1. TypeInv => TypeOK
  BY DEF TypeInv
<1>2. QED
  BY <1>1, TypeInit, TypeStep, PTL DEF Spec
-----------------------------------------------------------------------------
(* Who executed what, and what the hooks recorded.                         *)

\* What was executed has a count, and belongs to a file that is loaded; the baseline
\* knows no count of a file that it does not have.
CountInv ==
  \A c \in Counters :
    /\ executed[c] # {} => counters[c] > 0
    /\ counters[c] > 0 => c.file \in loaded
    /\ c.file \notin baseline.files => baseline.count[c] = 0

\* Without retries the deviation number id is that of test id: it has each counter that
\* the test executed and that the baseline does not have.
AttributionInv ==
  coverageAnalysis = "perTest" /\ Retries = 0 /\ at # "threw" =>
    \A c \in Counters : \A id \in DOMAIN deviations :
      baseline.count[c] = 0 /\ id \in executed[c] => deviations[id][c] > 0

CoverInv == TypeInv /\ CountInv /\ AttributionInv

\* A piece of code keeps the invariant if it is of no test that is over.
LEMMA ExecuteStep ==
  ASSUME CoverInv, TypeInv', NEW owners \in SUBSET (Tests \cup {NoTest}), Execute(owners),
         UNCHANGED <<coverageAnalysis, hooks, retriesLeft>>, at # "threw",
         coverageAnalysis = "perTest" /\ Retries = 0 => owners \cap DOMAIN deviations = {}
  PROVE  CoverInv'
<1>1. \A c \in Counters :
        /\ counters[c] \in Nat /\ counters'[c] \in Nat /\ counters[c] <= counters'[c]
        /\ counters'[c] = counters[c] \/ c.file \in loaded'
        /\ \/ executed'[c] = executed[c]
           \/ executed'[c] = executed[c] \cup owners /\ counters'[c] > 0
  BY ExecuteCounts DEF CoverInv, TypeInv, TypeOK, Counts
<1>2. loaded \subseteq loaded' /\ baseline' = baseline /\ deviations' = deviations
  BY ExecuteCounts DEF CoverInv, TypeInv, hooks
<1>3. CountInv'
  BY <1>1, <1>2 DEF CoverInv, CountInv
<1>4. AttributionInv'
  <2>1. SUFFICES ASSUME coverageAnalysis = "perTest", Retries = 0,
                        NEW c \in Counters, NEW id \in DOMAIN deviations,
                        baseline.count[c] = 0, id \in executed'[c]
                 PROVE  deviations[id][c] > 0
    BY <1>2 DEF AttributionInv, Retries
  <2>2. id \in executed[c]
    BY <1>1, <2>1
  <2>3. QED
    BY <2>1, <2>2 DEF CoverInv, AttributionInv
<1>5. QED
  BY <1>3, <1>4 DEF CoverInv

LEMMA CoverInit == Init => CoverInv
BY TypeInit DEF Init, CoverInv, CountInv, AttributionInv, Nothing

LEMMA CoverStep == CoverInv /\ [Next]_vars => CoverInv'
<1>1. SUFFICES ASSUME CoverInv, [Next]_vars PROVE CoverInv'
  OBVIOUS
<1>2. TypeInv /\ TypeInv'
  BY <1>1, TypeStep DEF CoverInv
<1>3. /\ NumTests \in Nat /\ MaxRetries \in Nat /\ retriesLeft \in 0 .. MaxRetries
      /\ test \in 1 .. NumTests + 1
      /\ deviations \in Seq(Counts) /\ DOMAIN deviations = 1 .. Len(deviations)
      /\ Len(deviations) \in Nat
  BY <1>2, CoverageAssumption DEF TypeInv, TypeOK
\* Before test number `test` is run without a retry, the tests before it have deviations.
<1>4. coverageAnalysis = "perTest" /\ Retries = 0 =>
        /\ at # "failed"
        /\ at \in {"load", "setup", "body", "ran"} => Len(deviations) = test - 1
  BY <1>2, <1>3 DEF TypeInv, PhaseInv, Retries
<1>5. CASE Load
  <2>1. Tests \in SUBSET (Tests \cup {NoTest}) /\ Execute(Tests) /\ at = "load"
    BY <1>5 DEF Load, Go
  <2>2. test = 1
    BY <1>2, <2>1 DEF TypeInv, PhaseInv
  <2>3. coverageAnalysis = "perTest" /\ Retries = 0 => Tests \cap DOMAIN deviations = {}
    BY <1>3, <1>4, <2>1, <2>2
  <2>4. QED
    BY <1>1, <1>2, <1>5, <2>1, <2>3, ExecuteStep DEF Load
<1>6. CASE SetUp
  <2>1. PICK last \in test .. NumTests : Execute(test .. last)
    BY <1>6 DEF SetUp
  <2>2. test .. last \in SUBSET (Tests \cup {NoTest}) /\ at = "setup"
    BY <1>3, <1>6 DEF SetUp, Go, Tests
  <2>3. coverageAnalysis = "perTest" /\ Retries = 0 => (test .. last) \cap DOMAIN deviations = {}
    BY <1>3, <1>4, <2>2
  <2>4. QED
    BY <1>1, <1>2, <1>6, <2>1, <2>2, <2>3, ExecuteStep DEF SetUp
<1>7. CASE RunTest
  <2>1. {test} \in SUBSET (Tests \cup {NoTest}) /\ Execute({test}) /\ at = "body"
    BY <1>2, <1>3, <1>7 DEF RunTest, Go, Tests, TypeInv, PhaseInv
  <2>2. coverageAnalysis = "perTest" /\ Retries = 0 => {test} \cap DOMAIN deviations = {}
    BY <1>3, <1>4, <2>1
  <2>3. QED
    BY <1>1, <1>2, <1>7, <2>1, <2>2, ExecuteStep DEF RunTest
<1>8. CASE TearDown
  <2>1. {NoTest} \in SUBSET (Tests \cup {NoTest}) /\ Execute({NoTest}) /\ at = "teardown"
    BY <1>8 DEF TearDown, Go
  <2>2. {NoTest} \cap DOMAIN deviations = {}
    BY <1>3 DEF NoTest
  <2>3. QED
    BY <1>1, <1>2, <1>8, <2>1, <2>2, ExecuteStep DEF TearDown
<1>9. CASE FailTest
  <2>1. /\ {test} \in SUBSET (Tests \cup {NoTest}) /\ Execute({test})
        /\ UNCHANGED hooks
    BY <1>2, <1>3, <1>9 DEF FailTest, Go, Tests, TypeInv, PhaseInv
  <2>2. CountInv'
    <3>1. \A c \in Counters :
            /\ counters[c] \in Nat /\ counters'[c] \in Nat /\ counters[c] <= counters'[c]
            /\ counters'[c] = counters[c] \/ c.file \in loaded'
            /\ \/ executed'[c] = executed[c]
               \/ executed'[c] = executed[c] \cup {test} /\ counters'[c] > 0
      BY <1>2, <2>1, ExecuteCounts DEF TypeInv, TypeOK, Counts
    <3>2. loaded \subseteq loaded' /\ baseline' = baseline
      BY <1>2, <2>1, ExecuteCounts DEF TypeInv, hooks
    <3>3. QED
      BY <1>1, <3>1, <3>2 DEF CoverInv, CountInv
  <2>3. Retries' # 0
    BY <1>3, <1>9 DEF FailTest, Retries
  <2>4. QED
    BY <1>2, <2>2, <2>3 DEF CoverInv, AttributionInv
<1>10. CASE BeforeEach
  <2>1. UNCHANGED <<coverageAnalysis, loaded, counters, executed, deviations, retriesLeft>>
    BY <1>10 DEF BeforeEach, program
  <2>2. \/ baseline' = baseline
        \/ baseline.files = {} /\ baseline' = [files |-> loaded, count |-> counters]
    BY <1>10 DEF BeforeEach
  <2>3. \A c \in Counters : counters[c] \in Nat
    BY <1>2 DEF TypeInv, TypeOK, Counts
  <2>4. CountInv'
    BY <1>1, <2>1, <2>2, <2>3 DEF CoverInv, CountInv
  <2>5. \A c \in Counters : baseline'.count[c] = 0 => baseline.count[c] = 0
    BY <1>1, <2>2 DEF CoverInv, CountInv
  <2>6. at # "threw"
    BY <1>10 DEF BeforeEach, Go
  <2>7. AttributionInv'
    BY <1>1, <2>1, <2>5, <2>6 DEF CoverInv, AttributionInv, Retries
  <2>8. QED
    BY <1>2, <2>4, <2>7 DEF CoverInv
<1>11. CASE AfterEach
  <2>1. UNCHANGED <<coverageAnalysis, loaded, counters, executed, baseline, test, retriesLeft>>
    BY <1>11 DEF AfterEach, program
  <2>2. CountInv'
    BY <1>1, <2>1 DEF CoverInv, CountInv
  <2>3. AttributionInv'
    <3>1. SUFFICES ASSUME coverageAnalysis = "perTest", Retries = 0, at' # "threw",
                          NEW c \in Counters, NEW id \in DOMAIN deviations',
                          baseline.count[c] = 0, id \in executed[c]
                   PROVE  deviations'[id][c] > 0
      BY <2>1 DEF AttributionInv, Retries
    <3>2. deviations' = Append(deviations, Deviation) /\ at = "ran"
      BY <1>4, <1>11, <3>1 DEF AfterEach
    <3>3. Deviation \in Counts
      BY <1>2, DeviationType DEF TypeInv
    <3>4. CASE id \in DOMAIN deviations
      <4>1. deviations'[id] = deviations[id]
        BY <1>3, <3>2, <3>3, <3>4
      <4>2. QED
        BY <1>1, <3>1, <3>2, <3>4, <4>1 DEF CoverInv, AttributionInv
    <3>5. CASE id = Len(deviations) + 1
      <4>1. deviations'[id] = Deviation
        BY <1>3, <3>2, <3>3, <3>5
      <4>2. counters[c] > 0 /\ c.file \in loaded
        BY <1>1, <3>1 DEF CoverInv, CountInv
      <4>3. Deviation[c] = counters[c]
        BY <3>1, <4>2 DEF Deviation
      <4>4. QED
        BY <4>1, <4>2, <4>3
    <3>6. id \in DOMAIN deviations \/ id = Len(deviations) + 1
      BY <1>3, <3>1, <3>2, <3>3
    <3>7. QED
      BY <3>4, <3>5, <3>6
  <2>4. QED
    BY <1>2, <2>2, <2>3 DEF CoverInv
<1>12. CASE UNCHANGED vars
  BY <1>1, <1>2, <1>12
  DEF CoverInv, CountInv, AttributionInv, Retries, vars, program, hooks
<1>13. QED
  BY <1>1, <1>5, <1>6, <1>7, <1>8, <1>9, <1>10, <1>11, <1>12 DEF Next

\* However late a file is loaded and whoever loads it, the hooks and the matcher together
\* select every test that executes a statement, as long as no test is retried.
THEOREM TestsAreSelected == Spec => []CoveringTestsAreSelected
<1>1. ASSUME CoverInv PROVE CoveringTestsAreSelected
  <2>1. SUFFICES ASSUME at = "done", retriesLeft = MaxRetries,
                        NEW c \in Counters, NEW t \in executed[c] \cap SelectAllTests
                 PROVE  t \in EnrichWithCoveredTests(c)
    BY DEF CoveringTestsAreSelected, Covering
  <2>2. PICK id \in DOMAIN tests : t = tests[id]
    BY DEF SelectAllTests
  <2>3. t = id
    BY <1>1, <2>2 DEF CoverInv, TypeInv, PhaseInv
  <2>4. counters[c] > 0
    BY <1>1 DEF CoverInv, CountInv
  <2>5. CASE IsCoveredByBaseline(c)
    BY <2>5 DEF EnrichWithCoveredTests
  <2>6. CASE coverageAnalysis # "perTest"
    <3>1. IsCoveredByTest(id, c)
      BY <2>4, <2>6 DEF IsCoveredByTest
    <3>2. QED
      BY <2>2, <3>1 DEF EnrichWithCoveredTests, SelectedTests
  <2>7. CASE coverageAnalysis = "perTest" /\ ~IsCoveredByBaseline(c)
    <3>1. /\ MaxRetries \in Nat /\ NumTests \in Nat /\ test \in 1 .. NumTests + 1
          /\ DOMAIN deviations = 1 .. Len(deviations) /\ DOMAIN tests = 1 .. Len(tests)
          /\ baseline.count[c] \in Nat
      BY <1>1, CoverageAssumption DEF CoverInv, TypeInv, TypeOK, Counts
    <3>2. Retries = 0
      BY <2>1, <3>1 DEF Retries
    <3>3. Len(deviations) = test - 1 /\ Len(tests) = test - 1
      BY <1>1, <2>1, <2>7, <3>1, <3>2 DEF CoverInv, TypeInv, PhaseInv
    <3>4. id \in DOMAIN deviations /\ id <= Len(deviations)
      BY <3>1, <3>3
    <3>5. baseline.count[c] = 0
      BY <1>1, <2>7, <3>1 DEF IsCoveredByBaseline, CoverInv, CountInv
    <3>6. deviations[id][c] > 0
      BY <1>1, <2>1, <2>3, <2>7, <3>2, <3>4, <3>5 DEF CoverInv, AttributionInv
    <3>7. QED
      BY <2>2, <2>7, <3>4, <3>6 DEF EnrichWithCoveredTests, SelectedTests, IsCoveredByTest
  <2>8. QED
    BY <2>5, <2>6, <2>7
<1>2. QED
  BY <1>1, CoverInit, CoverStep, PTL DEF Spec

-----------------------------------------------------------------------------
(* The tests of a mutant.                                                  *)

\* What nobody executed has no count anywhere, if there is a test at all.
UnexecutedInv ==
  NumTests > 0 =>
    \A c \in Counters : executed[c] = {} =>
      /\ counters[c] = 0 /\ baseline.count[c] = 0
      /\ \A id \in DOMAIN deviations : deviations[id][c] = 0

LEMMA UnexecutedStep == TypeInv /\ UnexecutedInv /\ [Next]_vars => UnexecutedInv'
<1> SUFFICES ASSUME TypeInv, UnexecutedInv, [Next]_vars, NumTests > 0,
                    NEW c \in Counters, executed'[c] = {}
             PROVE  /\ counters'[c] = 0 /\ baseline'.count[c] = 0
                    /\ \A id \in DOMAIN deviations' : deviations'[id][c] = 0
  BY DEF UnexecutedInv
<1>1. /\ NumTests \in Nat /\ test \in 1 .. NumTests + 1
      /\ deviations \in Seq(Counts) /\ DOMAIN deviations = 1 .. Len(deviations) /\ Len(deviations) \in Nat
  BY CoverageAssumption DEF TypeInv, TypeOK
<1>2. executed[c] = {} => /\ counters[c] = 0 /\ baseline.count[c] = 0
                          /\ \A id \in DOMAIN deviations : deviations[id][c] = 0
  BY DEF UnexecutedInv
<1>3. ASSUME NEW owners, owners # {}, Execute(owners) PROVE executed[c] = {} /\ counters'[c] = counters[c]
  <2>1. PICK files \in SUBSET IF coverageAnalysis = "off" THEN {} ELSE Files :
          \E cs \in SUBSET {d \in Counters : d.file \in loaded \cup files} :
            /\ counters' = [d \in Counters |-> IF d \in cs THEN counters[d] + 1 ELSE counters[d]]
            /\ executed' = [d \in Counters |-> IF d \in cs THEN executed[d] \cup owners ELSE executed[d]]
    BY <1>3, Zenon DEF Execute
  <2> QED BY <1>3, <2>1
<1>4. ASSUME NEW owners, owners # {}, Execute(owners), UNCHANGED hooks
      PROVE  /\ counters'[c] = 0 /\ baseline'.count[c] = 0
             /\ \A id \in DOMAIN deviations' : deviations'[id][c] = 0
  BY <1>2, <1>3, <1>4 DEF hooks
<1>5. CASE Load
  <2>1. 1 \in Tests
    BY <1>1 DEF Tests
  <2> QED BY <1>4, <1>5, <2>1 DEF Load
<1>6. CASE SetUp
  <2>1. PICK last \in test .. NumTests : Execute(test .. last)
    BY <1>6 DEF SetUp
  <2>2. test \in test .. last
    BY <1>1
  <2> QED BY <1>4, <1>6, <2>1, <2>2 DEF SetUp
<1>7. CASE RunTest
  BY <1>4, <1>7 DEF RunTest
<1>8. CASE FailTest
  BY <1>4, <1>8 DEF FailTest
<1>9. CASE TearDown
  BY <1>4, <1>9 DEF TearDown
<1>10. CASE BeforeEach
  BY <1>2, <1>10 DEF BeforeEach, program
<1>11. CASE AfterEach
  <2>1. executed[c] = {} /\ counters' = counters /\ baseline' = baseline
    BY <1>11 DEF AfterEach, program
  <2>2. Nothing[c] = 0 /\ Deviation[c] = 0 /\ Nothing \in Counts /\ Deviation \in Counts
    BY <1>2, <2>1, DeviationType DEF Nothing, Deviation, TypeInv
  <2>3. deviations' \in {deviations, Append(deviations, Nothing), Append(deviations, Deviation)}
    BY <1>11 DEF AfterEach
  <2> HIDE DEF Nothing, Deviation, Counts
  <2>4. ASSUME NEW d \in Counts, d[c] = 0, deviations' = Append(deviations, d)
        PROVE  \A id \in DOMAIN deviations' : deviations'[id][c] = 0
    <3> SUFFICES ASSUME NEW id \in DOMAIN deviations' PROVE deviations'[id][c] = 0
      OBVIOUS
    <3>1. DOMAIN deviations' = 1 .. Len(deviations) + 1
      BY <1>1, <2>4
    <3>2. CASE id = Len(deviations) + 1
      BY <1>1, <2>4, <3>2
    <3>3. CASE id \in 1 .. Len(deviations)
      <4>1. deviations'[id] = deviations[id]
        BY <1>1, <2>4, <3>3
      <4> QED BY <1>1, <1>2, <2>1, <3>3, <4>1
    <3> QED BY <1>1, <3>1, <3>2, <3>3
  <2> QED BY <1>2, <2>1, <2>2, <2>3, <2>4
<1>12. CASE UNCHANGED vars
  BY <1>2, <1>12 DEF vars, program, hooks
<1> QED
  BY <1>5, <1>6, <1>7, <1>8, <1>9, <1>10, <1>11, <1>12 DEF Next

\* So a mutant gets the tests that execute the code it is in, and no tests if nothing executed it.
THEOREM MutantsAreMatched == Spec => []MutantsGetTheirTests
<1>1. ASSUME CoverInv, UnexecutedInv, CoveringTestsAreSelected PROVE MutantsGetTheirTests
  <2>1. SUFFICES ASSUME at = "done", NEW m \in Mutants, NEW c \in HomesOf(m)
                 PROVE  /\ retriesLeft = MaxRetries => Covering(c) \subseteq EnrichWithCoveredTests(c)
                        /\ coverageAnalysis # "off" /\ CoverageReported /\ executed[c] = {} => EnrichWithCoveredTests(c) = {}
    BY CounterIsHome DEF MutantsGetTheirTests
  <2>2. c \in Counters /\ c # NoCounter
    BY CounterIsHome
  <2>3. retriesLeft = MaxRetries => Covering(c) \subseteq EnrichWithCoveredTests(c)
    BY <1>1, <2>1, <2>2 DEF CoveringTestsAreSelected
  <2>4. ASSUME coverageAnalysis # "off", CoverageReported, executed[c] = {}
        PROVE  EnrichWithCoveredTests(c) = {}
    <3>1. /\ NumTests \in Nat /\ tests \in Seq(Tests) /\ Len(tests) \in Nat /\ DOMAIN tests = 1 .. Len(tests)
          /\ deviations \in Seq(Counts) /\ Len(deviations) \in Nat /\ DOMAIN deviations = 1 .. Len(deviations)
      BY <1>1, CoverageAssumption DEF CoverInv, TypeInv, TypeOK
    <3>2. CASE NumTests = 0
      <4>1. DOMAIN tests = {}
        BY <1>1, <2>1, <3>1, <3>2 DEF CoverInv, TypeInv, PhaseInv
      <4> QED BY <4>1 DEF EnrichWithCoveredTests, SelectAllTests, SelectedTests
    <3>3. CASE NumTests > 0
      <4>1. /\ counters[c] = 0 /\ baseline.count[c] = 0
            /\ \A id \in DOMAIN deviations : deviations[id][c] = 0
        BY <1>1, <2>2, <2>4, <3>3 DEF UnexecutedInv
      <4>2. ~IsCoveredByBaseline(c)
        BY <4>1 DEF IsCoveredByBaseline
      <4>3. \A id \in DOMAIN tests : ~IsCoveredByTest(id, c)
        BY <3>1, <4>1 DEF IsCoveredByTest
      <4> QED BY <2>2, <2>4, <4>2, <4>3 DEF EnrichWithCoveredTests, SelectedTests
    <3> QED BY <3>1, <3>2, <3>3
  <2> QED BY <2>3, <2>4
<1>2. Init => UnexecutedInv
  BY DEF Init, UnexecutedInv, Nothing
<1>3. CoverInv => TypeInv
  BY DEF CoverInv
<1>4. QED
  BY <1>1, <1>2, <1>3, TestsAreSelected, CoverInit, CoverStep, UnexecutedStep, PTL DEF Spec
=============================================================================
