------------------------- MODULE MCCoverageAnalysis -------------------------
(***************************************************************************)
(* Two files for the model checker: a has a statement within another on    *)
(* the same line, b has a function and no statement.                       *)
(***************************************************************************)
EXTENDS CoverageAnalysis

At(line, from, to) ==
  [start |-> [line |-> line, column |-> from], end |-> [line |-> line, column |-> to]]

TwoFiles == {"a", "b"}
ThreeCounters ==
  [f \in TwoFiles |->
     IF f = "a" THEN [statementMap |-> <<At(1, 0, 9), At(1, 4, 9)>>, fnMap |-> <<>>]
     ELSE [statementMap |-> <<>>, fnMap |-> <<At(1, 0, 9)>>]]
\* One mutant in each statement, in the function, and in neither.
FourMutants ==
  {[file |-> "a", location |-> At(1, 5, 6)], [file |-> "a", location |-> At(1, 1, 2)],
   [file |-> "b", location |-> At(1, 3, 6)], [file |-> "b", location |-> At(2, 0, 6)]}
=============================================================================
