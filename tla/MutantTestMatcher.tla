------------------------- MODULE MutantTestMatcher -------------------------
(***************************************************************************)
(* Where a mutant is: the smallest statement around it, or else the        *)
(* smallest function (mutants/MutantTestMatcher.ts, utils/LocationHelper). *)
(* A location has a start and an end; a map from ids to locations is the   *)
(* sequence of the locations in the order of Object.keys().                *)
(***************************************************************************)
EXTENDS Integers, SequencesExt

Positions == [line : Nat, column : Nat]
Locations == [start : Positions, end : Positions]

NotFound == 0        \* the index null of LocationHelper.MAX_VALUE

AtOrBefore(p, q) == p.line < q.line \/ (p.line = q.line /\ p.column <= q.column)

IsCoveredBy(loc, maybeWrapper) ==
  AtOrBefore(maybeWrapper.start, loc.start) /\ AtOrBefore(loc.end, maybeWrapper.end)

\* Seeded bug: lines are compared, columns are not.
BugLinesOnly(loc, maybeSmaller) ==
  loc.end.line - loc.start.line > maybeSmaller.end.line - maybeSmaller.start.line

\* maybeSmaller has fewer lines than loc, or as many and fewer columns.
IsSmallerArea(loc, maybeSmaller) ==
  LET lineDifference == (loc.end.line - loc.start.line)
                          - (maybeSmaller.end.line - maybeSmaller.start.line)
  IN  \/ lineDifference > 0
      \/ /\ lineDifference = 0
         /\ (maybeSmaller.start.column - loc.start.column)
              + (loc.end.column - maybeSmaller.end.column) > 0

FindMatchingStatementInMap(needle, haystack) ==
  LET Smaller(best, id) ==
        IF /\ IsCoveredBy(needle, haystack[id])
           /\ best = NotFound \/ IsSmallerArea(haystack[best], haystack[id])
        THEN id ELSE best
  IN  FoldLeft(Smaller, NotFound, [id \in DOMAIN haystack |-> id])

\* A StatementIndex: in the statement map if there is one, or else in the function map.
FindMatchingStatement(needle, fileCoverage) ==
  LET statement == FindMatchingStatementInMap(needle, fileCoverage.statementMap)
  IN  IF statement # NotFound
      THEN [kind |-> "Statement", index |-> statement]
      ELSE [kind |-> "Function", index |-> FindMatchingStatementInMap(needle, fileCoverage.fnMap)]
=============================================================================
