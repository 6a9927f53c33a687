--------------------------- MODULE MutationTestRun ---------------------------
(***************************************************************************)
(* What a mutation test run promises its reporter                          *)
(* (MutationTestExecutor.run): every mutant is reported once, with a       *)
(* verdict that is possible for it; when all are, the run completes with   *)
(* all the results.  A run may fail at any time before that.  The detailed *)
(* behaviour is module MutationTestPipeline.                               *)
(***************************************************************************)
CONSTANTS Mutants,
          Verdicts         \* the verdicts each mutant can get

VARIABLES results,         \* the verdict reported for each mutant, or "none"
          run              \* "active", "completed" or "failed"

runVars == <<results, run>>

Init == /\ results = [m \in Mutants |-> "none"]
        /\ run = "active"

Report(m) ==
  /\ run = "active" /\ results[m] = "none"
  /\ \E verdict \in Verdicts[m] : results' = [results EXCEPT ![m] = verdict]
  /\ run' = IF \A other \in Mutants \ {m} : results[other] # "none"
            THEN "completed" ELSE "active"

Fail == /\ run = "active"
        /\ run' = "failed"
        /\ UNCHANGED results

Next == Fail \/ \E m \in Mutants : Report(m)

Spec == Init /\ [][Next]_runVars
=============================================================================
