----------------------- MODULE MCMutationTestPipeline -----------------------
(***************************************************************************)
(* The mutants for the model checker: the first is in file a, the others   *)
(* are in file b.  The passing configuration lets no test cover the second *)
(* and hides the third from the transpiled output; the others are tested.  *)
(***************************************************************************)
EXTENDS MutationTestPipeline

CONSTANTS a, b

FirstInA == [m \in 1 .. NumMutants |-> IF m = 1 THEN a ELSE b]
=============================================================================
