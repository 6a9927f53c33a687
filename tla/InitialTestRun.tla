--------------------------- MODULE InitialTestRun ---------------------------
(***************************************************************************)
(* The arithmetic of InitialTestExecutor, and of the timeouts that are     *)
(* computed from it later (Sandbox, TestableMutant).                       *)
(***************************************************************************)
EXTENDS Integers, FiniteSetsExt

CONSTANTS TestTime,        \* the time each test reports
          TimeoutFactor,   \* options.timeoutFactor, a whole number here
          TimeoutMS        \* options.timeoutMS

Tests == DOMAIN TestTime

\* tests.reduce((total, test) => total + test.timeSpentMs, 0)
NetTime(tests) == MapThenSumSet(LAMBDA t : TestTime[t], tests)

BugNegativeOverhead(gross, tests) == gross - NetTime(tests)
Overhead(gross, tests) == IF gross - NetTime(tests) < 0 THEN 0 ELSE gross - NetTime(tests)

\* A run is "Complete", "Error" or "Timeout"; `failed` are the tests that failed.
ValidateResult(status, failed) == status = "Complete" /\ failed = {}

\* The timeout of a mutant for which `selected` are run.
CalculateTimeout(selected, overhead) == TimeoutFactor * NetTime(selected) + TimeoutMS + overhead
=============================================================================
