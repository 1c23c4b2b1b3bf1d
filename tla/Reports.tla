------------------------------- MODULE Reports -------------------------------
(***************************************************************************)
(* What a run tells its callers: dats.Result, the JUnit and JSON reports   *)
(* of report/, the exit status of cmd/test.go.  All are functions of what  *)
(* RunFiles returned, so this module adds operators to DatsRunner and no   *)
(* state.                                                                  *)
(***************************************************************************)
EXTENDS DatsRunner, FiniteSetsExt

Formats == {"junit", "json"}

SumOver(count) == MapThenSumSet(LAMBDA f : count[f], Files)

\* FileResult.Results: after a setup failure every instance is in it as failed.
Passed(c) == verdict[c] = "pass"
FailedResults(f) == {c \in InstancesOf(f) : ~Passed(c)}

(***************************************************************************)
(* WriteJUnit: failed hooks become synthetic test cases.                   *)
(***************************************************************************)
SetupCases(f) == IF setupFailure[f] THEN {<<f, "[setup]">>} ELSE {}

\* Defect: what fails after the tests is not reported.
NoTeardownCases(f) == {}

TeardownCases(f) == {<<f, "[teardown]", i>> : i \in 1 .. teardownFailures[f]}

JUnitCases(f)    == SetupCases(f) \cup InstancesOf(f) \cup TeardownCases(f)
JUnitFailures(f) == SetupCases(f) \cup FailedResults(f) \cup TeardownCases(f)

JUnitRoot ==
  [tests    |-> SumOver([f \in Files |-> Cardinality(JUnitCases(f))]),
   failures |-> SumOver([f \in Files |-> Cardinality(JUnitFailures(f))])]

(***************************************************************************)
(* WriteJSON: the totals come from the counters, the tests from the list.  *)
(***************************************************************************)
JSONReport ==
  [ok     |-> \A f \in Files : FileOk(f),
   tests  |-> SumOver([f \in Files |-> Cardinality(InstancesOf(f))]),
   passed |-> SumOver(passed),
   failed |-> SumOver(failed),
   hooks  |-> [f \in Files |-> <<setupFailure[f], teardownFailures[f]>>],
   notOk  |-> UNION {FailedResults(f) : f \in Files}]

(***************************************************************************)
(* dats.Result and runTests.  A report that was requested may break: its   *)
(* directory, the file, or writing to it.                                  *)
(***************************************************************************)
ResultOk == \A f \in Files : FileOk(f)

\* Both reports are tried, whichever breaks.
WriteReports(requested, broken) == requested \ broken

Written(requested, broken) ==
  IF outcome = "results" THEN WriteReports(requested, broken) ELSE {}

ExitStatus(requested, broken) ==
  IF outcome = "results" /\ requested \cap broken = {} /\ ResultOk THEN 0 ELSE 1

-----------------------------------------------------------------------------
\* Whatever interleaving of failures, interrupts and hooks ended the run, the
\* ways to learn about it tell the same story.  The status is 0 exactly if both
\* reports are green and were written where requested; the JSON totals are the
\* number of its tests, the failed total that of its failed tests; JUnit counts
\* the same instances and failures plus one case per failed hook; and a run that
\* returns an error leaves no report and no success.
ReportsAgree ==
  phase = "returned" =>
    \A requested \in SUBSET Formats : \A broken \in SUBSET Formats :
      LET status == ExitStatus(requested, broken)
          hooks  == SumOver([f \in Files |-> (IF setupFailure[f] THEN 1 ELSE 0) + teardownFailures[f]])
      IN
      /\ outcome = "error" => status = 1 /\ Written(requested, broken) = {}
      /\ outcome = "results" =>
           /\ status = 0 <=> JSONReport.ok /\ Written(requested, broken) = requested
           /\ JSONReport.ok <=> JUnitRoot.failures = 0
           /\ JSONReport.tests = JSONReport.passed + JSONReport.failed
           /\ JSONReport.failed = Cardinality(JSONReport.notOk)
           /\ JUnitRoot.tests = JSONReport.tests + hooks
           /\ JUnitRoot.failures = JSONReport.failed + hooks
           /\ status = 0 => Instances \ ran = {}
=============================================================================
