------------------------------ MODULE DatsRunner ------------------------------
(***************************************************************************)
(* The scheduler of a run: runner/files.go (RunFiles, the slot pool) and   *)
(* runner/runner.go (runFile, runHookCommand, and the life of one test     *)
(* instance around RunTest).                                               *)
(*                                                                         *)
(* Every file of the run is parsed first; then one goroutine per file sets *)
(* its file up, starts its test instances, each in a goroutine of its own, *)
(* waits for them, tears the file down and returns.  All commands of all   *)
(* files share one pool of Jobs slots.  An interrupt may arrive at any     *)
(* time.                                                                   *)
(*                                                                         *)
(* What a command computes is abstracted to whether it succeeded; fixture  *)
(* contents, output text and golden files are not part of this module.     *)
(***************************************************************************)
EXTENDS Integers, FiniteSets

CONSTANTS
  NumFiles,     (* files of the run, in the order given or discovered       *)
  Jobs,         (* -j: capacity of the slot pool                            *)
  Setup,        (* Setup[f]: setup commands of file f                       *)
  Tests,        (* Tests[f]: test instances of f, after matrix expansion    *)
  Teardown,     (* Teardown[f]: teardown commands of f                      *)
  MayNotStart,  (* commands whose preparation may fail: a missing           *)
                (* stdin_file or copy source, an unreachable host, a bash   *)
                (* that cannot be spawned                                   *)
  MayHang,      (* tests without a timeout whose command may never exit     *)
  KeepTemp,     (* --keep-temp                                              *)
  Watching      (* the caller cancels the run's context on an interrupt, as *)
                (* dats watch and library callers do and dats test does not *)

Files == 1 .. NumFiles

\* A command of a file: a setup hook, a test instance or a teardown hook.
SetupHooks    == UNION {{<<f, "setup", i>>    : i \in 1 .. Setup[f]}    : f \in Files}
Instances     == UNION {{<<f, "tests", i>>    : i \in 1 .. Tests[f]}    : f \in Files}
TeardownHooks == UNION {{<<f, "teardown", i>> : i \in 1 .. Teardown[f]} : f \in Files}
Commands      == SetupHooks \cup Instances \cup TeardownHooks

InstancesOf(f) == {<<f, "tests", i>> : i \in 1 .. Tests[f]}

ASSUME ConstantsAssumption ==
  /\ NumFiles \in Nat
  /\ Jobs \in Nat \ {0}            \* RunFiles refuses jobs < 1
  /\ Setup    \in [Files -> Nat]
  /\ Tests    \in [Files -> Nat]
  /\ Teardown \in [Files -> Nat]
  /\ MayNotStart \subseteq Commands
  /\ MayHang \subseteq Instances
  /\ KeepTemp \in BOOLEAN
  /\ Watching \in BOOLEAN

VARIABLES
  phase,             (* where RunFiles is                                   *)
  parsed,            (* files parsed so far                                 *)
  printed,           (* buffers already copied to the output                *)
  outcome,           (* what RunFiles returned: "results" or "error"        *)
  cancelled,         (* the run's context is done                           *)
  pool,              (* tokens in the slots channel                         *)
  pc,                (* where each file's goroutine is                      *)
  next,              (* index of the hook or instance it is at              *)
  hook,              (* its hook command: "idle", "held" (a slot) "running" *)
  inst,              (* where each test instance's goroutine is             *)
  verdict,           (* the result each instance stored                     *)
  setupFailure,      (* FileResult.SetupFailure # nil                       *)
  teardownFailures,  (* len(FileResult.TeardownFailures)                    *)
  passed, failed,    (* FileResult.Passed and Failed                        *)
  errs,              (* runFile returned an error                           *)
  temp,              (* the file's temp directory                           *)
  ran                (* history: the commands that began executing          *)

fileVars   == <<pc, next, hook, setupFailure, teardownFailures, passed, failed, errs, temp>>
instVars   == <<inst, verdict>>
outputVars == <<parsed, printed, outcome>>
vars == <<phase, parsed, printed, outcome, cancelled, pool, pc, next, hook, inst,
          verdict, setupFailure, teardownFailures, passed, failed, errs, temp, ran>>

-----------------------------------------------------------------------------
Phases     == {"parse", "run", "print", "returned", "killed"}
Positions  == {"waiting", "begin", "shared", "setup", "tests", "teardown", "exited"}
InstStates == {"idle", "preparing", "executing", "returned", "released", "done"}

\* The commands that occupy a slot, and those whose process exists.
Holding ==
  {<<f, pc[f], next[f]>> : f \in {g \in Files : hook[g] # "idle"}}
    \cup {c \in Instances : inst[c] \in {"preparing", "executing", "returned"}}
Executing ==
  {<<f, pc[f], next[f]>> : f \in {g \in Files : hook[g] = "running"}}
    \cup {c \in Instances : inst[c] = "executing"}

Over == phase \in {"returned", "killed"}

Init ==
  /\ phase = "parse"
  /\ parsed = 0
  /\ printed = 0
  /\ outcome = "none"
  /\ cancelled = FALSE
  /\ pool = 0
  /\ pc = [f \in Files |-> "waiting"]
  /\ next = [f \in Files |-> 1]
  /\ hook = [f \in Files |-> "idle"]
  /\ inst = [c \in Instances |-> "idle"]
  /\ verdict = [c \in Instances |-> "none"]
  /\ setupFailure = [f \in Files |-> FALSE]
  /\ teardownFailures = [f \in Files |-> 0]
  /\ passed = [f \in Files |-> 0]
  /\ failed = [f \in Files |-> 0]
  /\ errs = [f \in Files |-> FALSE]
  /\ temp = [f \in Files |-> "none"]
  /\ ran = {}

(***************************************************************************)
(* RunFiles before the goroutines: every file is parsed, and the first     *)
(* parse error returns.                                                    *)
(***************************************************************************)
ParseFile ==
  /\ phase = "parse"
  /\ parsed < NumFiles
  /\ \/ /\ parsed' = parsed + 1
        /\ UNCHANGED <<phase, outcome>>
     \/ /\ phase' = "returned"
        /\ outcome' = "error"
        /\ UNCHANGED parsed
  /\ UNCHANGED <<printed, cancelled, pool, ran, fileVars, instVars>>

LaunchFiles ==
  /\ phase = "parse"
  /\ parsed = NumFiles
  /\ phase' = "run"
  /\ pc' = [f \in Files |-> "begin"]
  /\ UNCHANGED <<outputVars, cancelled, pool, next, hook, setupFailure,
                 teardownFailures, passed, failed, errs, temp, ran, instVars>>

(***************************************************************************)
(* The slot pool: a buffered channel of capacity Jobs.                     *)
(***************************************************************************)
\* Defect: a channel one slot too large.
AcquireOneTooMany == pool <= Jobs /\ pool' = pool + 1

Acquire == pool < Jobs /\ pool' = pool + 1
Release == pool' = pool - 1

(***************************************************************************)
(* runFile, by the file's goroutine.                                       *)
(***************************************************************************)
AtFile(f, position) == phase = "run" /\ pc[f] = position

\* The deferred Cleanup runs on every return that follows MkdirTemp.
TempAfterReturn == IF KeepTemp THEN "present" ELSE "removed"

\* The temp directory, the coverage directory, the ssh target and its remote
\* base, the sandbox plan and the shared directory: any of them may fail.
OpenFile(f) ==
  /\ AtFile(f, "begin")
  /\ \/ /\ pc' = [pc EXCEPT ![f] = "shared"]
        /\ temp' = [temp EXCEPT ![f] = "present"]
        /\ UNCHANGED errs
     \/ /\ pc' = [pc EXCEPT ![f] = "exited"]
        /\ errs' = [errs EXCEPT ![f] = TRUE]
        /\ \/ UNCHANGED temp                \* MkdirTemp itself failed
           \/ temp' = [temp EXCEPT ![f] = TempAfterReturn]
  /\ UNCHANGED <<phase, outputVars, cancelled, pool, next, hook, setupFailure,
                 teardownFailures, passed, failed, ran, instVars>>

\* Shared fixtures, and their push to the ssh target.
WriteShared(f) ==
  /\ AtFile(f, "shared")
  /\ pc' = [pc EXCEPT ![f] = "setup"]
  /\ setupFailure' \in {setupFailure, [setupFailure EXCEPT ![f] = TRUE]}
  /\ UNCHANGED <<phase, outputVars, cancelled, pool, next, hook,
                 teardownFailures, passed, failed, errs, temp, ran, instVars>>

\* The slot a hook command needs, taken by the file's own goroutine.
AcquireForHook(f, kind, count) ==
  /\ AtFile(f, kind)
  /\ hook[f] = "idle"
  /\ next[f] <= count
  /\ Acquire
  /\ hook' = [hook EXCEPT ![f] = "held"]
  /\ UNCHANGED <<phase, outputVars, cancelled, pc, next, setupFailure,
                 teardownFailures, passed, failed, errs, temp, ran, instVars>>

AcquireForSetup(f)    == ~setupFailure[f] /\ AcquireForHook(f, "setup", Setup[f])
AcquireForTeardown(f) == AcquireForHook(f, "teardown", Teardown[f])

\* A hook's slot is released whether or not it failed.  A failed setup hook
\* ends the loop; a failed teardown hook does not.
HookSucceeds(f) ==
  /\ next' = [next EXCEPT ![f] = @ + 1]
  /\ UNCHANGED <<setupFailure, teardownFailures>>
SetupHookFails(f) ==
  /\ pc[f] = "setup"
  /\ setupFailure' = [setupFailure EXCEPT ![f] = TRUE]
  /\ UNCHANGED <<next, teardownFailures>>
TeardownHookFails(f) ==
  /\ pc[f] = "teardown"
  /\ teardownFailures' = [teardownFailures EXCEPT ![f] = @ + 1]
  /\ next' = [next EXCEPT ![f] = @ + 1]
  /\ UNCHANGED setupFailure
HookFails(f) == SetupHookFails(f) \/ TeardownHookFails(f)

\* Defect: teardown under the run's own context.
HookContextShared(f) == cancelled

\* Setup hooks run under the run's context; teardown hooks under
\* context.WithoutCancel, so an interrupt does not stop them.
HookContextDone(f) == pc[f] = "setup" /\ cancelled

StartHook(f) ==
  /\ phase = "run"
  /\ hook[f] = "held"
  /\ ~HookContextDone(f)
  /\ hook' = [hook EXCEPT ![f] = "running"]
  /\ ran' = ran \cup {<<f, pc[f], next[f]>>}
  /\ UNCHANGED <<phase, outputVars, cancelled, pool, pc, next, setupFailure,
                 teardownFailures, passed, failed, errs, temp, instVars>>

\* Defect: the early return forgets the slot.
HookNotStartedLeaking(f) ==
  /\ phase = "run"
  /\ hook[f] = "held"
  /\ <<f, pc[f], next[f]>> \in MayNotStart \/ HookContextDone(f)
  /\ hook' = [hook EXCEPT ![f] = "idle"]
  /\ HookFails(f)
  /\ UNCHANGED <<phase, outputVars, cancelled, pool, pc, passed, failed, errs,
                 temp, ran, instVars>>

HookNotStarted(f) ==
  /\ phase = "run"
  /\ hook[f] = "held"
  /\ <<f, pc[f], next[f]>> \in MayNotStart \/ HookContextDone(f)
  /\ hook' = [hook EXCEPT ![f] = "idle"]
  /\ Release
  /\ HookFails(f)
  /\ UNCHANGED <<phase, outputVars, cancelled, pc, passed, failed, errs, temp,
                 ran, instVars>>

\* The hook command exits, is killed by its timeout or by the interrupt.
EndHook(f) ==
  /\ phase = "run"
  /\ hook[f] = "running"
  /\ hook' = [hook EXCEPT ![f] = "idle"]
  /\ Release
  /\ HookSucceeds(f) \/ HookFails(f)
  /\ UNCHANGED <<phase, outputVars, cancelled, pc, passed, failed, errs, temp,
                 ran, instVars>>

\* Defect: the instances that did not run are not counted.
FailInstancesUncounted(f) ==
  /\ AtFile(f, "setup")
  /\ hook[f] = "idle"
  /\ setupFailure[f]
  /\ pc' = [pc EXCEPT ![f] = "teardown"]
  /\ next' = [next EXCEPT ![f] = 1]
  /\ UNCHANGED <<phase, outputVars, cancelled, pool, hook, setupFailure,
                 teardownFailures, passed, failed, errs, temp, ran, instVars>>

\* After a setup failure every instance is reported failed and none runs.
FailInstances(f) ==
  /\ AtFile(f, "setup")
  /\ hook[f] = "idle"
  /\ setupFailure[f]
  /\ failed' = [failed EXCEPT ![f] = Tests[f]]
  /\ pc' = [pc EXCEPT ![f] = "teardown"]
  /\ next' = [next EXCEPT ![f] = 1]
  /\ UNCHANGED <<phase, outputVars, cancelled, pool, hook, setupFailure,
                 teardownFailures, passed, errs, temp, ran, instVars>>

\* Defect: the loop over the setup commands stops one short.
SetupLoopOverEarly(f) == next[f] >= Setup[f]

SetupLoopOver(f) == next[f] > Setup[f]

SetupComplete(f) ==
  /\ AtFile(f, "setup")
  /\ hook[f] = "idle"
  /\ ~setupFailure[f]
  /\ SetupLoopOver(f)
  /\ pc' = [pc EXCEPT ![f] = "tests"]
  /\ next' = [next EXCEPT ![f] = 1]
  /\ UNCHANGED <<phase, outputVars, cancelled, pool, hook, setupFailure,
                 teardownFailures, passed, failed, errs, temp, ran, instVars>>

\* Defect: every instance's goroutine is started first and takes its own slot.
SpawnInstanceUnordered(f) ==
  /\ AtFile(f, "tests")
  /\ next[f] <= Tests[f]
  /\ Acquire
  /\ \E c \in InstancesOf(f) :
       inst[c] = "idle" /\ inst' = [inst EXCEPT ![c] = "preparing"]
  /\ next' = [next EXCEPT ![f] = @ + 1]
  /\ UNCHANGED <<phase, outputVars, cancelled, pc, hook, setupFailure,
                 teardownFailures, passed, failed, errs, temp, ran, verdict>>

\* The slot is taken by the file's goroutine, which then starts the
\* instance's own: slots are taken in declaration order.
SpawnInstance(f) ==
  /\ AtFile(f, "tests")
  /\ next[f] <= Tests[f]
  /\ Acquire
  /\ inst' = [inst EXCEPT ![<<f, "tests", next[f]>>] = "preparing"]
  /\ next' = [next EXCEPT ![f] = @ + 1]
  /\ UNCHANGED <<phase, outputVars, cancelled, pc, hook, setupFailure,
                 teardownFailures, passed, failed, errs, temp, ran, verdict>>

\* Defect: no wg.Wait.
NothingAwaited(f) == TRUE

InstancesAwaited(f) == \A c \in InstancesOf(f) : inst[c] = "done"

\* wg.Wait, then the stored results are counted.
CollectResults(f) ==
  /\ AtFile(f, "tests")
  /\ next[f] > Tests[f]
  /\ InstancesAwaited(f)
  /\ passed' = [passed EXCEPT ![f] = Cardinality({c \in InstancesOf(f) : verdict[c] = "pass"})]
  /\ failed' = [failed EXCEPT ![f] = Cardinality({c \in InstancesOf(f) : verdict[c] # "pass"})]
  /\ pc' = [pc EXCEPT ![f] = "teardown"]
  /\ next' = [next EXCEPT ![f] = 1]
  /\ UNCHANGED <<phase, outputVars, cancelled, pool, hook, setupFailure,
                 teardownFailures, errs, temp, ran, instVars>>

FinishFile(f) ==
  /\ AtFile(f, "teardown")
  /\ hook[f] = "idle"
  /\ next[f] > Teardown[f]
  /\ pc' = [pc EXCEPT ![f] = "exited"]
  /\ temp' = [temp EXCEPT ![f] = TempAfterReturn]
  /\ UNCHANGED <<phase, outputVars, cancelled, pool, next, hook, setupFailure,
                 teardownFailures, passed, failed, errs, ran, instVars>>

(***************************************************************************)
(* One test instance, by its own goroutine.                                *)
(***************************************************************************)
InstanceUnchanged == UNCHANGED <<phase, outputVars, cancelled, fileVars>>

\* exec.Cmd.Start refuses a context that is already done.
StartInstance(c) ==
  /\ phase = "run"
  /\ inst[c] = "preparing"
  /\ ~cancelled
  /\ inst' = [inst EXCEPT ![c] = "executing"]
  /\ ran' = ran \cup {c}
  /\ UNCHANGED <<pool, verdict>>
  /\ InstanceUnchanged

\* Defect: an instance the interrupt kept from starting counts as passed.
InstanceSkipped(c) ==
  /\ phase = "run"
  /\ inst[c] = "preparing"
  /\ c \in MayNotStart \/ cancelled
  /\ inst' = [inst EXCEPT ![c] = "returned"]
  /\ verdict' = [verdict EXCEPT ![c] = IF c \in MayNotStart THEN "fail" ELSE "pass"]
  /\ UNCHANGED <<pool, ran>>
  /\ InstanceUnchanged

InstanceNotStarted(c) ==
  /\ phase = "run"
  /\ inst[c] = "preparing"
  /\ c \in MayNotStart \/ cancelled
  /\ inst' = [inst EXCEPT ![c] = "returned"]
  /\ verdict' = [verdict EXCEPT ![c] = "fail"]
  /\ UNCHANGED <<pool, ran>>
  /\ InstanceUnchanged

\* The command exits or is killed, its outputs are asserted on, its snapshot
\* applied and the result stored.
EndInstance(c) ==
  /\ phase = "run"
  /\ inst[c] = "executing"
  /\ inst' = [inst EXCEPT ![c] = "returned"]
  /\ \E v \in {"pass", "fail"} : verdict' = [verdict EXCEPT ![c] = v]
  /\ UNCHANGED <<pool, ran>>
  /\ InstanceUnchanged

\* The deferred calls run last in, first out: the slot is released, and only
\* then is the wait group told.
ReleaseSlot(c) ==
  /\ phase = "run"
  /\ inst[c] = "returned"
  /\ inst' = [inst EXCEPT ![c] = "released"]
  /\ Release
  /\ UNCHANGED <<verdict, ran>>
  /\ InstanceUnchanged

InstanceDone(c) ==
  /\ phase = "run"
  /\ inst[c] = "released"
  /\ inst' = [inst EXCEPT ![c] = "done"]
  /\ UNCHANGED <<pool, verdict, ran>>
  /\ InstanceUnchanged

(***************************************************************************)
(* RunFiles after the goroutines: buffers are printed in the files' order, *)
(* and the first error ends the run without results.                       *)
(***************************************************************************)
AwaitFiles ==
  /\ phase = "run"
  /\ \A f \in Files : pc[f] = "exited"
  /\ phase' = "print"
  /\ UNCHANGED <<outputVars, cancelled, pool, ran, fileVars, instVars>>

PrintFile ==
  /\ phase = "print"
  /\ printed < NumFiles
  /\ printed' = printed + 1
  /\ IF errs[printed + 1]
       THEN phase' = "returned" /\ outcome' = "error"
       ELSE UNCHANGED <<phase, outcome>>
  /\ UNCHANGED <<parsed, cancelled, pool, ran, fileVars, instVars>>

\* The output itself may fail, a closed pipe for instance.
PrintFails ==
  /\ phase = "print"
  /\ printed < NumFiles
  /\ phase' = "returned"
  /\ outcome' = "error"
  /\ UNCHANGED <<parsed, printed, cancelled, pool, ran, fileVars, instVars>>

ReturnResults ==
  /\ phase = "print"
  /\ printed = NumFiles
  /\ phase' = "returned"
  /\ outcome' = "results"
  /\ UNCHANGED <<parsed, printed, cancelled, pool, ran, fileVars, instVars>>

(***************************************************************************)
(* Ctrl-C or SIGTERM where the caller made it cancel the run's context     *)
(* (signal.NotifyContext in dats watch, the ctx of a library caller).      *)
(***************************************************************************)
Interrupt ==
  /\ Watching
  /\ ~Over
  /\ ~cancelled
  /\ cancelled' = TRUE
  /\ UNCHANGED <<phase, outputVars, pool, ran, fileVars, instVars>>

\* The process dies where it stands: SIGKILL, or the Ctrl-C of a dats test,
\* which runs under context.Background and catches no signal.
Kill ==
  /\ ~Over
  /\ phase' = "killed"
  /\ UNCHANGED <<outputVars, cancelled, pool, ran, fileVars, instVars>>

Terminated == Over /\ UNCHANGED vars

-----------------------------------------------------------------------------
FileStep(f) ==
  \/ OpenFile(f) \/ WriteShared(f)
  \/ AcquireForSetup(f) \/ AcquireForTeardown(f)
  \/ StartHook(f) \/ HookNotStarted(f) \/ EndHook(f)
  \/ FailInstances(f) \/ SetupComplete(f) \/ SpawnInstance(f)
  \/ CollectResults(f) \/ FinishFile(f)

InstanceStep(c) ==
  \/ StartInstance(c) \/ InstanceNotStarted(c) \/ EndInstance(c)
  \/ ReleaseSlot(c) \/ InstanceDone(c)

RunStep ==
  \/ ParseFile \/ LaunchFiles \/ AwaitFiles
  \/ PrintFile \/ PrintFails \/ ReturnResults

Next ==
  \/ RunStep
  \/ \E f \in Files : FileStep(f)
  \/ \E c \in Instances : InstanceStep(c)
  \/ Interrupt
  \/ Kill
  \/ Terminated

\* Defect: the command is not bound to the run's context.
MustEndUnbound(c) == c \notin MayHang

\* A command ends for certain if it exits by itself, has a timeout, or the
\* context it was started with is done.
MustEnd(c) == c \notin MayHang \/ cancelled

DueStep(c) == InstanceStep(c) /\ (inst[c] = "executing" => MustEnd(c))

\* Goroutines are scheduled, and a command that must end does.  Interrupts come
\* or do not come.
Fairness ==
  /\ WF_vars(RunStep)
  /\ \A f \in Files : WF_vars(FileStep(f))
  /\ \A c \in Instances : WF_vars(DueStep(c))

Spec     == Init /\ [][Next]_vars
FairSpec == Spec /\ Fairness

-----------------------------------------------------------------------------
(***************************************************************************)
(* Properties.                                                             *)
(***************************************************************************)

\* Every variable ranges over what the code can store in it.
TypeOK ==
  /\ phase \in Phases
  /\ parsed \in 0 .. NumFiles
  /\ printed \in 0 .. NumFiles
  /\ outcome \in {"none", "results", "error"}
  /\ cancelled \in BOOLEAN
  /\ pool \in 0 .. Jobs
  /\ pc \in [Files -> Positions]
  /\ next \in [Files -> Nat \ {0}]
  /\ hook \in [Files -> {"idle", "held", "running"}]
  /\ inst \in [Instances -> InstStates]
  /\ verdict \in [Instances -> {"none", "pass", "fail"}]
  /\ setupFailure \in [Files -> BOOLEAN]
  /\ teardownFailures \in [Files -> Nat]
  /\ passed \in [Files -> Nat]
  /\ failed \in [Files -> Nat]
  /\ errs \in [Files -> BOOLEAN]
  /\ temp \in [Files -> {"none", "present", "removed"}]
  /\ ran \subseteq Commands

\* The pool never leaks or invents a slot: its tokens are exactly the hooks and
\* instances between an acquire and the matching release, on every path through
\* runFile, the early failures included.
SlotsAccountedFor == pool = Cardinality(Holding)

\* -j: no more than Jobs commands exist at once, across all files, hooks and
\* tests together.
AtMostJobs == Cardinality(Executing) <= Jobs

\* The setup barrier: once any instance of a file has run, every setup command
\* of that file has run, succeeded and is over.
SetupBarrier ==
  \A f \in Files :
    (\E c \in InstancesOf(f) : c \in ran) =>
      /\ ~setupFailure[f]
      /\ \A i \in 1 .. Setup[f] : <<f, "setup", i>> \in ran \ Executing

\* The teardown barrier: once any teardown command of a file has run, none of
\* its instances is between its start and its end, nor will one start.
TeardownBarrier ==
  \A f \in Files :
    (\E i \in 1 .. Teardown[f] : <<f, "teardown", i>> \in ran) =>
      /\ \A c \in InstancesOf(f) : inst[c] \in {"idle", "done"}
      /\ (\E c \in InstancesOf(f) : inst[c] = "idle") => setupFailure[f]

\* While dats executes a command, the temp directory with its fixtures, outputs and
\* shared files is there: the deferred Cleanup waits for every execution the file
\* started.  What a command leaves running behind its execution, in the background,
\* in a container or on a remote host, is outside this.
WorkspaceWhileExecuting ==
  \A c \in Executing : temp[c[1]] = "present"

\* Slots are taken in declaration order, so at -jN an instance's command begins
\* only when fewer than N earlier instances of the file are unfinished.  At -j1
\* that is a sequential run, which tests building on one another rely on.
DeclarationOrderWindow ==
  \A f \in Files : \A j \in 1 .. Tests[f] :
    <<f, "tests", j>> \in ran =>
      Cardinality({i \in 1 .. (j - 1) :
                     inst[<<f, "tests", i>>] \notin {"released", "done"}}) < Jobs

FileOk(f) == failed[f] = 0 /\ ~setupFailure[f] /\ teardownFailures[f] = 0

\* A file reported green ran every command it has, hooks included, and each of
\* its instances passed: nothing is skipped into a green result, by an interrupt
\* neither, and whatever becomes of the other files.
GreenRunIsComplete ==
  outcome = "results" =>
    \A f \in Files : FileOk(f) =>
      /\ {c \in Commands : c[1] = f} \subseteq ran
      /\ \A c \in InstancesOf(f) : verdict[c] = "pass"

\* Results count every instance once, and a setup failure is reported as the
\* failure of instances none of which ran.
ResultsCountEveryInstance ==
  outcome = "results" =>
    \A f \in Files :
      /\ ~errs[f]
      /\ passed[f] + failed[f] = Tests[f]
      /\ setupFailure[f] => passed[f] = 0 /\ InstancesOf(f) \cap ran = {}
      /\ ~setupFailure[f] /\ ~cancelled => InstancesOf(f) \ MayNotStart \subseteq ran

Opened(f) == pc[f] \in {"shared", "setup", "tests", "teardown"}

\* Teardown always runs: from the moment a file is open every teardown command
\* that is sure to start does run, after test failures, after a setup failure and
\* after an interrupt; only a test that hangs, uninterrupted, or the death of
\* the process keeps it from running.
TeardownAlwaysRuns ==
  \A c \in TeardownHooks \ MayNotStart :
    Opened(c[1]) /\ (cancelled \/ MayHang \cap InstancesOf(c[1]) = {})
      ~> c \in ran \/ phase = "killed"

\* What is left when only tests that hang are left: every other file has
\* returned, and a file with hung tests waits for those and nothing else.
OnlyHungTestsRemain ==
  \A f \in Files :
    \/ pc[f] = "exited"
    \/ /\ MayHang \cap InstancesOf(f) # {}
       /\ pc[f] = "tests"
       /\ \A c \in InstancesOf(f) \ MayHang : inst[c] = "done"

\* The run ends: no interleaving of slots, barriers and failures leaves its
\* goroutines waiting for one another.  Tests that hang in fewer than Jobs
\* slots hold up their own file only.
RunEnds == Cardinality(MayHang) < Jobs => <>(Over \/ OnlyHungTestsRemain)

\* An interrupt ends a watched run whatever its commands are doing.
InterruptEndsRun == cancelled ~> Over

\* The run keeps the promises of SuiteContract: the stage of a file is where its
\* goroutine is, its commands are those that have a process.
StageOf(position) ==
  CASE position \in {"waiting", "begin", "shared"} -> "pending"
    [] position \in {"setup", "tests", "teardown"} -> position
    [] position = "exited" -> "closed"

Contract == INSTANCE SuiteContract WITH
  stage   <- [f \in Files |-> StageOf(pc[f])],
  active  <- Executing,
  started <- ran

ContractSpec == Contract!Spec
=============================================================================
