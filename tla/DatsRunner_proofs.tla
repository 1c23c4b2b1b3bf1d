-------------------------- MODULE DatsRunner_proofs --------------------------
(***************************************************************************)
(* Theorems about DatsRunner, for every number of files, commands and      *)
(* slots, in four parts: slots and barriers, from the inductive invariant  *)
(* IInv; results, from RInv beside it; the refinement of SuiteContract,    *)
(* from LoopInv beside both; and the reports, from what the first two say  *)
(* of a run that returned.  Each part of an invariant is shown to be       *)
(* preserved by a lemma of its own, with one step per action.              *)
(***************************************************************************)
EXTENDS Reports, FiniteSetTheorems, TLAPS

-----------------------------------------------------------------------------
(***************************************************************************)
(* The inductive invariant.                                                *)
(***************************************************************************)

\* A hook holds a slot only in the two stages that have hooks, and is then a
\* command of its file.
HookInv ==
  \A f \in Files : hook[f] # "idle" =>
    /\ pc[f] \in {"setup", "teardown"}
    /\ <<f, pc[f], next[f]>> \in Commands

\* The pool holds one token for each command between acquire and release.
SlotsInv == IsFiniteSet(Holding) /\ SlotsAccountedFor

\* Nothing of a file happens before RunFiles launches its goroutine, no instance
\* leaves "idle" before its turn, and none is under way from teardown on.
InstanceInv ==
  /\ phase = "parse" => \A f \in Files : pc[f] = "waiting"
  /\ \A c \in Instances :
       /\ pc[c[1]] \in {"waiting", "begin", "shared", "setup"} => inst[c] = "idle"
       /\ pc[c[1]] = "tests" /\ next[c[1]] <= c[3] => inst[c] = "idle"
       /\ pc[c[1]] \in {"teardown", "exited"} => inst[c] \in {"idle", "done"}
       /\ c \in ran => inst[c] # "idle"

SetupPassed(f) ==
  ~setupFailure[f] /\ \A i \in 1 .. Setup[f] : <<f, "setup", i>> \in ran

\* While no setup hook failed, those before "next" have run; the tests stage is
\* entered, and an instance started, only after all of them did.
SetupInvAt(f) ==
  /\ pc[f] \in {"waiting", "begin", "shared"} => next[f] = 1
  /\ hook[f] = "running" => <<f, pc[f], next[f]>> \in ran
  /\ pc[f] = "setup" /\ ~setupFailure[f] =>
       \A i \in 1 .. Setup[f] : i < next[f] => <<f, "setup", i>> \in ran
  /\ pc[f] = "tests" => SetupPassed(f)

SetupInv ==
  /\ \A f \in Files : SetupInvAt(f)
  /\ \A c \in Instances : inst[c] # "idle" => SetupPassed(c[1])

\* In a file whose setup passed, teardown finds no instance that was left out.
NoneLeftOut(f) ==
  ~setupFailure[f] => \A c \in InstancesOf(f) : inst[c] # "idle"

TeardownInvAt(f) ==
  /\ pc[f] = "teardown" => NoneLeftOut(f)
  /\ \A i \in 1 .. Teardown[f] : <<f, "teardown", i>> \in ran =>
       pc[f] \in {"teardown", "exited"} /\ NoneLeftOut(f)

TeardownInv == \A f \in Files : TeardownInvAt(f)

IInv == TypeOK /\ HookInv /\ SlotsInv /\ InstanceInv /\ SetupInv /\ TeardownInv

-----------------------------------------------------------------------------
(***************************************************************************)
(* Shapes and finiteness of the sets of commands.                          *)
(***************************************************************************)

\* What a test instance is: a file, the word "tests" and an index.
LEMMA InstanceShape ==
  ASSUME NEW c \in Instances
  PROVE  /\ c[1] \in Files
         /\ c[2] = "tests"
         /\ c[3] \in 1 .. Tests[c[1]]
         /\ c = <<c[1], "tests", c[3]>>
         /\ c \in Commands
BY DEF Instances, Commands

\* The instances of a file, by index and as a part of all instances.
LEMMA InstanceBelongs ==
  ASSUME NEW f \in Files
  PROVE  /\ \A i \in 1 .. Tests[f] : <<f, "tests", i>> \in Instances
         /\ InstancesOf(f) = {c \in Instances : c[1] = f}
BY DEF Instances, InstancesOf

\* A hook is a command of its file exactly when its index is within the loop.
LEMMA HookCommands ==
  ASSUME NEW f \in Files
  PROVE  /\ \A i : <<f, "setup", i>> \in Commands <=> i \in 1 .. Setup[f]
         /\ \A i : <<f, "teardown", i>> \in Commands <=> i \in 1 .. Teardown[f]
BY DEF Commands, SetupHooks, Instances, TeardownHooks

\* A file has finitely many instances: one for each index.
LEMMA InstancesFinite ==
  ASSUME NEW f \in Files
  PROVE  IsFiniteSet(InstancesOf(f))
<1> DEFINE nth == [i \in 1 .. Tests[f] |-> <<f, "tests", i>>]
<1>1. Tests[f] \in Nat
  BY ConstantsAssumption
<1>2. nth \in Surjection(1 .. Tests[f], InstancesOf(f))
  BY DEF InstancesOf, Surjection
<1>3. IsFiniteSet(1 .. Tests[f])
  BY <1>1, FS_Interval
<1> HIDE DEF nth
<1> QED
  BY <1>2, <1>3, FS_Surjection

\* A subset of the instances of a file has a number of elements.
LEMMA InstanceCount ==
  ASSUME NEW f \in Files, NEW S \in SUBSET InstancesOf(f)
  PROVE  Cardinality(S) \in Nat
<1>1. IsFiniteSet(InstancesOf(f))
  BY InstancesFinite
<1>2. IsFiniteSet(S)
  BY <1>1, FS_Subset
<1> QED
  BY <1>2, FS_CardinalityType

-----------------------------------------------------------------------------
(***************************************************************************)
(* What a step does to the set of commands that hold a slot.               *)
(***************************************************************************)

HookHolders == {<<f, pc[f], next[f]>> : f \in {g \in Files : hook[g] # "idle"}}
InstHolders == {c \in Instances : inst[c] \in {"preparing", "executing", "returned"}}

\* A slot is held by a hook or by an instance.
LEMMA HoldingParts == Holding = HookHolders \cup InstHolders
BY DEF Holding, HookHolders, InstHolders

\* A hook that takes a slot becomes one more holder, and was none before.
LEMMA HookAcquires ==
  ASSUME TypeOK, HookInv, NEW f \in Files, hook[f] = "idle", pc[f] \in {"setup", "teardown"},
         hook' = [hook EXCEPT ![f] = "held"], UNCHANGED <<pc, next, inst>>
  PROVE  /\ <<f, pc[f], next[f]>> \notin Holding
         /\ Holding' = Holding \cup {<<f, pc[f], next[f]>>}
<1>1. <<f, pc[f], next[f]>> \notin Holding
  BY InstanceShape DEF Holding
<1>2. InstHolders' = InstHolders
  BY DEF InstHolders
<1>3. HookHolders' = HookHolders \cup {<<f, pc[f], next[f]>>}
  BY DEF HookHolders, TypeOK
<1> QED
  BY <1>1, <1>2, <1>3, HoldingParts DEF Holding, HookHolders, InstHolders

\* A hook that gives its slot back is the one holder less.
LEMMA HookReleases ==
  ASSUME TypeOK, HookInv, NEW f \in Files, hook[f] # "idle",
         hook' = [hook EXCEPT ![f] = "idle"], UNCHANGED <<pc, inst>>,
         \A g \in Files \ {f} : next'[g] = next[g]
  PROVE  /\ <<f, pc[f], next[f]>> \in Holding
         /\ Holding' = Holding \ {<<f, pc[f], next[f]>>}
<1>1. <<f, pc[f], next[f]>> \in Holding
  BY DEF Holding
<1>2. InstHolders' = InstHolders /\ <<f, pc[f], next[f]>> \notin InstHolders
  BY InstanceShape DEF InstHolders, HookInv
<1>3. HookHolders' = HookHolders \ {<<f, pc[f], next[f]>>}
  BY DEF HookHolders, TypeOK
<1>4. Holding' = HookHolders' \cup InstHolders'
  BY HoldingParts DEF Holding, HookHolders, InstHolders
<1> QED
  BY <1>1, <1>2, <1>3, <1>4, HoldingParts

\* An instance whose goroutine is started becomes one more holder.
LEMMA InstanceAcquires ==
  ASSUME TypeOK, HookInv, NEW c \in Instances, inst[c] = "idle",
         inst' = [inst EXCEPT ![c] = "preparing"], UNCHANGED <<pc, hook>>,
         \A g \in Files : hook[g] # "idle" => next'[g] = next[g]
  PROVE  /\ c \notin Holding
         /\ Holding' = Holding \cup {c}
<1>1. c \notin Holding
  BY InstanceShape DEF Holding, HookInv
<1>2. InstHolders' = InstHolders \cup {c}
  BY DEF InstHolders, TypeOK
<1>3. HookHolders' = HookHolders
  BY DEF HookHolders
<1> QED
  BY <1>1, <1>2, <1>3, HoldingParts DEF Holding, HookHolders, InstHolders

\* An instance that gives its slot back is the one holder less.
LEMMA InstanceReleases ==
  ASSUME TypeOK, HookInv, NEW c \in Instances, inst[c] = "returned",
         inst' = [inst EXCEPT ![c] = "released"], UNCHANGED <<pc, hook, next>>
  PROVE  /\ c \in Holding
         /\ Holding' = Holding \ {c}
<1>1. c \in Holding
  BY DEF Holding
<1>2. InstHolders' = InstHolders \ {c}
  BY DEF InstHolders, TypeOK
<1>3. HookHolders' = HookHolders /\ c \notin HookHolders
  BY InstanceShape DEF HookHolders, HookInv
<1>4. Holding' = HookHolders' \cup InstHolders'
  BY HoldingParts DEF Holding, HookHolders, InstHolders
<1> QED
  BY <1>1, <1>2, <1>3, <1>4, HoldingParts

\* Steps that move neither hooks nor instances between holding and not holding
\* leave the holders as they are.
LEMMA HoldersKept ==
  ASSUME \A g \in Files : /\ hook'[g] = "idle" <=> hook[g] = "idle"
                          /\ hook[g] # "idle" => pc'[g] = pc[g] /\ next'[g] = next[g],
         \A c \in Instances : inst[c] \in {"preparing", "executing", "returned"} <=>
                             inst'[c] \in {"preparing", "executing", "returned"}
  PROVE  Holding' = Holding
BY DEF Holding

\* An acquire together with one new holder keeps the account.
LEMMA SlotTaken ==
  ASSUME SlotsInv, NEW c, c \notin Holding, Holding' = Holding \cup {c}, pool' = pool + 1
  PROVE  SlotsInv'
BY FS_AddElement DEF SlotsInv, SlotsAccountedFor

\* A release together with one holder less keeps the account.
LEMMA SlotGivenBack ==
  ASSUME SlotsInv, NEW c, c \in Holding, Holding' = Holding \ {c}, pool' = pool - 1
  PROVE  SlotsInv'
BY FS_RemoveElement DEF SlotsInv, SlotsAccountedFor

\* A slot that is held can be released: the pool is not empty.
LEMMA HeldSlotCounted ==
  ASSUME SlotsInv, pool \in 0 .. Jobs, NEW c \in Holding
  PROVE  pool - 1 \in 0 .. Jobs
<1>1. pool # 0
  BY FS_EmptySet DEF SlotsInv, SlotsAccountedFor
<1> QED
  BY <1>1, ConstantsAssumption

-----------------------------------------------------------------------------
(***************************************************************************)
(* Type correctness.                                                       *)
(***************************************************************************)

USE DEF fileVars, instVars, outputVars

\* Every operation leaves every variable within its type.  HookInv is needed
\* for "ran", SlotsInv for the pool: a release never takes it below zero.
LEMMA TypeStep ==
  ASSUME TypeOK, HookInv, SlotsInv, [Next]_vars
  PROVE  TypeOK'
<1> USE ConstantsAssumption DEF TypeOK
<1>1. CASE ParseFile
  BY <1>1 DEF ParseFile, Phases
<1>2. CASE LaunchFiles
  BY <1>2 DEF LaunchFiles, Phases, Positions
<1>3. ASSUME NEW f \in Files, OpenFile(f) PROVE TypeOK'
  BY <1>3 DEF OpenFile, AtFile, Positions, TempAfterReturn
<1>4. ASSUME NEW f \in Files, WriteShared(f) PROVE TypeOK'
  BY <1>4 DEF WriteShared, AtFile, Positions
<1>5. ASSUME NEW f \in Files, AcquireForSetup(f) \/ AcquireForTeardown(f) PROVE TypeOK'
  BY <1>5 DEF AcquireForSetup, AcquireForTeardown, AcquireForHook, AtFile, Acquire
<1>6. ASSUME NEW f \in Files, StartHook(f) PROVE TypeOK'
  BY <1>6 DEF StartHook, HookInv
<1>7. ASSUME NEW f \in Files, hook[f] # "idle" PROVE pool - 1 \in 0 .. Jobs
  <2>1. <<f, pc[f], next[f]>> \in Holding
    BY <1>7 DEF Holding
  <2> QED
    BY <2>1, HeldSlotCounted
<1>8. ASSUME NEW f \in Files, HookSucceeds(f) \/ HookFails(f)
      PROVE  /\ next' \in [Files -> Nat \ {0}]
             /\ setupFailure' \in [Files -> BOOLEAN]
             /\ teardownFailures' \in [Files -> Nat]
  <2>1. CASE HookSucceeds(f)
    BY <2>1 DEF HookSucceeds
  <2>2. CASE SetupHookFails(f)
    BY <2>2 DEF SetupHookFails
  <2>3. CASE TeardownHookFails(f)
    BY <2>3 DEF TeardownHookFails
  <2> QED
    BY <1>8, <2>1, <2>2, <2>3 DEF HookFails
<1>9. ASSUME NEW f \in Files, HookNotStarted(f) PROVE TypeOK'
  BY <1>7, <1>8, <1>9 DEF HookNotStarted, Release
<1>10. ASSUME NEW f \in Files, EndHook(f) PROVE TypeOK'
  BY <1>7, <1>8, <1>10 DEF EndHook, Release
<1>11. ASSUME NEW f \in Files, FailInstances(f) PROVE TypeOK'
  BY <1>11 DEF FailInstances, AtFile, Positions
<1>12. ASSUME NEW f \in Files, SetupComplete(f) PROVE TypeOK'
  BY <1>12 DEF SetupComplete, AtFile, Positions
<1>13. ASSUME NEW f \in Files, SpawnInstance(f) PROVE TypeOK'
  <2>1. inst' \in [Instances -> InstStates]
    BY <1>13 DEF SpawnInstance, InstStates
  <2>2. next' \in [Files -> Nat \ {0}] /\ pool' \in 0 .. Jobs
    BY <1>13 DEF SpawnInstance, Acquire
  <2> QED
    BY <1>13, <2>1, <2>2 DEF SpawnInstance
<1>14. ASSUME NEW f \in Files, CollectResults(f) PROVE TypeOK'
  <2>1. /\ Cardinality({c \in InstancesOf(f) : verdict[c] = "pass"}) \in Nat
        /\ Cardinality({c \in InstancesOf(f) : verdict[c] # "pass"}) \in Nat
    BY InstanceCount
  <2> QED
    BY <1>14, <2>1 DEF CollectResults, AtFile, Positions
<1>15. ASSUME NEW f \in Files, FinishFile(f) PROVE TypeOK'
  BY <1>15 DEF FinishFile, AtFile, Positions, TempAfterReturn
<1>16. ASSUME NEW c \in Instances, StartInstance(c) PROVE TypeOK'
  BY <1>16, InstanceShape DEF StartInstance, InstanceUnchanged, InstStates
<1>17. ASSUME NEW c \in Instances, InstanceNotStarted(c) PROVE TypeOK'
  BY <1>17 DEF InstanceNotStarted, InstanceUnchanged, InstStates
<1>18. ASSUME NEW c \in Instances, EndInstance(c) PROVE TypeOK'
  BY <1>18 DEF EndInstance, InstanceUnchanged, InstStates
<1>19. ASSUME NEW c \in Instances, ReleaseSlot(c) PROVE TypeOK'
  <2>1. c \in Holding
    BY <1>19 DEF ReleaseSlot, Holding
  <2>2. pool - 1 \in 0 .. Jobs
    BY <2>1, HeldSlotCounted
  <2> QED
    BY <1>19, <2>2 DEF ReleaseSlot, Release, InstanceUnchanged, InstStates
<1>20. ASSUME NEW c \in Instances, InstanceDone(c) PROVE TypeOK'
  BY <1>20 DEF InstanceDone, InstanceUnchanged, InstStates
<1>21. CASE AwaitFiles \/ PrintFails \/ ReturnResults
  BY <1>21 DEF AwaitFiles, PrintFails, ReturnResults, Phases
<1>22. CASE PrintFile
  BY <1>22 DEF PrintFile, Phases
<1>23. CASE Interrupt \/ Kill
  BY <1>23 DEF Interrupt, Kill, Phases
<1>24. CASE UNCHANGED vars
  BY <1>24 DEF vars
<1> QED
  BY <1>1, <1>2, <1>3, <1>4, <1>5, <1>6, <1>9, <1>10, <1>11, <1>12, <1>13, <1>14, <1>15,
     <1>16, <1>17, <1>18, <1>19, <1>20, <1>21, <1>22, <1>23, <1>24
     DEF Next, RunStep, FileStep, InstanceStep, Terminated

-----------------------------------------------------------------------------
(***************************************************************************)
(* The slot pool.                                                          *)
(***************************************************************************)

\* A hook's slot is taken in the setup or the teardown loop, and the file's
\* goroutine leaves that position only once the hook is over.
LEMMA HookStep ==
  ASSUME TypeOK, HookInv, InstanceInv, [Next]_vars
  PROVE  HookInv'
<1> USE DEF TypeOK, HookInv
<1>1. CASE LaunchFiles
  BY <1>1 DEF LaunchFiles, InstanceInv
<1>2. ASSUME NEW f \in Files, OpenFile(f) \/ WriteShared(f) PROVE HookInv'
  BY <1>2 DEF OpenFile, WriteShared, AtFile
<1>3. ASSUME NEW f \in Files, AcquireForSetup(f) \/ AcquireForTeardown(f) PROVE HookInv'
  <2>1. next[f] \in Nat \ {0} /\ Setup[f] \in Nat /\ Teardown[f] \in Nat
    BY ConstantsAssumption
  <2>2. <<f, pc[f], next[f]>> \in Commands /\ pc[f] \in {"setup", "teardown"}
    BY <1>3, <2>1, HookCommands DEF AcquireForSetup, AcquireForTeardown, AcquireForHook, AtFile
  <2> QED
    BY <1>3, <2>2 DEF AcquireForSetup, AcquireForTeardown, AcquireForHook
<1>4. ASSUME NEW f \in Files, StartHook(f) PROVE HookInv'
  BY <1>4 DEF StartHook
<1>5. ASSUME NEW f \in Files, HookNotStarted(f) \/ EndHook(f) PROVE HookInv'
  BY <1>5 DEF HookNotStarted, EndHook, HookSucceeds, HookFails, SetupHookFails, TeardownHookFails
<1>6. ASSUME NEW f \in Files, FailInstances(f) \/ SetupComplete(f) \/ FinishFile(f)
      PROVE  HookInv'
  BY <1>6 DEF FailInstances, SetupComplete, FinishFile, AtFile
<1>7. ASSUME NEW f \in Files, SpawnInstance(f) \/ CollectResults(f) PROVE HookInv'
  BY <1>7 DEF SpawnInstance, CollectResults, AtFile
<1>8. CASE UNCHANGED fileVars
  BY <1>8
<1>9. ASSUME NEW c \in Instances, InstanceStep(c) PROVE UNCHANGED fileVars
  BY <1>9 DEF InstanceStep, StartInstance, InstanceNotStarted, EndInstance, ReleaseSlot,
              InstanceDone, InstanceUnchanged
<1> QED
  BY <1>1, <1>2, <1>3, <1>4, <1>5, <1>6, <1>7, <1>8, <1>9
     DEF Next, RunStep, FileStep, ParseFile, AwaitFiles, PrintFile, PrintFails, ReturnResults,
         Interrupt, Kill, Terminated, vars

\* Whatever the command, its slot is taken once and given back once.
LEMMA SlotsStep ==
  ASSUME TypeOK, HookInv, SlotsInv, InstanceInv, [Next]_vars
  PROVE  SlotsInv'
<1> USE DEF TypeOK
<1>1. ASSUME Holding' = Holding, pool' = pool PROVE SlotsInv'
  BY <1>1 DEF SlotsInv, SlotsAccountedFor
<1>2. CASE LaunchFiles
  <2>1. \A f \in Files : hook[f] = "idle"
    BY <1>2 DEF LaunchFiles, InstanceInv, HookInv
  <2> QED
    BY <1>1, <1>2, <2>1, HoldersKept DEF LaunchFiles
<1>3. ASSUME NEW f \in Files, OpenFile(f) \/ WriteShared(f) PROVE SlotsInv'
  <2>1. hook[f] = "idle"
    BY <1>3 DEF OpenFile, WriteShared, AtFile, HookInv
  <2> QED
    BY <1>1, <1>3, <2>1, HoldersKept DEF OpenFile, WriteShared
<1>4. ASSUME NEW f \in Files, AcquireForSetup(f) \/ AcquireForTeardown(f) PROVE SlotsInv'
  BY <1>4, HookAcquires, SlotTaken
     DEF AcquireForSetup, AcquireForTeardown, AcquireForHook, AtFile, Acquire
<1>5. ASSUME NEW f \in Files, StartHook(f) PROVE SlotsInv'
  BY <1>1, <1>5, HoldersKept DEF StartHook
<1>6. ASSUME NEW f \in Files, HookNotStarted(f) \/ EndHook(f) PROVE SlotsInv'
  <2>1. \A g \in Files \ {f} : next'[g] = next[g]
    BY <1>6 DEF HookNotStarted, EndHook, HookSucceeds, HookFails, SetupHookFails, TeardownHookFails
  <2>2. /\ hook[f] # "idle" /\ hook' = [hook EXCEPT ![f] = "idle"]
        /\ UNCHANGED <<pc, inst>> /\ pool' = pool - 1
    BY <1>6 DEF HookNotStarted, EndHook, Release
  <2> QED
    BY <2>1, <2>2, HookReleases, SlotGivenBack
<1>7. ASSUME NEW f \in Files, FailInstances(f) \/ SetupComplete(f) \/ FinishFile(f)
      PROVE  SlotsInv'
  BY <1>1, <1>7, HoldersKept DEF FailInstances, SetupComplete, FinishFile
<1>8. ASSUME NEW f \in Files, SpawnInstance(f) PROVE SlotsInv'
  <2> DEFINE c == <<f, "tests", next[f]>>
  <2>1. c \in Instances /\ inst[c] = "idle"
    BY <1>8, InstanceBelongs, ConstantsAssumption DEF SpawnInstance, AtFile, InstanceInv
  <2>2. hook[f] = "idle"
    BY <1>8 DEF SpawnInstance, AtFile, HookInv
  <2>3. /\ inst' = [inst EXCEPT ![c] = "preparing"] /\ UNCHANGED <<pc, hook>>
        /\ pool' = pool + 1
        /\ \A g \in Files : hook[g] # "idle" => next'[g] = next[g]
    BY <1>8, <2>2 DEF SpawnInstance, Acquire
  <2> HIDE DEF c
  <2> QED
    BY <2>1, <2>3, InstanceAcquires, SlotTaken
<1>9. ASSUME NEW f \in Files, CollectResults(f) PROVE SlotsInv'
  <2>1. hook[f] = "idle"
    BY <1>9 DEF CollectResults, AtFile, HookInv
  <2> QED
    BY <1>1, <1>9, <2>1, HoldersKept DEF CollectResults
<1>10. ASSUME NEW c \in Instances, StartInstance(c) \/ InstanceNotStarted(c) \/ EndInstance(c)
       PROVE  SlotsInv'
  BY <1>1, <1>10, HoldersKept DEF StartInstance, InstanceNotStarted, EndInstance, InstanceUnchanged
<1>11. ASSUME NEW c \in Instances, ReleaseSlot(c) PROVE SlotsInv'
  BY <1>11, InstanceReleases, SlotGivenBack DEF ReleaseSlot, Release, InstanceUnchanged
<1>12. ASSUME NEW c \in Instances, InstanceDone(c) PROVE SlotsInv'
  BY <1>1, <1>12, HoldersKept DEF InstanceDone, InstanceUnchanged
<1>13. ASSUME UNCHANGED <<pool, fileVars, instVars>> PROVE SlotsInv'
  BY <1>1, <1>13, HoldersKept
<1> QED
  BY <1>2, <1>3, <1>4, <1>5, <1>6, <1>7, <1>8, <1>9, <1>10, <1>11, <1>12, <1>13
     DEF Next, RunStep, FileStep, InstanceStep, ParseFile, AwaitFiles, PrintFile, PrintFails,
         ReturnResults, Interrupt, Kill, Terminated, vars

-----------------------------------------------------------------------------
(***************************************************************************)
(* The order of a file's stages.                                           *)
(***************************************************************************)

\* What the steps of other goroutines leave alone.
LEMMA ElsewhereUnchanged ==
  ASSUME ParseFile \/ AwaitFiles \/ PrintFile \/ PrintFails \/ ReturnResults
           \/ Interrupt \/ Kill \/ Terminated \/ UNCHANGED vars
  PROVE  UNCHANGED <<fileVars, instVars, ran>> /\ (phase' = "parse" => phase = "parse")
BY DEF RunStep, ParseFile, AwaitFiles, PrintFile, PrintFails, ReturnResults, Interrupt,
       Kill, Terminated, vars

\* An instance moves only in its file's tests stage, and is over when that ends.
LEMMA InstanceInvStep ==
  ASSUME TypeOK, HookInv, InstanceInv, [Next]_vars
  PROVE  InstanceInv'
<1> USE InstanceShape DEF TypeOK, InstanceInv
<1>1. CASE LaunchFiles
  BY <1>1 DEF LaunchFiles
<1>2. ASSUME NEW f \in Files, OpenFile(f) PROVE InstanceInv'
  BY <1>2 DEF OpenFile, AtFile
<1>3. ASSUME NEW f \in Files, WriteShared(f) \/ FailInstances(f) \/ FinishFile(f)
      PROVE  InstanceInv'
  BY <1>3 DEF WriteShared, FailInstances, FinishFile, AtFile
<1>4. ASSUME NEW f \in Files, AcquireForSetup(f) \/ AcquireForTeardown(f) PROVE InstanceInv'
  BY <1>4 DEF AcquireForSetup, AcquireForTeardown, AcquireForHook, AtFile
<1>5. ASSUME NEW f \in Files, StartHook(f) PROVE InstanceInv'
  <2>1. \A c \in Instances : c # <<f, pc[f], next[f]>>
    BY <1>5 DEF StartHook, HookInv
  <2> QED
    BY <1>5, <2>1 DEF StartHook
<1>6. ASSUME NEW f \in Files, HookNotStarted(f) \/ EndHook(f) PROVE InstanceInv'
  <2>1. /\ pc[f] \in {"setup", "teardown"}
        /\ \A g \in Files \ {f} : next'[g] = next[g]
        /\ UNCHANGED <<phase, pc, inst, ran>>
    BY <1>6 DEF HookNotStarted, EndHook, HookSucceeds, HookFails, SetupHookFails,
                TeardownHookFails, HookInv
  <2> QED
    BY <2>1
<1>7. ASSUME NEW f \in Files, SetupComplete(f) PROVE InstanceInv'
  BY <1>7 DEF SetupComplete, AtFile
<1>8. ASSUME NEW f \in Files, SpawnInstance(f) PROVE InstanceInv'
  <2> DEFINE c == <<f, "tests", next[f]>>
  <2>1. c \in Instances /\ pc[f] = "tests" /\ phase' = "run"
    BY <1>8, InstanceBelongs, ConstantsAssumption DEF SpawnInstance, AtFile
  <2>2. /\ inst' = [inst EXCEPT ![c] = "preparing"]
        /\ next' = [next EXCEPT ![f] = @ + 1]
        /\ UNCHANGED <<pc, ran>>
    BY <1>8 DEF SpawnInstance
  <2>3. ASSUME NEW d \in Instances PROVE InstanceInv!2!(d)'
    <3>1. CASE d = c
      BY <2>1, <2>2, <3>1
    <3>2. CASE d # c
      <4>1. inst'[d] = inst[d] /\ pc' = pc /\ ran' = ran
        BY <2>2, <3>2
      <4>2. next'[d[1]] <= d[3] => next[d[1]] <= d[3]
        BY <2>2
      <4> QED
        BY <4>1, <4>2
    <3> QED
      BY <3>1, <3>2
  <2> QED
    BY <2>1, <2>3
<1>9. ASSUME NEW f \in Files, CollectResults(f) PROVE InstanceInv'
  BY <1>9, InstanceBelongs DEF CollectResults, AtFile, InstancesAwaited
<1>10. ASSUME NEW c \in Instances, InstanceStep(c) PROVE InstanceInv'
  <2>1. /\ phase = "run" /\ inst[c] \notin {"idle", "done"}
        /\ \E s \in InstStates \ {"idle"} : inst' = [inst EXCEPT ![c] = s]
        /\ ran' = ran \/ ran' = ran \cup {c}
        /\ UNCHANGED <<phase, fileVars>>
    BY <1>10 DEF InstanceStep, StartInstance, InstanceNotStarted, EndInstance, ReleaseSlot,
                 InstanceDone, InstanceUnchanged, InstStates
  <2> QED
    BY <2>1
<1> QED
  BY <1>1, <1>2, <1>3, <1>4, <1>5, <1>6, <1>7, <1>8, <1>9, <1>10, ElsewhereUnchanged
     DEF Next, RunStep, FileStep

\* What a step of file f's goroutine has to show, the other files being as they
\* were.
LEMMA SetupInvFrame ==
  ASSUME SetupInv, NEW f \in Files, ran \subseteq ran',
         \A g \in Files \ {f} : /\ pc'[g] = pc[g] /\ next'[g] = next[g] /\ hook'[g] = hook[g]
                               /\ setupFailure'[g] = setupFailure[g],
         SetupInvAt(f)',
         \A c \in Instances : IF c[1] = f THEN inst'[c] # "idle" => SetupPassed(f)'
                                          ELSE inst'[c] = inst[c]
  PROVE  SetupInv'
<1>1. ASSUME NEW g \in Files PROVE SetupInvAt(g)'
  <2>1. CASE g = f
    BY <2>1
  <2>2. CASE g # f
    BY <2>2 DEF SetupInv, SetupInvAt, SetupPassed
  <2> QED
    BY <2>1, <2>2
<1>2. ASSUME NEW c \in Instances, inst'[c] # "idle" PROVE SetupPassed(c[1])'
  <2>1. CASE c[1] = f
    BY <1>2, <2>1
  <2>2. CASE c[1] # f
    BY <1>2, <2>2, InstanceShape DEF SetupInv, SetupPassed
  <2> QED
    BY <2>1, <2>2
<1> QED
  BY <1>1, <1>2 DEF SetupInv

\* Setup commands run one after another; a failure of one keeps the tests out.
LEMMA SetupInvStep ==
  ASSUME TypeOK, HookInv, InstanceInv, SetupInv, [Next]_vars
  PROVE  SetupInv'
<1> USE DEF TypeOK
<1>1. CASE LaunchFiles
  <2>1. \A f \in Files : hook[f] = "idle"
    BY <1>1 DEF LaunchFiles, InstanceInv, HookInv
  <2>2. /\ pc' = [f \in Files |-> "begin"]
        /\ UNCHANGED <<next, hook, setupFailure, inst, ran>>
    BY <1>1 DEF LaunchFiles
  <2>3. ASSUME NEW f \in Files PROVE SetupInvAt(f)'
    BY <1>1, <2>1, <2>2 DEF SetupInv, SetupInvAt, LaunchFiles, InstanceInv
  <2>4. ASSUME NEW c \in Instances, inst'[c] # "idle" PROVE SetupPassed(c[1])'
    BY <2>2, <2>4 DEF SetupInv, SetupPassed
  <2> QED
    BY <2>3, <2>4 DEF SetupInv
<1>2. ASSUME NEW f \in Files, UNCHANGED <<inst, setupFailure>>
      PROVE  ran \subseteq ran' => \A c \in Instances : inst'[c] # "idle" => SetupPassed(c[1])'
  BY <1>2 DEF SetupInv, SetupPassed
<1>3. ASSUME NEW f \in Files, OpenFile(f) \/ FailInstances(f) \/ CollectResults(f) \/ FinishFile(f)
      PROVE  SetupInv'
  <2>1. /\ hook[f] = "idle"
        /\ \/ pc'[f] = "shared" /\ next' = next /\ pc[f] = "begin"
           \/ pc'[f] = "exited"
           \/ pc'[f] = "teardown"
        /\ \A g \in Files \ {f} : pc'[g] = pc[g]
        /\ \A g \in Files \ {f} : next'[g] = next[g]
        /\ UNCHANGED <<hook, setupFailure, inst, ran>>
    BY <1>3 DEF OpenFile, FailInstances, CollectResults, FinishFile, AtFile, HookInv
  <2>2. next'[f] = 1 \/ pc'[f] \in {"exited", "teardown"}
    BY <2>1 DEF SetupInv, SetupInvAt
  <2>3. SetupInvAt(f)'
    BY <2>1, <2>2 DEF SetupInvAt
  <2> QED
    BY <1>2, <2>1, <2>3, SetupInvFrame
<1>4. ASSUME NEW f \in Files, WriteShared(f) PROVE SetupInv'
  <2>1. /\ hook[f] = "idle" /\ pc' = [pc EXCEPT ![f] = "setup"] /\ pc[f] = "shared"
        /\ \A c \in Instances : c[1] = f => inst[c] = "idle"
        /\ \A g \in Files \ {f} : setupFailure'[g] = setupFailure[g]
        /\ UNCHANGED <<next, hook, inst, ran>>
    BY <1>4 DEF WriteShared, AtFile, HookInv, InstanceInv
  <2>2. next'[f] = 1
    BY <2>1 DEF SetupInv, SetupInvAt
  <2>3. SetupInvAt(f)'
    BY <2>1, <2>2, ConstantsAssumption DEF SetupInvAt
  <2> QED
    BY <2>1, <2>3, SetupInvFrame
<1>5. ASSUME NEW f \in Files, AcquireForSetup(f) \/ AcquireForTeardown(f) PROVE SetupInv'
  <2>1. /\ hook' = [hook EXCEPT ![f] = "held"]
        /\ UNCHANGED <<pc, next, setupFailure, inst, ran>>
    BY <1>5 DEF AcquireForSetup, AcquireForTeardown, AcquireForHook
  <2>2. SetupInvAt(f)'
    BY <2>1 DEF SetupInv, SetupInvAt, SetupPassed
  <2> QED
    BY <1>2, <2>1, <2>2, SetupInvFrame
<1>6. ASSUME NEW f \in Files, StartHook(f) PROVE SetupInv'
  <2>1. /\ hook' = [hook EXCEPT ![f] = "running"]
        /\ ran' = ran \cup {<<f, pc[f], next[f]>>}
        /\ UNCHANGED <<pc, next, setupFailure, inst>>
    BY <1>6 DEF StartHook
  <2>2. SetupInvAt(f)'
    BY <2>1 DEF SetupInv, SetupInvAt, SetupPassed
  <2> QED
    BY <1>2, <2>1, <2>2, SetupInvFrame
<1>7. ASSUME NEW f \in Files, HookNotStarted(f) \/ EndHook(f) PROVE SetupInv'
  <2>1. /\ pc[f] \in {"setup", "teardown"} /\ hook[f] # "idle"
        /\ hook' = [hook EXCEPT ![f] = "idle"]
        /\ UNCHANGED <<pc, inst, ran>>
    BY <1>7 DEF HookNotStarted, EndHook, HookInv
  <2>2. \/ HookSucceeds(f) /\ hook[f] = "running"
        \/ SetupHookFails(f)
        \/ TeardownHookFails(f)
    BY <1>7 DEF HookNotStarted, EndHook, HookFails
  <2>3. /\ \A g \in Files \ {f} : next'[g] = next[g] /\ setupFailure'[g] = setupFailure[g]
        /\ pc[f] = "teardown" => setupFailure' = setupFailure
    BY <2>2 DEF HookSucceeds, SetupHookFails, TeardownHookFails
  <2>4. SetupInvAt(f)'
    <3>1. CASE HookSucceeds(f) /\ hook[f] = "running"
      <4>1. next'[f] = next[f] + 1 /\ setupFailure' = setupFailure
        BY <3>1 DEF HookSucceeds
      <4>2. next[f] \in Nat /\ \A i \in 1 .. Setup[f] : i < next[f] + 1 => i < next[f] \/ i = next[f]
        BY ConstantsAssumption
      <4> QED
        BY <2>1, <3>1, <4>1, <4>2 DEF SetupInv, SetupInvAt
    <3>2. CASE SetupHookFails(f)
      BY <2>1, <3>2 DEF SetupInvAt, SetupHookFails
    <3>3. CASE TeardownHookFails(f)
      BY <2>1, <3>3 DEF SetupInvAt, TeardownHookFails
    <3> QED
      BY <2>2, <3>1, <3>2, <3>3
  <2>5. ASSUME NEW c \in Instances, c[1] = f, inst'[c] # "idle" PROVE SetupPassed(f)'
    <3>1. pc[f] = "teardown"
      BY <2>1, <2>5 DEF InstanceInv
    <3> QED
      BY <2>1, <2>3, <2>5, <3>1 DEF SetupInv, SetupPassed
  <2> QED
    BY <2>1, <2>3, <2>4, <2>5, SetupInvFrame
<1>8. ASSUME NEW f \in Files, SetupComplete(f) PROVE SetupInv'
  <2>1. /\ pc[f] = "setup" /\ ~setupFailure[f] /\ next[f] > Setup[f] /\ hook[f] = "idle"
        /\ pc' = [pc EXCEPT ![f] = "tests"] /\ next' = [next EXCEPT ![f] = 1]
        /\ UNCHANGED <<hook, setupFailure, inst, ran>>
    BY <1>8 DEF SetupComplete, AtFile, SetupLoopOver
  <2>2. \A i \in 1 .. Setup[f] : i < next[f]
    <3>1. next[f] \in Nat /\ Setup[f] \in Nat /\ next[f] > Setup[f]
      BY <2>1, ConstantsAssumption
    <3> QED
      BY <3>1
  <2>3. SetupPassed(f)'
    BY <2>1, <2>2 DEF SetupInv, SetupInvAt, SetupPassed
  <2>4. SetupInvAt(f)'
    BY <2>1, <2>3 DEF SetupInvAt
  <2> QED
    BY <1>2, <2>1, <2>4, SetupInvFrame
<1>9. ASSUME NEW f \in Files, SpawnInstance(f) PROVE SetupInv'
  <2>1. /\ pc[f] = "tests" /\ next' = [next EXCEPT ![f] = @ + 1]
        /\ inst' = [inst EXCEPT ![<<f, "tests", next[f]>>] = "preparing"]
        /\ UNCHANGED <<pc, hook, setupFailure, ran>>
    BY <1>9 DEF SpawnInstance, AtFile
  <2>2. hook[f] = "idle" /\ SetupPassed(f)'
    BY <2>1 DEF SetupInv, SetupInvAt, SetupPassed, HookInv
  <2>3. SetupInvAt(f)'
    BY <2>1, <2>2 DEF SetupInvAt
  <2>4. \A c \in Instances : c[1] # f => inst'[c] = inst[c]
    BY <2>1, InstanceShape
  <2> QED
    BY <2>1, <2>2, <2>3, <2>4, SetupInvFrame
<1>10. ASSUME NEW c \in Instances, InstanceStep(c) PROVE SetupInv'
  <2>1. /\ inst[c] # "idle" /\ \E s \in InstStates : inst' = [inst EXCEPT ![c] = s]
        /\ ran \subseteq ran' /\ UNCHANGED fileVars
    BY <1>10 DEF InstanceStep, StartInstance, InstanceNotStarted, EndInstance, ReleaseSlot,
                 InstanceDone, InstanceUnchanged, InstStates
  <2>2. ASSUME NEW f \in Files PROVE SetupInvAt(f)'
    BY <2>1 DEF SetupInv, SetupInvAt, SetupPassed
  <2>3. ASSUME NEW d \in Instances, inst'[d] # "idle" PROVE SetupPassed(d[1])'
    BY <2>1, <2>3 DEF SetupInv, SetupPassed
  <2> QED
    BY <2>2, <2>3 DEF SetupInv
<1>11. CASE UNCHANGED <<fileVars, instVars, ran>>
  BY <1>11 DEF SetupInv, SetupInvAt, SetupPassed
<1> QED
  BY <1>1, <1>3, <1>4, <1>5, <1>6, <1>7, <1>8, <1>9, <1>10, <1>11, ElsewhereUnchanged
     DEF Next, RunStep, FileStep

\* An instance that has been started is never idle again.
LEMMA NoneLeftOutKept ==
  ASSUME NEW f \in Files, NoneLeftOut(f), setupFailure[f] => setupFailure'[f],
         \A c \in Instances : inst[c] # "idle" => inst'[c] # "idle"
  PROVE  NoneLeftOut(f)'
BY InstanceBelongs DEF NoneLeftOut

\* What a step of file f's goroutine has to show for the teardown part.
LEMMA TeardownInvFrame ==
  ASSUME TeardownInv, NEW f \in Files, TeardownInvAt(f)',
         \A g \in Files \ {f} : pc'[g] = pc[g] /\ setupFailure'[g] = setupFailure[g],
         \A d \in ran' \ ran : d[1] = f,
         \A c \in Instances : inst[c] # "idle" => inst'[c] # "idle"
  PROVE  TeardownInv'
<1>1. ASSUME NEW g \in Files, g # f PROVE TeardownInvAt(g)'
  <2>1. /\ pc'[g] = pc[g] /\ setupFailure'[g] = setupFailure[g]
        /\ \A i : <<g, "teardown", i>> \in ran' => <<g, "teardown", i>> \in ran
    BY <1>1
  <2> QED
    BY <2>1, NoneLeftOutKept DEF TeardownInv, TeardownInvAt
<1> QED
  BY <1>1 DEF TeardownInv

\* The teardown stage is entered past the wait group, or after a setup failure.
LEMMA TeardownInvStep ==
  ASSUME TypeOK, HookInv, InstanceInv, TeardownInv, [Next]_vars
  PROVE  TeardownInv'
<1> USE DEF TypeOK
<1>1. CASE LaunchFiles
  <2>1. /\ \A f \in Files : pc[f] = "waiting" /\ pc'[f] = "begin"
        /\ ran' = ran
    BY <1>1 DEF LaunchFiles, InstanceInv
  <2> QED
    BY <2>1 DEF TeardownInv, TeardownInvAt
<1>2. ASSUME NEW f \in Files, TeardownInvAt(f), pc[f] \notin {"teardown", "exited"},
             pc'[f] # "teardown", ran' = ran
      PROVE  TeardownInvAt(f)'
  BY <1>2 DEF TeardownInvAt
<1>3. ASSUME NEW f \in Files, OpenFile(f) \/ WriteShared(f) \/ SetupComplete(f) \/ SpawnInstance(f)
      PROVE  TeardownInv'
  <2>1. /\ pc[f] \in {"begin", "shared", "setup", "tests"}
        /\ \E p \in {"shared", "exited", "setup", "tests"} : pc' = [pc EXCEPT ![f] = p]
        /\ \A g \in Files \ {f} : setupFailure'[g] = setupFailure[g]
        /\ ran' = ran
    BY <1>3 DEF OpenFile, WriteShared, SetupComplete, SpawnInstance, AtFile
  <2>2. \A c \in Instances : inst[c] # "idle" => inst'[c] # "idle"
    BY <1>3 DEF OpenFile, WriteShared, SetupComplete, SpawnInstance
  <2> QED
    BY <1>2, <2>1, <2>2, TeardownInvFrame DEF TeardownInv
<1>4. ASSUME NEW f \in Files, AcquireForSetup(f) \/ AcquireForTeardown(f) PROVE TeardownInv'
  <2>1. UNCHANGED <<pc, setupFailure, inst, ran>>
    BY <1>4 DEF AcquireForSetup, AcquireForTeardown, AcquireForHook
  <2> QED
    BY <2>1 DEF TeardownInv, TeardownInvAt, NoneLeftOut
<1>5. ASSUME NEW f \in Files, StartHook(f) PROVE TeardownInv'
  <2>1. /\ pc[f] \in {"setup", "teardown"} /\ ran' = ran \cup {<<f, pc[f], next[f]>>}
        /\ UNCHANGED <<pc, setupFailure, inst>>
    BY <1>5 DEF StartHook, HookInv
  <2>2. TeardownInvAt(f)'
    BY <2>1 DEF TeardownInv, TeardownInvAt, NoneLeftOut
  <2> QED
    BY <2>1, <2>2, TeardownInvFrame
<1>6. ASSUME NEW f \in Files, HookNotStarted(f) \/ EndHook(f) PROVE TeardownInv'
  <2>1. /\ UNCHANGED <<pc, inst, ran>>
        /\ \A g \in Files : setupFailure[g] => setupFailure'[g]
        /\ \A g \in Files \ {f} : setupFailure'[g] = setupFailure[g]
    BY <1>6 DEF HookNotStarted, EndHook, HookSucceeds, HookFails, SetupHookFails, TeardownHookFails
  <2>2. TeardownInvAt(f)'
    BY <2>1, NoneLeftOutKept DEF TeardownInv, TeardownInvAt
  <2> QED
    BY <2>1, <2>2, TeardownInvFrame
<1>7. ASSUME NEW f \in Files, FailInstances(f) \/ CollectResults(f) PROVE TeardownInv'
  <2>1. /\ pc' = [pc EXCEPT ![f] = "teardown"]
        /\ UNCHANGED <<setupFailure, inst, ran>>
    BY <1>7 DEF FailInstances, CollectResults
  <2>2. NoneLeftOut(f)
    BY <1>7 DEF FailInstances, CollectResults, InstancesAwaited, NoneLeftOut
  <2>3. TeardownInvAt(f)'
    BY <2>1, <2>2 DEF TeardownInvAt, NoneLeftOut
  <2> QED
    BY <2>1, <2>3, TeardownInvFrame
<1>8. ASSUME NEW f \in Files, FinishFile(f) PROVE TeardownInv'
  <2>1. /\ pc[f] = "teardown" /\ pc' = [pc EXCEPT ![f] = "exited"]
        /\ UNCHANGED <<setupFailure, inst, ran>>
    BY <1>8 DEF FinishFile, AtFile
  <2>2. TeardownInvAt(f)'
    BY <2>1 DEF TeardownInv, TeardownInvAt, NoneLeftOut
  <2> QED
    BY <2>1, <2>2, TeardownInvFrame
<1>9. ASSUME NEW c \in Instances, InstanceStep(c) PROVE TeardownInv'
  <2>1. /\ \E s \in InstStates \ {"idle"} : inst' = [inst EXCEPT ![c] = s]
        /\ ran' \subseteq ran \cup {c} /\ UNCHANGED fileVars
    BY <1>9 DEF InstanceStep, StartInstance, InstanceNotStarted, EndInstance, ReleaseSlot,
                InstanceDone, InstanceUnchanged, InstStates
  <2>2. \A d \in Instances : inst[d] # "idle" => inst'[d] # "idle"
    BY <2>1
  <2>3. ASSUME NEW f \in Files, NEW i, <<f, "teardown", i>> \in ran'
        PROVE  <<f, "teardown", i>> \in ran
    BY <2>1, <2>3, InstanceShape
  <2>4. ASSUME NEW f \in Files PROVE TeardownInvAt(f)'
    BY <2>1, <2>2, <2>3, NoneLeftOutKept DEF TeardownInv, TeardownInvAt
  <2> QED
    BY <2>4 DEF TeardownInv
<1>10. CASE UNCHANGED <<fileVars, instVars, ran>>
  BY <1>10 DEF TeardownInv, TeardownInvAt, NoneLeftOut
<1> QED
  BY <1>1, <1>3, <1>4, <1>5, <1>6, <1>7, <1>8, <1>9, <1>10, ElsewhereUnchanged
     DEF Next, RunStep, FileStep

-----------------------------------------------------------------------------
(***************************************************************************)
(* Theorems about slots and barriers.                                      *)
(***************************************************************************)

\* A run that has not begun satisfies the invariant: nothing holds a slot.
LEMMA InitIInv == Init => IInv
<1> SUFFICES ASSUME Init PROVE IInv
  OBVIOUS
<1>1. TypeOK
  <2>1. 0 \in 0 .. NumFiles /\ 0 \in 0 .. Jobs
    BY ConstantsAssumption
  <2>2. /\ pc \in [Files -> Positions]
        /\ inst \in [Instances -> InstStates]
        /\ verdict \in [Instances -> {"none", "pass", "fail"}]
    BY DEF Init, Positions, InstStates
  <2>3. /\ next \in [Files -> Nat \ {0}]
        /\ hook \in [Files -> {"idle", "held", "running"}]
        /\ setupFailure \in [Files -> BOOLEAN]
        /\ temp \in [Files -> {"none", "present", "removed"}]
    BY DEF Init
  <2>4. /\ teardownFailures \in [Files -> Nat]
        /\ passed \in [Files -> Nat]
        /\ failed \in [Files -> Nat]
        /\ errs \in [Files -> BOOLEAN]
    BY DEF Init
  <2> QED
    BY <2>1, <2>2, <2>3, <2>4 DEF Init, TypeOK, Phases
<1>2. Holding = {}
  BY DEF Init, Holding
<1>3. SlotsInv
  BY <1>2, FS_EmptySet DEF Init, SlotsInv, SlotsAccountedFor
<1>4. HookInv
  BY DEF Init, HookInv
<1>5. InstanceInv
  BY InstanceShape DEF Init, InstanceInv
<1>6. SetupInv
  BY InstanceShape DEF Init, SetupInv, SetupInvAt
<1>7. TeardownInv
  BY DEF Init, TeardownInv, TeardownInvAt
<1> QED
  BY <1>1, <1>3, <1>4, <1>5, <1>6, <1>7 DEF IInv

\* IInv is inductive: every reachable state of a run satisfies it.
THEOREM Invariance == Spec => []IInv
<1>1. IInv /\ [Next]_vars => IInv'
  BY TypeStep, HookStep, SlotsStep, InstanceInvStep, SetupInvStep, TeardownInvStep DEF IInv
<1> QED
  BY InitIInv, <1>1, PTL DEF Spec

\* Type correctness of the scheduler (RunFiles and runFile).
THEOREM TypeCorrect == Spec => []TypeOK
<1>1. IInv => TypeOK
  BY DEF IInv
<1> QED
  BY <1>1, Invariance, PTL

\* The slot pool of RunFiles never leaks or invents a slot, whatever fails.
THEOREM SlotsAreAccountedFor == Spec => []SlotsAccountedFor
<1>1. IInv => SlotsAccountedFor
  BY DEF IInv, SlotsInv
<1> QED
  BY <1>1, Invariance, PTL

\* The promise of -j: at most Jobs commands exist at once, for any suite and
\* any Jobs.  What executes holds a slot, and the pool has Jobs of them.
THEOREM AtMostJobsExecute == Spec => []AtMostJobs
<1>1. IInv => AtMostJobs
  <2> SUFFICES ASSUME IInv PROVE AtMostJobs
    OBVIOUS
  <2>1. Executing \subseteq Holding
    BY DEF Executing, Holding
  <2>2. IsFiniteSet(Holding) /\ Cardinality(Holding) = pool
    BY DEF IInv, SlotsInv, SlotsAccountedFor
  <2>3. /\ Cardinality(Executing) <= Cardinality(Holding)
        /\ Cardinality(Executing) \in Nat
    BY <2>1, <2>2, FS_Subset, FS_CardinalityType
  <2>4. pool \in 0 .. Jobs /\ Jobs \in Nat
    BY ConstantsAssumption DEF IInv, TypeOK
  <2> QED
    BY <2>2, <2>3, <2>4 DEF AtMostJobs
<1> QED
  BY <1>1, Invariance, PTL

\* No test of a file runs before every setup command of the file has succeeded,
\* in any interleaving of any number of files.
THEOREM SetupComesFirst == Spec => []SetupBarrier
<1>1. IInv => SetupBarrier
  <2> SUFFICES ASSUME IInv, NEW f \in Files, NEW c \in InstancesOf(f), c \in ran
               PROVE  /\ ~setupFailure[f]
                      /\ \A i \in 1 .. Setup[f] : <<f, "setup", i>> \in ran \ Executing
    BY DEF SetupBarrier
  <2>1. c \in Instances /\ c[1] = f
    BY InstanceBelongs
  <2>2. inst[c] # "idle"
    BY <2>1 DEF IInv, InstanceInv
  <2>3. SetupPassed(f)
    BY <2>1, <2>2 DEF IInv, SetupInv
  <2>4. pc[f] # "setup"
    BY <2>1, <2>2 DEF IInv, InstanceInv
  <2>5. \A i : <<f, "setup", i>> \notin Executing
    BY <2>4, InstanceShape DEF Executing
  <2> QED
    BY <2>3, <2>5 DEF SetupPassed
<1> QED
  BY <1>1, Invariance, PTL

\* No teardown command runs while a test of its file is under way, or before one
\* that will still run.
THEOREM TeardownComesLast == Spec => []TeardownBarrier
<1>1. IInv => TeardownBarrier
  <2> SUFFICES ASSUME IInv, NEW f \in Files, NEW i \in 1 .. Teardown[f],
                      <<f, "teardown", i>> \in ran
               PROVE  /\ \A c \in InstancesOf(f) : inst[c] \in {"idle", "done"}
                      /\ (\E c \in InstancesOf(f) : inst[c] = "idle") => setupFailure[f]
    BY DEF TeardownBarrier
  <2>1. pc[f] \in {"teardown", "exited"} /\ NoneLeftOut(f)
    BY DEF IInv, TeardownInv, TeardownInvAt
  <2>2. \A c \in InstancesOf(f) : inst[c] \in {"idle", "done"}
    BY <2>1, InstanceBelongs DEF IInv, InstanceInv
  <2> QED
    BY <2>1, <2>2 DEF NoneLeftOut
<1> QED
  BY <1>1, Invariance, PTL

-----------------------------------------------------------------------------
(***************************************************************************)
(* Results.  The temp directory outlives the commands, slots are taken in  *)
(* declaration order, every instance is counted once, and a green file is  *)
(* one that ran completely: what the invariant needs beside IInv.          *)
(***************************************************************************)

\* A file's temp directory exists from its creation to the deferred Cleanup.
TempInv == \A f \in Files : Opened(f) => temp[f] = "present"

\* What an instance has stored: a pass only if its command ran, and no result
\* without a run but for the two reasons there are.
VerdictInv ==
  \A c \in Instances :
    /\ inst[c] \in {"idle", "preparing"} => c \notin ran
    /\ inst[c] = "executing" => c \in ran
    /\ verdict[c] = "pass" => c \in ran
    /\ inst[c] \in {"returned", "released", "done"} =>
         c \in ran \/ c \in MayNotStart \/ cancelled

Unfinished(f, j) ==
  {i \in 1 .. (j - 1) : inst[<<f, "tests", i>>] \notin {"released", "done"}}

\* Instances are started in declaration order, and the window of unfinished ones
\* before a started one, which held slots when it took its own, only shrinks.
WindowInv ==
  \A f \in Files :
    /\ pc[f] = "tests" =>
         \A i \in 1 .. Tests[f] : i < next[f] => inst[<<f, "tests", i>>] # "idle"
    /\ \A j \in 1 .. Tests[f] : inst[<<f, "tests", j>>] # "idle" =>
         Cardinality(Unfinished(f, j)) < Jobs

PassesOf(f)   == {c \in InstancesOf(f) : verdict[c] = "pass"}
FailuresOf(f) == {c \in InstancesOf(f) : verdict[c] # "pass"}

\* The results of file f are final: its goroutine is past the tests.
Counted(f) == pc[f] = "teardown" \/ (pc[f] = "exited" /\ ~errs[f])

\* What the counters of a file say, once they are set.
ResultInvAt(f) ==
  /\ errs[f] => pc[f] = "exited"
  /\ pc[f] \notin {"teardown", "exited"} => passed[f] = 0
  /\ Counted(f) /\ setupFailure[f] => passed[f] = 0 /\ failed[f] = Tests[f]
  /\ Counted(f) /\ ~setupFailure[f] =>
       /\ SetupPassed(f)
       /\ \A c \in InstancesOf(f) : inst[c] = "done"
       /\ passed[f] = Cardinality(PassesOf(f))
       /\ failed[f] = Cardinality(FailuresOf(f))
  /\ pc[f] = "teardown" /\ teardownFailures[f] = 0 =>
       \A i \in 1 .. Teardown[f] : i < next[f] => <<f, "teardown", i>> \in ran
  /\ pc[f] = "exited" /\ ~errs[f] /\ teardownFailures[f] = 0 =>
       \A i \in 1 .. Teardown[f] : <<f, "teardown", i>> \in ran

ResultInv == \A f \in Files : ResultInvAt(f)

\* RunFiles prints once all files have returned, and returns results only when it
\* met no error among them.
RunInv ==
  /\ phase \in {"parse", "run"} => printed = 0
  /\ phase = "print" => /\ \A f \in Files : pc[f] = "exited"
                        /\ \A f \in 1 .. printed : ~errs[f]
  /\ outcome # "none" => phase = "returned"
  /\ outcome = "results" => \A f \in Files : pc[f] = "exited" /\ ~errs[f]

RInv == TempInv /\ VerdictInv /\ WindowInv /\ ResultInv /\ RunInv

-----------------------------------------------------------------------------
(***************************************************************************)
(* What one step does to an instance, and to a file's place in its tests.  *)
(***************************************************************************)

USE DEF fileVars, instVars, outputVars

\* The moves in the life of an instance.
Spawned(c) ==
  /\ inst[c] = "idle" /\ inst'[c] = "preparing"
  /\ pc[c[1]] = "tests" /\ next[c[1]] = c[3] /\ pool < Jobs
Began(c)     == inst[c] = "preparing" /\ inst'[c] = "executing"
Prevented(c) ==
  /\ inst[c] = "preparing" /\ inst'[c] = "returned"
  /\ c \in MayNotStart \/ cancelled
Ended(c)     == inst[c] = "executing" /\ inst'[c] = "returned"
LetGo(c)     ==
  \/ inst[c] = "returned" /\ inst'[c] = "released"
  \/ inst[c] = "released" /\ inst'[c] = "done"

\* A step moves an instance along or leaves it where it is; only the end of the
\* instance stores a verdict, and only the beginning of its command makes it one
\* that ran.
Moved(c) ==
  /\ inst'[c] = inst[c] \/ Spawned(c) \/ Began(c) \/ Prevented(c) \/ Ended(c) \/ LetGo(c)
  /\ Prevented(c) => verdict'[c] = "fail"
  /\ ~Prevented(c) /\ ~Ended(c) => verdict'[c] = verdict[c]
  /\ c \in ran' <=> c \in ran \/ Began(c)

\* Every operation of DatsRunner moves each instance in one of these ways.
LEMMA InstanceMoves ==
  ASSUME IInv, [Next]_vars, NEW c \in Instances
  PROVE  Moved(c)
<1> USE DEF IInv, TypeOK, Moved, Spawned, Began, Prevented, Ended, LetGo
<1>1. CASE UNCHANGED <<instVars, ran>>
  BY <1>1
<1>2. ASSUME NEW f \in Files, StartHook(f) PROVE Moved(c)
  <2>1. c # <<f, pc[f], next[f]>>
    BY <1>2, InstanceShape DEF StartHook, HookInv
  <2> QED
    BY <1>2, <2>1 DEF StartHook
<1>3. ASSUME NEW f \in Files, SpawnInstance(f) PROVE Moved(c)
  <2>1. /\ pc[f] = "tests" /\ pool < Jobs /\ UNCHANGED <<verdict, ran>>
        /\ inst' = [inst EXCEPT ![<<f, "tests", next[f]>>] = "preparing"]
    BY <1>3 DEF SpawnInstance, AtFile, Acquire
  <2>2. CASE c = <<f, "tests", next[f]>>
    <3>1. inst[c] = "idle" /\ c[1] = f /\ c[3] = next[f]
      BY <2>1, <2>2 DEF InstanceInv
    <3> QED
      BY <2>1, <2>2, <3>1
  <2>3. CASE c # <<f, "tests", next[f]>>
    BY <2>1, <2>3
  <2> QED
    BY <2>2, <2>3
<1>4. ASSUME NEW d \in Instances, InstanceStep(d) PROVE Moved(c)
  <2>1. CASE c = d
    BY <1>4, <2>1 DEF InstanceStep, StartInstance, InstanceNotStarted, EndInstance,
                      ReleaseSlot, InstanceDone
  <2>2. CASE c # d
    BY <1>4, <2>2 DEF InstanceStep, StartInstance, InstanceNotStarted, EndInstance,
                      ReleaseSlot, InstanceDone
  <2> QED
    BY <2>1, <2>2
<1>5. ASSUME NEW f \in Files, FileStep(f), ~StartHook(f), ~SpawnInstance(f)
      PROVE  UNCHANGED <<instVars, ran>>
  BY <1>5 DEF FileStep, OpenFile, WriteShared, AcquireForSetup, AcquireForTeardown,
              AcquireForHook, HookNotStarted, EndHook, FailInstances, SetupComplete,
              CollectResults, FinishFile
<1>6. CASE LaunchFiles
  BY <1>1, <1>6 DEF LaunchFiles
<1> QED
  BY <1>1, <1>2, <1>3, <1>4, <1>5, <1>6, ElsewhereUnchanged DEF Next, RunStep

\* The index of the tests loop counts from 1, one up with each instance started.
LEMMA TestsLoop ==
  ASSUME IInv, [Next]_vars, NEW f \in Files, pc'[f] = "tests"
  PROVE  \/ pc[f] = "tests" /\ next'[f] = next[f]
         \/ next'[f] = 1
         \/ /\ pc[f] = "tests" /\ next'[f] = next[f] + 1
            /\ inst'[<<f, "tests", next[f]>>] # "idle"
<1> DEFINE G == \/ pc[f] = "tests" /\ next'[f] = next[f]
                \/ next'[f] = 1
                \/ /\ pc[f] = "tests" /\ next'[f] = next[f] + 1
                   /\ inst'[<<f, "tests", next[f]>>] # "idle"
<1> USE DEF IInv, TypeOK
<1>1. CASE UNCHANGED fileVars
  BY <1>1
<1>2. ASSUME NEW g \in Files, FileStep(g), g # f PROVE G
  <2>1. pc'[f] = pc[f] /\ next'[f] = next[f]
    BY <1>2 DEF FileStep, OpenFile, WriteShared, AcquireForSetup, AcquireForTeardown,
                AcquireForHook, StartHook, HookNotStarted, EndHook, HookSucceeds, HookFails,
                SetupHookFails, TeardownHookFails, FailInstances, SetupComplete,
                SpawnInstance, CollectResults, FinishFile
  <2> QED
    BY <2>1
<1>3. CASE SpawnInstance(f)
  <2>1. /\ pc[f] = "tests" /\ next'[f] = next[f] + 1
        /\ inst' = [inst EXCEPT ![<<f, "tests", next[f]>>] = "preparing"]
    BY <1>3 DEF SpawnInstance, AtFile
  <2>2. <<f, "tests", next[f]>> \in Instances
    BY <1>3, InstanceBelongs, ConstantsAssumption DEF SpawnInstance
  <2> QED
    BY <2>1, <2>2
<1>4. CASE SetupComplete(f)
  BY <1>4 DEF SetupComplete
<1>5. CASE HookNotStarted(f) \/ EndHook(f)
  BY <1>5 DEF HookNotStarted, EndHook, HookInv
<1>6. CASE FileStep(f) /\ ~SpawnInstance(f) /\ ~SetupComplete(f) /\ ~HookNotStarted(f)
             /\ ~EndHook(f)
  BY <1>6 DEF FileStep, OpenFile, WriteShared, AcquireForSetup, AcquireForTeardown,
              AcquireForHook, StartHook, FailInstances, CollectResults, FinishFile
<1>7. CASE LaunchFiles
  BY <1>7 DEF LaunchFiles
<1>8. ASSUME NEW c \in Instances, InstanceStep(c) PROVE UNCHANGED fileVars
  BY <1>8 DEF InstanceStep, StartInstance, InstanceNotStarted, EndInstance, ReleaseSlot,
              InstanceDone, InstanceUnchanged
<1> QED
  BY <1>1, <1>2, <1>3, <1>4, <1>5, <1>6, <1>7, <1>8, ElsewhereUnchanged
     DEF Next, RunStep, FileStep

-----------------------------------------------------------------------------
(***************************************************************************)
(* The parts of RInv are inductive.                                        *)
(***************************************************************************)

\* The directory is made when the file is opened and removed when its goroutine
\* returns, after the last command.
LEMMA TempInvStep ==
  ASSUME IInv, TempInv, [Next]_vars
  PROVE  TempInv'
<1> USE DEF IInv, TypeOK, TempInv, Opened
<1>1. CASE UNCHANGED <<pc, temp>>
  BY <1>1
<1>2. ASSUME NEW f \in Files, FileStep(f) PROVE TempInv'
  <2>1. CASE OpenFile(f)
    BY <2>1 DEF OpenFile, AtFile
  <2>2. CASE WriteShared(f) \/ FailInstances(f) \/ SetupComplete(f) \/ CollectResults(f)
    BY <2>2 DEF WriteShared, FailInstances, SetupComplete, CollectResults, AtFile
  <2>3. CASE FinishFile(f)
    BY <2>3 DEF FinishFile, AtFile
  <2>4. CASE AcquireForSetup(f) \/ AcquireForTeardown(f) \/ StartHook(f) \/ HookNotStarted(f)
               \/ EndHook(f) \/ SpawnInstance(f)
    BY <2>4 DEF AcquireForSetup, AcquireForTeardown, AcquireForHook, StartHook,
                HookNotStarted, EndHook, SpawnInstance
  <2> QED
    BY <1>2, <2>1, <2>2, <2>3, <2>4 DEF FileStep
<1>3. CASE LaunchFiles
  BY <1>3 DEF LaunchFiles
<1>4. ASSUME NEW c \in Instances, InstanceStep(c) PROVE UNCHANGED <<pc, temp>>
  BY <1>4 DEF InstanceStep, StartInstance, InstanceNotStarted, EndInstance, ReleaseSlot,
              InstanceDone, InstanceUnchanged
<1> QED
  BY <1>1, <1>2, <1>3, <1>4, ElsewhereUnchanged DEF Next, RunStep

\* An interrupted run stays interrupted.
LEMMA CancelledForGood == [Next]_vars /\ cancelled => cancelled'
BY DEF Next, RunStep, FileStep, InstanceStep, ParseFile, LaunchFiles, OpenFile, WriteShared,
       AcquireForSetup, AcquireForTeardown, AcquireForHook, StartHook, HookNotStarted, EndHook,
       FailInstances, SetupComplete, SpawnInstance, CollectResults, FinishFile, StartInstance,
       InstanceNotStarted, EndInstance, ReleaseSlot, InstanceDone, InstanceUnchanged, AwaitFiles,
       PrintFile, PrintFails, ReturnResults, Interrupt, Kill, Terminated, vars

\* A verdict is stored once, at the end of an instance, and a pass needs a run.
LEMMA VerdictInvStep ==
  ASSUME IInv, VerdictInv, [Next]_vars
  PROVE  VerdictInv'
<1> SUFFICES ASSUME NEW c \in Instances PROVE VerdictInv!(c)'
  BY DEF VerdictInv
<1>1. Moved(c) /\ (cancelled => cancelled')
  BY InstanceMoves, CancelledForGood
<1>2. VerdictInv!(c)
  BY DEF VerdictInv
<1> QED
  BY <1>1, <1>2 DEF Moved, Spawned, Began, Prevented, Ended, LetGo

\* The unfinished instances before index j are finitely many, and those of them
\* that were started hold a slot each.
LEMMA WindowBound ==
  ASSUME IInv, NEW f \in Files, NEW j \in 1 .. Tests[f],
         \A i \in 1 .. (j - 1) : inst[<<f, "tests", i>>] # "idle"
  PROVE  /\ IsFiniteSet(Unfinished(f, j))
         /\ Cardinality(Unfinished(f, j)) <= pool
<1> DEFINE nth == [i \in Unfinished(f, j) |-> <<f, "tests", i>>]
<1>1. Unfinished(f, j) \subseteq 1 .. (j - 1) /\ j - 1 \in Nat /\ Tests[f] \in Nat
  BY ConstantsAssumption DEF Unfinished
<1>2. IsFiniteSet(Unfinished(f, j))
  BY <1>1, FS_Interval, FS_Subset
<1>3. \A i \in Unfinished(f, j) : <<f, "tests", i>> \in Holding
  <2> SUFFICES ASSUME NEW i \in Unfinished(f, j) PROVE <<f, "tests", i>> \in Holding
    OBVIOUS
  <2>1. <<f, "tests", i>> \in Instances
    BY <1>1, InstanceBelongs
  <2>2. inst[<<f, "tests", i>>] \in {"preparing", "executing", "returned"}
    BY <1>1, <2>1 DEF Unfinished, IInv, TypeOK, InstStates
  <2> QED
    BY <2>1, <2>2 DEF Holding
<1>4. nth \in Injection(Unfinished(f, j), Holding)
  BY <1>3 DEF Injection, IsInjective
<1>5. IsFiniteSet(Holding) /\ Cardinality(Holding) = pool
  BY DEF IInv, SlotsInv, SlotsAccountedFor
<1> HIDE DEF nth
<1>6. Cardinality(Unfinished(f, j)) <= Cardinality(Holding)
  BY <1>4, <1>5, FS_Injection
<1> QED
  BY <1>2, <1>5, <1>6

\* Finished instances stay finished, so a window only shrinks; it is below Jobs
\* when it opens because the new instance found a free slot.
LEMMA WindowInvStep ==
  ASSUME IInv, WindowInv, [Next]_vars
  PROVE  WindowInv'
<1> SUFFICES ASSUME NEW f \in Files PROVE WindowInv!(f)'
  BY DEF WindowInv
<1>1. \A c \in Instances : Moved(c)
  BY InstanceMoves
<1>2. \A i \in 1 .. Tests[f] : <<f, "tests", i>> \in Instances
  BY InstanceBelongs
<1>3. Tests[f] \in Nat /\ Jobs \in Nat /\ next[f] \in Nat
  BY ConstantsAssumption DEF IInv, TypeOK
<1>4. ASSUME pc'[f] = "tests", NEW i \in 1 .. Tests[f], i < next'[f]
      PROVE  inst'[<<f, "tests", i>>] # "idle"
  <2>1. pc[f] = "tests" /\ i < next[f] => inst'[<<f, "tests", i>>] # "idle"
    BY <1>1, <1>2 DEF WindowInv, Moved, Spawned, Began, Prevented, Ended, LetGo
  <2>2. (i < next[f] + 1 => i < next[f] \/ i = next[f]) /\ ~(i < 1)
    BY <1>3
  <2>3. \/ pc[f] = "tests" /\ next'[f] = next[f]
        \/ next'[f] = 1
        \/ /\ pc[f] = "tests" /\ next'[f] = next[f] + 1
           /\ inst'[<<f, "tests", next[f]>>] # "idle"
    BY <1>4, TestsLoop
  <2> QED
    BY <1>4, <2>1, <2>2, <2>3
<1>5. ASSUME NEW j \in 1 .. Tests[f], inst'[<<f, "tests", j>>] # "idle"
      PROVE  Cardinality(Unfinished(f, j))' < Jobs
  <2> DEFINE c == <<f, "tests", j>>
  <2>1. Unfinished(f, j)' \subseteq Unfinished(f, j)
    <3> SUFFICES ASSUME NEW i \in 1 .. (j - 1), inst[<<f, "tests", i>>] \in {"released", "done"}
                 PROVE  inst'[<<f, "tests", i>>] \in {"released", "done"}
      BY DEF Unfinished
    <3>1. <<f, "tests", i>> \in Instances
      BY <1>2, <1>3
    <3> QED
      BY <1>1, <3>1 DEF Moved, Spawned, Began, Prevented, Ended, LetGo
  <2>2. IsFiniteSet(Unfinished(f, j)) /\ Cardinality(Unfinished(f, j)) < Jobs
    <3>1. CASE inst[c] # "idle"
      <4>1. 1 \in Int /\ j - 1 \in Int
        BY <1>3
      <4>2. Unfinished(f, j) \subseteq 1 .. (j - 1) /\ IsFiniteSet(1 .. (j - 1))
        BY <4>1, FS_Interval DEF Unfinished
      <4> QED
        BY <3>1, <4>2, FS_Subset DEF WindowInv
    <3>2. CASE inst[c] = "idle"
      <4>1. Spawned(c)
        BY <1>1, <1>2, <1>5, <3>2 DEF Moved, Began, Prevented, Ended, LetGo
      <4>2. pc[f] = "tests" /\ next[f] = j /\ pool < Jobs
        BY <4>1 DEF Spawned
      <4>3. \A i \in 1 .. (j - 1) : inst[<<f, "tests", i>>] # "idle"
        BY <1>3, <4>2 DEF WindowInv
      <4>4. /\ IsFiniteSet(Unfinished(f, j))
            /\ Cardinality(Unfinished(f, j)) <= pool
        BY <4>3, WindowBound
      <4>5. Cardinality(Unfinished(f, j)) \in Nat /\ pool \in Nat
        BY <4>4, <1>3, FS_CardinalityType DEF IInv, TypeOK
      <4> QED
        BY <1>3, <4>2, <4>4, <4>5
    <3> QED
      BY <3>1, <3>2
  <2>3. /\ Cardinality(Unfinished(f, j)') <= Cardinality(Unfinished(f, j))
        /\ Cardinality(Unfinished(f, j)') \in Nat /\ Cardinality(Unfinished(f, j)) \in Nat
    BY <2>1, <2>2, FS_Subset, FS_CardinalityType
  <2> QED
    BY <1>3, <2>2, <2>3
<1> QED
  BY <1>4, <1>5

\* Files are printed in order, and the first error among them ends the run.
LEMMA RunInvStep ==
  ASSUME IInv, RunInv, [Next]_vars
  PROVE  RunInv'
<1> USE DEF RunInv
<1>1. ASSUME phase = "run", UNCHANGED <<phase, printed, outcome>> PROVE RunInv'
  BY <1>1
<1>2. CASE ParseFile \/ LaunchFiles
  BY <1>2 DEF ParseFile, LaunchFiles
<1>3. CASE AwaitFiles
  BY <1>3 DEF AwaitFiles
<1>4. CASE PrintFile
  <2>1. /\ phase = "print" /\ printed' = printed + 1 /\ UNCHANGED <<pc, errs>>
        /\ IF errs[printed + 1] THEN phase' = "returned" /\ outcome' = "error"
                                ELSE UNCHANGED <<phase, outcome>>
        /\ printed \in Nat
    BY <1>4 DEF PrintFile, IInv, TypeOK
  <2>2. \A f \in 1 .. printed + 1 : f \in 1 .. printed \/ f = printed + 1
    BY <2>1
  <2> QED
    BY <2>1, <2>2
<1>5. CASE PrintFails
  BY <1>5 DEF PrintFails
<1>6. CASE ReturnResults
  BY <1>6 DEF ReturnResults, Files
<1>7. CASE Interrupt \/ Kill \/ UNCHANGED vars
  BY <1>7 DEF Interrupt, Kill, Over, vars
<1>8. ASSUME NEW f \in Files, FileStep(f) PROVE phase = "run" /\ UNCHANGED <<phase, printed, outcome>>
  BY <1>8 DEF FileStep, OpenFile, WriteShared, AcquireForSetup, AcquireForTeardown,
              AcquireForHook, StartHook, HookNotStarted, EndHook, FailInstances, SetupComplete,
              SpawnInstance, CollectResults, FinishFile, AtFile
<1>9. ASSUME NEW c \in Instances, InstanceStep(c)
      PROVE  phase = "run" /\ UNCHANGED <<phase, printed, outcome>>
  BY <1>9 DEF InstanceStep, StartInstance, InstanceNotStarted, EndInstance, ReleaseSlot,
              InstanceDone, InstanceUnchanged
<1> QED
  BY <1>1, <1>2, <1>3, <1>4, <1>5, <1>6, <1>7, <1>8, <1>9 DEF Next, RunStep, Terminated

\* What a step has to show for a file that stays where it is: the instances of a
\* file past its tests are done, so that no verdict changes any more.
LEMMA ResultInvFrame ==
  ASSUME IInv, NEW f \in Files, ResultInvAt(f), [Next]_vars,
         pc'[f] = pc[f], setupFailure'[f] = setupFailure[f], passed'[f] = passed[f],
         failed'[f] = failed[f], errs'[f] = errs[f], ran \subseteq ran',
         teardownFailures'[f] = 0 => teardownFailures[f] = 0,
         pc[f] = "teardown" /\ teardownFailures'[f] = 0 =>
           \A i \in 1 .. Teardown[f] : i < next'[f] =>
             i < next[f] \/ <<f, "teardown", i>> \in ran'
  PROVE  ResultInvAt(f)'
<1>1. Counted(f)' <=> Counted(f)
  BY DEF Counted
<1>2. ASSUME \A c \in InstancesOf(f) : inst[c] = "done"
      PROVE  /\ \A c \in InstancesOf(f) : inst'[c] = "done"
             /\ PassesOf(f)' = PassesOf(f)
             /\ FailuresOf(f)' = FailuresOf(f)
  <2>1. \A c \in InstancesOf(f) : Moved(c)
    BY InstanceMoves, InstanceBelongs
  <2>2. \A c \in InstancesOf(f) : inst'[c] = "done" /\ verdict'[c] = verdict[c]
    BY <1>2, <2>1 DEF Moved, Spawned, Began, Prevented, Ended, LetGo
  <2> QED
    BY <2>2 DEF PassesOf, FailuresOf
<1>3. SetupPassed(f) => SetupPassed(f)'
  BY DEF SetupPassed
<1> QED
  BY <1>1, <1>2, <1>3 DEF ResultInvAt

\* Commands that ran have run for good.
LEMMA RanGrows == [Next]_vars => ran \subseteq ran'
BY DEF Next, RunStep, FileStep, InstanceStep, ParseFile, LaunchFiles, OpenFile, WriteShared,
       AcquireForSetup, AcquireForTeardown, AcquireForHook, StartHook, HookNotStarted, EndHook,
       FailInstances, SetupComplete, SpawnInstance, CollectResults, FinishFile, StartInstance,
       InstanceNotStarted, EndInstance, ReleaseSlot, InstanceDone, InstanceUnchanged, AwaitFiles,
       PrintFile, PrintFails, ReturnResults, Interrupt, Kill, Terminated, vars

\* The counters are set once, by FailInstances or CollectResults, and describe the
\* file from then on; a teardown loop without failures ran every command it passed.
LEMMA ResultInvStep ==
  ASSUME IInv, ResultInv, [Next]_vars
  PROVE  ResultInv'
<1> SUFFICES ASSUME NEW f \in Files PROVE ResultInvAt(f)'
  BY DEF ResultInv
<1>1. ResultInvAt(f) /\ ran \subseteq ran'
  BY RanGrows DEF ResultInv
<1> USE DEF IInv, TypeOK
<1>2. CASE UNCHANGED fileVars
  BY <1>1, <1>2, ResultInvFrame
<1>3. ASSUME NEW g \in Files, FileStep(g), g # f PROVE ResultInvAt(f)'
  <2>1. /\ pc'[f] = pc[f] /\ next'[f] = next[f] /\ setupFailure'[f] = setupFailure[f]
        /\ passed'[f] = passed[f] /\ failed'[f] = failed[f] /\ errs'[f] = errs[f]
        /\ teardownFailures'[f] = teardownFailures[f]
    BY <1>3 DEF FileStep, OpenFile, WriteShared, AcquireForSetup, AcquireForTeardown,
                AcquireForHook, StartHook, HookNotStarted, EndHook, HookSucceeds, HookFails,
                SetupHookFails, TeardownHookFails, FailInstances, SetupComplete,
                SpawnInstance, CollectResults, FinishFile
  <2> QED
    BY <1>1, <2>1, ResultInvFrame
<1>4. CASE OpenFile(f)
  BY <1>1, <1>4 DEF OpenFile, AtFile, ResultInvAt, Counted
<1>5. CASE WriteShared(f)
  BY <1>1, <1>5 DEF WriteShared, AtFile, ResultInvAt, Counted
<1>6. CASE AcquireForSetup(f) \/ AcquireForTeardown(f) \/ StartHook(f)
  BY <1>1, <1>6, ResultInvFrame DEF AcquireForSetup, AcquireForTeardown, AcquireForHook, StartHook
<1>7. CASE HookNotStarted(f) \/ EndHook(f)
  <2>1. /\ pc[f] \in {"setup", "teardown"} /\ UNCHANGED <<pc, passed, failed, errs, inst, ran>>
        /\ \/ HookSucceeds(f) /\ hook[f] = "running"
           \/ SetupHookFails(f)
           \/ TeardownHookFails(f)
    BY <1>7 DEF HookNotStarted, EndHook, HookFails, HookInv
  <2>2. CASE pc[f] = "setup"
    BY <1>1, <2>1, <2>2 DEF ResultInvAt, Counted
  <2>3. CASE pc[f] = "teardown" /\ HookSucceeds(f) /\ hook[f] = "running"
    <3>1. next'[f] = next[f] + 1 /\ UNCHANGED <<setupFailure, teardownFailures>>
      BY <2>3 DEF HookSucceeds
    <3>2. <<f, "teardown", next[f]>> \in ran
      BY <2>3 DEF SetupInv, SetupInvAt
    <3>3. \A i \in 1 .. Teardown[f] : i < next[f] + 1 => i < next[f] \/ i = next[f]
      BY ConstantsAssumption
    <3> QED
      BY <1>1, <2>1, <3>1, <3>2, <3>3, ResultInvFrame
  <2>4. CASE pc[f] = "teardown" /\ TeardownHookFails(f)
    <3>1. teardownFailures'[f] = teardownFailures[f] + 1 /\ UNCHANGED setupFailure
      BY <2>4 DEF TeardownHookFails
    <3>2. teardownFailures'[f] # 0
      BY <3>1
    <3> QED
      BY <1>1, <2>1, <3>1, <3>2, ResultInvFrame
  <2> QED
    BY <2>1, <2>2, <2>3, <2>4 DEF SetupHookFails
<1>8. CASE FailInstances(f)
  BY <1>1, <1>8, ConstantsAssumption DEF FailInstances, AtFile, ResultInvAt, Counted
<1>9. CASE SetupComplete(f)
  BY <1>1, <1>9 DEF SetupComplete, AtFile, ResultInvAt, Counted
<1>10. CASE SpawnInstance(f)
  BY <1>1, <1>10 DEF SpawnInstance, AtFile, ResultInvAt, Counted
<1>11. CASE CollectResults(f)
  <2>1. /\ pc[f] = "tests" /\ pc'[f] = "teardown" /\ next'[f] = 1
        /\ passed'[f] = Cardinality(PassesOf(f)) /\ failed'[f] = Cardinality(FailuresOf(f))
        /\ UNCHANGED <<inst, verdict, ran, setupFailure, errs, teardownFailures>>
    BY <1>11 DEF CollectResults, AtFile, PassesOf, FailuresOf
  <2>2. \A c \in InstancesOf(f) : inst[c] = "done"
    BY <1>11 DEF CollectResults, InstancesAwaited
  <2>3. SetupPassed(f)' /\ PassesOf(f)' = PassesOf(f) /\ FailuresOf(f)' = FailuresOf(f)
    BY <2>1 DEF SetupInv, SetupInvAt, SetupPassed, PassesOf, FailuresOf
  <2>4. ~errs'[f] /\ ~setupFailure'[f]
    BY <1>1, <2>1, <2>3 DEF ResultInvAt, SetupPassed
  <2> QED
    BY <2>1, <2>2, <2>3, <2>4, ConstantsAssumption DEF ResultInvAt, Counted
<1>12. CASE FinishFile(f)
  <2>1. /\ pc[f] = "teardown" /\ pc'[f] = "exited" /\ next[f] > Teardown[f]
        /\ UNCHANGED <<inst, verdict, ran, setupFailure, passed, failed, errs, teardownFailures>>
    BY <1>12 DEF FinishFile, AtFile
  <2>2. \A i \in 1 .. Teardown[f] : i < next[f]
    BY <2>1, ConstantsAssumption
  <2>3. /\ SetupPassed(f)' = SetupPassed(f)
        /\ PassesOf(f)' = PassesOf(f) /\ FailuresOf(f)' = FailuresOf(f)
    BY <2>1 DEF SetupPassed, PassesOf, FailuresOf
  <2> QED
    BY <1>1, <2>1, <2>2, <2>3 DEF ResultInvAt, Counted
<1>13. CASE LaunchFiles
  <2>1. /\ pc[f] = "waiting" /\ pc'[f] = "begin" /\ UNCHANGED <<passed, errs>>
    BY <1>13 DEF LaunchFiles, InstanceInv
  <2> QED
    BY <1>1, <2>1 DEF ResultInvAt, Counted
<1>14. ASSUME NEW c \in Instances, InstanceStep(c) PROVE UNCHANGED fileVars
  BY <1>14 DEF InstanceStep, StartInstance, InstanceNotStarted, EndInstance, ReleaseSlot,
               InstanceDone, InstanceUnchanged
<1> QED
  BY <1>2, <1>3, <1>4, <1>5, <1>6, <1>7, <1>8, <1>9, <1>10, <1>11, <1>12, <1>13, <1>14,
     ElsewhereUnchanged DEF Next, RunStep, FileStep

-----------------------------------------------------------------------------
(***************************************************************************)
(* Theorems about results.                                                 *)
(***************************************************************************)

\* A run that has not begun has stored and reported nothing.
LEMMA InitRInv == Init => RInv
<1> SUFFICES ASSUME Init PROVE RInv
  OBVIOUS
<1>1. TempInv /\ VerdictInv
  BY DEF Init, TempInv, Opened, VerdictInv
<1>2. WindowInv
  BY InstanceBelongs DEF Init, WindowInv
<1>3. ResultInv
  BY DEF Init, ResultInv, ResultInvAt, Counted
<1>4. RunInv
  BY DEF Init, RunInv
<1> QED
  BY <1>1, <1>2, <1>3, <1>4 DEF RInv

\* Every reachable state of a run satisfies both invariants.
THEOREM ResultsInvariance == Spec => [](IInv /\ RInv)
<1>1. IInv /\ RInv /\ [Next]_vars => RInv'
  BY TempInvStep, VerdictInvStep, WindowInvStep, ResultInvStep, RunInvStep DEF RInv
<1> QED
  BY Invariance, InitRInv, <1>1, PTL DEF Spec

\* While dats executes a command, the temp directory its fixtures and outputs are in
\* is there: the deferred Cleanup of runFile waits for every execution of the file.
THEOREM WorkspaceOutlivesCommands == Spec => []WorkspaceWhileExecuting
<1>1. IInv /\ RInv => WorkspaceWhileExecuting
  <2> SUFFICES ASSUME IInv, RInv, NEW c \in Executing PROVE temp[c[1]] = "present"
    BY DEF WorkspaceWhileExecuting
  <2>1. CASE \E f \in Files : hook[f] = "running" /\ c = <<f, pc[f], next[f]>>
    BY <2>1 DEF IInv, HookInv, RInv, TempInv, Opened
  <2>2. CASE c \in Instances /\ inst[c] = "executing"
    <3>1. c[1] \in Files /\ pc[c[1]] = "tests"
      BY <2>2, InstanceShape DEF IInv, TypeOK, Positions, InstanceInv
    <3> QED
      BY <3>1 DEF RInv, TempInv, Opened
  <2> QED
    BY <2>1, <2>2 DEF Executing
<1> QED
  BY <1>1, ResultsInvariance, PTL

\* At -jN an instance begins only when fewer than N earlier ones of its file are
\* unfinished, for any N and any number of tests; -j1 is a sequential run.
THEOREM DeclarationOrderKept == Spec => []DeclarationOrderWindow
<1>1. IInv /\ RInv => DeclarationOrderWindow
  <2> SUFFICES ASSUME IInv, RInv, NEW f \in Files, NEW j \in 1 .. Tests[f],
                      <<f, "tests", j>> \in ran
               PROVE  Cardinality(Unfinished(f, j)) < Jobs
    BY DEF DeclarationOrderWindow, Unfinished
  <2>1. inst[<<f, "tests", j>>] # "idle"
    BY InstanceBelongs DEF IInv, InstanceInv
  <2> QED
    BY <2>1 DEF RInv, WindowInv
<1> QED
  BY <1>1, ResultsInvariance, PTL

\* A file has as many instances as its suite has tests after expansion.
LEMMA InstancesCounted ==
  ASSUME NEW f \in Files
  PROVE  Cardinality(InstancesOf(f)) = Tests[f]
<1> DEFINE nth == [i \in 1 .. Tests[f] |-> <<f, "tests", i>>]
<1>1. Tests[f] \in Nat
  BY ConstantsAssumption
<1>2. nth \in Bijection(1 .. Tests[f], InstancesOf(f))
  BY DEF InstancesOf, Bijection, Injection, Surjection, IsInjective
<1> HIDE DEF nth
<1>3. ExistsBijection(1 .. Tests[f], InstancesOf(f))
  BY <1>2 DEF ExistsBijection
<1> QED
  BY <1>1, <1>3, FS_CountingElements

\* Every instance is in exactly one of the two counts.
LEMMA CountsAddUp ==
  ASSUME NEW f \in Files
  PROVE  Cardinality(PassesOf(f)) + Cardinality(FailuresOf(f)) = Tests[f]
<1>1. /\ PassesOf(f) \subseteq InstancesOf(f) /\ FailuresOf(f) \subseteq InstancesOf(f)
      /\ PassesOf(f) \cup FailuresOf(f) = InstancesOf(f)
      /\ PassesOf(f) \cap FailuresOf(f) = {}
  BY DEF PassesOf, FailuresOf
<1>2. IsFiniteSet(PassesOf(f)) /\ IsFiniteSet(FailuresOf(f))
  BY <1>1, InstancesFinite, FS_Subset
<1>3. Cardinality(PassesOf(f)) \in Nat /\ Cardinality(FailuresOf(f)) \in Nat
  BY <1>2, FS_CardinalityType
<1>4. Cardinality(InstancesOf(f)) =
        Cardinality(PassesOf(f)) + Cardinality(FailuresOf(f)) - Cardinality({})
  BY <1>1, <1>2, FS_Union
<1> QED
  BY <1>3, <1>4, InstancesCounted, FS_EmptySet

\* The results RunFiles returns count every instance once; after a setup failure
\* none of them ran, and without one all did that could.
THEOREM ResultsAreComplete == Spec => []ResultsCountEveryInstance
<1>1. IInv /\ RInv => ResultsCountEveryInstance
  <2> SUFFICES ASSUME IInv, RInv, outcome = "results", NEW f \in Files
               PROVE  /\ ~errs[f]
                      /\ passed[f] + failed[f] = Tests[f]
                      /\ setupFailure[f] => passed[f] = 0 /\ InstancesOf(f) \cap ran = {}
                      /\ ~setupFailure[f] /\ ~cancelled => InstancesOf(f) \ MayNotStart \subseteq ran
    BY DEF ResultsCountEveryInstance
  <2>1. Counted(f) /\ ~errs[f] /\ ResultInvAt(f)
    BY DEF RInv, RunInv, Counted, ResultInv
  <2>2. CASE setupFailure[f]
    <3>1. passed[f] = 0 /\ failed[f] = Tests[f] /\ Tests[f] \in Nat
      BY <2>1, <2>2, ConstantsAssumption DEF ResultInvAt
    <3>2. ASSUME NEW c \in InstancesOf(f) PROVE c \notin ran
      <4>1. c \in Instances /\ c[1] = f
        BY InstanceBelongs
      <4>2. inst[c] = "idle"
        BY <2>2, <4>1 DEF IInv, SetupInv, SetupPassed
      <4> QED
        BY <4>1, <4>2 DEF IInv, InstanceInv
    <3> QED
      BY <2>1, <2>2, <3>1, <3>2
  <2>3. CASE ~setupFailure[f]
    <3>1. passed[f] + failed[f] = Tests[f]
      BY <2>1, <2>3, CountsAddUp DEF ResultInvAt
    <3>2. ASSUME NEW c \in InstancesOf(f) PROVE c \in ran \/ c \in MayNotStart \/ cancelled
      BY <2>1, <2>3, InstanceBelongs DEF ResultInvAt, RInv, VerdictInv
    <3> QED
      BY <2>1, <2>3, <3>1, <3>2
  <2> QED
    BY <2>2, <2>3
<1> QED
  BY <1>1, ResultsInvariance, PTL

\* A file whose counters are clean ran all of its commands.
LEMMA GreenIsComplete == IInv /\ RInv => GreenRunIsComplete
<1> SUFFICES ASSUME IInv, RInv, outcome = "results", NEW f \in Files, FileOk(f)
             PROVE  /\ {c \in Commands : c[1] = f} \subseteq ran
                    /\ \A c \in InstancesOf(f) : verdict[c] = "pass"
  BY DEF GreenRunIsComplete
<1>1. /\ pc[f] = "exited" /\ ~errs[f] /\ Counted(f) /\ ResultInvAt(f)
      /\ failed[f] = 0 /\ ~setupFailure[f] /\ teardownFailures[f] = 0
  BY DEF RInv, RunInv, Counted, ResultInv, FileOk
<1>2. FailuresOf(f) = {}
  <2>1. FailuresOf(f) \subseteq InstancesOf(f) /\ IsFiniteSet(FailuresOf(f))
    BY InstancesFinite, FS_Subset DEF FailuresOf
  <2>2. Cardinality(FailuresOf(f)) = 0
    BY <1>1 DEF ResultInvAt
  <2> QED
    BY <2>1, <2>2, FS_EmptySet
<1>3. \A c \in InstancesOf(f) : verdict[c] = "pass"
  BY <1>2 DEF FailuresOf
<1>4. \A c \in InstancesOf(f) : c \in ran
  BY <1>3, InstanceBelongs DEF RInv, VerdictInv
<1>5. \A i \in 1 .. Setup[f] : <<f, "setup", i>> \in ran
  BY <1>1 DEF ResultInvAt, SetupPassed
<1>6. \A i \in 1 .. Teardown[f] : <<f, "teardown", i>> \in ran
  BY <1>1 DEF ResultInvAt
<1>7. ASSUME NEW c \in Commands, c[1] = f PROVE c \in ran
  <2>1. CASE c \in SetupHooks
    BY <1>5, <1>7, <2>1 DEF SetupHooks
  <2>2. CASE c \in Instances
    BY <1>4, <1>7, <2>2, InstanceBelongs
  <2>3. CASE c \in TeardownHooks
    BY <1>6, <1>7, <2>3 DEF TeardownHooks
  <2> QED
    BY <2>1, <2>2, <2>3 DEF Commands
<1> QED
  BY <1>3, <1>7

\* A file reported green ran all its commands and each of its tests passed: no
\* interrupt, early return or failure elsewhere skips anything into a green result.
THEOREM GreenMeansComplete == Spec => []GreenRunIsComplete
BY GreenIsComplete, ResultsInvariance, PTL

-----------------------------------------------------------------------------
(***************************************************************************)
(* The refinement.  Under the mapping of Contract every step of the        *)
(* scheduler is a step of SuiteContract or changes none of what it speaks  *)
(* of.  What only this needs is LoopInv: no hook begins twice.             *)
(***************************************************************************)

\* The hooks of a loop that ran are those before the one it is at, and that one
\* once it is running; a setup hook holds a slot only while none has failed.
LoopInvAt(f) ==
  /\ \A i \in 1 .. Setup[f] : <<f, "setup", i>> \in ran =>
       /\ pc[f] \in {"setup", "tests", "teardown", "exited"}
       /\ pc[f] = "setup" =>
            i < next[f] \/ (i = next[f] /\ (hook[f] = "running" \/ setupFailure[f]))
  /\ \A i \in 1 .. Teardown[f] : <<f, "teardown", i>> \in ran =>
       /\ pc[f] \in {"teardown", "exited"}
       /\ pc[f] = "teardown" => i < next[f] \/ (i = next[f] /\ hook[f] = "running")
  /\ hook[f] # "idle" /\ pc[f] = "setup" => ~setupFailure[f]

LoopInv == \A f \in Files : LoopInvAt(f)

RefInv == IInv /\ RInv /\ LoopInv

\* A hook command is taken, started and ended by its own file's loop, each index
\* once.
LEMMA LoopInvStep ==
  ASSUME IInv, LoopInv, [Next]_vars
  PROVE  LoopInv'
<1> USE DEF fileVars, instVars, outputVars, IInv, TypeOK
<1> SUFFICES ASSUME NEW f \in Files PROVE LoopInvAt(f)'
  BY DEF LoopInv
<1>1. LoopInvAt(f) /\ HookInv
  BY DEF LoopInv
<1>2. ASSUME pc'[f] = pc[f], next'[f] = next[f], hook'[f] = hook[f],
             setupFailure'[f] = setupFailure[f],
             \A d \in ran' \ ran : d[1] # f \/ d[2] = "tests"
      PROVE  LoopInvAt(f)'
  BY <1>1, <1>2 DEF LoopInvAt
<1>3. CASE UNCHANGED <<fileVars, ran>>
  BY <1>2, <1>3
<1>4. ASSUME NEW g \in Files, FileStep(g), g # f PROVE LoopInvAt(f)'
  <2>1. /\ pc'[f] = pc[f] /\ next'[f] = next[f] /\ hook'[f] = hook[f]
        /\ setupFailure'[f] = setupFailure[f]
    BY <1>4 DEF FileStep, OpenFile, WriteShared, AcquireForSetup, AcquireForTeardown,
                AcquireForHook, StartHook, HookNotStarted, EndHook, HookSucceeds, HookFails,
                SetupHookFails, TeardownHookFails, FailInstances, SetupComplete,
                SpawnInstance, CollectResults, FinishFile
  <2>2. ran' \subseteq ran \cup {<<g, pc[g], next[g]>>}
    BY <1>4 DEF FileStep, OpenFile, WriteShared, AcquireForSetup, AcquireForTeardown,
                AcquireForHook, StartHook, HookNotStarted, EndHook, FailInstances,
                SetupComplete, SpawnInstance, CollectResults, FinishFile
  <2> QED
    BY <1>2, <1>4, <2>1, <2>2
<1>5. ASSUME NEW c \in Instances, InstanceStep(c) PROVE LoopInvAt(f)'
  <2>1. UNCHANGED fileVars /\ ran' \subseteq ran \cup {c} /\ c[2] = "tests"
    BY <1>5, InstanceShape DEF InstanceStep, StartInstance, InstanceNotStarted, EndInstance,
                               ReleaseSlot, InstanceDone, InstanceUnchanged
  <2> QED
    BY <1>2, <2>1
<1>6. CASE OpenFile(f) \/ WriteShared(f) \/ SpawnInstance(f)
  BY <1>1, <1>6 DEF OpenFile, WriteShared, SpawnInstance, AtFile, LoopInvAt, HookInv
<1>7. CASE AcquireForSetup(f) \/ AcquireForTeardown(f)
  BY <1>1, <1>7 DEF AcquireForSetup, AcquireForTeardown, AcquireForHook, AtFile, LoopInvAt
<1>8. CASE StartHook(f)
  BY <1>1, <1>8 DEF StartHook, LoopInvAt, HookInv
<1>9. CASE HookNotStarted(f) \/ EndHook(f)
  <2>1. /\ pc' = pc /\ ran' = ran /\ hook'[f] = "idle" /\ hook[f] # "idle"
        /\ \/ HookSucceeds(f)
           \/ SetupHookFails(f)
           \/ TeardownHookFails(f)
    BY <1>9 DEF HookNotStarted, EndHook, HookFails
  <2>2. next[f] \in Nat /\ Setup[f] \in Nat /\ Teardown[f] \in Nat
    BY ConstantsAssumption
  <2>3. CASE HookSucceeds(f)
    BY <1>1, <2>1, <2>2, <2>3 DEF HookSucceeds, LoopInvAt
  <2>4. CASE SetupHookFails(f)
    BY <1>1, <2>1, <2>2, <2>4 DEF SetupHookFails, LoopInvAt
  <2>5. CASE TeardownHookFails(f)
    BY <1>1, <2>1, <2>2, <2>5 DEF TeardownHookFails, LoopInvAt
  <2> QED
    BY <2>1, <2>3, <2>4, <2>5
<1>10. CASE FailInstances(f) \/ SetupComplete(f) \/ CollectResults(f)
  BY <1>1, <1>10 DEF FailInstances, SetupComplete, CollectResults, AtFile, LoopInvAt, HookInv
<1>11. CASE FinishFile(f)
  BY <1>1, <1>11 DEF FinishFile, AtFile, LoopInvAt, HookInv
<1>12. CASE LaunchFiles
  BY <1>1, <1>12 DEF LaunchFiles, LoopInvAt, HookInv, InstanceInv
<1> QED
  BY <1>3, <1>4, <1>5, <1>6, <1>7, <1>8, <1>9, <1>10, <1>11, <1>12, ElsewhereUnchanged
     DEF Next, RunStep, FileStep

\* Every reachable state of a run satisfies what the refinement needs.
THEOREM RefInvariance == Spec => []RefInv
<1>1. Init => LoopInv
  BY DEF Init, LoopInv, LoopInvAt
<1>2. IInv /\ LoopInv /\ [Next]_vars => LoopInv'
  BY LoopInvStep
<1> QED
  BY <1>1, <1>2, ResultsInvariance, PTL DEF Spec, RefInv

-----------------------------------------------------------------------------
(***************************************************************************)
(* What a step does to the set of commands that have a process.            *)
(***************************************************************************)

\* A command that is about to execute holds a slot, so that one of the Jobs is
\* free of processes.
LEMMA RoomToBegin ==
  ASSUME IInv, NEW c \in Holding, c \notin Executing
  PROVE  Cardinality(Executing) < Jobs
<1>1. IsFiniteSet(Holding) /\ Cardinality(Holding) = pool /\ pool \in 0 .. Jobs
  BY DEF IInv, SlotsInv, SlotsAccountedFor, TypeOK
<1>2. Executing \subseteq Holding \ {c}
  BY DEF Executing, Holding
<1>3. IsFiniteSet(Holding \ {c}) /\ Cardinality(Holding \ {c}) = Cardinality(Holding) - 1
  BY <1>1, FS_RemoveElement
<1>4. Cardinality(Executing) <= Cardinality(Holding \ {c}) /\ Cardinality(Executing) \in Nat
  BY <1>2, <1>3, FS_Subset, FS_CardinalityType
<1> QED
  BY <1>1, <1>3, <1>4, ConstantsAssumption

\* A hook's process appears when it is started.
LEMMA HookBegins ==
  ASSUME IInv, NEW f \in Files, hook[f] = "held", hook' = [hook EXCEPT ![f] = "running"],
         UNCHANGED <<pc, next, inst>>
  PROVE  /\ <<f, pc[f], next[f]>> \in Holding \ Executing
         /\ Executing' = Executing \cup {<<f, pc[f], next[f]>>}
<1>1. <<f, pc[f], next[f]>> \in Holding
  BY DEF Holding
<1>2. <<f, pc[f], next[f]>> \notin Executing
  BY InstanceShape DEF Executing, IInv, HookInv
<1>3. Executing' = Executing \cup {<<f, pc[f], next[f]>>}
  BY DEF Executing, IInv, TypeOK
<1> QED
  BY <1>1, <1>2, <1>3

\* A hook's process disappears when it ends.
LEMMA HookEnds ==
  ASSUME IInv, NEW f \in Files, hook[f] = "running", hook' = [hook EXCEPT ![f] = "idle"],
         UNCHANGED <<pc, inst>>, \A g \in Files \ {f} : next'[g] = next[g]
  PROVE  /\ <<f, pc[f], next[f]>> \in Executing
         /\ Executing' = Executing \ {<<f, pc[f], next[f]>>}
<1>1. <<f, pc[f], next[f]>> \in Executing
  BY DEF Executing
<1>2. <<f, pc[f], next[f]>> \notin Instances
  BY InstanceShape DEF IInv, HookInv
<1>3. Executing' = Executing \ {<<f, pc[f], next[f]>>}
  BY <1>2 DEF Executing, IInv, TypeOK
<1> QED
  BY <1>1, <1>3

\* Steps that neither start nor end a process leave the set as it is.
LEMMA ExecutingKept ==
  ASSUME \A g \in Files : /\ hook'[g] = "running" <=> hook[g] = "running"
                          /\ hook[g] = "running" => pc'[g] = pc[g] /\ next'[g] = next[g],
         \A c \in Instances : inst[c] = "executing" <=> inst'[c] = "executing"
  PROVE  Executing' = Executing
BY DEF Executing

\* Outside the tests stage a file's only process is its hook's.
LEMMA NothingActive ==
  ASSUME IInv, NEW f \in Files, pc[f] # "tests", hook[f] # "running"
  PROVE  {d \in Executing : d[1] = f} = {}
BY InstanceShape DEF Executing, IInv, InstanceInv, TypeOK, Positions

-----------------------------------------------------------------------------
(***************************************************************************)
(* The steps of the contract, under the mapping of Contract.               *)
(***************************************************************************)

\* The contract's commands are the run's.
LEMMA ContractCommands ==
  ASSUME NEW f \in Files
  PROVE  /\ \A i : <<f, "setup", i>> \in Contract!CommandsOf(f) <=> i \in 1 .. Setup[f]
         /\ \A i : <<f, "tests", i>> \in Contract!CommandsOf(f) <=> i \in 1 .. Tests[f]
         /\ \A i : <<f, "teardown", i>> \in Contract!CommandsOf(f) <=> i \in 1 .. Teardown[f]
BY DEF Contract!CommandsOf, Contract!SetupHooks, Contract!Instances, Contract!TeardownHooks

\* One process more, that of a command which may begin, is a Begin.
LEMMA BeginStep ==
  ASSUME NEW c, NEW f \in Files, c[1] = f, c \in Contract!CommandsOf(f), c \notin ran,
         StageOf(pc[f]) = c[2], Cardinality(Executing) < Jobs,
         Contract!Exclusive(c) =>
           /\ {d \in Executing : d[1] = f} = {}
           /\ \A d \in ran : d[1] = c[1] /\ d[2] = c[2] => d[3] < c[3],
         Executing' = Executing \cup {c}, ran' = ran \cup {c}, pc' = pc
  PROVE  Contract!Next
<1>1. Contract!Cardinality(Executing) = Cardinality(Executing)
  BY DEF Contract!Cardinality, Cardinality
<1>2. Contract!Begin(c)
  BY <1>1 DEF Contract!Begin, Contract!ActiveOf, Contract!Files, Files
<1> QED
  BY <1>2 DEF Contract!Next, Contract!Files, Files

\* One process less is an End.
LEMMA EndStep ==
  ASSUME NEW c \in Executing, Executing' = Executing \ {c}, ran' = ran, pc' = pc
  PROVE  Contract!Next
BY DEF Contract!Next, Contract!End

\* A file without processes whose goroutine passes on to another stage is an
\* Advance.
LEMMA AdvanceStep ==
  ASSUME pc \in [Files -> Positions], NEW f \in Files, NEW to \in Positions,
         pc' = [pc EXCEPT ![f] = to],
         {d \in Executing : d[1] = f} = {}, Contract!MayFollow(f, StageOf(to)),
         StageOf(to) \in {"setup", "tests", "teardown", "closed"},
         Executing' = Executing, ran' = ran
  PROVE  Contract!Next
<1>1. [g \in Files |-> StageOf(pc[g])]' =
        [[g \in Files |-> StageOf(pc[g])] EXCEPT ![f] = StageOf(to)]
  OBVIOUS
<1>2. Contract!Advance(f)
  BY <1>1 DEF Contract!Advance, Contract!ActiveOf
<1> QED
  BY <1>2 DEF Contract!Next, Contract!Files, Files

\* A step that changes neither stages, processes nor what ran is a stutter.
LEMMA StutterStep ==
  ASSUME \A f \in Files : StageOf(pc[f])' = StageOf(pc[f]), Executing' = Executing, ran' = ran
  PROVE  UNCHANGED Contract!vars
BY DEF Contract!vars

-----------------------------------------------------------------------------
(***************************************************************************)
(* Step simulation: one lemma for hooks, one for instances, one for the    *)
(* stages.                                                                 *)
(***************************************************************************)

\* A hook begins alone in its file, after those before it, and within -j.
LEMMA HookSimulation ==
  ASSUME RefInv, NEW f \in Files, StartHook(f)
  PROVE  Contract!Next
<1> DEFINE c == <<f, pc[f], next[f]>>
<1> USE DEF RefInv, IInv, TypeOK
<1>1. /\ hook[f] = "held" /\ hook' = [hook EXCEPT ![f] = "running"]
      /\ ran' = ran \cup {c} /\ UNCHANGED <<pc, next, inst>>
  BY DEF StartHook, instVars
<1>2. pc[f] \in {"setup", "teardown"} /\ c \in Commands
  BY <1>1 DEF HookInv
<1>3. /\ pc[f] = "setup" => next[f] \in 1 .. Setup[f]
      /\ pc[f] = "teardown" => next[f] \in 1 .. Teardown[f]
  BY <1>2, HookCommands
<1>4. c \in Contract!CommandsOf(f) /\ StageOf(pc[f]) = pc[f]
  BY <1>2, <1>3, ContractCommands DEF StageOf
<1>5. c \in Holding \ Executing /\ Executing' = Executing \cup {c}
  BY <1>1, HookBegins
<1>6. Cardinality(Executing) < Jobs
  BY <1>5, RoomToBegin
<1>7. {d \in Executing : d[1] = f} = {}
  BY <1>1, <1>2, NothingActive
<1>8. ASSUME NEW d \in ran, d[1] = f, d[2] = pc[f] PROVE d[3] < next[f]
  <2>1. d \in Commands
    OBVIOUS
  <2>2. \E i : d = <<f, pc[f], i>> /\ d[3] = i
    BY <1>2, <1>8, <2>1 DEF Commands, SetupHooks, Instances, TeardownHooks
  <2>3. CASE pc[f] = "setup"
    BY <1>1, <2>1, <2>2, <2>3, HookCommands DEF LoopInv, LoopInvAt
  <2>4. CASE pc[f] = "teardown"
    BY <1>1, <2>1, <2>2, <2>4, HookCommands DEF LoopInv, LoopInvAt
  <2> QED
    BY <1>2, <2>3, <2>4
<1>9. c \notin ran
  BY <1>8
<1> QED
  BY <1>1, <1>4, <1>5, <1>6, <1>7, <1>8, <1>9, BeginStep

\* An instance begins once, within -j; with a single slot it begins alone and
\* after every earlier instance of its file.
LEMMA InstanceSimulation ==
  ASSUME RefInv, NEW c \in Instances, StartInstance(c)
  PROVE  Contract!Next
<1> USE DEF RefInv, IInv, TypeOK
<1>1. /\ inst[c] = "preparing" /\ inst' = [inst EXCEPT ![c] = "executing"]
      /\ ran' = ran \cup {c} /\ UNCHANGED <<pc, next, hook>>
  BY DEF StartInstance, InstanceUnchanged, fileVars
<1>2. /\ c[1] \in Files /\ c[2] = "tests" /\ c[3] \in 1 .. Tests[c[1]]
      /\ c = <<c[1], "tests", c[3]>>
  BY InstanceShape
<1>3. c \in Contract!CommandsOf(c[1])
  BY <1>2, ContractCommands
<1>4. pc[c[1]] = "tests" /\ StageOf(pc[c[1]]) = c[2]
  BY <1>1, <1>2 DEF InstanceInv, Positions, StageOf
<1>5. c \in Holding /\ c \notin Executing
  <2>1. c \in Holding
    BY <1>1 DEF Holding
  <2>2. c \notin {<<f, pc[f], next[f]>> : f \in {g \in Files : hook[g] = "running"}}
    BY <1>2 DEF HookInv
  <2> QED
    BY <1>1, <2>1, <2>2 DEF Executing
<1>6. Cardinality(Executing) < Jobs
  BY <1>5, RoomToBegin
<1>7. Executing' = Executing \cup {c}
  BY <1>1 DEF Executing
<1>8. c \notin ran
  BY <1>1 DEF RInv, VerdictInv
<1>9. ASSUME Jobs = 1
      PROVE  /\ {d \in Executing : d[1] = c[1]} = {}
             /\ \A d \in ran : d[1] = c[1] /\ d[2] = c[2] => d[3] < c[3]
  <2>1. Executing = {}
    <3>1. IsFiniteSet(Executing)
      <4>1. Executing \subseteq Holding
        BY DEF Executing, Holding
      <4> QED
        BY <4>1, FS_Subset DEF SlotsInv
    <3>2. Cardinality(Executing) = 0
      BY <1>6, <1>9, <3>1, FS_CardinalityType
    <3> QED
      BY <3>1, <3>2, FS_EmptySet
  <2>2. ASSUME NEW d \in ran, d[1] = c[1], d[2] = c[2] PROVE d[3] < c[3]
    <3>1. d \in Instances /\ d[3] \in 1 .. Tests[c[1]] /\ d = <<c[1], "tests", d[3]>>
      BY <1>2, <2>2 DEF Commands, SetupHooks, Instances, TeardownHooks
    <3>2. d[3] # c[3]
      BY <1>2, <1>8, <2>2, <3>1
    <3>3. ~(c[3] < d[3])
      <4> SUFFICES ASSUME c[3] < d[3] PROVE FALSE
        OBVIOUS
      <4>1. inst[d] # "idle"
        BY <3>1 DEF InstanceInv
      <4>2. Cardinality(Unfinished(c[1], d[3])) < 1
        BY <1>2, <1>9, <3>1, <4>1 DEF RInv, WindowInv
      <4>3. c[3] \in Unfinished(c[1], d[3])
        BY <1>1, <1>2, <3>1, ConstantsAssumption DEF Unfinished
      <4>4. d[3] - 1 \in Int /\ 1 \in Int
        BY <3>1
      <4>5. IsFiniteSet(Unfinished(c[1], d[3]))
        <5>1. Unfinished(c[1], d[3]) \subseteq 1 .. (d[3] - 1)
          BY DEF Unfinished
        <5> QED
          BY <4>4, <5>1, FS_Interval, FS_Subset
      <4> QED
        BY <4>2, <4>3, <4>5, FS_CardinalityType, FS_EmptySet
    <3> QED
      BY <1>2, <3>1, <3>2, <3>3, ConstantsAssumption
  <2> QED
    BY <2>1, <2>2
<1>10. Contract!Exclusive(c) => Jobs = 1
  BY <1>2 DEF Contract!Exclusive
<1> QED
  BY <1>1, <1>2, <1>3, <1>4, <1>6, <1>7, <1>8, <1>9, <1>10, BeginStep

\* A file's goroutine moves forward past nothing that executes.
LEMMA StageSimulation ==
  ASSUME RefInv, NEW f \in Files, FileStep(f)
  PROVE  Contract!Next \/ UNCHANGED Contract!vars
<1> USE DEF RefInv, IInv, TypeOK
<1>1. CASE OpenFile(f) /\ pc'[f] = "shared"
  <2>1. Executing' = Executing
    BY <1>1, ExecutingKept DEF OpenFile, AtFile, HookInv, instVars
  <2> QED
    BY <1>1, <2>1, StutterStep DEF OpenFile, AtFile, StageOf
<1>2. CASE OpenFile(f) /\ pc'[f] = "exited"
  <2>1. /\ pc[f] = "begin" /\ pc' = [pc EXCEPT ![f] = "exited"] /\ ran' = ran
        /\ hook[f] = "idle" /\ UNCHANGED <<hook, next, inst>>
    BY <1>2 DEF OpenFile, AtFile, HookInv, instVars
  <2>2. Executing' = Executing
    BY <2>1, ExecutingKept
  <2>3. Contract!MayFollow(f, StageOf("exited")) /\ StageOf("exited") = "closed"
    BY <2>1 DEF Contract!MayFollow, StageOf
  <2> QED
    BY <2>1, <2>2, <2>3, NothingActive, AdvanceStep DEF Positions
<1>3. CASE WriteShared(f)
  <2>1. /\ pc[f] = "shared" /\ pc' = [pc EXCEPT ![f] = "setup"] /\ ran' = ran
        /\ hook[f] = "idle" /\ UNCHANGED <<hook, next, inst>>
    BY <1>3 DEF WriteShared, AtFile, HookInv, instVars
  <2>2. Executing' = Executing
    BY <2>1, ExecutingKept
  <2>3. Contract!MayFollow(f, StageOf("setup")) /\ StageOf("setup") = "setup"
    BY <2>1 DEF Contract!MayFollow, StageOf
  <2> QED
    BY <2>1, <2>2, <2>3, NothingActive, AdvanceStep DEF Positions
<1>4. CASE AcquireForSetup(f) \/ AcquireForTeardown(f)
  <2>1. Executing' = Executing
    BY <1>4, ExecutingKept DEF AcquireForSetup, AcquireForTeardown, AcquireForHook, instVars
  <2> QED
    BY <1>4, <2>1, StutterStep DEF AcquireForSetup, AcquireForTeardown, AcquireForHook
<1>5. CASE StartHook(f)
  BY <1>5, HookSimulation
<1>6. CASE HookNotStarted(f)
  <2>1. /\ hook[f] = "held" /\ hook' = [hook EXCEPT ![f] = "idle"]
        /\ UNCHANGED <<pc, ran, inst>> /\ \A g \in Files \ {f} : next'[g] = next[g]
    BY <1>6 DEF HookNotStarted, HookFails, SetupHookFails, TeardownHookFails, instVars
  <2>2. Executing' = Executing
    BY <2>1, ExecutingKept
  <2> QED
    BY <2>1, <2>2, StutterStep
<1>7. CASE EndHook(f)
  <2>1. /\ hook[f] = "running" /\ hook' = [hook EXCEPT ![f] = "idle"]
        /\ UNCHANGED <<pc, ran, inst>> /\ \A g \in Files \ {f} : next'[g] = next[g]
    BY <1>7 DEF EndHook, HookSucceeds, HookFails, SetupHookFails, TeardownHookFails, instVars
  <2> QED
    BY <2>1, HookEnds, EndStep
<1>8. CASE FailInstances(f)
  <2>1. /\ pc[f] = "setup" /\ pc' = [pc EXCEPT ![f] = "teardown"] /\ ran' = ran
        /\ hook[f] = "idle" /\ UNCHANGED <<hook, inst>>
        /\ \A g \in Files \ {f} : next'[g] = next[g]
    BY <1>8 DEF FailInstances, AtFile, instVars
  <2>2. Executing' = Executing
    BY <2>1, ExecutingKept
  <2>3. Contract!MayFollow(f, StageOf("teardown")) /\ StageOf("teardown") = "teardown"
    BY <2>1 DEF Contract!MayFollow, StageOf
  <2> QED
    BY <2>1, <2>2, <2>3, NothingActive, AdvanceStep DEF Positions
<1>9. CASE SetupComplete(f)
  <2>1. /\ pc[f] = "setup" /\ pc' = [pc EXCEPT ![f] = "tests"] /\ ran' = ran
        /\ hook[f] = "idle" /\ UNCHANGED <<hook, inst>>
        /\ \A g \in Files \ {f} : next'[g] = next[g]
        /\ ~setupFailure[f] /\ next[f] > Setup[f]
    BY <1>9 DEF SetupComplete, AtFile, SetupLoopOver, instVars
  <2>2. Executing' = Executing
    BY <2>1, ExecutingKept
  <2>3. \A i \in 1 .. Setup[f] : i < next[f]
    <3>1. next[f] \in Nat /\ Setup[f] \in Nat /\ next[f] > Setup[f]
      BY <2>1, ConstantsAssumption
    <3> QED
      BY <3>1
  <2>4. Contract!SetupHooks(f) \subseteq ran
    BY <2>1, <2>3 DEF Contract!SetupHooks, SetupInv, SetupInvAt
  <2>5. Contract!MayFollow(f, StageOf("tests")) /\ StageOf("tests") = "tests"
    BY <2>1, <2>4 DEF Contract!MayFollow, StageOf
  <2> QED
    BY <2>1, <2>2, <2>5, NothingActive, AdvanceStep DEF Positions
<1>10. CASE SpawnInstance(f)
  <2>1. /\ pc[f] = "tests" /\ UNCHANGED <<pc, ran, hook>>
        /\ \A g \in Files \ {f} : next'[g] = next[g]
        /\ hook[f] = "idle"
        /\ inst' = [inst EXCEPT ![<<f, "tests", next[f]>>] = "preparing"]
        /\ inst[<<f, "tests", next[f]>>] = "idle"
    BY <1>10, InstanceBelongs, ConstantsAssumption DEF SpawnInstance, AtFile, HookInv, InstanceInv
  <2>2. Executing' = Executing
    BY <2>1, ExecutingKept
  <2> QED
    BY <2>1, <2>2, StutterStep
<1>11. CASE CollectResults(f)
  <2>1. /\ pc[f] = "tests" /\ pc' = [pc EXCEPT ![f] = "teardown"] /\ ran' = ran
        /\ hook[f] = "idle" /\ UNCHANGED <<hook, inst>>
        /\ \A g \in Files \ {f} : next'[g] = next[g]
        /\ \A c \in InstancesOf(f) : inst[c] = "done"
    BY <1>11 DEF CollectResults, InstancesAwaited, AtFile, HookInv, instVars
  <2>2. Executing' = Executing
    BY <2>1, ExecutingKept
  <2>3. {d \in Executing : d[1] = f} = {}
    BY <2>1, InstanceBelongs DEF Executing
  <2>4. Contract!MayFollow(f, StageOf("teardown")) /\ StageOf("teardown") = "teardown"
    BY <2>1 DEF Contract!MayFollow, StageOf
  <2> QED
    BY <2>1, <2>2, <2>3, <2>4, AdvanceStep DEF Positions
<1>12. CASE FinishFile(f)
  <2>1. /\ pc[f] = "teardown" /\ pc' = [pc EXCEPT ![f] = "exited"] /\ ran' = ran
        /\ hook[f] = "idle" /\ UNCHANGED <<hook, next, inst>>
    BY <1>12 DEF FinishFile, AtFile, instVars
  <2>2. Executing' = Executing
    BY <2>1, ExecutingKept
  <2>3. Contract!MayFollow(f, StageOf("exited")) /\ StageOf("exited") = "closed"
    BY <2>1 DEF Contract!MayFollow, StageOf
  <2> QED
    BY <2>1, <2>2, <2>3, NothingActive, AdvanceStep DEF Positions
<1>13. OpenFile(f) => pc'[f] = "shared" \/ pc'[f] = "exited"
  BY DEF OpenFile
<1> QED
  BY <1>1, <1>2, <1>3, <1>4, <1>5, <1>6, <1>7, <1>8, <1>9, <1>10, <1>11, <1>12, <1>13
     DEF FileStep

\* Every step of the scheduler is one of the contract, or none.
LEMMA Simulation ==
  ASSUME RefInv, [Next]_vars
  PROVE  Contract!Next \/ UNCHANGED Contract!vars
<1> USE DEF RefInv, IInv, TypeOK
<1>1. CASE UNCHANGED <<fileVars, instVars, ran>>
  <2>1. Executing' = Executing
    BY <1>1 DEF Executing, fileVars, instVars
  <2> QED
    BY <1>1, <2>1, StutterStep DEF fileVars
<1>2. CASE LaunchFiles
  <2>1. /\ \A f \in Files : pc[f] = "waiting" /\ pc'[f] = "begin" /\ hook[f] = "idle"
        /\ ran' = ran /\ UNCHANGED <<hook, inst>>
    BY <1>2 DEF LaunchFiles, InstanceInv, HookInv, instVars
  <2>2. Executing' = Executing
    BY <2>1, ExecutingKept
  <2> QED
    BY <2>1, <2>2, StutterStep DEF StageOf
<1>3. ASSUME NEW c \in Instances, InstanceStep(c)
      PROVE  Contract!Next \/ UNCHANGED Contract!vars
  <2>1. UNCHANGED <<pc, next, hook>>
    BY <1>3 DEF InstanceStep, StartInstance, InstanceNotStarted, EndInstance, ReleaseSlot,
                InstanceDone, InstanceUnchanged, fileVars
  <2>2. CASE StartInstance(c)
    BY <2>2, InstanceSimulation
  <2>3. CASE EndInstance(c)
    <3>1. inst[c] = "executing" /\ inst' = [inst EXCEPT ![c] = "returned"] /\ ran' = ran
      BY <2>3 DEF EndInstance
    <3>2. c \notin {<<f, pc[f], next[f]>> : f \in {g \in Files : hook[g] = "running"}}
      BY InstanceShape DEF HookInv
    <3>3. c \in Executing /\ Executing' = Executing \ {c}
      BY <2>1, <3>1, <3>2 DEF Executing
    <3> QED
      BY <2>1, <3>1, <3>3, EndStep
  <2>4. CASE InstanceNotStarted(c) \/ ReleaseSlot(c) \/ InstanceDone(c)
    <3>1. /\ inst[c] # "executing" /\ ran' = ran
          /\ \E s \in InstStates \ {"executing"} : inst' = [inst EXCEPT ![c] = s]
      BY <2>4 DEF InstanceNotStarted, ReleaseSlot, InstanceDone, InstStates
    <3>2. Executing' = Executing
      BY <2>1, <3>1, ExecutingKept
    <3> QED
      BY <2>1, <3>1, <3>2, StutterStep
  <2> QED
    BY <1>3, <2>2, <2>3, <2>4 DEF InstanceStep
<1> QED
  BY <1>1, <1>2, <1>3, StageSimulation, ElsewhereUnchanged DEF Next, RunStep

\* The scheduler implements the contract: whatever the interleaving, the commands
\* of a file begin in the promised order, no more than -j at once, and no file
\* moves past a command that is executing.
THEOREM Implementation == Spec => ContractSpec
<1>1. Init => Contract!Init
  <2> SUFFICES ASSUME Init PROVE Contract!Init
    OBVIOUS
  <2>1. Executing = {}
    BY DEF Init, Executing
  <2>2. [f \in Files |-> StageOf(pc[f])] = [f \in Files |-> "pending"]
    BY DEF Init, StageOf
  <2> QED
    BY <2>1, <2>2 DEF Init, Contract!Init, Contract!Files, Files
<1>2. RefInv /\ [Next]_vars => [Contract!Next]_(Contract!vars)
  BY Simulation
<1> QED
  BY RefInvariance, <1>1, <1>2, PTL DEF Spec, ContractSpec, Contract!Spec

-----------------------------------------------------------------------------
(***************************************************************************)
(* Sums over a finite set: what is true of all smaller subsets is true of  *)
(* every subset, so the equation of a sum has one solution; and it has one *)
(* because every natural number is the size of a set.                      *)
(***************************************************************************)
LEMMA SubsetInduction ==
  ASSUME NEW S, IsFiniteSet(S), NEW Good,
         \A s \in SUBSET S : (\A r \in SUBSET s : r # s => r \in Good) => s \in Good
  PROVE  SUBSET S \subseteq Good
<1> DEFINE Bad == (SUBSET S) \ Good
<1>1. SUFFICES ASSUME Bad # {} PROVE FALSE
  OBVIOUS
<1>2. IsWellFoundedOn(StrictSubsetOrdering(S), SUBSET S)
  BY FS_StrictSubsetOrderingWellFounded, FS_FiniteSubsetsOfFinite
<1>3. PICK m \in Bad : \A s \in Bad : <<s, m>> \notin StrictSubsetOrdering(S)
  <2>1. Bad \subseteq SUBSET S
    OBVIOUS
  <2> HIDE DEF Bad
  <2> QED
    BY <1>1, <1>2, <2>1, WFMin
<1>4. m \in SUBSET S /\ m \notin Good
  BY <1>3
<1>5. ASSUME NEW r \in SUBSET m, r # m PROVE r \in Good
  <2>1. <<r, m>> \in StrictSubsetOrdering(S) /\ r \in SUBSET S
    BY <1>4, <1>5 DEF StrictSubsetOrdering
  <2> QED
    BY <1>3, <2>1
<1> QED
  BY <1>4, <1>5

Chosen(s) == CHOOSE x \in s : TRUE

\* g is the function that the fold of MapThenSumSet computes.
IsSum(g, count, S) ==
  g = [s \in SUBSET S |->
         IF s = {} THEN 0 ELSE count[Chosen(s)] + g[s \ {Chosen(s)}]]

\* The equation has one solution.
LEMMA SumUnique ==
  ASSUME NEW S, IsFiniteSet(S), NEW count, NEW g, NEW h,
         IsSum(g, count, S), IsSum(h, count, S)
  PROVE  g = h
<1> DEFINE Good == {s \in SUBSET S : g[s] = h[s]}
<1>1. ASSUME NEW s \in SUBSET S, \A r \in SUBSET s : r # s => r \in Good
      PROVE  s \in Good
  <2>1. /\ g[s] = IF s = {} THEN 0 ELSE count[Chosen(s)] + g[s \ {Chosen(s)}]
        /\ h[s] = IF s = {} THEN 0 ELSE count[Chosen(s)] + h[s \ {Chosen(s)}]
    BY DEF IsSum
  <2>2. CASE s # {}
    <3>1. Chosen(s) \in s
      BY <2>2 DEF Chosen
    <3>2. s \ {Chosen(s)} \in Good
      BY <1>1, <3>1
    <3> QED
      BY <2>1, <2>2, <3>2
  <2> QED
    BY <2>1, <2>2
<1> HIDE DEF Good
<1>2. SUBSET S \subseteq Good
  BY <1>1, SubsetInduction
<1> USE DEF Good
<1>3. /\ g = [s \in SUBSET S |-> g[s]]
      /\ h = [s \in SUBSET S |-> h[s]]
  BY DEF IsSum
<1> QED
  BY <1>2, <1>3

\* A solution, if there is one, is what MapThenSumSet computes.
LEMMA SumValue ==
  ASSUME NEW S, IsFiniteSet(S), NEW count, NEW h, IsSum(h, count, S)
  PROVE  MapThenSumSet(LAMBDA x : count[x], S) = h[S]
<1> DEFINE iter == CHOOSE g : g = [s \in SUBSET S |->
             IF s = {} THEN 0 ELSE LET x == CHOOSE y \in s : TRUE IN count[x] + g[s \ {x}]]
<1>1. MapThenSumSet(LAMBDA x : count[x], S) = iter[S]
  BY DEF MapThenSumSet, MapThenFoldSet
<1>2. IsSum(iter, count, S)
  BY DEF IsSum, Chosen
<1> HIDE DEF iter
<1>3. iter = h
  BY <1>2, SumUnique
<1> QED
  BY <1>1, <1>3

\* The sizes of disjoint finite sets sum to the size of their union.
LEMMA SizesSum ==
  ASSUME NEW S, IsFiniteSet(S), NEW T,
         \A x \in S : IsFiniteSet(T[x]),
         \A x, y \in S : x # y => T[x] \cap T[y] = {}
  PROVE  /\ \A s \in SUBSET S : IsFiniteSet(UNION {T[x] : x \in s})
         /\ IsSum([s \in SUBSET S |-> Cardinality(UNION {T[x] : x \in s})],
                  [x \in S |-> Cardinality(T[x])], S)
<1> DEFINE All(s) == UNION {T[x] : x \in s}
           count  == [x \in S |-> Cardinality(T[x])]
           size   == [s \in SUBSET S |-> Cardinality(All(s))]
<1>1. ASSUME NEW s \in SUBSET S PROVE IsFiniteSet(All(s))
  <2>1. IsFiniteSet(s)
    BY FS_Subset
  <2>2. IsFiniteSet({T[x] : x \in s})
    <3> DEFINE f == [x \in s |-> T[x]]
    <3>1. f \in Surjection(s, {T[x] : x \in s})
      BY DEF Surjection
    <3> QED
      BY <2>1, <3>1, FS_Surjection
  <2> QED
    BY <2>2, FS_UNION
<1>2. ASSUME NEW s \in SUBSET S, s # {}
      PROVE  Cardinality(All(s)) =
               Cardinality(T[Chosen(s)]) + Cardinality(All(s \ {Chosen(s)}))
  <2>1. Chosen(s) \in s
    BY <1>2 DEF Chosen
  <2> DEFINE first == T[Chosen(s)]
             rest  == All(s \ {Chosen(s)})
  <2>2. All(s) = first \cup rest
    BY <2>1
  <2>3. first \cap rest = {}
    BY <2>1
  <2>4. IsFiniteSet(first) /\ IsFiniteSet(rest)
    BY <1>1, <2>1
  <2> HIDE DEF first, rest
  <2>5. Cardinality(first) \in Nat /\ Cardinality(rest) \in Nat
    BY <2>4, FS_CardinalityType
  <2>6. Cardinality(first \cap rest) = 0
    BY <2>3, FS_EmptySet
  <2>7. Cardinality(first \cup rest) =
          Cardinality(first) + Cardinality(rest) - Cardinality(first \cap rest)
    BY <2>4, FS_Union
  <2>8. Cardinality(first \cup rest) = Cardinality(first) + Cardinality(rest)
    BY <2>5, <2>6, <2>7
  <2> QED
    BY <2>2, <2>8 DEF first, rest
<1>3. Cardinality(All({})) = 0
  BY FS_EmptySet
<1>4. IsSum(size, count, S)
  <2> HIDE DEF All
  <2>1. SUFFICES ASSUME NEW s \in SUBSET S
                 PROVE  size[s] = IF s = {} THEN 0
                                  ELSE count[Chosen(s)] + size[s \ {Chosen(s)}]
    BY Zenon DEF IsSum
  <2>2. CASE s = {}
    BY <1>3, <2>2
  <2>3. CASE s # {}
    BY <1>2, <2>3 DEF Chosen
  <2> QED
    BY <2>2, <2>3
<1> QED
  BY <1>1, <1>4

\* Every natural number is a size, so sums of natural numbers are well defined.
LEMMA SumExists ==
  ASSUME NEW S, IsFiniteSet(S), NEW count \in [S -> Nat]
  PROVE  \E h \in [SUBSET S -> Nat] : IsSum(h, count, S)
<1> DEFINE T    == [x \in S |-> {x} \X (1 .. count[x])]
           size == [s \in SUBSET S |-> Cardinality(UNION {T[x] : x \in s})]
<1>1. ASSUME NEW x \in S
      PROVE  IsFiniteSet(T[x]) /\ Cardinality(T[x]) = count[x]
  <2>1. count[x] \in Nat
    OBVIOUS
  <2>2. IsFiniteSet(1 .. count[x]) /\ Cardinality(1 .. count[x]) = count[x]
    BY <2>1, FS_Interval
  <2>3. IsFiniteSet({x}) /\ Cardinality({x}) = 1
    BY FS_Singleton
  <2> DEFINE units == 1 .. count[x]
  <2> HIDE DEF units
  <2>4. /\ IsFiniteSet({x} \X units)
        /\ Cardinality({x} \X units) = Cardinality({x}) * Cardinality(units)
    BY <2>2, <2>3, FS_Product DEF units
  <2> QED
    BY <2>1, <2>2, <2>3, <2>4 DEF units
<1>2. \A x, y \in S : x # y => T[x] \cap T[y] = {}
  OBVIOUS
<1>3. count = [x \in S |-> Cardinality(T[x])]
  BY <1>1
<1>4. \A x \in S : IsFiniteSet(T[x])
  BY <1>1
<1> HIDE DEF T
<1>5. /\ \A s \in SUBSET S : IsFiniteSet(UNION {T[x] : x \in s})
      /\ IsSum(size, [x \in S |-> Cardinality(T[x])], S)
  BY <1>2, <1>4, SizesSum
<1>6. size \in [SUBSET S -> Nat]
  BY <1>5, FS_CardinalityType
<1> QED
  BY <1>3, <1>5, <1>6

-----------------------------------------------------------------------------
(***************************************************************************)
(* Sums over the files of a run.                                           *)
(***************************************************************************)
LEMMA FilesFinite == IsFiniteSet(Files)
BY ConstantsAssumption, FS_Interval DEF Files

\* The totals are natural numbers, and that of two counts together is the sum of
\* their totals.
LEMMA SumOverAdds ==
  ASSUME NEW a \in [Files -> Nat], NEW b \in [Files -> Nat]
  PROVE  /\ SumOver(a) \in Nat /\ SumOver(b) \in Nat
         /\ SumOver([f \in Files |-> a[f] + b[f]]) = SumOver(a) + SumOver(b)
<1>1. PICK g \in [SUBSET Files -> Nat] : IsSum(g, a, Files)
  BY FilesFinite, SumExists
<1>2. PICK h \in [SUBSET Files -> Nat] : IsSum(h, b, Files)
  BY FilesFinite, SumExists
<1> DEFINE both  == [s \in SUBSET Files |-> g[s] + h[s]]
           count == [f \in Files |-> a[f] + b[f]]
<1>3. /\ both  = [s \in SUBSET Files |-> g[s] + h[s]]
      /\ count = [f \in Files |-> a[f] + b[f]]
      /\ both[Files] = g[Files] + h[Files] /\ g[Files] \in Nat /\ h[Files] \in Nat
  OBVIOUS
<1>4. IsSum(both, count, Files)
  <2>1. SUFFICES ASSUME NEW s \in SUBSET Files
                 PROVE  both[s] = IF s = {} THEN 0
                                  ELSE count[Chosen(s)] + both[s \ {Chosen(s)}]
    BY Zenon DEF IsSum
  <2>2. /\ g[s] = IF s = {} THEN 0 ELSE a[Chosen(s)] + g[s \ {Chosen(s)}]
        /\ h[s] = IF s = {} THEN 0 ELSE b[Chosen(s)] + h[s \ {Chosen(s)}]
    BY <1>1, <1>2 DEF IsSum
  <2>3. CASE s = {}
    BY <2>2, <2>3
  <2>4. CASE s # {}
    <3>1. Chosen(s) \in Files /\ s \ {Chosen(s)} \in SUBSET Files
      BY <2>4 DEF Chosen
    <3>2. /\ a[Chosen(s)] \in Nat /\ b[Chosen(s)] \in Nat
          /\ g[s \ {Chosen(s)}] \in Nat /\ h[s \ {Chosen(s)}] \in Nat
      BY <3>1
    <3>3. /\ both[s] = g[s] + h[s] /\ count[Chosen(s)] = a[Chosen(s)] + b[Chosen(s)]
          /\ both[s \ {Chosen(s)}] = g[s \ {Chosen(s)}] + h[s \ {Chosen(s)}]
      BY <3>1
    <3> HIDE DEF both, count
    <3> QED
      BY <2>2, <2>4, <3>2, <3>3
  <2> QED
    BY <2>3, <2>4
<1> HIDE DEF both, count
<1>5. /\ MapThenSumSet(LAMBDA f : a[f], Files) = g[Files]
      /\ MapThenSumSet(LAMBDA f : b[f], Files) = h[Files]
      /\ MapThenSumSet(LAMBDA f : count[f], Files) = both[Files]
  BY <1>1, <1>2, <1>4, FilesFinite, SumValue
<1>6. SumOver(a) = g[Files] /\ SumOver(b) = h[Files] /\ SumOver(count) = both[Files]
  BY <1>5 DEF SumOver
<1> QED
  BY <1>3, <1>6 DEF count

\* The total of the sizes of disjoint sets is the size of all of them together.
LEMMA SumOverSizes ==
  ASSUME NEW T, \A f \in Files : IsFiniteSet(T[f]),
         \A f, g \in Files : f # g => T[f] \cap T[g] = {}
  PROVE  /\ IsFiniteSet(UNION {T[f] : f \in Files})
         /\ SumOver([f \in Files |-> Cardinality(T[f])]) =
              Cardinality(UNION {T[f] : f \in Files})
<1> DEFINE size  == [s \in SUBSET Files |-> Cardinality(UNION {T[f] : f \in s})]
           count == [f \in Files |-> Cardinality(T[f])]
<1>1. IsFiniteSet(UNION {T[f] : f \in Files}) /\ IsSum(size, count, Files)
  BY FilesFinite, SizesSum
<1>2. size[Files] = Cardinality(UNION {T[f] : f \in Files})
  OBVIOUS
<1> HIDE DEF size, count
<1>3. MapThenSumSet(LAMBDA f : count[f], Files) = size[Files]
  BY <1>1, FilesFinite, SumValue
<1>4. SumOver(count) = size[Files]
  BY <1>3 DEF SumOver
<1> QED
  BY <1>1, <1>2, <1>4 DEF count

-----------------------------------------------------------------------------
(***************************************************************************)
(* One file: its cases and failures in the JUnit report.                   *)
(***************************************************************************)
Hooks(f) == (IF setupFailure[f] THEN 1 ELSE 0) + teardownFailures[f]

\* Some instances of a file and its failed hooks are that many cases.
LEMMA HookCasesCounted ==
  ASSUME IInv, NEW f \in Files, NEW X \in SUBSET InstancesOf(f)
  PROVE  LET cases == SetupCases(f) \cup X \cup TeardownCases(f)
         IN /\ IsFiniteSet(cases)
            /\ Cardinality(cases) = Cardinality(X) + Hooks(f)
<1>1. setupFailure[f] \in BOOLEAN /\ teardownFailures[f] \in Nat
  BY DEF IInv, TypeOK
<1>2. /\ IsFiniteSet(SetupCases(f))
      /\ Cardinality(SetupCases(f)) = IF setupFailure[f] THEN 1 ELSE 0
  BY FS_Singleton, FS_EmptySet DEF SetupCases
<1>3. /\ IsFiniteSet(TeardownCases(f))
      /\ Cardinality(TeardownCases(f)) = teardownFailures[f]
  <2> DEFINE n   == teardownFailures[f]
             nth == [i \in 1 .. n |-> <<f, "[teardown]", i>>]
  <2>1. nth \in Bijection(1 .. n, TeardownCases(f))
    BY DEF TeardownCases, Bijection, Injection, Surjection, IsInjective
  <2> HIDE DEF nth
  <2>2. ExistsBijection(1 .. n, TeardownCases(f))
    BY <2>1 DEF ExistsBijection
  <2> QED
    BY <1>1, <2>2, FS_CountingElements, FS_NatBijection
<1>4. IsFiniteSet(X)
  BY InstancesFinite, FS_Subset
<1>5. /\ SetupCases(f) \cap X = {}
      /\ (SetupCases(f) \cup X) \cap TeardownCases(f) = {}
  BY DEF SetupCases, TeardownCases, InstancesOf
<1>6. Cardinality(X) \in Nat /\ Cardinality({}) = 0
  BY <1>4, FS_CardinalityType, FS_EmptySet
<1> DEFINE before == SetupCases(f) \cup X
           after  == TeardownCases(f)
<1>7. /\ IsFiniteSet(before)
      /\ Cardinality(before) = Cardinality(SetupCases(f)) + Cardinality(X)
                                 - Cardinality(SetupCases(f) \cap X)
  BY <1>2, <1>4, FS_Union
<1> HIDE DEF before, after
<1>8. /\ IsFiniteSet(before \cup after)
      /\ Cardinality(before \cup after) = Cardinality(before) + Cardinality(after)
                                            - Cardinality(before \cap after)
  BY <1>3, <1>7, FS_Union DEF after
<1>9. before \cap after = {}
  BY <1>5 DEF before, after
<1>10. /\ Cardinality(before) = Cardinality(SetupCases(f)) + Cardinality(X)
       /\ Cardinality(before \cup after) = Cardinality(before) + teardownFailures[f]
  <2>1. /\ Cardinality(SetupCases(f) \cap X) = 0
        /\ Cardinality(before \cap after) = 0
    BY <1>5, <1>6, <1>9
  <2>2. Cardinality(SetupCases(f)) \in Nat /\ Cardinality(after) = teardownFailures[f]
    BY <1>2, <1>3 DEF after
  <2> QED
    BY <1>1, <1>6, <1>7, <1>8, <2>1, <2>2
<1>11. Cardinality(before \cup after) = Cardinality(X) + Hooks(f)
  BY <1>1, <1>2, <1>6, <1>10 DEF Hooks
<1> QED
  BY <1>8, <1>11 DEF before, after

\* The counters of a file whose results were returned are those of its list.
LEMMA CountersMatchResults ==
  ASSUME IInv, RInv, outcome = "results", NEW f \in Files
  PROVE  /\ passed[f] + failed[f] = Tests[f]
         /\ failed[f] = Cardinality(FailedResults(f))
<1>1. Counted(f) /\ ResultInvAt(f)
  BY DEF RInv, RunInv, Counted, ResultInv
<1>2. CASE setupFailure[f]
  <2>1. passed[f] = 0 /\ failed[f] = Tests[f] /\ Tests[f] \in Nat
    BY <1>1, <1>2, ConstantsAssumption DEF ResultInvAt
  <2>2. ASSUME NEW c \in InstancesOf(f) PROVE ~Passed(c)
    <3>1. c \in Instances /\ c[1] = f
      BY InstanceBelongs DEF InstancesOf
    <3>2. c \notin ran
      BY <1>2, <3>1 DEF IInv, SetupInv, SetupPassed, InstanceInv
    <3> QED
      BY <3>1, <3>2 DEF Passed, RInv, VerdictInv
  <2>3. FailedResults(f) = InstancesOf(f)
    BY <2>2 DEF FailedResults
  <2> QED
    BY <2>1, <2>3, InstancesCounted
<1>3. CASE ~setupFailure[f]
  <2>1. FailedResults(f) = FailuresOf(f)
    BY DEF FailedResults, FailuresOf, Passed
  <2> QED
    BY <1>1, <1>3, <2>1, CountsAddUp DEF ResultInvAt
<1> QED
  BY <1>2, <1>3

\* What the reports hold once a run has returned its results.
LEMMA Totals ==
  ASSUME IInv, RInv, outcome = "results"
  PROVE  LET hooks == SumOver([f \in Files |-> Hooks(f)])
         IN /\ hooks \in Nat /\ JSONReport.failed \in Nat /\ JSONReport.tests \in Nat
            /\ JSONReport.tests = JSONReport.passed + JSONReport.failed
            /\ JSONReport.failed = Cardinality(JSONReport.notOk)
            /\ JUnitRoot.tests = JSONReport.tests + hooks
            /\ JUnitRoot.failures = JSONReport.failed + hooks
<1> DEFINE extra  == [f \in Files |-> Hooks(f)]
           cases  == [f \in Files |-> Cardinality(JUnitCases(f))]
           fails  == [f \in Files |-> Cardinality(JUnitFailures(f))]
           list   == [f \in Files |-> Cardinality(InstancesOf(f))]
           notOk  == [f \in Files |-> FailedResults(f)]
<1>1. passed \in [Files -> Nat] /\ failed \in [Files -> Nat] /\ extra \in [Files -> Nat]
  BY DEF IInv, TypeOK, Hooks
<1>2. \A f \in Files : Cardinality(InstancesOf(f)) = Tests[f] /\ Tests[f] \in Nat
  BY InstancesCounted, ConstantsAssumption
<1>3. list \in [Files -> Nat] /\ list = [f \in Files |-> passed[f] + failed[f]]
  BY <1>2, CountersMatchResults
<1>4. \A f \in Files : FailedResults(f) \in SUBSET InstancesOf(f)
  BY DEF FailedResults
<1>5. cases = [f \in Files |-> list[f] + extra[f]]
  BY HookCasesCounted DEF JUnitCases
<1>6. fails = [f \in Files |-> failed[f] + extra[f]]
  BY <1>4, HookCasesCounted, CountersMatchResults DEF JUnitFailures
<1>7. failed = [f \in Files |-> Cardinality(notOk[f])]
  BY <1>1, CountersMatchResults
<1>8. SumOver([f \in Files |-> Cardinality(notOk[f])]) =
        Cardinality(UNION {notOk[f] : f \in Files})
  <2>1. \A f \in Files : IsFiniteSet(notOk[f])
    BY <1>4, InstancesFinite, FS_Subset
  <2>2. \A f, g \in Files : f # g => notOk[f] \cap notOk[g] = {}
    BY <1>4 DEF InstancesOf
  <2> HIDE DEF notOk
  <2> QED
    BY <2>1, <2>2, SumOverSizes
<1>9. UNION {notOk[f] : f \in Files} = UNION {FailedResults(f) : f \in Files}
  OBVIOUS
<1> HIDE DEF extra, cases, fails, list, notOk
<1>10. /\ SumOver(extra) \in Nat /\ SumOver(list) \in Nat /\ SumOver(failed) \in Nat
       /\ SumOver(list) = SumOver(passed) + SumOver(failed)
       /\ SumOver(cases) = SumOver(list) + SumOver(extra)
       /\ SumOver(fails) = SumOver(failed) + SumOver(extra)
  BY <1>1, <1>3, <1>5, <1>6, SumOverAdds
<1>11. SumOver(failed) = Cardinality(UNION {FailedResults(f) : f \in Files})
  BY <1>7, <1>8, <1>9
<1> QED
  BY <1>10, <1>11 DEF JSONReport, JUnitRoot, extra, cases, fails, list

\* No failure in the JUnit report means that no file has any.
LEMMA GreenReports ==
  ASSUME IInv, RInv, outcome = "results"
  PROVE  JSONReport.ok <=> JUnitRoot.failures = 0
<1> DEFINE fails == [f \in Files |-> JUnitFailures(f)]
<1>1. \A f \in Files : FailedResults(f) \in SUBSET InstancesOf(f)
  BY DEF FailedResults
<1>2. ASSUME NEW f \in Files
      PROVE  /\ IsFiniteSet(JUnitFailures(f))
             /\ Cardinality(JUnitFailures(f)) = failed[f] + Hooks(f)
  BY <1>1, HookCasesCounted, CountersMatchResults DEF JUnitFailures
<1>3. ASSUME NEW f \in Files
      PROVE  FileOk(f) <=> JUnitFailures(f) = {}
  <2>1. failed[f] \in Nat /\ teardownFailures[f] \in Nat /\ setupFailure[f] \in BOOLEAN
    BY DEF IInv, TypeOK
  <2>2. FileOk(f) <=> failed[f] + Hooks(f) = 0
    BY <2>1 DEF FileOk, Hooks
  <2> QED
    BY <1>2, <2>2, FS_EmptySet
<1>4. \A f \in Files : IsFiniteSet(fails[f])
  BY <1>2
<1>5. \A f, g \in Files : f # g => fails[f] \cap fails[g] = {}
  BY <1>1 DEF JUnitFailures, SetupCases, TeardownCases, InstancesOf
<1>6. /\ JUnitRoot.failures = SumOver([f \in Files |-> Cardinality(fails[f])])
      /\ UNION {fails[f] : f \in Files} = {} <=> \A f \in Files : JUnitFailures(f) = {}
  BY DEF JUnitRoot
<1> HIDE DEF fails
<1>7. /\ IsFiniteSet(UNION {fails[f] : f \in Files})
      /\ SumOver([f \in Files |-> Cardinality(fails[f])]) =
           Cardinality(UNION {fails[f] : f \in Files})
  BY <1>4, <1>5, SumOverSizes
<1>8. JUnitRoot.failures = 0 <=> \A f \in Files : JUnitFailures(f) = {}
  BY <1>6, <1>7, FS_EmptySet
<1> QED
  BY <1>3, <1>8 DEF JSONReport

-----------------------------------------------------------------------------
\* The exit status, the JSON report, the JUnit report and the results of the files
\* tell the same story about every run that returned, however it went.
THEOREM ReportsAreConsistent == Spec => []ReportsAgree
<1>1. IInv /\ RInv => ReportsAgree
  <2> SUFFICES ASSUME IInv, RInv, phase = "returned",
                      NEW requested \in SUBSET Formats, NEW broken \in SUBSET Formats
               PROVE  LET status == ExitStatus(requested, broken)
                          hooks  == SumOver([f \in Files |-> Hooks(f)])
                      IN
                      /\ outcome = "error" => status = 1 /\ Written(requested, broken) = {}
                      /\ outcome = "results" =>
                           /\ status = 0 <=> JSONReport.ok /\ Written(requested, broken) = requested
                           /\ JSONReport.ok <=> JUnitRoot.failures = 0
                           /\ JSONReport.tests = JSONReport.passed + JSONReport.failed
                           /\ JSONReport.failed = Cardinality(JSONReport.notOk)
                           /\ JUnitRoot.tests = JSONReport.tests + hooks
                           /\ JUnitRoot.failures = JSONReport.failed + hooks
                           /\ status = 0 => Instances \ ran = {}
    BY Zenon DEF ReportsAgree, Hooks
  <2>1. CASE outcome # "results"
    BY <2>1 DEF ExitStatus, Written
  <2>2. CASE outcome = "results"
    <3>1. ExitStatus(requested, broken) = 0 <=>
            JSONReport.ok /\ Written(requested, broken) = requested
      BY <2>2 DEF ExitStatus, Written, WriteReports, ResultOk, JSONReport
    <3>2. ExitStatus(requested, broken) = 0 => Instances \ ran = {}
      <4> SUFFICES ASSUME ResultOk, NEW c \in Instances PROVE c \in ran
        BY <2>2 DEF ExitStatus
      <4>1. c \in Commands /\ c[1] \in Files
        BY InstanceShape DEF Commands
      <4>2. FileOk(c[1])
        BY <4>1 DEF ResultOk
      <4> QED
        BY <2>2, <4>1, <4>2, GreenIsComplete DEF GreenRunIsComplete
    <3> QED
      BY <2>2, <3>1, <3>2, Totals, GreenReports
  <2> QED
    BY <2>1, <2>2
<1> QED
  BY <1>1, ResultsInvariance, PTL

=============================================================================
