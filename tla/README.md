# dats: TLA+ models, model checking and proofs

dats runs declarative test suites. A `.dats` file holds fixtures, setup commands,
tests (expanded over a matrix) and teardown commands. The files of a run are
executed concurrently, every command under a slot of one pool, on the host, in a
sandbox (bubblewrap, Seatbelt, docker) or on a remote host over ssh. `dats watch`
repeats the run whenever an input changes.

Paths below are relative to the repository. All modules, configurations and
proofs are in this directory; `PROJECT.json` maps every definition to the lines
it models and lists the runs, the mutants, the findings and the hazards.

## 1. Inventory

| Component | Source | State it keeps | Operations | Talks to |
|---|---|---|---|---|
| Run scheduler | `runner/files.go`, `runner/runner.go` | slot channel, per-file result and buffer, wait groups, temp dir | `RunFiles`, `runFile`, `runHookCommand`, `RunTest` | execution, sandbox plan, ssh manager, snapshots, reports |
| Command execution | `runner/exec*.go`, `runner/nice_*.go` | process, context, os/exec's watcher, kill goroutine, forking thread | `execute`, `startCommand`, `killProcessGroup` | the operating system, docker, ssh |
| Remote hosts and scopes | `runner/ssh*.go` | connections by host (`sync.Once`), per-file `altScopes` under `altMu`, remote directories | `Resolve`, `Connect`, `AllocBase`, `RemoveBase`, `Push`, `Pull`, `scopeFor`, `altScope`, `KillRemote`, `Close` | approvals, execution, scheduler |
| ssh approvals | `internal/sshtrust`, `cmd/trust.go` | `ssh-trust.json` | `Load`, `Approve`, `Revoke`, `save`, the prompt | ssh manager, other dats processes |
| Watch mode | `cmd/watch.go`, `find.go` | resolved suites, fsnotify watcher, bounded event channel, debounce timer | `watchLoop`, `cycle`, `rebuildWatcher`, `pumpEvents` | library entry, file system, signals |
| Sandbox selection | `runner/sandbox*.go` | memoized backend, once-only notice | `Backend`, `TakeProcNotice`, `newSandboxPlan`, argument vectors | scheduler, execution |
| Snapshots | `runner/snapshot.go` | golden files | `applySnapshot`, update, prune | scheduler |
| Matrix expansion | `schema/matrix.go` | none | spelling of values, cross product, substitution | parser |
| Schema, parsing | `schema/*.go` | none | decode, validate | library entry |
| Fixtures, placeholders | `runner/fixtures.go`, `runner/hostpath.go` | files in an instance's directory | write, copy, substitute | scheduler |
| Assertions | `runner/assert.go`, `runner/jsonoutput.go` | none | compare | scheduler |
| Library entry | `dats.go`, `find.go`, `docs.go` | none | `Run`, `FindFiles` | everything above |
| Reports | `report/*`, `cmd/report.go` | none | JUnit, JSON | results |
| Command line | `cmd/*.go` | flags | `test`, `watch`, `trust`, `ssh`, ... | library entry |

What is hard about them:

* **Scheduler.** One goroutine per file and one per instance share a buffered
  channel; setup and teardown are barriers; every early return has to give back
  its slot, report every instance and still run teardown; interrupts may come
  between any two steps.
* **Execution.** The end of the process, the deadline and the interrupt race. The
  kill is spread over three threads of control (os/exec's watcher, the goroutine
  for docker and ssh, the kernel's parent-death signal), and background processes
  hold pipes open.
* **Remote.** Several files share a connection but not a directory or an approval;
  a test may override its file's host, lazily and concurrently with its siblings.
* **Approvals.** A read-modify-write of a file without a lock, with a prompt in
  the middle.
* **Fixtures and verdicts.** Instances of a file run at once with inputs and outputs
  of the same names; placeholders are replaced at three moments, and only at the last
  is the base directory on another machine known; assertions read copies that a
  broken stream may have left incomplete.
* **Watch.** Events are dropped by design (a full channel, a closed watcher), the
  scope changes while it is being computed, and a run writes files it watches.

## 2. The modules

| Module | Models | Abstract specification |
|---|---|---|
| `DatsRunner` | the scheduler of a run | implements `SuiteContract` (`ContractSpec`) |
| `SuiteContract` | the order of commands promised to a suite's author | |
| `Reports` | what a run tells its callers: results, JUnit, JSON, exit status; operators on `DatsRunner`'s state | |
| `Execution` | one command under `execute` | |
| `SshRemote` | connections, directories and scopes of a remote run | |
| `SshTrust` | the approval list | implements `TrustStore` (`StoreSpec`) while operations do not overlap |
| `TrustStore` | the set of pairs its users approved: what each may ask for, and what the list and the answer are then | |
| `Watch` | `dats watch` | |
| `Sandbox` | probing, plans and boundaries of a run's commands | |
| `Snapshot` | expansion and golden files over a series of runs | |
| `Matrix` | the operators of matrix expansion, used by `Snapshot` | nested loops: `Combinations`, `VisitedBefore` |
| `Suite` | the decoders of a document and the rules of `ParseFile`, as operators | reference semantics in `RunTest`: `Required`, `CodeMeant`, `Unbounded` |
| `Assertions` | every assertion and the comparison of JSON, as operators | `StreamHolds`, `FileHolds`, `JSONHolds` in `RunTest` |
| `Fixtures` | placeholders, fixtures, the tar streams to and from a target, as operators on disks | |
| `RunTest` | one file from its document to the verdicts of its instances, composing the three above | |
| `MC*` | the constants the configurations use | |
| `DatsRunner_proofs`, `Execution_proofs`, `SshTrust_proofs`, `SshRemote_proofs`, `Watch_proofs`, `Sandbox_proofs`, `Snapshot_proofs`, `RunTest_proofs` | theorems checked by TLAPS; those about `Reports` are in the first, about `Matrix` in `Snapshot_proofs`, about `Suite`, `Assertions` and `Fixtures` in the last | |

The modules meet at named points and each abstracts the others there: `DatsRunner`
decides when a command begins and treats how it ends as a choice, which `Execution`
resolves; `SshRemote` leaves order and slots to `DatsRunner` and treats approvals
as a relation, which `SshTrust` maintains; `Watch` takes a run as one step that
ends, which `RunEnds` of `DatsRunner` justifies. `Sandbox` decides in which of
`Execution`'s boundaries a command runs; `Snapshot` takes a file's instances when
`DatsRunner` is past setup and leaves their order open. `RunTest` opens the instance
that `DatsRunner` treats as one command with a verdict: it has the steps inside, on
the machines where they happen, and leaves slots, interrupts and teardown to
`DatsRunner`, approvals and the life of directories to `SshRemote`.

Definitions whose comment starts with "Defect:" are deliberately wrong variants of
the definition after them. No action refers to them; `PROJECT.json` "mutants"
names, for each property, the one it must detect.

### DatsRunner

`phase` is where `RunFiles` is (parse, run, print); `pc[f]`, `next[f]` and `hook[f]`
are the program counter of file `f`'s goroutine; `inst[c]` that of instance `c`'s;
`pool` is `len(slots)`. `AcquireForHook`, `StartHook`, `HookNotStarted`, `EndHook`
are the steps of `runHookCommand`; `SpawnInstance` takes the slot in the *file's*
goroutine, as the code does, and the four instance actions are the body of the
instance's goroutine with its two deferred calls in their order (slot first, wait
group second). `MayNotStart` are commands whose preparation may fail (fixtures, a missing
`stdin_file`); `MayHang` are tests without a timeout whose command may never exit.
`Interrupt` cancels the context that `dats watch` and library callers pass; `Kill` is
the death of the process, which is also what Ctrl-C does to `dats test` (it runs
under `context.Background`). `ran` is a history variable.

### Reports

`WriteJUnit`, `WriteJSON` and `runTests` are functions of what `RunFiles` returned, so
the module adds operators to `DatsRunner` and no variable. JUnit counts cases, its
failed hooks among them; JSON takes its totals from the counters and its tests from
the list: `ReportsAgree` compares the two with the exit status, for every
combination of requested and unwritable reports.

### Execution

One command in one of four boundaries. `exec` is the position in `execute` (before
`Start`, in `Wait`, process reaped, pipes being drained, returned); `canceller` is
os/exec's context watcher, which `Wait` hears from after it has reaped the process
and before it waits for the pipes; `killer` is the goroutine of `sandboxed.Kill`;
`forker` the locked OS thread of `startCommand`, whose end would raise the
parent-death signal in bwrap. `client` is the spawned process, `workload` what
remains of the command beside it. `FindGroup` and `SignalGroup` are the two halves of
`killProcessGroup`, between which the command may end and `Wait` reap it; where the
lookup comes after that, `Process.Kill` finds the process done. `ConnectionLost` and
`ClientRelaysKill` are the ends of an ssh or docker client that are not the command's
own. What os/exec, docker, ssh and the kernel do is
modelled from how `execute` uses it and marked external in the map.

### SshRemote

A *claimant* is a file (`<<f, 0>>`) or one of its instances; both walk through
`Resolve`, `Connect` (a `sync.Once` per host: `Dial`, `DialEnds`), `AllocBase`.
`LockScopes` to `PushShared`, `PushSharedFails` or `ScopeFails` is `altScope` under
`altMu`, which stays held while dialing. `CloseFile` is the file's deferred
`closeAltScopes` and `RemoveBase`. A directory is named by the host it is on and
the claimant it was made for. Every removal may leave what it was to remove
(`RemoveBases`: an error or the end of its time is discarded), and a claim that fails may
have made the directory already (`ClaimFails`: ssh breaks off after the remote mktemp).
`abandoned` is the history of both, so that `NoBaseForgotten` speaks of all the others.

### SshTrust

An actor is an operation under way: a run's approval, `dats trust add`, or
`remove`. `Load` copies `disk` into `store`; the decision, the prompt and the
change work on the copy; `Save` replaces the file by a rename. `Key` is
`normalizePath`: several spellings lead to one file. `Overlap` says whether
operations may be under way together. `recorded` and `consented` are history variables:
what was reported as approved and not withdrawn since, and what was ever approved. In
`TrustStore` the list changes by the pair of a request and as that request says; `Asked`
is the refinement mapping from an operation to the request it stands for.

### Watch

A path is abstracted to the directory it is in and to its kind (suite, golden,
directory). `Resolve`, `RebuildWatches`, `AddWatch` (one place at a time),
`SwapWatcher`, `RunTests`, `RunEnds` are `cycle`; `Forward` is the pump, with
`relevantChange` as `Relevant`; `Receive`, `DebounceOver`, `Stop` are `watchLoop`.
`RebuildFails` is a watcher that cannot be made, `AddFails` a place whose `watcher.Add`
fails, an error the code drops. `around` is what may happen around a watch: a bound on the
changes, whether suites are saved again without it (`SaveAgain`), and which of those two
calls may fail.
`unnoticed` is a history variable: inputs in scope that changed since the loop
last looked at the disk.

### Sandbox

`pc[f]` is where file `f`'s `runFile` is between opening its directories and its
commands. `AskBackend` enters `once.Do`; `ProbeFails` and `ProbeSucceeds` are one
turn of its loop each, while other files wait (they have no step until `once` is
done). `RefusePair`, `PlanRemote`, `PlanHost`, `BackendError` and `PlanSandboxed`
are the returns of `newSandboxPlan`. `AnnounceWithNotice` and `AnnounceOnly` are
`PrintSandbox` with `TakeProcNotice`; that a file whose commands run elsewhere reads
the memo without the once is a choice between seeing it and not. `latest` is a
history variable. A machine is the set of what works on it.

### Snapshot and Matrix

One suite and its golden directory over any series of runs, some of them killed.
Between runs the suite may be edited, a golden deleted and the program changed (edits
during a run are `Watch`'s). `MatrixValueText` spells a number the way strconv does, as
the decoder, and `written` keeps what the author wrote beside it. `NormalizeSnapshotText`
replaces the directories it is given (`Bases`): the file's own here, and under ssh the
one on the file's target. A test that ran on another host is `SshRemote`'s. `ExpandOne` makes one
instance: `indices` is the odometer, `heap` holds the texts that tests and their
copies refer to, so that sharing would show. `RunInstance` is the function `RunTest` up to
`applySnapshot`, whose streams `Compare`, `KeepGolden`, `WriteGolden` and
`WriteFails` then take one by one, interleaved with other instances. `Prune` is
`pruneStaleGoldens`, `Return` what a run forgets, and `blessed` a history variable:
an update run ended green and nothing was changed since. A golden's name is the
instance number, the slug (cut before the label for `Truncated` descs) and the
stream. A suite that does not parse (`ValidMatrix`, `ValidRefs`) starts no run.

### Suite, Assertions, Fixtures and RunTest

`doc` is a document, of nodes as the YAML library hands them to the decoders;
`ParseFile` decodes it or `ParseFails` refuses it. `phase` is where `RunFiles` and
`runFile` are (parse, shared fixtures, their push, setup, tests), `at[i]` where the
goroutine of instance `i` is in `RunTest`: fixtures, `scopeFor`, push, start, command,
pull, checks. `ctx[i]` is its `TestContext`, `mirrored` the hosts with a scope. `disk`
has the files of all machines: below a file's temp directory every machine has the
same layout, so a path is a machine, the instance's number, a directory and a name. The
machine stands for the scope that `scopeFor` keys by the host a test names; under a typed
target such a scope is a second directory on that target.
Whatever a step of the code may fail at is an action of its own that takes one of
`MaxFaults`; a pull that fails leaves any part of its files behind.

Strings are atoms, and constants say what Go finds in them: which placeholders
(`Refs`), which integer (`Atoi`), which duration, which exact or rounded number, which
regexes do not compile. A line of output and a file are the sets of patterns found
in them, so that substrings and regexes are both membership. `RefsOf` of a file's
content, of the command line and of the environment are replaced where and when the
code replaces them: a content at fixture time, with paths of this machine; a command
line at its start, with paths of the machine it runs on. Whatever is written to a disk
goes `Over` what was there.

A JSON document is a function from the places in it to what stands there, so that the
recursive descent of `compareJSON` is a set of places: those both documents have, below
objects and arrays that are of one type in both (`Compared`). `DifferencesAt` is what it
reports at one of them. What is expected goes through `CanonicalizeJSON` first:
`Marshalled` says how a number that YAML reads as a float64 is written as JSON.

`WellFormed` and `ConstantsAssumption` say what kind of thing a document, a decoded
number and the files of a command are. They restrict the names of the model, not the
program: a command's text names its test, so two tests that run the same command are two
names with the same placeholders and endings; a placeholder is not a path; setup
generates files in `shared/` and not outside it.

What a document *means* is defined a second time, at the end of `RunTest`, not by way
of the decoders and of the copies on this machine but of the document as written
and of the disk where the command ran: `VerdictIsTheTruth` compares the two.

## 3. Runs

| Run | Configuration | Shows |
|---|---|---|
| `runner` | 2 files (2+3+2 commands, and one test without hooks), 2 slots; a test and a teardown command that may not start, a test that may hang, an interrupt and a kill anywhere | pool accounting, `-j`, both barriers, workspace lifetime, the window of declaration order, complete green runs, counting, agreement of the reports, `ContractSpec`; teardown always runs, no goroutines wait for one another, an interrupt ends the run |
| `run_test` | a suite for "alpha" with overrides to "beta", the same without targets, one whose shared files cannot be copied, 25 the parser must refuse; with and without a typed target; two faults | commands find the fixtures they were promised, at paths of their own; a test passes exactly if what its document asserts holds where the command ran |
| `execution` | all four boundaries, failing kills | honest outcomes, kills only on purpose, `execute` returns, a timeout holds |
| `execution_container` | container, kill succeeds if it runs | violation, finding 3 |
| `ssh_remote` | a file on one host with one test at home and two on another host, which is home to a second file; claims and removals that fail | no directory forgotten, all alive while used, one scope per target, consent, masters stopped, the run closes |
| `ssh_remote_goldens` | the same | violation, finding 4 |
| `ssh_trust` | 2 files, 3 spellings, 2 hosts, one operation at a time | the list is the set of pairs its users approved (`StoreSpec`), and no run goes where nobody ever approved its file |
| `ssh_trust_overlap` | as `ssh_trust`, two at a time | violation, finding 2 |
| `watch` | one subdirectory, channel of 1; in one of three environments: 2 changes, where a watcher may not be made; a place that may not be added; suites saved without end | no lost wakeup, watched changes are noticed, the watch settles; an interrupt ends it, also while it is never at rest |
| `watch_new_dirs` | 2 changes, nothing fails | violation, finding 1 |
| `sandbox` | a remote file between two local ones, and a file the parser refuses; all 64 machines, all flags | boundaries, and the notice of a weaker sandbox |
| `snapshot` | 6 suites, 2 versions of the program, 2 edits, runs here and there | expansion, exactness of goldens after an update, goldens kept by failing runs |

**Why the bounds are enough.** In `runner` the first file has more tests than
there are slots, so its instances queue and the third starts only when an earlier
one ended; the second file takes slots from it at every point; two setup and two
teardown commands have a first and a last; one hanging test leaves the other slot to
everybody else, and the second teardown command must survive that the first one could
not start. That a file is
strictly sequential at `-j1`, a clause of `SuiteContract`, is in no run (`runner` has two
slots) and rests on its proof for any number of them. A third file or slot adds no new
conflict: every property speaks of one file, or of the pool. The theorems of section 5 say of the
safety properties of all runs that no size of the constants matters. In `run_test` four
instances have inputs of the same name, at home, on the override and as two copies of
one test, in every interleaving; their endings are good ones and one deviation for
each kind of assertion and of output file (a directory, a loop, a symlink, a second
name); a pull that broke off and one more fault are every pair of failures of two
instances, and of one. In `ssh_remote` two tests race for one scope, a second
file shares the host by its own approval, and every claim can fail. In `watch` the
channel is full with one event, so drops happen; two changes suffice for "the directory
appears, then the suite in it". Of the environment that saves suites without end only
`NoLostWakeup` and `InterruptEndsWatch` speak: the debounce may be restarted for ever
there, and nothing settles. In `ssh_trust` two actors are every overlap of two operations; three spellings
of two files tell `Key` from identity. In `sandbox` each pair of a local file with a
local and with a remote one occurs, and either local file may be the one that probes
while the other waits; the flags include every contradictory pair. In `snapshot` the suites are two
instances that share a truncated slug, the same with a test before it (so every
name shifts), a test with both streams, two variables one of whose values looks
like a placeholder, and two that do not parse; two edits are "change and change
back", or one change of two things.
`CHECK_DEADLOCK FALSE` is used where the program stops: `Watch` after an interrupt,
`Execution` after dats has exited, `Sandbox` when the files are refused or the run is
over, `Snapshot` when a suite that does not parse is left and no edit remains.

**Fairness.** Weak fairness of a file's, an instance's or the run's next step is the
Go scheduler's promise, and that of Go's channels: a goroutine that waits for a slot
while others take and return it is served in the order of arrival, and in the
bounded runs weak fairness already suffices since every other claimant runs out of
commands. Both `select`s of `watchLoop` choose at random among the cases that are
ready, so that a done context is not passed over for ever by an endless stream of
events: that is the strong fairness of `Stop`, which is not ready during a run. A
command is assumed to end when it has a timeout or exits by itself, or once
its context is cancelled (`MustEnd`, from `exec.go:44-50`); `MayHang` names those
of which nothing else is assumed, and `Execution`'s `TimeoutHolds` is the reason
the assumption may be made: it needs only that timers fire and goroutines run, not
that the command cooperates (nothing is assumed of `ClientExits`,
`WorkloadEnds` or of the forker). Dialing, pushing and pulling are bounded by ssh's
own timeouts and the context. Users, interrupts, kills and lost connections have
no fairness: they may never happen.

## 4. Findings

Four runs state what the documentation says and are violated by what the code does.

1. `watch_new_dirs` — a subdirectory created between the walk
   (`computeWatchDirs`) and `watcher.Add` of its parent is in no watch list, and
   suites created in it later go unnoticed until something else triggers a cycle;
   `docs/cli.md:297` says new subdirectories join the scope.
2. `ssh_trust_overlap` — two approvals under way at once (two files of one run, or
   two processes): the second `save` overwrites the first.
3. `execution_container` — `go sandboxed.Kill()` is awaited by nobody and runs once:
   a container created after it, or when dats exits first, survives its command;
   `docs/cli.md:142` says it is killed with it.
4. `ssh_remote_goldens` — output of a test that overrides its host is normalized with
   the home host's directory, so its golden keeps a random remote path;
   `docs/cli.md:196` says remote paths normalize to the same tokens.

Other disagreements were met that no run states:

* The explanation of a shared /proc appears under the header of whichever file asked
  first (`sandbox.go:116`), so the output depends on scheduling, which
  `docs/cli.md:238` excludes; `sandbox` shows only that it appears once.
* Placeholders in the contents of `inputs.files` and `shared.files` are replaced before
  the base on the target is known (`runner.go:364`), so under ssh they become paths of
  this machine, while `docs/file-format.md:432` calls it the same expansion as the
  command's. `FixturesReachTheCommand` claims contents for local commands only.
* Slots are taken in declaration order, but each instance builds its fixtures and starts
  its command in a goroutine of its own (`runner.go:196`), so that a later test may begin
  first, although `docs/cli.md:233` says "At a higher `-j`, start order is still
  declaration order". `DeclarationOrderWindow` is what does hold, and `SuiteContract`
  asks for the order at `-j1` only.
* A connection lost in mid-command is exit code 255 of the command (`ConnectionLost` in
  `Execution`): `docs/cli.md:216` promises an error for a *recognized* transport failure,
  and none is recognized there. A docker client whose container was killed at the deadline
  before the signal reached the client exits 137 by itself (`ClientRelaysKill`), and the
  test is judged by that, although `docs/file-format.md:501` says it fails with the
  timeout's message only. `OutcomeIsHonest` leaves both ends out.
* A command that died of a signal of its own just before the deadline, and was reaped,
  has no group that `killProcessGroup` could look up (`FindGroup`): it is reported as
  timed out and its background children live on, although `docs/file-format.md:501` says
  they are killed with it.
* `extractTar` (`ssh_transport.go:289`) passes over hard links and special files without
  an error, so that a declared output of that kind is missing here, and a symlink to an
  absolute path comes home pointing at a path of the other machine, although
  `docs/cli.md:196` says outputs come home before assertions run. `LostOnTheWay` names
  both in `VerdictIsTheTruth`.
* `matrixValueText` spells a float anew, so that `1.50` becomes `1.5`;
  `docs/file-format.md:320` says it stays `1.50`, while line 27 of the same file says what
  the code does. `Snapshot` does what the code does.
* Files that setup generates in `shared/` exist on the home target only; an override's
  mirror has what was pushed (`docs/file-format.md:167` speaks of a mirror of
  `shared/`, and of unprepared hosts). `FixturesReachTheCommand` promises generated
  files at home only.
* `docs/cli.md:321` says report files are rewritten after every run of a watch; a run
  that ends in an error writes none (`cmd/test.go:112`), as `docs/cli.md:253` says.
* Numbers whose exponent `big.Rat` refuses are compared as float64
  (`jsonoutput.go:152`), so two different tiny numbers may be equal; an expected number
  that YAML reads as a float64 is compared as that float64, so more digits than it holds
  are lost (`jsonoutput.go:54`; `NumbersInexact` in `VerdictIsTheTruth`); and a timeout in
  seconds too large for a `time.Duration` wraps around (`types.go:268`).

## 5. Proofs

Every safety invariant that a passing run checks is proved for all values of the
constants; so are the action properties and both refinements. The only assumptions are
the modules' `ConstantsAssumption`, which say what kind of thing a constant is (a suite is
a non-empty sequence of tests, a capacity a natural number), and, for `SshTrust`, `~Overlap` as a named hypothesis. `PROJECT.json` "theorems" names
them; here is along which argument they are proved.

**`DatsRunner`**, for any number of files, hooks, tests and slots. `TypeOK` is not
inductive: that `Release` keeps the pool from going below zero needs that somebody holds
the token it takes back, which is `SlotsAccountedFor`; that, in turn, needs that a hook
holding a slot is a command of its own (`HookInv`: distinct holders are distinct
elements) and that an instance about to be spawned is not a holder already
(`InstanceInv`). The barriers need `SetupInv` (the hooks before `next` have run; past
setup, all of them) and `TeardownInv` (at teardown no instance was left out). `IInv` is
their conjunction, and gives `TypeCorrect`, `SlotsAreAccountedFor`, `AtMostJobsExecute`
(`Executing \subseteq Holding`), `SetupComesFirst` and `TeardownComesLast`.
Three counting lemmas (nothing changes, one holder joins, one leaves) carry the
cardinalities for every action. `RInv` is about what is reported: `TempInv` (the
directory is there as long as a command may be), `VerdictInv`, `WindowInv` (instances
are started in declaration order; when one takes its slot, every earlier one that has
not given its own back holds another, so fewer than `Jobs` of them are left, and from
then on that window only shrinks), `ResultInv` (what `runFile` counted so far is what its hooks and
instances did) and `RunInv` (what `RunFiles` has collected). From it follow
`WorkspaceOutlivesCommands`, `DeclarationOrderKept`, `ResultsAreComplete` and
`GreenMeansComplete`. For the refinement `LoopInv` says which hooks and instances have
been started at each position; `Implementation` then maps every step to a step of
`SuiteContract` or a stutter, with one lemma for hooks, one for instances and one for
the file itself. `ReportsAreConsistent` sums over files: the counters of one file
match its cases (`HookCasesCounted`, `CountersMatchResults`), and sums of equal summands
are equal.

**`Execution`**, for any boundaries and whether or not remote kills fail: `ControlInv`
(once `Wait` has drained, the watcher is over, so no kill can come after the
classification) and `ResultInv` (what `Return` stored still describes the state) give
`TypeCorrect`, `OutcomesAreHonest` and `KillsAreMeant`.

**`SshTrust`**, for any paths, spellings, hosts and actors. While operations do not
overlap at most one is under way (`Alone`) and its copy is the list, or differs from
it by its own pair (`FreshInv`). Hence `Implementation` (`StoreSpec`): the list changes
by the pair of the request under way, as it asked, and a run is let through where its own
pair is on the list; and `ApprovalsLast`, the very statement that `ssh_trust_overlap`
violates: not overlapping is all that is missing. `NoRunWithoutConsent` has no such
hypothesis: whatever operations overwrite of one another, the list and every copy of
it hold only pairs that somebody approved. (The run `ssh_trust` checks that where they
do not overlap.)

**`SshRemote`**, for any files, tests, hosts and overrides. The parts of `IInv` say
what a claimant's place implies: an instance is under way only in an open file
(`PlaceInv`); past the dial the claimant is granted, its host known and the connection
up (`ClaimInv`); one goroutine dials a host (`DialInv`); the builder of a scope holds
`altMu` and finds none (`LockInv`); a usable connection has its master (`MasterInv`);
every directory belongs to an open file, to a scope, to the instance still filling it,
or to what was abandoned (`BaseInv`), every scope to an instance of its file (`ScopeInv`), and an instance ran
in the scope its file remembers (`UsedInv`). None is inductive without the others.
They give `TypeCorrect`, `NothingIsForgotten`, `CommandsRunInALiveBase`,
`ScopesAreShared`, `GrantsComeFirst` and `NoMasterOutlivesTheRun`. `HomeOutputIsNormalized`
(from `UsedInv` and `ScopeInv`) delimits finding 4: the directory snapshots normalize
is the one a test ran in exactly when the test is on the home of its file.

**`Watch`**, for any directories, channel capacity and number of changes. `NoLostWakeup`
speaks of the idle loop; `WakeupInv` says the same from the moment a cycle has looked at
its inputs. What carries it is that a drop finds the channel full, and a full
channel is itself a wakeup to come. `TypeCorrect`, `WakeupsAreKept`.

**`Sandbox`**, for any corpora, machines and flags. `OnceInv` says that one file
probes at a time, what the candidates already dropped imply, and that the memo is the
first backend that confines (or the one typed); `PlanInv` that every plan is the one
that target, flags and memo ask for; `NoticeInv` and `OutputInv` follow the notice from
the once to the header of one file to the output. `TypeCorrect`, `CommandsStay`,
`SharedProcExplained`.

**`Snapshot` and `Matrix`**, for any suites and any series of runs. The odometer comes
first: `Total` is the number of index vectors (`TotalCountsVectors`), and `Tick` goes
to the next one in the order of nested loops, or back to the first when all have been
seen (`TickIsNext`). `OdometerInv` then says that the instances made of a test are
those of the vectors before the one shown, or all of them; `OrderInv` that they are in
order; `HeapInv` that the texts on the heap are the tests' own and each instance's own.
`ExpansionIsTheProduct` follows. `LooksInv` (only a clean instance looks at goldens
under `--update`) gives `FailuresDoNotTouchGoldens`. `GreenUpdatesAreExact` has to speak
of later runs, whose instances do not exist yet when the update ends: `CompleteList`
describes what an expansion makes of the suite, `CompleteListUnique` shows there is only
one such list, so `BlessedInv` (the goldens are those of a complete list) lets every
later instance find what it would write (`BlessedRun`), and a later prune nothing to
remove. `UpdateInv` carries a green update there: a clean instance has the goldens
of every stream it is done with. That there is one file per combination and stream is a
bijection for each test, and a sum over the tests.

**`RunTest`, `Suite`, `Assertions` and `Fixtures`**, for any documents, targets, contents,
endings and number of faults. Neither property is inductive: a command finds its
inputs because of what three earlier steps wrote on two machines, and a verdict has to
stay true while the siblings go on writing. `SharedInv` says what every machine that has a `shared/` holds,
setup's files at home included; `PlacesInv` where the inputs of an instance are at
each position, and that nobody has outputs before its command ended; `RanInv` that
what the command left is on its machine as it left it; `CopiesInv` that what came home
is a copy of it, if the stream held; `VerdictInv` is the property itself, in the part
about instances that are done. A step of one instance changes paths of its own directory
only, and the `shared/` of a host that had none (`DiskStays`), so that all its siblings
keep their parts (`SiblingsKeep`); the delicate case is an output that is a symlink, whose
target must not change either (`OutputsStay`). Push, pull and the writing of fixtures are
one lemma each about any disk (`MovedOver`, `WrittenOver`). `FixturesReach` follows from the
invariant: `FixturesAreThere` goes through the three name spaces a placeholder may have.
`VerdictsAreTrue` rests on what each assertion means: for exit codes, streams by pattern and by line, files
and their opposites the decoded check reports nothing exactly if the document, read by
the reference semantics, holds (`ExitCodesMean`, `StreamsMean`, `FilesMean`,
`OppositeFilesMean`), `TestsOfDocument` leads from an instance back to the test it is
of, and `ComparisonIsEquality` shows that the comparison of JSON is equality of values: if two
documents differ, then also at a place where both are still compared, the outermost one
(`NoDifference`). Where no number is inexact, `CanonicalizeJSON` keeps the value of what
is expected (`CanonicalIsTheSame`). `SeenHere` closes the gap between the machine of the command and the
copies here.

Facts by induction on data are proved as smallest counterexamples: `NatLeast`
in `Snapshot_proofs`, `SubsetInduction` there and in `DatsRunner_proofs`, `LeastNat` in
`RunTest_proofs` take a set of bad cases and refute its least element, since the
library's induction theorems have an operator as a parameter, which the installed
provers cannot instantiate. The folds of the community modules are
reached the same way: the defining equation has one solution (`SumUnique`,
`ProductUnique`), and a cardinality is one.

The proofs led to corrections of the models. Guards of a `CASE` that overlap leave the choice
open, and TLC takes the first: `Sandbox` and `RunTest` say which one with `IF`. `UNION S
\cup T` is read differently by TLC and by TLAPS: it has parentheses wherever it occurs.
The recursive comparison of JSON documents could not be reasoned about (TLAPS loses its
arithmetic backend in a module that declares a recursive operator) and is a set of places
now. A count of goldens in `BlessedIsExact` is stated by the places they are at.
The assumption on `Suites` of `Snapshot` was too weak to reason from: it now has the
types of the decoded tests and, from "no tests defined" in `ParseFile`, that a suite has
one. Every inductive invariant was checked by TLC before it was proved.

Only model-checked:

* every liveness property (`TeardownAlwaysRuns`, `RunEnds`, `InterruptEndsRun`,
  `WatchedChangesNoticed`, `Settles`, `InterruptEndsWatch`, and those of `Execution` and
  `SshRemote`): `ENABLED` and fairness are outside what the provers here do.

The statements of the four violated runs are refuted by TLC; `ApprovalsLast` proves one of
them where operations do not overlap, `HomeOutputIsNormalized` another for the tests that
do not override their host.

The type invariants of `SshTrust`, `Sandbox` and `Snapshot` are proved and checked by no
run, since the deeper properties of those runs fail with them.

## 6. Not modelled

* **The YAML library**, and with it everything a document can get wrong before a
  decoder of dats sees it.
* **Sandbox argument vectors and the SBPL profile, shell quoting, control paths and
  options of ssh, the text of reports and messages, help and flags**: formatting of
  decided values.
* **Spellings of one path.** Names of fixtures are atoms: that "a" and "./a" are one
  file although two keys (the code compares names as written) and the
  conversions of `hostpath.go` are left out, and so are file modes.
* **Windows variants** of execution (`runner/exec_windows.go`): no signals there.
* **Durations.** A deadline, the debounce and the polling of an ssh master are steps
  that may happen, not amounts of time. A declared timeout is a number, of which only
  its bounds and whether it is zero matter.
* **Hidden, chmod-only and unrelated events** of the watch, which are ignored
  whatever the state, an overflow of the kernel's event queue, behind which every
  watch property fails, and the root of the tree being deleted and made again.
* **Whose answer a prompt reads** when two files ask at once (`cmd/trust.go:119`): in
  `SshTrust` an answer is a free choice.
* **An ssh master that dies during the run, and a remote half that outlives its ssh
  client**, in `SshRemote`: there an instance is over when its client is, and `KillRemote`,
  which nobody awaits, is `Execution`'s (`ConnectionLost`, `KillWorkload`). So
  `RunsInALiveBase` says nothing of processes that a lost connection or a late kill left
  on a host; `execution_container` shows the same for a container.
* **Directories on an override's host**, in `Snapshot`: see finding 4.
* **The documentation lookup, `Validate`, the `syntax`, `update`, `version` and `docs`
  commands**: they read and print.

Hazards without a property are listed with their reason in `PROJECT.json`.

## 7. Plan

The order follows how much of the system depends on a part.

1. Done: all the modules of section 2, and the theorems of section 5.
2. Composition: `Execution` as the refinement of one command of `DatsRunner` between its
   `StartHook` or `StartInstance` and its end; what is in between is one step there.
3. `Watch` with inode identity of watched directories (a root deleted and made
   again), and typed targets (`--ssh`) in `SshRemote` as `RunTest` has them.
