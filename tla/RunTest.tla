------------------------------- MODULE RunTest -------------------------------
(***************************************************************************)
(* One file from its document to the verdicts of its tests: ParseFile, the *)
(* shared fixtures and setup of runFile, scopeFor and the body of RunTest, *)
(* over the disks of the machines involved.  The file's home is the        *)
(* machine dats runs on, the target it names or one typed with --ssh, and  *)
(* a test may name another.  The instances run concurrently; when each     *)
(* gets its slot, and what interrupts and teardown do, is DatsRunner's,    *)
(* approvals, connections and the life of the remote directories are       *)
(* SshRemote's, kills are Execution's.                                     *)
(***************************************************************************)
EXTENDS Fixtures

CONSTANTS
  Documents,  (* what the .dats file may say                                *)
  Typed,      (* what may be typed with --ssh, "" for nothing               *)
  Generated,  (* files the setup commands write into shared/                *)
  Endings,    (* Endings[cmd]: what a test's command may do                 *)
  MaxFaults   (* bound: I/O errors, lost connections, failed starts         *)

\* What a document of the YAML library is, as far as the rules of ParseFile leave
\* it open.  A command is the name of one test: two tests that run the same command
\* are two names with the same placeholders and endings.  A target is another machine.
WellFormed(document) ==
  /\ document.shared = <<>> \/ document.shared = <<Head(document.shared)>>
  /\ Len(document.tests) \in Nat /\ DOMAIN document.tests = 1 .. Len(document.tests)
  /\ \A s, t \in DOMAIN document.tests : document.tests[s].cmd = document.tests[t].cmd => s = t
  /\ \A test \in ToSet(document.tests) :
       /\ DOMAIN test = {"cmd", "inputs", "ssh", "exit", "timeout", "snapshot", "stdout", "notStdout",
                         "stderr", "notStderr", "json", "files", "notFiles"}
       /\ DOMAIN test.inputs = {"files", "copy", "env"}
       /\ test.cmd \in DOMAIN Endings
       /\ TargetName(test.ssh) # Here
       /\ test.json[1] = "value" => IsJSON(test.json[2])
       /\ \A n \in DOMAIN test.files : test.files[n].exists \in {"unset", "true", "false"}
       /\ \A n \in DOMAIN test.notFiles : test.notFiles[n].exists \in {"unset", "true", "false"}

ASSUME ConstantsAssumption ==
  /\ \A s \in DOMAIN Atoi : Atoi[s] \in Int /\ s \notin ExitCodeNames
  /\ "0" \in DOMAIN Atoi /\ Atoi["0"] = 0
  /\ "0" \in DOMAIN Durations => Durations["0"] = 0
  /\ \A s \in DOMAIN Refs : Refs[s] \subseteq References
  /\ \A s \in DOMAIN Filled : Len(Filled[s]) \in Nat /\ DOMAIN Filled[s] = 1 .. Len(Filled[s])
  /\ \A s \in DOMAIN Source : IsContent(Source[s])
  /\ Generated \cap Escaping = {}
  /\ \A document \in Documents : Valid(document) => WellFormed(document)
  /\ \A cmd \in DOMAIN Endings : \A e \in Endings[cmd] :
       /\ \A lines \in {e.stdout, e.stderr} : Len(lines) \in Nat /\ DOMAIN lines = 1 .. Len(lines)
       /\ e.json[1] = "value" => IsJSON(e.json[2])
       /\ \A n \in DOMAIN e.files : IsContent(e.files[n])

VARIABLES
  doc,       (* the file                                                    *)
  typed,     (* --ssh                                                       *)
  phase,     (* where RunFiles and runFile are                              *)
  tests,     (* the instances of the file's tests, decoded                  *)
  home,      (* r.ssh: Here when there is none                              *)
  disk,      (* what exists on all machines                                 *)
  mirrored,  (* r.altScopes                                                 *)
  at,        (* where each instance's goroutine is in RunTest               *)
  ctx,       (* its TestContext                                             *)
  args,      (* the placeholders of its command, replaced                   *)
  ending,    (* what its command did: the ExecResult                        *)
  failures,  (* TestResult.Failures                                         *)
  faults     (* faults so far                                               *)

given == <<doc, typed>>
fileVars == <<phase, tests, home>>
instVars == <<at, ctx, args, ending, failures>>
vars == <<given, fileVars, disk, mirrored, instVars, faults>>

Ids == DOMAIN tests

\* Declared under files, or under both files and !files.
OutputNames(test) == DOMAIN test.files \cup DOMAIN test.notFiles

NoContext == [index |-> 0, base |-> Here, inputs |-> {}]
NoEnding  == [timedOut |-> FALSE]

Init ==
  /\ doc \in Documents
  /\ typed \in Typed
  /\ phase = "parse"
  /\ tests = <<>>
  /\ home = Here
  /\ disk = <<>>
  /\ mirrored = {}
  /\ at = <<>> /\ ctx = <<>> /\ args = <<>> /\ ending = <<>> /\ failures = <<>>
  /\ faults = 0

Fault == faults < MaxFaults /\ faults' = faults + 1

(***************************************************************************)
(* ParseFile, and runFile up to the instances: the ssh target, shared      *)
(* fixtures and their push to the target, setup.                           *)
(***************************************************************************)
ParseFile ==
  /\ phase = "parse"
  /\ Valid(doc)
  /\ phase' = "shared"
  /\ LET instances == Tests(doc) IN
       /\ tests' = instances
       /\ at' = [i \in DOMAIN instances |-> "idle"]
       /\ ctx' = [i \in DOMAIN instances |-> NoContext]
       /\ args' = [i \in DOMAIN instances |-> <<>>]
       /\ ending' = [i \in DOMAIN instances |-> NoEnding]
       /\ failures' = [i \in DOMAIN instances |-> {}]
  /\ home' = CASE typed # "" -> typed
               [] typed = "" /\ doc.ssh = Omitted -> Here
               [] OTHER -> TargetName(doc.ssh)
  /\ UNCHANGED <<given, disk, mirrored, faults>>

\* The run ends before it began.
ParseFails ==
  /\ phase = "parse"
  /\ ~Valid(doc)
  /\ phase' = "refused"
  /\ UNCHANGED <<given, tests, home, disk, mirrored, instVars, faults>>

Shared == IF doc.shared = <<>> THEN [files |-> <<>>, copy |-> <<>>] ELSE Head(doc.shared)

WriteShared ==
  /\ phase = "shared"
  /\ ~Refused(Shared.files, Shared.copy, {})
  /\ ~CopyFails(Shared.copy)
  /\ disk' = SetupSharedFixtures(disk, Shared)
  /\ phase' = IF home = Here THEN "setup" ELSE "push"
  /\ UNCHANGED <<given, tests, home, mirrored, faults, instVars>>

PushShared ==
  /\ phase = "push"
  /\ disk' = Push(disk, SharedDir, home)
  /\ phase' = "setup"
  /\ UNCHANGED <<given, tests, home, mirrored, faults, instVars>>

\* The setup commands write into shared/ where they run: on the home host.
FromSetup == IF Hooks(doc.setup) = <<>> THEN {} ELSE Generated

RunSetup ==
  /\ phase = "setup"
  /\ disk' = Over([p \in {At(home, SharedDir, "shared", n) : n \in FromSetup} |-> File({p.name}, {})], disk)
  /\ phase' = "tests"
  /\ UNCHANGED <<given, tests, home, mirrored, faults, instVars>>

\* Any of the three fails: no instance runs, each is reported as failed.
SetupFails ==
  /\ phase \in {"shared", "push", "setup"}
  /\ IF phase = "shared" /\ (Refused(Shared.files, Shared.copy, {}) \/ CopyFails(Shared.copy))
       THEN UNCHANGED faults ELSE Fault
  /\ phase' = "failed"
  /\ failures' = [i \in Ids |-> {<<"file setup failed">>}]
  /\ at' = [i \in Ids |-> "done"]
  /\ UNCHANGED <<given, tests, home, disk, mirrored, ctx, args, ending>>

(***************************************************************************)
(* RunTest, by the instance's goroutine.                                   *)
(***************************************************************************)
Goes(i, place)  == at' = [at EXCEPT ![i] = place]
Fails(i, what)  == failures' = [failures EXCEPT ![i] = @ \cup {<<what>>}]
FileUnchanged   == UNCHANGED <<given, fileVars>>

BuildFixtures(i) ==
  /\ phase = "tests" /\ at[i] = "idle"
  /\ LET test == tests[i] IN
       /\ ~Refused(test.inputs.files, test.inputs.copy, OutputNames(test))
       /\ ~CopyFails(test.inputs.copy)
       /\ disk' = SetupFixtures(disk, i, test)
       /\ ctx' = [ctx EXCEPT ![i] = NewContext(i, test)]
  /\ Goes(i, "scope")
  /\ FileUnchanged
  /\ UNCHANGED <<mirrored, args, ending, failures, faults>>

FixturesFail(i) ==
  /\ phase = "tests" /\ at[i] = "idle"
  /\ LET test == tests[i] IN
       IF Refused(test.inputs.files, test.inputs.copy, OutputNames(test)) \/ CopyFails(test.inputs.copy)
         THEN UNCHANGED faults ELSE Fault
  /\ Fails(i, "fixture setup")
  /\ Goes(i, "done")
  /\ FileUnchanged
  /\ UNCHANGED <<disk, mirrored, ctx, args, ending>>

\* scopeFor: overrides count only where the file has a target itself.
\* Scopes are keyed by the host the test names, also when a typed target makes
\* Resolve open them on another: a second directory on that one.
Host(i) == IF home = Here \/ tests[i].ssh \in {"", home} THEN home ELSE tests[i].ssh

\* The scope of an override gets a mirror of shared/ as it is here.
FindScope(i) ==
  /\ at[i] = "scope"
  /\ IF Host(i) \in mirrored \cup {home}
       THEN UNCHANGED <<disk, mirrored>>
       ELSE /\ disk' = Push(disk, SharedDir, Host(i))
            /\ mirrored' = mirrored \cup {Host(i)}
  /\ ctx' = [ctx EXCEPT ![i].base = Host(i)]
  /\ Goes(i, IF Host(i) = Here THEN "start" ELSE "push")
  /\ FileUnchanged
  /\ UNCHANGED <<args, ending, failures, faults>>

\* An unreachable host; nothing is remembered of it.
ScopeFails(i) ==
  /\ at[i] = "scope"
  /\ Host(i) \notin mirrored \cup {home}
  /\ Fault
  /\ Fails(i, "ssh")
  /\ Goes(i, "done")
  /\ FileUnchanged
  /\ UNCHANGED <<disk, mirrored, ctx, args, ending>>

PushFixtures(i) ==
  /\ at[i] = "push"
  /\ disk' = Push(disk, TestDir(i), ctx[i].base)
  /\ Goes(i, "start")
  /\ FileUnchanged
  /\ UNCHANGED <<mirrored, ctx, args, ending, failures, faults>>

PushFails(i) ==
  /\ at[i] = "push"
  /\ Fault
  /\ Fails(i, "ssh")
  /\ Goes(i, "done")
  /\ FileUnchanged
  /\ UNCHANGED <<disk, mirrored, ctx, args, ending>>

\* Of the command line and the environment.
Placeholders(i) == UNION {RefsOf(s) : s \in {tests[i].cmd} \cup ToSet(tests[i].inputs.env)}

Start(i) ==
  /\ at[i] = "start"
  /\ args' = [args EXCEPT ![i] = [r \in Placeholders(i) |-> Expand(r, ctx[i])]]
  /\ Goes(i, "running")
  /\ FileUnchanged
  /\ UNCHANGED <<disk, mirrored, ctx, ending, failures, faults>>

ExecutionFails(i) ==
  /\ at[i] = "start"
  /\ Fault
  /\ Fails(i, "execution")
  /\ Goes(i, "done")
  /\ FileUnchanged
  /\ UNCHANGED <<disk, mirrored, ctx, args, ending>>

Outputs(i, e) ==
  [p \in {At(ctx[i].base, TestDir(i), "outputs", n) : n \in DOMAIN e.files} |->
     [e.files[p.name] EXCEPT !.refs = {Expand(r, ctx[i]) : r \in @}]]
Patches(i, e) ==
  [p \in {At(ctx[i].base, TestDir(i), "inputs", n) : n \in e.patches} |-> File({"patched"}, {})]

\* The command wrote its outputs, with the paths it was given where it names a
\* file, and maybe over its own inputs; it ended or was killed by its timeout.
EndCommand(i) ==
  /\ at[i] = "running"
  /\ \E e \in Endings[tests[i].cmd] :
       /\ e.timedOut => tests[i].timeout > 0
       /\ ending' = [ending EXCEPT ![i] = e]
       /\ disk' = Over(Outputs(i, e), Over(Patches(i, e), disk))
  /\ Goes(i, IF ctx[i].base = Here THEN "check" ELSE "pull")
  /\ FileUnchanged
  /\ UNCHANGED <<mirrored, ctx, args, failures, faults>>

PullOutputs(i) ==
  /\ at[i] = "pull"
  /\ disk' = Pull(disk, Extracted(disk, ctx[i].base, TestDir(i)))
  /\ Goes(i, "check")
  /\ FileUnchanged
  /\ UNCHANGED <<mirrored, ctx, args, ending, failures, faults>>

\* The stream breaks off: what was unpacked stays, and the checks still run.
PullFails(i) ==
  /\ at[i] = "pull"
  /\ Fault
  /\ \E paths \in SUBSET Extracted(disk, ctx[i].base, TestDir(i)) : disk' = Pull(disk, paths)
  /\ Fails(i, "ssh")
  /\ Goes(i, "check")
  /\ FileUnchanged
  /\ UNCHANGED <<mirrored, ctx, args, ending>>

\* Everything a test asserts, of the copies on this machine.
Broken(i) ==
  LET test == tests[i]
      e == ending[i]
      file(n) == Stat(disk, At(Here, TestDir(i), "outputs", n))
  IN AssertExitCode(e.exit, test.exit)
     \cup CheckStream(e.stdout, test.stdout) \cup RefuteStream(e.stdout, test.notStdout)
     \cup CheckStream(e.stderr, test.stderr) \cup RefuteStream(e.stderr, test.notStderr)
     \cup (IF test.json = <<"unset">> THEN {} ELSE AssertJSONOutput(e.json, test.json))
     \cup (UNION {CheckFile(file(n), test.files[n], FALSE) : n \in DOMAIN test.files})
     \cup (UNION {CheckFile(file(n), test.notFiles[n], TRUE) : n \in DOMAIN test.notFiles})

\* After a timeout nothing is asserted.
Check(i) ==
  /\ at[i] = "check"
  /\ IF ending[i].timedOut
       THEN Fails(i, "timed out")
       ELSE failures' = [failures EXCEPT ![i] = @ \cup Broken(i)]
  /\ Goes(i, "done")
  /\ FileUnchanged
  /\ UNCHANGED <<disk, mirrored, ctx, args, ending, faults>>

Terminated == phase \in {"refused", "tests", "failed"} /\ (\A i \in Ids : at[i] = "done") /\ UNCHANGED vars

Instance(i) ==
  \/ BuildFixtures(i) \/ FixturesFail(i) \/ FindScope(i) \/ ScopeFails(i)
  \/ PushFixtures(i) \/ PushFails(i) \/ Start(i) \/ ExecutionFails(i)
  \/ EndCommand(i) \/ PullOutputs(i) \/ PullFails(i) \/ Check(i)

Next ==
  \/ ParseFile \/ ParseFails \/ WriteShared \/ PushShared \/ RunSetup \/ SetupFails
  \/ \E i \in Ids : Instance(i)
  \/ Terminated

Spec == Init /\ [][Next]_vars

-----------------------------------------------------------------------------
(***************************************************************************)
(* Properties.                                                             *)
(***************************************************************************)


\* The test of the document that instance i is of; no two have one command.
Declared(i) == CHOOSE test \in ToSet(doc.tests) : test.cmd = tests[i].cmd

\* What the suite says an input or a shared file of instance i holds; a copy
\* holds what its source does, and setup has the last word on the home host.
Promised(i, ref) ==
  LET holds(block) == IF ref.name \in DOMAIN block.files THEN {block.files[ref.name]}
                      ELSE SourceOf(block.copy[ref.name]).text
      has(block)   == ref.name \in DOMAIN block.files \cup DOMAIN block.copy
  IN IF ref.ns = "inputs" /\ has(tests[i].inputs) THEN holds(tests[i].inputs)
     ELSE IF ref.ns = "shared" /\ ref.name \in FromSetup /\ Host(i) = home THEN {ref.name}
     ELSE IF ref.ns = "shared" /\ has(Shared) THEN holds(Shared)
     ELSE {}

\* While a command runs, each placeholder of its command line and environment
\* that names a declared file is the path of a file where the command runs, with
\* the declared content, whatever its siblings write and wherever they run; and
\* so is every path in the content of an input, when it runs here (under ssh
\* contents keep the paths of this machine).  What setup left in shared/ is
\* there on the home host.  No placeholder leads out of the instance's own
\* directory and shared/.
FixturesReachTheCommand ==
  \A i \in Ids : at[i] = "running" =>
    \A r \in DOMAIN args[i] :
      LET p == args[i][r] IN
      /\ Promised(i, r) # {} =>
           /\ p \in DOMAIN disk
           /\ p.m = Host(i)
           /\ disk[p].text = Promised(i, r)
           /\ Host(i) = Here => \A q \in disk[p].refs : "m" \in DOMAIN q =>
                q.m = Here /\ q.dir \in {p.dir, SharedDir} /\ (q.area = "inputs" => q \in DOMAIN disk)
      /\ p = r \/ (p.m = Host(i) /\ \A j \in Ids \ {i} : at[j] = "running" =>
                     p.area = "shared" \/ \A s \in DOMAIN args[j] : args[j][s] # p)

\* Reference semantics of what a document asserts, from what it means and not by
\* way of the decoders: an exit code by number or name; every pattern of a list
\* somewhere in the stream and every pattern of a mapping in the line it is filed
\* under, as often as a line is named; a negated check of a file is the check of
\* the opposite, and files are looked at as the command left them; JSON documents
\* are equal as values.
CodeMeant(node) ==
  IF node = Omitted THEN 0
  ELSE IF node[1] = "int" THEN node[2]
  ELSE CASE node[2] = "EXIT_SUCCESS" -> 0
         [] node[2] = "EXIT_FAILURE" -> 1
         [] OTHER -> Atoi[node[2]]

\* What a stream must show: a pattern, and the lines, if any, it must be in.
Required(node) ==
  CASE node[1] = "seq" -> {<<{}, p[2]>> : p \in ToSet(node[2])}
    [] node[1] = "map" -> {<<{Atoi[pair[1]]}, pair[2][2]>> : pair \in ToSet(node[2])}
    [] OTHER -> {}

Shows(lines, what) ==
  \E n \in DOMAIN lines : (what[1] = {} \/ n - 1 \in what[1]) /\ what[2] \in lines[n]

StreamHolds(lines, check, notCheck) ==
  /\ \A what \in Required(check) : Shows(lines, what)
  /\ \A what \in Required(notCheck) : ~Shows(lines, what)
  /\ \A what \in Required(check) \cup Required(notCheck) : what[1] # {} => what[2] \notin BadRegexes

Opposite(check) ==
  [exists |-> IF IsEmpty(check) THEN "false"
              ELSE CASE check.exists = "true" -> "false" [] check.exists = "false" -> "true" [] OTHER -> "unset",
   match |-> check.notMatch, notMatch |-> check.match]

FileHolds(state, check) ==
  /\ check.exists = "true" \/ IsEmpty(check) => Exists(state)
  /\ check.exists = "false" => state.kind = "absent"
  /\ check.match # {} => Readable(state) /\ check.match \subseteq state.text \ BadRegexes
  /\ check.notMatch # {} =>
       state.kind = "absent" \/ (Readable(state) /\ check.notMatch \cap (state.text \cup BadRegexes) = {})

\* The value a JSON document denotes: lexemes become numbers.
Denotes(v) ==
  [p \in DOMAIN v |-> IF v[p][1] = "num" THEN <<"num", Exact[v[p][2]]>> ELSE v[p]]

JSONHolds(printed, expected) ==
  \/ expected = <<"unset">>
  \/ /\ printed[1] = "value" /\ expected[1] = "value"
     /\ Denotes(printed[2]) = Denotes(expected[2])

\* The state of output n where the command ran.
LeftBehind(i, n) == Stat(disk, At(Host(i), TestDir(i), "outputs", n))

AssertionsHold(i) ==
  LET test == Declared(i)  e == ending[i] IN
  /\ e.exit = CodeMeant(test.exit)
  /\ StreamHolds(e.stdout, test.stdout, test.notStdout)
  /\ StreamHolds(e.stderr, test.stderr, test.notStderr)
  /\ JSONHolds(e.json, test.json)
  /\ \A n \in DOMAIN test.files : FileHolds(LeftBehind(i, n), test.files[n])
  /\ \A n \in DOMAIN test.notFiles : FileHolds(LeftBehind(i, n), Opposite(test.notFiles[n]))

\* Outputs a tar stream does not bring home: hard links, and symlinks, which
\* come home with a path of the other machine in them.
LostOnTheWay(i) ==
  Host(i) # Here /\ \E n \in OutputNames(tests[i]) :
    n \in DOMAIN ending[i].files /\ ending[i].files[n].kind \in {"link", "symlink"}

\* A number was printed, or is expected, whose exponent is not compared exactly, or
\* the float64 YAML makes of an expected one is another number.
Numbers(json) ==
  IF json[1] = "value" THEN {json[2][p][2] : p \in {q \in DOMAIN json[2] : json[2][q][1] = "num"}} ELSE {}
NumbersInexact(i) ==
  \/ \E n \in Numbers(ending[i].json) : n \notin DOMAIN Exact
  \/ \E n \in Numbers(Declared(i).json) :
       {n, AsJSON(n)} \subseteq DOMAIN Exact => Exact[AsJSON(n)] # Exact[n]

StepFailures ==
  {<<"file setup failed">>, <<"fixture setup">>, <<"ssh">>, <<"execution">>, <<"timed out">>}

\* No bound, by omission or written as zero.
Unbounded(node) == node \in {Omitted, <<"int", 0>>, <<"str", "0">>}

\* The verdict is the truth about what the command did where it ran, although
\* it is reached from copies of the files on this machine and from what the
\* decoders kept of the document: a test passes exactly if all its steps worked
\* and everything the document asserts holds there, at whatever point of the
\* siblings' life it is checked; and it is a timeout only where the document
\* states one.  Only outputs the stream loses, and numbers the code does not hold
\* exactly, are beyond it.
VerdictIsTheTruth ==
  \A i \in Ids : at[i] = "done" =>
    /\ \/ failures[i] \cap StepFailures # {}
       \/ LostOnTheWay(i) \/ NumbersInexact(i)
       \/ (failures[i] = {}) = AssertionsHold(i)
    /\ <<"timed out">> \in failures[i] => ~Unbounded(Declared(i).timeout)
=============================================================================
