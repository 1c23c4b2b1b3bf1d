-------------------------------- MODULE Sandbox --------------------------------
(***************************************************************************)
(* Where the commands of a run execute: the backend that is probed for     *)
(* once per run (SandboxConfig, runner/sandbox.go), the plan each file     *)
(* makes from it, from its own sandbox and ssh keys and from what the      *)
(* operator typed, a test's move to another host, and the notice about a   *)
(* shared /proc in the buffered header of one file.                        *)
(*                                                                         *)
(* The order of commands and the slots are DatsRunner's, connections,      *)
(* approvals and directories SshRemote's: here a file may fail for any     *)
(* such reason.  What a backend then does with its arguments is the        *)
(* operating system's.                                                     *)
(***************************************************************************)
EXTENDS Integers, SequencesExt

CONSTANTS
  Corpora,      (* sequences of files [ssh, tests, network, image]: the     *)
                (* target or "", the targets of its tests, the sandbox keys *)
  Machines,     (* what works on a machine: subsets of Features             *)
  Typed         (* what the operator may type: [mode, ssh, image]           *)

Backends == <<"bwrap", "seatbelt", "docker">>
Modes    == {"none", "auto"} \cup ToSet(Backends)
Features == ToSet(Backends) \cup
            {"fresh procfs", "bound procfs", "only own processes"}
Names    == (UNION {{file.ssh, file.image} \cup file.tests :
                      file \in UNION {ToSet(c) : c \in Corpora}})
              \cup {t.ssh : t \in Typed} \cup {t.image : t \in Typed}

ASSUME ConstantsAssumption ==
  /\ \A c \in Corpora : c \in Seq([ssh : STRING, tests : SUBSET (STRING \ {""}),
                                   network : BOOLEAN, image : STRING])
  /\ Machines \subseteq SUBSET Features
  /\ Typed \subseteq [mode : Modes, ssh : STRING, image : STRING]

VARIABLES
  typed,        (* what the operator typed                                  *)
  machine,
  files,        (* the run's files, in canonical order                      *)
  phase,        (* where RunFiles is                                        *)
  pc,           (* pc[f]: where runFile is                                  *)
  once,         (* SandboxConfig.once                                       *)
  candidates,   (* what Backend has still to probe                          *)
  backend, proc,(* what it settled on; "" and "fresh" before, or on error   *)
  noticed,      (* SandboxConfig.noticeOnce                                 *)
  plan,         (* plan[f], Nil for a nil pointer                           *)
  header,       (* header[f]: what PrintSandbox buffered: "", the plan's    *)
                (* line, or that and the explanation                        *)
  output,       (* the headers the run printed                              *)
  latest        (* history: [file, target, boundary] of the command that    *)
                (* began last; target is a test's own, or ""                *)

run   == <<typed, machine, files>>
probe == <<once, candidates, backend, proc>>
vars  == <<run, phase, pc, probe, noticed, plan, header, output, latest>>

NoCommand == [file |-> 0, target |-> "", boundary |-> [kind |-> "none"]]

Nil == [ssh |-> "", backend |-> "none", proc |-> "fresh", network |-> TRUE, image |-> ""]

Init ==
  /\ typed \in Typed
  /\ machine \in Machines
  /\ files \in Corpora
  /\ phase = "parse"
  /\ pc = [f \in DOMAIN files |-> "idle"]
  /\ once = "idle"
  /\ candidates = <<>>
  /\ backend = "" /\ proc = "fresh"
  /\ noticed = FALSE
  /\ plan = [f \in DOMAIN files |-> Nil]
  /\ header = [f \in DOMAIN files |-> ""]
  /\ output = <<>>
  /\ latest = NoCommand

\* Defect: a test of a local file may name a host.
AcceptedAnyway(file) == TRUE

\* ParseFile: a test moves only from one remote host to another.
Accepted(file) == file.tests # {} => file.ssh # ""

LaunchFiles ==
  /\ phase = "parse"
  /\ \A f \in DOMAIN files : Accepted(files[f])
  /\ phase' = "run"
  /\ pc' = [f \in DOMAIN files |-> "resolve"]
  /\ UNCHANGED <<run, probe, noticed, plan, header, output, latest>>

-----------------------------------------------------------------------------
(***************************************************************************)
(* A file's goroutine, up to its plan.                                     *)
(***************************************************************************)
Move(f, from, to) ==
  /\ phase = "run"
  /\ pc[f] = from
  /\ pc' = [pc EXCEPT ![f] = to]
  /\ UNCHANGED <<run, phase, output>>

\* SSHManager.Resolve: a typed target outranks the one a file or a test names.
Resolve(target) == IF typed.ssh # "" THEN typed.ssh ELSE target

Home(f) == Resolve(files[f].ssh)

\* Temp and coverage directories, Resolve, Connect and AllocBase succeed.
OpenFile(f) ==
  /\ Move(f, "resolve", "plan")
  /\ UNCHANGED <<probe, noticed, plan, header, latest>>

\* An error of theirs, of seatbelt's scratch directory, of sourceDirOf, or of the
\* shared directory.
FileFails(f) ==
  /\ \E from \in {"resolve", "plan", "planned", "commands"} : Move(f, from, "failed")
  /\ UNCHANGED <<probe, noticed, plan, header, latest>>

FileReturns(f) ==
  /\ Move(f, "commands", "returned")
  /\ UNCHANGED <<probe, noticed, plan, header, latest>>

\* The mode is a backend that was typed.
ForcesBackend == typed.mode \in ToSet(Backends)

\* A target does not nest in a sandbox, so both typed, or a file's target under a
\* typed backend, is an error.
RefusePair(f) ==
  /\ Move(f, "plan", "failed")
  /\ Home(f) # "" /\ ForcesBackend
  /\ UNCHANGED <<probe, noticed, plan, header, latest>>

PlanRemote(f) ==
  /\ Home(f) # "" /\ ~ForcesBackend
  /\ Move(f, "plan", "planned")
  /\ plan' = [plan EXCEPT ![f] = [Nil EXCEPT !.ssh = Home(f)]]
  /\ UNCHANGED <<probe, noticed, header, latest>>

\* The operator opted out: the plan stays nil.
PlanHost(f) ==
  /\ Home(f) = "" /\ typed.mode = "none"
  /\ Move(f, "plan", "planned")
  /\ UNCHANGED <<probe, noticed, plan, header, latest>>

(***************************************************************************)
(* SandboxConfig.Backend.                                                  *)
(***************************************************************************)

\* probeBwrap: a private /proc, or else this one if it shows no outside processes.
ProbeBwrap ==
  IF {"bwrap", "fresh procfs"} \subseteq machine THEN "fresh"
  ELSE IF {"bwrap", "bound procfs", "only own processes"} \subseteq machine THEN "shared"
  ELSE "unusable"

Probe(b) ==
  IF b = "bwrap" THEN ProbeBwrap ELSE IF b \in machine THEN "fresh" ELSE "unusable"

\* The first file to need a backend looks for it, the others wait in once.Do.
AskBackend(f) ==
  /\ Home(f) = "" /\ typed.mode # "none"
  /\ once = "idle"
  /\ once' = "probing"
  /\ candidates' = IF ForcesBackend THEN <<typed.mode>> ELSE Backends
  /\ Move(f, "plan", "probing")
  /\ UNCHANGED <<backend, proc, noticed, plan, header, latest>>

\* A probe fails; after the last one the error is all that Backend keeps.
ProbeFails(f) ==
  /\ pc[f] = "probing"
  /\ Probe(Head(candidates)) = "unusable"
  /\ candidates' = Tail(candidates)
  /\ \/ Len(candidates) > 1 /\ once' = once /\ Move(f, "probing", "probing")
     \/ Len(candidates) = 1 /\ once' = "done" /\ Move(f, "probing", "plan")
  /\ UNCHANGED <<backend, proc, noticed, plan, header, latest>>

ProbeSucceeds(f) ==
  /\ pc[f] = "probing"
  /\ Probe(Head(candidates)) # "unusable"
  /\ backend' = Head(candidates)
  /\ proc' = Probe(Head(candidates))
  /\ candidates' = <<>>
  /\ once' = "done"
  /\ Move(f, "probing", "plan")
  /\ UNCHANGED <<noticed, plan, header, latest>>

\* What is written after once.Do returned: the memo, or its error.
BackendError(f) ==
  /\ Home(f) = "" /\ typed.mode # "none"
  /\ once = "done" /\ backend = ""
  /\ Move(f, "plan", "failed")
  /\ UNCHANGED <<probe, noticed, plan, header, latest>>

DefaultSandboxImage == "debian:stable-slim"

\* The image the operator typed, else the file's, else the default.
ImageOf(f) ==
  IF typed.image # "" THEN typed.image
  ELSE IF files[f].image # "" THEN files[f].image
  ELSE DefaultSandboxImage

PlanSandboxed(f) ==
  /\ Home(f) = "" /\ typed.mode # "none"
  /\ once = "done" /\ backend # ""
  /\ Move(f, "plan", "planned")
  /\ plan' = [plan EXCEPT ![f] =
                [ssh |-> "", backend |-> backend, proc |-> proc,
                 network |-> files[f].network, image |-> ImageOf(f)]]
  /\ UNCHANGED <<probe, noticed, header, latest>>

(***************************************************************************)
(* The header: PrintSandbox(plan.describe(), TakeProcNotice()).            *)
(***************************************************************************)

\* Defect: every file that sees the shared /proc explains it.
NeverTaken == FALSE

Taken == noticed

\* Without a plan nothing is said.
Announce(f, lines) ==
  /\ Move(f, "planned", "commands")
  /\ header' = [header EXCEPT ![f] = IF plan[f] = Nil THEN "" ELSE lines]
  /\ UNCHANGED <<probe, plan, latest>>

\* backend and proc are read without the once: a file that did not come through
\* Backend, because its commands run elsewhere, may or may not see them.
AnnounceWithNotice(f) ==
  /\ typed.mode # "none"
  /\ backend = "bwrap" /\ proc = "shared"
  /\ ~Taken
  /\ noticed' = TRUE
  /\ Announce(f, "explained")

AnnounceOnly(f) ==
  /\ \/ typed.mode = "none"
     \/ ~(backend = "bwrap" /\ proc = "shared")
     \/ noticed
     \/ plan[f].ssh # ""
  /\ UNCHANGED noticed
  /\ Announce(f, "line")

(***************************************************************************)
(* Commands: setup, tests, teardown.                                       *)
(***************************************************************************)

\* sandboxPlan.command: nil is the host, a target comes before a backend.
Boundary(p) ==
  IF p.ssh # "" THEN [kind |-> "ssh", target |-> p.ssh]
  ELSE IF p.backend = "none" THEN [kind |-> "host"]
  ELSE [kind |-> p.backend, proc |-> p.proc, network |-> p.network, image |-> p.image]

\* scopeFor and withSSH: only a file with a target has tests that leave it.
TestPlan(f, target) ==
  IF Home(f) = "" \/ target = "" THEN plan[f]
  ELSE [plan[f] EXCEPT !.ssh = Resolve(target)]

\* A hook, or a test without a target of its own, has the file's plan.
RunCommand(f) ==
  /\ Move(f, "commands", "commands")
  /\ \E target \in files[f].tests \cup {""} :
       latest' = [file |-> f, target |-> target, boundary |-> Boundary(TestPlan(f, target))]
  /\ UNCHANGED <<probe, noticed, plan, header>>

(***************************************************************************)
(* RunFiles, after all of its goroutines: the buffers, up to the first     *)
(* file with an error.                                                     *)
(***************************************************************************)
\* The files whose buffers are written.
Printed ==
  {f \in DOMAIN files : \A g \in 1 .. (f - 1) : pc[g] # "failed"}

PrintFiles ==
  /\ phase = "run"
  /\ \A f \in DOMAIN files : pc[f] \in {"returned", "failed"}
  /\ output' = [f \in Printed |-> header[f]]
  /\ phase' = IF \A f \in DOMAIN files : pc[f] = "returned" THEN "returned" ELSE "error"
  /\ UNCHANGED <<run, pc, probe, noticed, plan, header, latest>>

-----------------------------------------------------------------------------
FileStep(f) ==
  \/ OpenFile(f) \/ RefusePair(f) \/ PlanRemote(f) \/ PlanHost(f)
  \/ AskBackend(f) \/ ProbeFails(f) \/ ProbeSucceeds(f) \/ BackendError(f)
  \/ PlanSandboxed(f) \/ AnnounceWithNotice(f) \/ AnnounceOnly(f) \/ RunCommand(f)
  \/ FileFails(f) \/ FileReturns(f)

Next == LaunchFiles \/ (\E f \in DOMAIN files : FileStep(f)) \/ PrintFiles

Spec == Init /\ [][Next]_vars

-----------------------------------------------------------------------------
(***************************************************************************)
(* Properties.                                                             *)
(***************************************************************************)
Boundaries ==
  [kind : {"host"}] \cup [kind : {"ssh"}, target : Names \ {""}] \cup
  [kind : ToSet(Backends), proc : {"fresh", "shared"}, network : BOOLEAN,
   image : (Names \ {""}) \cup {DefaultSandboxImage}]

\* Every variable ranges over what the code can store in it, and a /proc is shared
\* only under bwrap.
TypeOK ==
  /\ typed \in Typed /\ machine \in Machines /\ files \in Corpora
  /\ phase \in {"parse", "run", "returned", "error"}
  /\ \A f \in DOMAIN files :
       /\ pc[f] \in {"idle", "resolve", "plan", "probing", "planned", "commands",
                     "returned", "failed"}
       /\ plan[f] = Nil \/ Boundary(plan[f]) \in Boundaries
  /\ once \in {"idle", "probing", "done"}
  /\ Len(candidates) <= Len(Backends)
  /\ backend \in {""} \cup ToSet(Backends)
  /\ proc = "shared" => backend = "bwrap"
  /\ proc \in {"fresh", "shared"}
  /\ noticed \in BOOLEAN
  /\ DOMAIN output \subseteq DOMAIN files
  /\ \A f \in DOMAIN files : header[f] \in {"", "line", "explained"}
  /\ latest = NoCommand \/ latest.boundary \in Boundaries

\* The host a command was meant for, "" for this machine: the operator's word, then
\* the test's, then the file's.
MeantFor ==
  IF typed.ssh # "" THEN typed.ssh
  ELSE IF latest.target # "" THEN latest.target
  ELSE files[latest.file].ssh

\* Bubblewrap and the others in the order of docs/cli.md:130: usable and, for the
\* first, without sight of processes outside.
Confines(b) ==
  IF b = "bwrap"
    THEN /\ "bwrap" \in machine
         /\ \/ "fresh procfs" \in machine
            \/ {"bound procfs", "only own processes"} \subseteq machine
    ELSE b \in machine

\* docs/cli.md, "Selection and failure" and "Opting out": wherever files, flags and
\* probes meet, a command that ran did so on the host it was meant for; on this
\* machine without a sandbox only if the operator opted out, and else in the first
\* backend that confines it, or the one typed, the same for all files, with no more
\* network than its file left it and in the image the operator typed, if any.
CommandsStayInTheirBoundary ==
  latest # NoCommand =>
    IF MeantFor # "" THEN latest.boundary = [kind |-> "ssh", target |-> MeantFor]
    ELSE IF typed.mode = "none" THEN latest.boundary.kind = "host"
    ELSE LET b == latest.boundary IN
      /\ b.kind \in ToSet(Backends)
      /\ Confines(b.kind)
      /\ IF ForcesBackend THEN b.kind = typed.mode
         ELSE \A i \in 1 .. Len(Backends) :
                Confines(Backends[i]) => \E j \in 1 .. i : b.kind = Backends[j]
      /\ b.proc = "shared" => "fresh procfs" \notin machine
      /\ b.network => files[latest.file].network
      /\ typed.image # "" => b.image = typed.image

\* runner/sandbox_test.go:353, "announced on every file it applies to, and explained a
\* single time": so it is in the output of every run that returns, whichever file's
\* goroutine was the first to ask, and no run explains it twice.
SharedProcIsExplainedOnce ==
  /\ \A f, g \in DOMAIN output : output[f] = "explained" /\ output[g] = "explained" => f = g
  /\ phase = "returned" /\ (\E f \in DOMAIN files : plan[f].proc = "shared") =>
       \E f \in DOMAIN output : output[f] = "explained"
=============================================================================
