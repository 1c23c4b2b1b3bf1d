----------------------------- MODULE Sandbox_proofs -----------------------------
(***************************************************************************)
(* Theorems about Sandbox, for any corpora, machines and flags: where the  *)
(* commands of a run execute, and how often its output explains a shared   *)
(* /proc.                                                                  *)
(***************************************************************************)
EXTENDS Sandbox, TLAPS

-----------------------------------------------------------------------------
(***************************************************************************)
(* The inductive invariant.                                                *)
(***************************************************************************)
Places == {"idle", "resolve", "plan", "probing", "planned", "commands", "returned", "failed"}

\* The run is as it was asked for, and what is kept per file is kept for every file.
ShapeInv ==
  /\ typed \in Typed /\ machine \in Machines /\ files \in Corpora
  /\ phase \in {"parse", "run", "returned", "error"}
  /\ pc \in [DOMAIN files -> Places]
  /\ DOMAIN plan = DOMAIN files
  /\ header \in [DOMAIN files -> {"", "line", "explained"}]
  /\ noticed \in BOOLEAN

\* No file is under way before all have been accepted.
PhaseInv ==
  /\ phase = "parse" => \A f \in DOMAIN files : pc[f] = "idle"
  /\ phase # "parse" => \A f \in DOMAIN files : Accepted(files[f])

\* The backends still to probe, after the ones that turned out unusable.
Remaining ==
  IF ForcesBackend THEN candidates = <<typed.mode>>
  ELSE \/ candidates = <<"bwrap", "seatbelt", "docker">>
       \/ candidates = <<"seatbelt", "docker">> /\ Probe("bwrap") = "unusable"
       \/ candidates = <<"docker">> /\ Probe("bwrap") = "unusable" /\ Probe("seatbelt") = "unusable"

\* What Backend may have settled on.
Settled ==
  /\ typed.mode # "none"
  /\ backend \in ToSet(Backends) /\ Probe(backend) = proc /\ proc # "unusable"
  /\ ForcesBackend => backend = typed.mode
  /\ ~ForcesBackend => /\ backend # "bwrap" => Probe("bwrap") = "unusable"
                       /\ backend = "docker" => Probe("seatbelt") = "unusable"

\* One file probes, on behalf of all; what it finds out is written once.
OnceInv ==
  /\ once \in {"idle", "probing", "done"}
  /\ \A f \in DOMAIN files : pc[f] = "probing" => once = "probing"
  /\ \A f, g \in DOMAIN files : pc[f] = "probing" /\ pc[g] = "probing" => f = g
  /\ once = "probing" => typed.mode # "none" /\ Remaining
  /\ once # "done" => backend = ""
  /\ IF backend = "" THEN proc = "fresh" ELSE Settled

\* The plan of a file that has one.
RemotePlan(f) == [Nil EXCEPT !.ssh = Home(f)]

LocalPlan(f) ==
  [ssh |-> "", backend |-> backend, proc |-> proc, network |-> files[f].network, image |-> ImageOf(f)]

GoodPlan(f) ==
  IF Home(f) # "" THEN ~ForcesBackend /\ plan[f] = RemotePlan(f)
  ELSE IF typed.mode = "none" THEN plan[f] = Nil
  ELSE backend # "" /\ plan[f] = LocalPlan(f)

PlanInv ==
  \A f \in DOMAIN files :
    /\ pc[f] \in {"idle", "resolve", "plan", "probing"} => plan[f] = Nil
    /\ pc[f] \in {"planned", "commands", "returned"} => GoodPlan(f)

\* The notice is in the header of the file that took it, and nowhere else.
NoticeInv ==
  /\ noticed => \E f \in DOMAIN files : header[f] = "explained"
  /\ \A f \in DOMAIN files :
       /\ header[f] = "explained" => noticed
       /\ header[f] # "" => pc[f] \in {"commands", "returned", "failed"}
       /\ pc[f] \in {"commands", "returned"} /\ plan[f].proc = "shared" => noticed
  /\ \A f, g \in DOMAIN files : header[f] = "explained" /\ header[g] = "explained" => f = g

\* What is printed is the headers, all of them when no file had an error.
OutputInv ==
  IF phase \in {"parse", "run"} THEN output = <<>>
  ELSE /\ output = [f \in Printed |-> header[f]]
       /\ phase = "returned" => \A f \in DOMAIN files : pc[f] = "returned"

IInv ==
  /\ ShapeInv /\ PhaseInv /\ OnceInv /\ PlanInv /\ NoticeInv /\ OutputInv
  /\ CommandsStayInTheirBoundary

-----------------------------------------------------------------------------
(***************************************************************************)
(* What the operators return.                                              *)
(***************************************************************************)
USE DEF run, probe

\* The backends are three, and none of them is a mode that finds one.
LEMMA BackendsAre ==
  /\ ToSet(Backends) = {"bwrap", "seatbelt", "docker"}
  /\ Len(Backends) = 3
  /\ Backends[1] = "bwrap" /\ Backends[2] = "seatbelt" /\ Backends[3] = "docker"
BY DEF ToSet, Backends

\* A probe finds a backend usable exactly when the backend confines what runs in it.
LEMMA ProbeConfines ==
  ASSUME NEW b \in ToSet(Backends)
  PROVE  /\ Probe(b) # "unusable" <=> Confines(b)
         /\ Probe(b) = "shared" => b = "bwrap" /\ "fresh procfs" \notin machine
         /\ Probe(b) \in {"fresh", "shared", "unusable"}
BY DEF Probe, ProbeBwrap, Confines

\* What the plans say.
LEMMA LocalFields ==
  ASSUME NEW f
  PROVE  /\ LocalPlan(f).ssh = "" /\ LocalPlan(f).backend = backend
         /\ LocalPlan(f).proc = proc /\ LocalPlan(f).network = files[f].network
         /\ LocalPlan(f).image = ImageOf(f)
BY DEF LocalPlan

LEMMA RemoteFields ==
  /\ Nil.ssh = "" /\ Nil.backend = "none" /\ Nil.proc = "fresh"
  /\ \A f : RemotePlan(f).ssh = Home(f) /\ RemotePlan(f).proc = "fresh"
BY DEF Nil, RemotePlan

\* A target of a test's own replaces the one of its file.
LEMMA MovedPlan ==
  ASSUME NEW f, NEW host
  PROVE  [RemotePlan(f) EXCEPT !.ssh = host].ssh = host
BY DEF Nil, RemotePlan

\* CommandsStayInTheirBoundary, of any command.
MeantBy(c) ==
  IF typed.ssh # "" THEN typed.ssh
  ELSE IF c.target # "" THEN c.target
  ELSE files[c.file].ssh

FirstThatConfines(b) ==
  IF ForcesBackend THEN b = typed.mode
  ELSE \A i \in 1 .. Len(Backends) :
         Confines(Backends[i]) => \E j \in 1 .. i : b = Backends[j]

Sandboxed(c) ==
  /\ c.boundary.kind \in ToSet(Backends)
  /\ Confines(c.boundary.kind) /\ FirstThatConfines(c.boundary.kind)
  /\ c.boundary.proc = "shared" => "fresh procfs" \notin machine
  /\ c.boundary.network => files[c.file].network
  /\ typed.image # "" => c.boundary.image = typed.image

Stays(c) ==
  IF MeantBy(c) # "" THEN c.boundary = [kind |-> "ssh", target |-> MeantBy(c)]
  ELSE IF typed.mode = "none" THEN c.boundary.kind = "host"
  ELSE Sandboxed(c)

LEMMA LatestStays == (latest # NoCommand => Stays(latest))' => CommandsStayInTheirBoundary'
BY DEF CommandsStayInTheirBoundary, MeantFor, Stays, MeantBy, Sandboxed, FirstThatConfines

LEMMA CommandStays ==
  ASSUME UNCHANGED run, NEW c, latest' = c, Stays(c)
  PROVE  CommandsStayInTheirBoundary'
<1>1. Stays(latest)'
  BY DEF Stays, MeantBy, Sandboxed, FirstThatConfines, ForcesBackend, Confines
<1> QED
  BY <1>1, LatestStays

\* The files of a run are numbered from 1.
LEMMA FilesShape ==
  ASSUME IInv
  PROVE  \A g \in DOMAIN files : 1 .. (g - 1) \subseteq DOMAIN files
<1> DEFINE Entries == [ssh : STRING, tests : SUBSET (STRING \ {""}), network : BOOLEAN, image : STRING]
<1>1. files \in Seq(Entries)
  BY ConstantsAssumption DEF IInv, ShapeInv
<1> HIDE DEF Entries
<1>2. DOMAIN files = 1 .. Len(files) /\ Len(files) \in Nat
  BY <1>1
<1> QED
  BY <1>2

\* A backend whose predecessors are unusable is the first that confines.
LEMMA FirstInOrder ==
  ASSUME ~ForcesBackend, NEW b \in ToSet(Backends),
         b # "bwrap" => ~Confines("bwrap"), b = "docker" => ~Confines("seatbelt")
  PROVE  FirstThatConfines(b)
<1> SUFFICES ASSUME NEW i \in 1 .. Len(Backends), Confines(Backends[i])
             PROVE  \E j \in 1 .. i : b = Backends[j]
  BY DEF FirstThatConfines
<1>1. i \in {1, 2, 3} /\ b \in {"bwrap", "seatbelt", "docker"}
  BY BackendsAre
<1>2. CASE i = 1
  <2>1. b = Backends[1]
    BY <1>2, BackendsAre
  <2> QED
    BY <1>2, <2>1
<1>3. CASE i = 2
  <2>1. b = Backends[1] \/ b = Backends[2]
    BY <1>1, <1>3, BackendsAre
  <2>2. 1 \in 1 .. i /\ 2 \in 1 .. i
    BY <1>3
  <2> QED
    BY <2>1, <2>2
<1>4. CASE i = 3
  <2>1. b = Backends[1] \/ b = Backends[2] \/ b = Backends[3]
    BY <1>1, BackendsAre
  <2>2. 1 \in 1 .. i /\ 2 \in 1 .. i /\ 3 \in 1 .. i
    BY <1>4
  <2> QED
    BY <2>1, <2>2
<1> QED
  BY <1>1, <1>2, <1>3, <1>4

\* A step of a file moves that file alone, and changes nothing the run was asked for.
LEMMA FileMoves ==
  ASSUME ShapeInv, NEW f \in DOMAIN files, FileStep(f)
  PROVE  /\ phase = "run" /\ UNCHANGED <<run, phase, output>>
         /\ \E to \in Places : pc' = [pc EXCEPT ![f] = to]
         /\ \A g \in DOMAIN files : g # f => pc'[g] = pc[g]
         /\ pc' \in [DOMAIN files' -> Places]
<1>1. /\ phase = "run" /\ UNCHANGED <<run, phase, output>>
      /\ \E to \in Places : pc' = [pc EXCEPT ![f] = to]
  BY DEF FileStep, OpenFile, RefusePair, PlanRemote, PlanHost, AskBackend, ProbeFails,
         ProbeSucceeds, BackendError, PlanSandboxed, AnnounceWithNotice, AnnounceOnly, Announce,
         RunCommand, FileFails, FileReturns, Move, Places
<1> QED
  BY <1>1 DEF ShapeInv

\* What depends on the flags, the machine and the files only stays as it is.
LEMMA Fixed ==
  ASSUME UNCHANGED run
  PROVE  /\ ForcesBackend' = ForcesBackend
         /\ \A f : /\ Home(f)' = Home(f) /\ ImageOf(f)' = ImageOf(f)
                   /\ Accepted(files[f])' = Accepted(files[f])
         /\ \A b : Probe(b)' = Probe(b) /\ Confines(b)' = Confines(b)
BY DEF ForcesBackend, Home, Resolve, ImageOf, Accepted, Probe, ProbeBwrap, Confines

-----------------------------------------------------------------------------
(***************************************************************************)
(* The parts of the invariant are inductive, one lemma for every kind of   *)
(* step of a file.                                                         *)
(***************************************************************************)

\* Where plans, headers and the probe stay as they are, only the places count.
LEMMA MoveKeeps ==
  ASSUME IInv, NEW f \in DOMAIN files, FileStep(f),
         UNCHANGED <<probe, noticed, plan, header, latest>>,
         pc'[f] \notin {"idle", "resolve", "probing"},
         pc'[f] = "plan" => pc[f] = "resolve",
         pc'[f] \in {"planned", "commands", "returned"} => GoodPlan(f),
         pc'[f] \in {"commands", "returned"} => pc[f] = "commands",
         header[f] # "" => pc'[f] \in {"commands", "returned", "failed"}
  PROVE  IInv'
<1>1. /\ phase = "run" /\ UNCHANGED <<run, phase, output>>
      /\ \A g \in DOMAIN files : g # f => pc'[g] = pc[g]
      /\ pc' \in [DOMAIN files' -> Places]
  BY FileMoves DEF IInv
<1>2. /\ ForcesBackend' = ForcesBackend
      /\ \A g : /\ Home(g)' = Home(g) /\ ImageOf(g)' = ImageOf(g)
                /\ Accepted(files[g])' = Accepted(files[g])
      /\ \A b : Probe(b)' = Probe(b) /\ Confines(b)' = Confines(b)
  BY <1>1, Fixed
<1>3. ShapeInv' /\ PhaseInv'
  BY <1>1, <1>2 DEF IInv, ShapeInv, PhaseInv
<1>4. OnceInv'
  BY <1>1, <1>2 DEF IInv, OnceInv, Remaining, Settled
<1>5. PlanInv'
  BY <1>1, <1>2 DEF IInv, PlanInv, GoodPlan, LocalPlan, RemotePlan
<1>6. NoticeInv'
  BY <1>1 DEF IInv, NoticeInv
<1>7. OutputInv'
  BY <1>1 DEF IInv, OutputInv
<1>8. CommandsStayInTheirBoundary'
  BY <1>1, <1>2 DEF IInv, CommandsStayInTheirBoundary, MeantFor
<1> QED
  BY <1>3, <1>4, <1>5, <1>6, <1>7, <1>8 DEF IInv

\* A file that opens, fails or returns.
LEMMA OpenStep ==
  ASSUME IInv, NEW f \in DOMAIN files,
         \/ OpenFile(f) \/ RefusePair(f) \/ BackendError(f) \/ FileFails(f) \/ FileReturns(f)
  PROVE  IInv'
<1>1. FileStep(f) /\ UNCHANGED <<probe, noticed, plan, header, latest>>
  BY DEF FileStep, OpenFile, RefusePair, BackendError, FileFails, FileReturns
<1>2. \E from, to \in Places :
        /\ pc[f] = from /\ pc' = [pc EXCEPT ![f] = to]
        /\ to \in {"plan", "failed", "returned"}
        /\ to = "plan" => from = "resolve"
        /\ to = "returned" => from = "commands"
  BY DEF OpenFile, RefusePair, BackendError, FileFails, FileReturns, Move, Places
<1>3. /\ pc'[f] \in {"plan", "failed", "returned"}
      /\ pc'[f] = "plan" => pc[f] = "resolve"
      /\ pc'[f] = "returned" => pc[f] = "commands"
  BY <1>2 DEF IInv, ShapeInv
<1>4. pc[f] = "resolve" => header[f] = ""
  BY DEF IInv, NoticeInv
<1>5. pc[f] = "commands" => GoodPlan(f)
  BY DEF IInv, PlanInv
<1> QED
  BY <1>1, <1>3, <1>4, <1>5, MoveKeeps

\* newSandboxPlan: the plan a file gets is the one its target, the flags and the
\* probe ask for.
LEMMA PlanStep ==
  ASSUME IInv, NEW f \in DOMAIN files, PlanRemote(f) \/ PlanHost(f) \/ PlanSandboxed(f)
  PROVE  IInv'
<1>1. /\ FileStep(f) /\ UNCHANGED <<probe, noticed, header, latest>>
      /\ pc[f] = "plan" /\ pc' = [pc EXCEPT ![f] = "planned"]
  BY DEF FileStep, PlanRemote, PlanHost, PlanSandboxed, Move
<1>2. /\ UNCHANGED <<run, phase, output>> /\ phase = "run"
      /\ pc'[f] = "planned" /\ \A g \in DOMAIN files : g # f => pc'[g] = pc[g]
      /\ pc' \in [DOMAIN files' -> Places]
  BY <1>1, FileMoves DEF IInv, ShapeInv
<1>3. /\ ForcesBackend' = ForcesBackend
      /\ \A g : /\ Home(g)' = Home(g) /\ ImageOf(g)' = ImageOf(g)
                /\ Accepted(files[g])' = Accepted(files[g])
      /\ \A b : Probe(b)' = Probe(b) /\ Confines(b)' = Confines(b)
  BY <1>2, Fixed
<1>4. DOMAIN plan' = DOMAIN files' /\ \A g \in DOMAIN files : g # f => plan'[g] = plan[g]
  BY <1>2 DEF PlanRemote, PlanHost, PlanSandboxed, IInv, ShapeInv
<1>5. GoodPlan(f)'
  <2>1. CASE PlanRemote(f)
    <3>1. plan'[f] = RemotePlan(f) /\ Home(f) # "" /\ ~ForcesBackend
      BY <2>1 DEF PlanRemote, RemotePlan, IInv, ShapeInv
    <3> QED
      BY <1>3, <3>1 DEF GoodPlan, RemotePlan
  <2>2. CASE PlanHost(f)
    <3>1. pc[f] = "plan" /\ plan'[f] = plan[f] /\ Home(f) = "" /\ typed.mode = "none"
      BY <1>1, <2>2 DEF PlanHost
    <3>2. plan[f] = Nil
      BY <1>1 DEF IInv, PlanInv
    <3> QED
      BY <1>2, <1>3, <3>1, <3>2 DEF GoodPlan
  <2>3. CASE PlanSandboxed(f)
    <3>1. plan'[f] = LocalPlan(f) /\ Home(f) = "" /\ typed.mode # "none" /\ backend # ""
      BY <2>3 DEF PlanSandboxed, LocalPlan, IInv, ShapeInv
    <3> QED
      BY <1>1, <1>2, <1>3, <3>1 DEF GoodPlan, LocalPlan, RemotePlan
  <2> QED
    BY <2>1, <2>2, <2>3
<1>6. ShapeInv' /\ PhaseInv'
  BY <1>1, <1>2, <1>3, <1>4 DEF IInv, ShapeInv, PhaseInv
<1>7. OnceInv'
  BY <1>1, <1>2, <1>3 DEF IInv, OnceInv, Remaining, Settled
<1>8. PlanInv'
  <2>1. ASSUME NEW g \in DOMAIN files, g # f, GoodPlan(g) PROVE GoodPlan(g)'
    BY <1>1, <1>2, <1>3, <1>4, <2>1 DEF GoodPlan, LocalPlan, RemotePlan
  <2>2. ASSUME NEW g \in DOMAIN files, g # f PROVE PlanInv!(g)'
    BY <1>2, <1>4, <2>1, <2>2 DEF IInv, PlanInv
  <2> QED
    BY <1>2, <1>5, <2>2 DEF PlanInv
<1>9. NoticeInv'
  BY <1>1, <1>2, <1>4 DEF IInv, NoticeInv
<1>10. OutputInv'
  BY <1>2 DEF IInv, OutputInv
<1>11. CommandsStayInTheirBoundary'
  BY <1>1, <1>2, <1>3 DEF IInv, CommandsStayInTheirBoundary, MeantFor
<1> QED
  BY <1>6, <1>7, <1>8, <1>9, <1>10, <1>11 DEF IInv

\* SandboxConfig.Backend: nothing is settled before the probe ends, and then the first
\* of the backends that is usable is.
LEMMA ProbeStep ==
  ASSUME IInv, NEW f \in DOMAIN files, AskBackend(f) \/ ProbeFails(f) \/ ProbeSucceeds(f)
  PROVE  IInv'
<1>1. /\ FileStep(f) /\ UNCHANGED <<noticed, plan, header, latest>>
      /\ \E to \in {"plan", "probing"} : pc' = [pc EXCEPT ![f] = to]
      /\ pc[f] \in {"plan", "probing"}
  BY DEF FileStep, AskBackend, ProbeFails, ProbeSucceeds, Move
<1>2. /\ UNCHANGED <<run, phase, output>> /\ phase = "run"
      /\ pc'[f] \in {"plan", "probing"} /\ \A g \in DOMAIN files : g # f => pc'[g] = pc[g]
      /\ pc' \in [DOMAIN files' -> Places]
  BY <1>1, FileMoves DEF IInv, ShapeInv
<1>3. /\ ForcesBackend' = ForcesBackend
      /\ \A g : /\ Home(g)' = Home(g) /\ ImageOf(g)' = ImageOf(g)
                /\ Accepted(files[g])' = Accepted(files[g])
      /\ \A b : Probe(b)' = Probe(b) /\ Confines(b)' = Confines(b)
  BY <1>2, Fixed
<1>4. once # "done" /\ backend = "" /\ proc = "fresh"
  BY DEF IInv, OnceInv, AskBackend, ProbeFails, ProbeSucceeds
<1>5. OnceInv'
  <2>1. CASE AskBackend(f)
    <3>1. /\ once = "idle" /\ once' = "probing" /\ UNCHANGED <<backend, proc>>
          /\ typed.mode # "none"
          /\ candidates' = IF ForcesBackend THEN <<typed.mode>> ELSE Backends
      BY <2>1 DEF AskBackend
    <3>2. Remaining'
      BY <1>2, <1>3, <3>1 DEF Remaining, Backends
    <3> QED
      BY <1>2, <1>4, <3>1, <3>2 DEF IInv, OnceInv
  <2>2. CASE ProbeFails(f)
    <3>1. /\ pc[f] = "probing" /\ once = "probing" /\ Remaining /\ typed.mode # "none"
          /\ UNCHANGED <<backend, proc>>
          /\ Probe(Head(candidates)) = "unusable" /\ candidates' = Tail(candidates)
      BY <2>2 DEF ProbeFails, IInv, OnceInv
    <3>2. Len(candidates) \in 1 .. 3
      BY <3>1 DEF Remaining
    <3>3. CASE Len(candidates) > 1
      <4>1. once' = "probing" /\ pc'[f] = "probing"
        <5>1. Len(candidates) # 1
          BY <3>2, <3>3
        <5>2. once' = once /\ Move(f, "probing", "probing")
          BY <2>2, <5>1 DEF ProbeFails
        <5> QED
          BY <3>1, <5>2 DEF Move, IInv, ShapeInv
      <4>2. Remaining'
        <5>1. CASE candidates = <<"bwrap", "seatbelt", "docker">>
          BY <1>2, <1>3, <3>1, <3>3, <5>1 DEF Remaining
        <5>2. CASE candidates = <<"seatbelt", "docker">>
          BY <1>2, <1>3, <3>1, <3>3, <5>2 DEF Remaining
        <5>3. \A b : candidates # <<b>>
          <6>1. \A b : Len(<<b>>) = 1
            OBVIOUS
          <6> QED
            BY <3>2, <3>3, <6>1
        <5> QED
          BY <3>1, <5>1, <5>2, <5>3 DEF Remaining
      <4> QED
        BY <1>2, <1>4, <3>1, <4>1, <4>2 DEF IInv, OnceInv
    <3>4. CASE ~(Len(candidates) > 1)
      <4>1. once' = "done" /\ pc'[f] = "plan"
        BY <2>2, <3>1, <3>4 DEF ProbeFails, Move, IInv, ShapeInv
      <4> QED
        BY <1>2, <1>4, <3>1, <4>1 DEF IInv, OnceInv
    <3> QED
      BY <3>3, <3>4
  <2>3. CASE ProbeSucceeds(f)
    <3>1. /\ pc[f] = "probing" /\ once = "probing" /\ Remaining /\ typed.mode # "none"
          /\ once' = "done" /\ pc'[f] = "plan"
          /\ backend' = Head(candidates) /\ proc' = Probe(Head(candidates))
          /\ Probe(Head(candidates)) # "unusable"
      BY <2>3 DEF ProbeSucceeds, Move, IInv, OnceInv, ShapeInv
    <3>2. /\ ForcesBackend => Head(candidates) = typed.mode
          /\ ~ForcesBackend =>
               /\ Head(candidates) \in {"bwrap", "seatbelt", "docker"}
               /\ Head(candidates) # "bwrap" => Probe("bwrap") = "unusable"
               /\ Head(candidates) = "docker" => Probe("seatbelt") = "unusable"
      BY <3>1 DEF Remaining
    <3>3. Head(candidates) \in ToSet(Backends)
      BY <3>2, BackendsAre DEF ForcesBackend
    <3>4. Settled' /\ backend' # ""
      BY <1>2, <1>3, <3>1, <3>2, <3>3, BackendsAre DEF Settled
    <3> QED
      BY <1>2, <3>1, <3>4 DEF IInv, OnceInv
  <2> QED
    BY <2>1, <2>2, <2>3
<1>6. ShapeInv' /\ PhaseInv'
  BY <1>1, <1>2, <1>3 DEF IInv, ShapeInv, PhaseInv
<1>7. PlanInv'
  BY <1>1, <1>2, <1>3, <1>4 DEF IInv, PlanInv, GoodPlan, RemotePlan
<1>8. NoticeInv'
  BY <1>1, <1>2 DEF IInv, NoticeInv
<1>9. OutputInv'
  BY <1>2 DEF IInv, OutputInv
<1>10. CommandsStayInTheirBoundary'
  BY <1>1, <1>2, <1>3 DEF IInv, CommandsStayInTheirBoundary, MeantFor
<1> QED
  BY <1>5, <1>6, <1>7, <1>8, <1>9, <1>10 DEF IInv

\* PrintSandbox and TakeProcNotice: the first file that is in a sandbox with the
\* shared /proc finds the notice taken, or takes it.
LEMMA AnnounceStep ==
  ASSUME IInv, NEW f \in DOMAIN files, AnnounceWithNotice(f) \/ AnnounceOnly(f)
  PROVE  IInv'
<1>1. /\ FileStep(f) /\ UNCHANGED <<probe, plan, latest>>
      /\ pc[f] = "planned" /\ pc' = [pc EXCEPT ![f] = "commands"]
  BY DEF FileStep, AnnounceWithNotice, AnnounceOnly, Announce, Move
<1>2. /\ UNCHANGED <<run, phase, output>> /\ phase = "run"
      /\ pc'[f] = "commands" /\ \A g \in DOMAIN files : g # f => pc'[g] = pc[g]
      /\ pc' \in [DOMAIN files' -> Places]
  BY <1>1, FileMoves DEF IInv, ShapeInv
<1>3. /\ ForcesBackend' = ForcesBackend
      /\ \A g : /\ Home(g)' = Home(g) /\ ImageOf(g)' = ImageOf(g)
                /\ Accepted(files[g])' = Accepted(files[g])
      /\ \A b : Probe(b)' = Probe(b) /\ Confines(b)' = Confines(b)
  BY <1>2, Fixed
<1>4. GoodPlan(f) /\ header[f] = ""
  BY <1>1 DEF IInv, PlanInv, NoticeInv
<1>5. /\ header' \in [DOMAIN files' -> {"", "line", "explained"}] /\ noticed' \in BOOLEAN
      /\ \A g \in DOMAIN files : g # f => header'[g] = header[g]
  BY <1>2 DEF AnnounceWithNotice, AnnounceOnly, Announce, IInv, ShapeInv
<1>6. NoticeInv'
  <2>1. CASE AnnounceWithNotice(f)
    <3>1. /\ typed.mode # "none" /\ backend = "bwrap" /\ ~noticed /\ noticed'
          /\ header'[f] = IF plan[f] = Nil THEN "" ELSE "explained"
      BY <2>1 DEF AnnounceWithNotice, Announce, Taken, IInv, ShapeInv
    <3>2. plan[f] # Nil
      <4>1. plan[f].ssh # "" \/ plan[f].backend = "bwrap"
        BY <1>4, <3>1, LocalFields, RemoteFields DEF GoodPlan
      <4> QED
        BY <4>1, LocalFields, RemoteFields
    <3>3. header'[f] = "explained" /\ \A g \in DOMAIN files : header[g] # "explained"
      BY <3>1, <3>2 DEF IInv, NoticeInv
    <3>4. ASSUME NEW g \in DOMAIN files PROVE NoticeInv!2!(g)'
      BY <1>1, <1>2, <1>5, <3>1, <3>3, <3>4 DEF IInv, NoticeInv
    <3>5. \A g \in DOMAIN files : header'[g] = "explained" => g = f
      BY <1>5, <3>3
    <3> QED
      BY <1>2, <3>3, <3>4, <3>5 DEF NoticeInv
  <2>2. CASE AnnounceOnly(f)
    <3>1. /\ noticed' = noticed /\ header'[f] \in {"", "line"}
          /\ \/ typed.mode = "none"
             \/ ~(backend = "bwrap" /\ proc = "shared")
             \/ noticed
             \/ plan[f].ssh # ""
      BY <2>2 DEF AnnounceOnly, Announce, IInv, ShapeInv
    <3>2. ASSUME plan[f].proc = "shared" PROVE noticed
      <4>1. Home(f) = "" /\ typed.mode # "none" /\ backend # "" /\ plan[f] = LocalPlan(f)
        BY <1>4, <3>2, LocalFields, RemoteFields DEF GoodPlan
      <4>2. proc = "shared" /\ plan[f].ssh = ""
        BY <3>2, <4>1, LocalFields, RemoteFields
      <4>3. backend = "bwrap"
        BY <4>1, <4>2, ProbeConfines DEF IInv, OnceInv, Settled
      <4> QED
        BY <3>1, <4>1, <4>2, <4>3
    <3>3. ASSUME NEW g \in DOMAIN files PROVE NoticeInv!2!(g)'
      <4>1. CASE g = f
        BY <1>1, <1>2, <3>1, <3>2, <4>1 DEF IInv, NoticeInv
      <4>2. CASE g # f
        BY <1>1, <1>2, <1>5, <3>1, <4>2 DEF IInv, NoticeInv
      <4> QED
        BY <4>1, <4>2
    <3>4. \A g \in DOMAIN files : header'[g] = "explained" <=> header[g] = "explained"
      BY <1>4, <1>5, <3>1
    <3> QED
      BY <1>2, <3>1, <3>3, <3>4 DEF IInv, NoticeInv
  <2> QED
    BY <2>1, <2>2
<1>7. ShapeInv' /\ PhaseInv'
  BY <1>1, <1>2, <1>3, <1>5 DEF IInv, ShapeInv, PhaseInv
<1>8. OnceInv'
  BY <1>1, <1>2, <1>3 DEF IInv, OnceInv, Remaining, Settled
<1>9. PlanInv'
  BY <1>1, <1>2, <1>3, <1>4 DEF IInv, PlanInv, GoodPlan, LocalPlan, RemotePlan
<1>10. OutputInv'
  BY <1>2 DEF IInv, OutputInv
<1>11. CommandsStayInTheirBoundary'
  BY <1>1, <1>2, <1>3 DEF IInv, CommandsStayInTheirBoundary, MeantFor
<1> QED
  BY <1>6, <1>7, <1>8, <1>9, <1>10, <1>11 DEF IInv

\* A command runs under its file's plan, or under that plan on the host of its test.
LEMMA CommandStep ==
  ASSUME IInv, NEW f \in DOMAIN files, RunCommand(f)
  PROVE  IInv'
<1>1. /\ FileStep(f) /\ UNCHANGED <<probe, noticed, plan, header>>
      /\ pc[f] = "commands" /\ pc' = [pc EXCEPT ![f] = "commands"]
  BY DEF FileStep, RunCommand, Move
<1>2. /\ UNCHANGED <<run, phase, output>> /\ phase = "run" /\ pc' = pc
  BY <1>1, FileMoves DEF IInv, ShapeInv
<1>3. PICK target \in files[f].tests \cup {""} :
        latest' = [file |-> f, target |-> target, boundary |-> Boundary(TestPlan(f, target))]
  BY DEF RunCommand
<1>4. GoodPlan(f) /\ Accepted(files[f])
  BY <1>1, <1>2 DEF IInv, PlanInv, PhaseInv
<1>5. /\ ForcesBackend' = ForcesBackend
      /\ \A g : /\ Home(g)' = Home(g) /\ ImageOf(g)' = ImageOf(g)
                /\ Accepted(files[g])' = Accepted(files[g])
      /\ \A b : Probe(b)' = Probe(b) /\ Confines(b)' = Confines(b)
  BY <1>2, Fixed
<1> DEFINE c == [file |-> f, target |-> target, boundary |-> Boundary(TestPlan(f, target))]
           meant == MeantBy(c)
           b == Boundary(TestPlan(f, target))
<1>6. /\ meant = IF typed.ssh # "" THEN typed.ssh ELSE IF target # "" THEN target ELSE files[f].ssh
      /\ c.boundary = b /\ c.file = f
  BY DEF MeantBy
<1>7. Home(f) # "" <=> meant # ""
  BY <1>4, <1>6 DEF Home, Resolve, Accepted
<1> HIDE DEF c, meant, b
<1>8. ASSUME meant # "" PROVE Stays(c)
  <2>1. plan[f] = RemotePlan(f)
    BY <1>4, <1>7, <1>8 DEF GoodPlan
  <2>2. TestPlan(f, target).ssh = meant
    <3>1. CASE target = ""
      BY <1>6, <1>7, <1>8, <2>1, <3>1, RemoteFields DEF TestPlan, Home, Resolve
    <3>2. CASE target # ""
      <4>1. TestPlan(f, target) = [RemotePlan(f) EXCEPT !.ssh = Resolve(target)]
        BY <1>7, <1>8, <2>1, <3>2 DEF TestPlan
      <4>2. Resolve(target) = meant
        BY <1>6, <3>2 DEF Resolve
      <4> QED
        BY <4>1, <4>2, MovedPlan
    <3> QED
      BY <3>1, <3>2
  <2>3. b = [kind |-> "ssh", target |-> meant]
    BY <1>8, <2>2 DEF Boundary, b
  <2> QED
    BY <1>6, <1>8, <2>3 DEF Stays, meant
<1>9. ASSUME meant = "", typed.mode = "none" PROVE Stays(c)
  <2>1. plan[f] = Nil /\ TestPlan(f, target) = Nil
    BY <1>4, <1>7, <1>9 DEF GoodPlan, TestPlan
  <2>2. b.kind = "host"
    BY <2>1, RemoteFields DEF Boundary, b
  <2> QED
    BY <1>6, <1>9, <2>2 DEF Stays, meant
<1>10. ASSUME meant = "", typed.mode # "none" PROVE Stays(c)
  <2>1. backend # "" /\ plan[f] = LocalPlan(f) /\ TestPlan(f, target) = LocalPlan(f)
    BY <1>4, <1>7, <1>10 DEF GoodPlan, TestPlan
  <2>2. Settled /\ backend # "none"
    BY <2>1, BackendsAre DEF IInv, OnceInv, Settled
  <2>3. b = [kind |-> backend, proc |-> proc, network |-> files[f].network, image |-> ImageOf(f)]
    BY <2>1, <2>2, LocalFields DEF Boundary, b
  <2>4. /\ b.kind = backend /\ b.proc = proc
        /\ b.network = files[f].network /\ b.image = ImageOf(f)
    BY <2>3
  <2>5. backend \in ToSet(Backends) /\ Confines(backend)
    BY <2>2, ProbeConfines DEF Settled
  <2>6. ~ForcesBackend => FirstThatConfines(backend)
    <3>1. ~ForcesBackend => /\ backend # "bwrap" => ~Confines("bwrap")
                            /\ backend = "docker" => ~Confines("seatbelt")
      BY <2>2, BackendsAre, ProbeConfines DEF Settled
    <3> QED
      BY <2>5, <3>1, FirstInOrder DEF FirstThatConfines
  <2>7. ForcesBackend => backend = typed.mode
    BY <2>2 DEF Settled
  <2>8. proc = "shared" => "fresh procfs" \notin machine
    BY <2>2, ProbeConfines DEF Settled
  <2>9. typed.image # "" => ImageOf(f) = typed.image
    BY DEF ImageOf
  <2>10. Sandboxed(c)
    BY <1>6, <2>4, <2>5, <2>6, <2>7, <2>8, <2>9 DEF Sandboxed, FirstThatConfines
  <2> QED
    BY <1>10, <2>10 DEF Stays, meant
<1>11. CommandsStayInTheirBoundary'
  <2>1. Stays(c)
    BY <1>8, <1>9, <1>10
  <2>2. latest' = c
    BY <1>3 DEF c
  <2> QED
    BY <1>2, <2>1, <2>2, CommandStays
<1>12. ShapeInv' /\ PhaseInv'
  BY <1>1, <1>2, <1>5 DEF IInv, ShapeInv, PhaseInv
<1>13. OnceInv'
  BY <1>1, <1>2, <1>5 DEF IInv, OnceInv, Remaining, Settled
<1>14. PlanInv'
  BY <1>1, <1>2, <1>5 DEF IInv, PlanInv, GoodPlan, LocalPlan, RemotePlan
<1>15. NoticeInv'
  BY <1>1, <1>2 DEF IInv, NoticeInv
<1>16. OutputInv'
  BY <1>2 DEF IInv, OutputInv
<1> QED
  BY <1>11, <1>12, <1>13, <1>14, <1>15, <1>16 DEF IInv

\* RunFiles: its goroutines begin with nothing known, and their buffers are printed
\* when all of them are over.
LEMMA RunStep ==
  ASSUME IInv, LaunchFiles \/ PrintFiles \/ UNCHANGED vars
  PROVE  IInv'
<1>1. UNCHANGED <<run, probe, noticed, plan, header, latest>>
  BY DEF LaunchFiles, PrintFiles, vars
<1>2. /\ ForcesBackend' = ForcesBackend
      /\ \A g : /\ Home(g)' = Home(g) /\ ImageOf(g)' = ImageOf(g)
                /\ Accepted(files[g])' = Accepted(files[g])
      /\ \A b : Probe(b)' = Probe(b) /\ Confines(b)' = Confines(b)
  BY <1>1, Fixed
<1>3. CommandsStayInTheirBoundary'
  BY <1>1, <1>2 DEF IInv, CommandsStayInTheirBoundary, MeantFor
<1>4. CASE LaunchFiles
  <2>1. /\ phase = "parse" /\ phase' = "run" /\ output' = output
        /\ \A f \in DOMAIN files : Accepted(files[f]) /\ pc'[f] = "resolve" /\ pc[f] = "idle"
        /\ pc' \in [DOMAIN files' -> Places]
    BY <1>1, <1>4 DEF LaunchFiles, Places, IInv, PhaseInv
  <2>2. ShapeInv' /\ PhaseInv'
    BY <1>1, <1>2, <2>1 DEF IInv, ShapeInv, PhaseInv
  <2>3. OnceInv'
    BY <1>1, <1>2, <2>1 DEF IInv, OnceInv, Remaining, Settled
  <2>4. PlanInv'
    BY <1>1, <2>1 DEF IInv, PlanInv
  <2>5. NoticeInv'
    BY <1>1, <2>1 DEF IInv, NoticeInv
  <2>6. OutputInv'
    BY <2>1 DEF IInv, OutputInv
  <2> QED
    BY <1>3, <2>2, <2>3, <2>4, <2>5, <2>6 DEF IInv
<1>5. CASE PrintFiles
  <2>1. /\ phase = "run" /\ phase' \in {"returned", "error"} /\ pc' = pc
        /\ phase' = "returned" => \A f \in DOMAIN files : pc[f] = "returned"
        /\ output' = [f \in Printed |-> header[f]]
    BY <1>5 DEF PrintFiles
  <2>2. ShapeInv' /\ PhaseInv'
    BY <1>1, <1>2, <2>1 DEF IInv, ShapeInv, PhaseInv
  <2>3. OnceInv'
    BY <1>1, <1>2, <2>1 DEF IInv, OnceInv, Remaining, Settled
  <2>4. PlanInv'
    BY <1>1, <1>2, <2>1 DEF IInv, PlanInv, GoodPlan, LocalPlan, RemotePlan
  <2>5. NoticeInv'
    BY <1>1, <2>1 DEF IInv, NoticeInv
  <2>6. OutputInv'
    <3>1. Printed' = Printed
      BY <1>1, <2>1 DEF Printed
    <3> QED
      BY <1>1, <2>1, <3>1 DEF OutputInv
  <2> QED
    BY <1>3, <2>2, <2>3, <2>4, <2>5, <2>6 DEF IInv
<1>6. CASE UNCHANGED vars
  <2>1. UNCHANGED <<phase, pc, output>>
    BY <1>6 DEF vars
  <2>2. ShapeInv' /\ PhaseInv'
    BY <1>1, <1>2, <2>1 DEF IInv, ShapeInv, PhaseInv
  <2>3. OnceInv'
    BY <1>1, <1>2, <2>1 DEF IInv, OnceInv, Remaining, Settled
  <2>4. PlanInv'
    BY <1>1, <1>2, <2>1 DEF IInv, PlanInv, GoodPlan, LocalPlan, RemotePlan
  <2>5. NoticeInv' /\ OutputInv'
    BY <1>1, <2>1 DEF IInv, NoticeInv, OutputInv, Printed
  <2> QED
    BY <1>3, <2>2, <2>3, <2>4, <2>5 DEF IInv
<1> QED
  BY <1>4, <1>5, <1>6

LEMMA InitIInv ==
  ASSUME Init
  PROVE  IInv
<1> USE DEF Init
<1>1. ShapeInv
  BY DEF ShapeInv, Places
<1>2. PhaseInv /\ OnceInv /\ PlanInv /\ OutputInv
  BY DEF PhaseInv, OnceInv, PlanInv, OutputInv
<1>3. NoticeInv
  BY DEF NoticeInv
<1>4. CommandsStayInTheirBoundary
  BY DEF CommandsStayInTheirBoundary
<1> QED
  BY <1>1, <1>2, <1>3, <1>4 DEF IInv

-----------------------------------------------------------------------------
(***************************************************************************)
(* Types.  What a plan or a command's boundary may be follows from the     *)
(* invariant where it is made; after that nothing changes it.              *)
(***************************************************************************)
LEMMA FileNames ==
  ASSUME IInv, NEW f \in DOMAIN files
  PROVE  /\ files[f].network \in BOOLEAN
         /\ files[f].ssh \in Names /\ files[f].image \in Names /\ files[f].tests \subseteq Names
         /\ typed.ssh \in Names /\ typed.image \in Names
<1> DEFINE Entries == [ssh : STRING, tests : SUBSET (STRING \ {""}), network : BOOLEAN, image : STRING]
<1>1. files \in Corpora /\ files \in Seq(Entries) /\ typed \in Typed
  BY ConstantsAssumption DEF IInv, ShapeInv
<1>2. files[f] \in Entries /\ files[f] \in ToSet(files)
  <2> HIDE DEF Entries
  <2> QED
    BY <1>1 DEF ToSet
<1>3. files[f] \in UNION {ToSet(c) : c \in Corpora}
  BY <1>1, <1>2
<1>4. {files[f].ssh, files[f].image} \cup files[f].tests \subseteq Names
  BY <1>3 DEF Names
<1>5. typed.ssh \in {t.ssh : t \in Typed} /\ typed.image \in {t.image : t \in Typed}
  BY <1>1
<1>6. {t.ssh : t \in Typed} \subseteq Names /\ {t.image : t \in Typed} \subseteq Names
  <2> DEFINE InFiles == UNION {{file.ssh, file.image} \cup file.tests :
                                file \in UNION {ToSet(c) : c \in Corpora}}
  <2>1. Names = InFiles \cup {t.ssh : t \in Typed} \cup {t.image : t \in Typed}
    BY DEF Names
  <2> HIDE DEF InFiles
  <2> QED
    BY <2>1
<1> QED
  BY <1>2, <1>4, <1>5, <1>6

LEMMA SshBoundary ==
  ASSUME NEW p, p.ssh # "", p.ssh \in Names
  PROVE  Boundary(p) \in Boundaries
BY DEF Boundary, Boundaries

\* The three plans a file may get.
LEMMA GoodPlanIsTyped ==
  ASSUME IInv, NEW f \in DOMAIN files, NEW p,
         IF Home(f) # "" THEN p = RemotePlan(f)
         ELSE IF typed.mode = "none" THEN p = Nil
         ELSE backend # "" /\ p = LocalPlan(f)
  PROVE  Boundary(p) \in Boundaries
<1>1. CASE Home(f) # ""
  <2>1. p.ssh = Home(f) /\ Home(f) \in Names
    BY <1>1, FileNames, RemoteFields DEF Home, Resolve
  <2> QED
    BY <1>1, <2>1, SshBoundary
<1>2. CASE Home(f) = "" /\ typed.mode = "none"
  <2>1. Boundary(Nil) = [kind |-> "host"]
    BY RemoteFields DEF Boundary
  <2>2. [kind |-> "host"] \in [kind : {"host"}]
    OBVIOUS
  <2>3. [kind : {"host"}] \subseteq Boundaries
    BY Zenon DEF Boundaries
  <2> QED
    BY <1>2, <2>1, <2>2, <2>3
<1>3. CASE Home(f) = "" /\ typed.mode # "none"
  <2>1. p = LocalPlan(f) /\ Settled
    BY <1>3 DEF IInv, OnceInv
  <2>2. backend \in ToSet(Backends) /\ backend # "none" /\ proc \in {"fresh", "shared"}
    BY <2>1, BackendsAre, ProbeConfines DEF Settled
  <2>3. ImageOf(f) \in (Names \ {""}) \cup {DefaultSandboxImage} /\ files[f].network \in BOOLEAN
    BY FileNames DEF ImageOf
  <2>4. Boundary(p) =
          [kind |-> backend, proc |-> proc, network |-> files[f].network, image |-> ImageOf(f)]
    BY <2>1, <2>2, LocalFields DEF Boundary
  <2> DEFINE Kinds  == ToSet(Backends)
             Images == (Names \ {""}) \cup {DefaultSandboxImage}
             Sealed == [kind : Kinds, proc : {"fresh", "shared"}, network : BOOLEAN, image : Images]
  <2>5. Boundary(p) \in Sealed
    <3> HIDE DEF Kinds, Images
    <3>1. backend \in Kinds /\ ImageOf(f) \in Images
      BY <2>2, <2>3 DEF Kinds, Images
    <3>2. proc \in {"fresh", "shared"} /\ files[f].network \in BOOLEAN
      BY <2>2, <2>3
    <3>3. \A k \in Kinds, q \in {"fresh", "shared"}, n \in BOOLEAN, i \in Images :
            [kind |-> k, proc |-> q, network |-> n, image |-> i] \in Sealed
      OBVIOUS
    <3> HIDE DEF Sealed
    <3> QED
      BY <2>4, <3>1, <3>2, <3>3, Zenon
  <2>6. Sealed \subseteq Boundaries
    BY Zenon DEF Boundaries
  <2> QED
    BY <2>5, <2>6
<1> QED
  BY <1>1, <1>2, <1>3

\* A command has the boundary of its file's plan, or a target of its own.
LEMMA TestPlanIsTyped ==
  ASSUME IInv, NEW f \in DOMAIN files, pc[f] = "commands", NEW target \in files[f].tests \cup {""}
  PROVE  Boundary(TestPlan(f, target)) \in Boundaries
<1>1. GoodPlan(f)
  BY DEF IInv, PlanInv
<1>2. CASE Home(f) = "" \/ target = ""
  BY <1>1, <1>2, GoodPlanIsTyped DEF TestPlan, GoodPlan
<1>3. CASE Home(f) # "" /\ target # ""
  <2>1. TestPlan(f, target) = [RemotePlan(f) EXCEPT !.ssh = Resolve(target)]
    BY <1>1, <1>3 DEF TestPlan, GoodPlan
  <2>2. Resolve(target) # "" /\ Resolve(target) \in Names
    BY <1>3, FileNames DEF Resolve
  <2> QED
    BY <2>1, <2>2, MovedPlan, SshBoundary
<1> QED
  BY <1>2, <1>3

PlansTyped ==
  /\ \A f \in DOMAIN files : plan[f] = Nil \/ Boundary(plan[f]) \in Boundaries
  /\ latest = NoCommand \/ latest.boundary \in Boundaries

\* Nothing is left to probe unless somebody is probing.
ProbedOut == once # "probing" => candidates = <<>>

LEMMA ProbedOutStep ==
  ASSUME IInv, ProbedOut, [Next]_vars
  PROVE  ProbedOut'
<1> USE DEF ProbedOut
<1>1. CASE UNCHANGED <<once, candidates>>
  BY <1>1
<1>2. ASSUME NEW f \in DOMAIN files, ProbeFails(f), Len(candidates) = 1
      PROVE  candidates' = <<>>
  <2>1. Remaining
    BY <1>2 DEF ProbeFails, IInv, OnceInv
  <2>2. candidates = <<typed.mode>> \/ candidates = <<"docker">>
    BY <1>2, <2>1 DEF Remaining
  <2>3. \A x : Tail(<<x>>) = <<>>
    <3>1. ASSUME NEW x PROVE Tail(<<x>>) = <<>>
      <4>1. <<x>> \in Seq({x}) /\ Len(<<x>>) = 1
        OBVIOUS
      <4>2. Len(Tail(<<x>>)) = 0 /\ Tail(<<x>>) \in Seq({x})
        BY <4>1
      <4> QED
        BY <4>2
    <3> QED
      BY <3>1
  <2>4. candidates' = Tail(candidates)
    BY <1>2 DEF ProbeFails
  <2> QED
    BY <2>2, <2>3, <2>4
<1>3. ASSUME NEW f \in DOMAIN files, AskBackend(f) \/ ProbeFails(f) \/ ProbeSucceeds(f)
      PROVE  ProbedOut'
  <2>1. CASE ProbeFails(f) /\ Len(candidates) = 1
    BY <1>2, <2>1
  <2>2. CASE ProbeFails(f) /\ Len(candidates) # 1
    <3>1. once = "probing" /\ once' = once
      BY <2>2 DEF ProbeFails, IInv, OnceInv
    <3> QED
      BY <3>1
  <2> QED
    BY <1>3, <2>1, <2>2 DEF AskBackend, ProbeSucceeds
<1>4. ASSUME NEW f \in DOMAIN files, FileStep(f) PROVE ProbedOut'
  BY <1>1, <1>3, <1>4
     DEF FileStep, OpenFile, RefusePair, PlanRemote, PlanHost, PlanSandboxed, BackendError,
         AnnounceWithNotice, AnnounceOnly, Announce, RunCommand, FileFails, FileReturns
<1> QED
  BY <1>1, <1>4 DEF Next, LaunchFiles, PrintFiles, vars

LEMMA PlansStep ==
  ASSUME IInv, PlansTyped, [Next]_vars
  PROVE  PlansTyped'
<1> USE DEF PlansTyped
<1>1. CASE UNCHANGED <<files, plan, latest>>
  BY <1>1 DEF Boundary
<1>2. ASSUME NEW f \in DOMAIN files, FileStep(f) PROVE PlansTyped'
  <2>1. /\ UNCHANGED run
        /\ \A g \in DOMAIN files : g # f => pc'[g] = pc[g]
    BY <1>2, FileMoves DEF IInv
  <2>2. CASE PlanRemote(f) \/ PlanHost(f) \/ PlanSandboxed(f)
    <3>1. /\ latest' = latest /\ pc'[f] = "planned"
          /\ \A g \in DOMAIN files : g # f => plan'[g] = plan[g]
      BY <2>2 DEF PlanRemote, PlanHost, PlanSandboxed, Move, IInv, ShapeInv
    <3>2. pc[f] = "plan" => plan[f] = Nil
      BY DEF IInv, PlanInv
    <3>3. IF Home(f) # "" THEN plan'[f] = RemotePlan(f)
          ELSE IF typed.mode = "none" THEN plan'[f] = Nil
          ELSE backend # "" /\ plan'[f] = LocalPlan(f)
      BY <2>2, <3>2 DEF PlanRemote, PlanHost, PlanSandboxed, Move, RemotePlan, LocalPlan, IInv, ShapeInv
    <3>4. Boundary(plan'[f]) \in Boundaries
      BY <3>3, GoodPlanIsTyped
    <3> QED
      BY <2>1, <3>1, <3>4 DEF Boundary
  <2>3. CASE RunCommand(f)
    <3>1. PICK target \in files[f].tests \cup {""} :
            latest' = [file |-> f, target |-> target, boundary |-> Boundary(TestPlan(f, target))]
      BY <2>3 DEF RunCommand
    <3>2. plan' = plan /\ pc[f] = "commands"
      BY <2>3 DEF RunCommand, Move
    <3> QED
      BY <2>1, <3>1, <3>2, TestPlanIsTyped DEF Boundary
  <2>4. CASE UNCHANGED <<plan, latest>>
    BY <1>1, <2>1, <2>4
  <2> QED
    BY <1>2, <2>2, <2>3, <2>4
       DEF FileStep, OpenFile, RefusePair, AskBackend, ProbeFails, ProbeSucceeds, BackendError,
           AnnounceWithNotice, AnnounceOnly, Announce, FileFails, FileReturns
<1>3. CASE LaunchFiles \/ PrintFiles \/ UNCHANGED vars
  BY <1>1, <1>3 DEF LaunchFiles, PrintFiles, vars
<1> QED
  BY <1>2, <1>3 DEF Next

-----------------------------------------------------------------------------
(***************************************************************************)
(* The theorems.                                                           *)
(***************************************************************************)

\* The invariant holds in every reachable state of RunFiles, SandboxConfig and
\* newSandboxPlan.
THEOREM Invariance == Spec => []IInv
<1>1. IInv /\ [Next]_vars => IInv'
  BY OpenStep, PlanStep, ProbeStep, AnnounceStep, CommandStep, RunStep DEF Next, FileStep
<1>2. Init => IInv
  BY InitIInv
<1> QED
  BY <1>1, <1>2, PTL DEF Spec

\* Every command of a run executes on the host it was meant for; on this machine
\* without a sandbox only if the operator opted out, and else in the backend typed or
\* the first one that confines it.
THEOREM CommandsStay == Spec => []CommandsStayInTheirBoundary
<1>1. IInv => CommandsStayInTheirBoundary
  BY DEF IInv
<1> QED
  BY <1>1, Invariance, PTL

\* TakeProcNotice: the output of a run that returns explains a shared /proc if any of
\* its files has one, and never twice.
THEOREM SharedProcExplained == Spec => []SharedProcIsExplainedOnce
<1>1. IInv => SharedProcIsExplainedOnce
  <2> SUFFICES ASSUME IInv PROVE SharedProcIsExplainedOnce
    OBVIOUS
  <2>1. /\ DOMAIN output \subseteq DOMAIN files
        /\ \A f \in DOMAIN output : output[f] = header[f]
    <3>1. CASE phase \in {"parse", "run"}
      <4>1. DOMAIN output = {}
        BY <3>1 DEF IInv, OutputInv
      <4> QED
        BY <4>1
    <3>2. CASE phase \notin {"parse", "run"}
      BY <3>2 DEF IInv, OutputInv, Printed
    <3> QED
      BY <3>1, <3>2
  <2>2. \A f, g \in DOMAIN output : output[f] = "explained" /\ output[g] = "explained" => f = g
    BY <2>1 DEF IInv, NoticeInv
  <2>3. ASSUME phase = "returned", NEW f \in DOMAIN files, plan[f].proc = "shared"
        PROVE  \E g \in DOMAIN output : output[g] = "explained"
    <3>1. \A g \in DOMAIN files : pc[g] = "returned"
      BY <2>3 DEF IInv, OutputInv
    <3>2. DOMAIN output = DOMAIN files
      <4>1. DOMAIN output = Printed
        BY <2>3 DEF IInv, OutputInv
      <4>2. \A g \in DOMAIN files : 1 .. (g - 1) \subseteq DOMAIN files
        BY FilesShape
      <4> QED
        BY <3>1, <4>1, <4>2 DEF Printed
    <3>3. noticed
      BY <2>3, <3>1 DEF IInv, NoticeInv
    <3> QED
      BY <2>1, <3>2, <3>3 DEF IInv, NoticeInv
  <2> QED
    BY <2>2, <2>3 DEF SharedProcIsExplainedOnce
<1> QED
  BY <1>1, Invariance, PTL

\* What is stored is of its type: the backends still to probe are some of those there
\* are, a /proc is shared under bwrap only, and whatever a file or an operator wrote,
\* a plan and a command have one of the boundaries that sandboxPlan.command knows.
THEOREM TypeCorrect == Spec => []TypeOK
<1>1. Init => PlansTyped /\ ProbedOut
  BY DEF Init, PlansTyped, ProbedOut
<1>2. IInv /\ (PlansTyped /\ ProbedOut) /\ [Next]_vars => (PlansTyped /\ ProbedOut)'
  BY PlansStep, ProbedOutStep
<1>3. IInv /\ PlansTyped /\ ProbedOut => TypeOK
  <2> SUFFICES ASSUME IInv, PlansTyped, ProbedOut PROVE TypeOK
    OBVIOUS
  <2>1. ShapeInv /\ OnceInv /\ OutputInv
    BY DEF IInv
  <2>2. backend \in {""} \cup ToSet(Backends)
    BY <2>1 DEF OnceInv, Settled
  <2>3. proc \in {"fresh", "shared"} /\ (proc = "shared" => backend = "bwrap")
    BY <2>1, ProbeConfines DEF OnceInv, Settled
  <2>4. DOMAIN output \subseteq DOMAIN files
    <3>1. CASE phase \in {"parse", "run"}
      BY <2>1, <3>1 DEF OutputInv
    <3>2. CASE phase \notin {"parse", "run"}
      BY <2>1, <3>2 DEF OutputInv, Printed
    <3> QED
      BY <3>1, <3>2
  <2>5. Len(candidates) <= Len(Backends)
    <3>1. CASE once = "probing"
      <4>1. \/ candidates = <<typed.mode>> \/ candidates = <<"docker">>
            \/ candidates = <<"bwrap", "seatbelt", "docker">>
            \/ candidates = <<"seatbelt", "docker">>
        BY <2>1, <3>1 DEF OnceInv, Remaining
      <4>2. Len(candidates) \in {1, 2, 3}
        BY <4>1
      <4>3. Len(Backends) = 3
        BY BackendsAre
      <4>4. \A n \in {1, 2, 3} : n <= 3
        OBVIOUS
      <4> QED
        BY <4>2, <4>3, <4>4, Zenon
    <3>2. CASE once # "probing"
      BY <3>2, BackendsAre DEF ProbedOut
    <3> QED
      BY <3>1, <3>2
  <2> QED
    BY <2>1, <2>2, <2>3, <2>4, <2>5 DEF TypeOK, PlansTyped, ShapeInv, OnceInv, Places
<1> QED
  BY <1>1, <1>2, <1>3, Invariance, PTL DEF Spec

=================================================================================
