------------------------------ MODULE SshRemote ------------------------------
(***************************************************************************)
(* Remote runs: which host each command of a run reaches, over which       *)
(* connection and in which directory.  runner/ssh_manager.go (one          *)
(* connection per host and run), ssh_transport.go (Connect once, AllocBase,*)
(* RemoveBase, Push), ssh_scope.go (per-test overrides) and the ssh part   *)
(* of runFile and RunTest.                                                 *)
(*                                                                         *)
(* The order of hooks and tests and the slots are DatsRunner's: here the   *)
(* instances of a file run at any time while the file is open.  Approvals  *)
(* are SshTrust's: here they are a relation that does not change.          *)
(***************************************************************************)
EXTENDS Naturals, Sequences

CONSTANTS
  NumFiles,
  Hosts,
  FileTarget,   (* FileTarget[f]: the file's ssh key                        *)
  Override      (* Override[f]: the ssh key of each instance, or NoHost     *)

NoHost == "none"
Files  == 1 .. NumFiles

\* What can ask for a connection and claim a directory: the file, as <<f, 0>>,
\* and its instances.
Instances   == UNION {{<<f, i>> : i \in 1 .. Len(Override[f])} : f \in Files}
Claimants   == {<<f, 0>> : f \in Files} \cup Instances
InstancesOf(f) == {c \in Instances : c[1] = f}

ASSUME ConstantsAssumption ==
  /\ NumFiles \in Nat
  /\ NoHost \notin Hosts
  /\ FileTarget \in [Files -> Hosts]
  /\ \A f \in Files : Override[f] \in Seq(Hosts \cup {NoHost})

VARIABLES
  typed,      (* --ssh, or NoHost                                           *)
  approved,   (* approved pairs of file and host                            *)
  keepTemp,   (* --keep-temp                                                *)
  run,        (* Run, and the deferred SSHManager.Close                     *)
  known,      (* hosts in the manager's map                                 *)
  conn,       (* each host's sync.Once, and what it remembered              *)
  master,     (* each host's ControlMaster process                          *)
  at,         (* where each claimant is                                     *)
  mutex,      (* altMu of each file: who holds it                           *)
  home,       (* r.ssh of each file                                         *)
  scopes,     (* altScopes: for each file and target, host and base         *)
  bases,      (* directories on the hosts, by host and claimant             *)
  abandoned,  (* history: those a removal failed for, or whose path was lost *)
  usedBase    (* history: the directory each instance ran in                *)

options == <<typed, approved, keepTemp>>
network == <<known, conn, master>>
disks   == <<bases, abandoned>>
vars == <<options, run, network, at, mutex, home, scopes, disks, usedBase>>

NoBase == <<NoHost, <<0, 0>>>>
Free   == <<0, 0>>

Init ==
  /\ typed \in Hosts \cup {NoHost}
  /\ approved \in SUBSET (Files \X Hosts)
  /\ keepTemp \in BOOLEAN
  /\ run = "open"
  /\ known = {}
  /\ conn = [h \in Hosts |-> "new"]
  /\ master = [h \in Hosts |-> "none"]
  /\ at = [c \in Claimants |-> IF c[2] = 0 THEN "resolve" ELSE "idle"]
  /\ mutex = [f \in Files |-> Free]
  /\ home = [f \in Files |-> NoHost]
  /\ scopes = [f \in Files |-> [h \in Hosts |-> NoBase]]
  /\ bases = {}
  /\ abandoned = {}
  /\ usedBase = [c \in Instances |-> NoBase]

Goto(c, place) == at' = [at EXCEPT ![c] = place]

\* The ssh key a claimant asks for, and the host it is given.
Target(c) == IF c[2] = 0 THEN FileTarget[c[1]] ELSE Override[c[1]][c[2]]
HostFor(c) == IF typed # NoHost THEN typed ELSE Target(c)

HomeBase(f) == <<home[f], <<f, 0>>>>

-----------------------------------------------------------------------------
(***************************************************************************)
(* SSHManager.                                                             *)
(***************************************************************************)

\* Defect: a host the run knows already needs no approval.
GrantedOnce(c) == typed # NoHost \/ Target(c) \in known \/ <<c[1], Target(c)>> \in approved

\* Resolve: the typed target needs no approval, a file's own does.
Granted(c) == typed # NoHost \/ <<c[1], Target(c)>> \in approved

Resolve(c) ==
  /\ at[c] = "resolve"
  /\ Granted(c)
  /\ known' = known \cup {HostFor(c)}
  /\ home' = IF c[2] = 0 THEN [home EXCEPT ![c[1]] = HostFor(c)] ELSE home
  /\ Goto(c, "connect")
  /\ UNCHANGED <<options, run, conn, master, mutex, scopes, disks, usedBase>>

\* Connect: the first caller dials, the others wait for what it finds.
Dial(c) ==
  /\ at[c] = "connect"
  /\ conn[HostFor(c)] = "new"
  /\ conn' = [conn EXCEPT ![HostFor(c)] = "dialing"]
  /\ Goto(c, "dialing")
  /\ UNCHANGED <<options, run, known, master, mutex, home, scopes, disks, usedBase>>

\* No master; a master whose remote shell fails the probe, which is left to Close;
\* a usable connection.
DialEnds(c) ==
  /\ at[c] = "dialing"
  /\ \E r \in {<<"failed", "none">>, <<"failed", "up">>, <<"up", "up">>} :
       /\ conn' = [conn EXCEPT ![HostFor(c)] = r[1]]
       /\ master' = [master EXCEPT ![HostFor(c)] = r[2]]
  /\ Goto(c, "connect")
  /\ UNCHANGED <<options, run, known, mutex, home, scopes, disks, usedBase>>

ConnectReturns(c) ==
  /\ at[c] = "connect"
  /\ conn[HostFor(c)] = "up"
  /\ Goto(c, "alloc")
  /\ UNCHANGED <<options, run, network, mutex, home, scopes, disks, usedBase>>

\* Defect: an empty answer of the remote mktemp is taken for a directory.
AllocBaseUnchecked(c) ==
  /\ at[c] = "alloc"
  /\ \E b \in {<<HostFor(c), c>>, NoBase} : bases' = bases \cup {b}
  /\ Goto(c, IF c[2] = 0 THEN "open" ELSE "push")
  /\ UNCHANGED <<options, run, network, mutex, home, scopes, abandoned, usedBase>>

\* mktemp -d on the host; an empty answer is an error.
AllocBase(c) ==
  /\ at[c] = "alloc"
  /\ bases' = bases \cup {<<HostFor(c), c>>}
  /\ Goto(c, IF c[2] = 0 THEN "open" ELSE "push")
  /\ UNCHANGED <<options, run, network, mutex, home, scopes, abandoned, usedBase>>

\* Connect or mktemp fails, or ssh does after the remote mktemp has made a directory,
\* whose path nobody learns then.
ClaimFails(c) ==
  \/ /\ \/ at[c] = "resolve" /\ ~Granted(c)
        \/ at[c] = "connect" /\ conn[HostFor(c)] = "failed"
        \/ at[c] = "alloc"
     /\ UNCHANGED disks
  \/ /\ at[c] = "alloc"
     /\ bases' = bases \cup {<<HostFor(c), c>>}
     /\ abandoned' = abandoned \cup {<<HostFor(c), c>>}

\* RemoveBase of each of them: rm over ssh, within probeTimeout.  It is best effort,
\* so any may stay; only with a connection was it an effort.
RemoveBases(claimed) ==
  \E left \in SUBSET (claimed \cap bases) :
    /\ bases' = bases \ (claimed \ left)
    /\ abandoned' = abandoned \cup {b \in left : master[b[1]] = "up"}

(***************************************************************************)
(* runFile.  A refused or failed claim ends the file with an error; the    *)
(* deferred calls of a file that was open remove what it claimed.          *)
(***************************************************************************)
OpenFails(f) ==
  /\ ClaimFails(<<f, 0>>)
  /\ Goto(<<f, 0>>, "exited")
  /\ UNCHANGED <<options, run, network, mutex, home, scopes, usedBase>>

\* Defect: the tests are not awaited.
NoneRunning(f) == TRUE

\* Every test has returned, or none was started since setup failed.
TestsOver(f) ==
  \/ \A c \in InstancesOf(f) : at[c] = "done"
  \/ \A c \in InstancesOf(f) : at[c] = "idle"

\* Deferred calls run last in, first out: RemoveBase, then closeAltScopes.
CloseFile(f) ==
  /\ at[<<f, 0>>] = "open"
  /\ TestsOver(f)
  /\ IF keepTemp THEN UNCHANGED disks
                 ELSE RemoveBases({HomeBase(f)} \cup {scopes[f][h] : h \in Hosts})
  /\ scopes' = [scopes EXCEPT ![f] = [h \in Hosts |-> NoBase]]
  /\ Goto(<<f, 0>>, "exited")
  /\ UNCHANGED <<options, run, network, mutex, home, usedBase>>

(***************************************************************************)
(* RunTest: scopeFor, the push of the fixtures, the command, the pull.     *)
(***************************************************************************)
OnHome(c) == Target(c) \in {NoHost, home[c[1]]}

StartInstance(c) ==
  /\ at[c] = "idle"
  /\ at[<<c[1], 0>>] = "open"
  /\ Goto(c, IF OnHome(c) THEN "scoped" ELSE "lock")
  /\ UNCHANGED <<options, run, network, mutex, home, scopes, disks, usedBase>>

\* Defect: altScope takes no lock.
CanLockAlways(c) == TRUE

CanLock(c) == mutex[c[1]] = Free

\* altScope holds altMu until it returns; a scope it built before is returned.
LockScopes(c) ==
  /\ at[c] = "lock"
  /\ CanLock(c)
  /\ IF scopes[c[1]][Target(c)] # NoBase
       THEN Goto(c, "scoped") /\ UNCHANGED mutex
       ELSE Goto(c, "resolve") /\ mutex' = [mutex EXCEPT ![c[1]] = c]
  /\ UNCHANGED <<options, run, network, home, scopes, disks, usedBase>>

Unlock(c) == mutex' = [mutex EXCEPT ![c[1]] = Free]

\* shared/ is mirrored once per scope.
PushShared(c) ==
  /\ at[c] = "push"
  /\ scopes' = [scopes EXCEPT ![c[1]][Target(c)] = <<HostFor(c), c>>]
  /\ Unlock(c)
  /\ Goto(c, "scoped")
  /\ UNCHANGED <<options, run, network, home, disks, usedBase>>

\* Defect: the directory is left behind.
PushSharedFailsLeaving(c) ==
  /\ at[c] = "push"
  /\ Unlock(c)
  /\ Goto(c, "done")
  /\ UNCHANGED <<options, run, network, home, scopes, disks, usedBase>>

PushSharedFails(c) ==
  /\ at[c] = "push"
  /\ RemoveBases({<<HostFor(c), c>>})
  /\ Unlock(c)
  /\ Goto(c, "done")
  /\ UNCHANGED <<options, run, network, home, scopes, usedBase>>

\* Defect: an error returns without unlocking.
ScopeFailsLocked(c) ==
  /\ ClaimFails(c)
  /\ Goto(c, "done")
  /\ UNCHANGED <<options, run, network, mutex, home, scopes, usedBase>>

\* The test fails and nothing is remembered: the next one tries again.
ScopeFails(c) ==
  /\ ClaimFails(c)
  /\ Unlock(c)
  /\ Goto(c, "done")
  /\ UNCHANGED <<options, run, network, home, scopes, usedBase>>

BaseOf(c) == IF OnHome(c) THEN HomeBase(c[1]) ELSE scopes[c[1]][Target(c)]

Execute(c) ==
  /\ at[c] = "scoped"
  /\ usedBase' = [usedBase EXCEPT ![c] = BaseOf(c)]
  /\ Goto(c, "executing")
  /\ UNCHANGED <<options, run, network, mutex, home, scopes, disks>>

\* The directory applySnapshot takes for the one the output speaks of.
SnapshotBase(c) == HomeBase(c[1])

EndInstance(c) ==
  /\ at[c] = "executing"
  /\ Goto(c, "done")
  /\ UNCHANGED <<options, run, network, mutex, home, scopes, disks, usedBase>>

(***************************************************************************)
(* SSHManager.Close, deferred by Run.                                      *)
(***************************************************************************)

\* Defect: only the connections that were usable are closed.
StoppedByCloseUsable(h) == conn[h] = "up"

StoppedByClose(h) == h \in known

Close ==
  /\ run = "open"
  /\ \A f \in Files : at[<<f, 0>>] = "exited"
  /\ run' = "closed"
  /\ master' = [h \in Hosts |-> IF StoppedByClose(h) THEN "none" ELSE master[h]]
  /\ known' = {}
  /\ UNCHANGED <<options, conn, at, mutex, home, scopes, disks, usedBase>>

Closed == run = "closed" /\ UNCHANGED vars

-----------------------------------------------------------------------------
ClaimStep(c) ==
  Resolve(c) \/ Dial(c) \/ DialEnds(c) \/ ConnectReturns(c) \/ AllocBase(c)
FileStep(f) == ClaimStep(<<f, 0>>) \/ OpenFails(f) \/ CloseFile(f)
InstanceStep(c) ==
  \/ ClaimStep(c) \/ StartInstance(c) \/ LockScopes(c) \/ PushShared(c)
  \/ PushSharedFails(c) \/ ScopeFails(c) \/ Execute(c) \/ EndInstance(c)

Next ==
  \/ \E f \in Files : FileStep(f)
  \/ \E c \in Instances : InstanceStep(c)
  \/ Close
  \/ Closed

\* Goroutines are scheduled, ssh's own timeouts bound every dial and transfer, and
\* commands end.
Spec ==
  /\ Init /\ [][Next]_vars
  /\ \A f \in Files : WF_vars(FileStep(f))
  /\ \A c \in Instances : WF_vars(InstanceStep(c))
  /\ WF_vars(Close)

-----------------------------------------------------------------------------
(***************************************************************************)
(* Properties.                                                             *)
(***************************************************************************)
PossibleBases == (Hosts \X Claimants) \cup {NoBase}

\* Every variable ranges over what the code can store in it.
TypeOK ==
  /\ typed \in Hosts \cup {NoHost}
  /\ approved \subseteq Files \X Hosts
  /\ keepTemp \in BOOLEAN
  /\ run \in {"open", "closed"}
  /\ known \subseteq Hosts
  /\ conn \in [Hosts -> {"new", "dialing", "up", "failed"}]
  /\ master \in [Hosts -> {"none", "up"}]
  /\ at \in [Claimants -> {"resolve", "connect", "dialing", "alloc", "open", "exited",
                           "idle", "lock", "push", "scoped", "executing", "done"}]
  /\ mutex \in [Files -> Instances \cup {Free}]
  /\ home \in [Files -> Hosts \cup {NoHost}]
  /\ scopes \in [Files -> [Hosts -> PossibleBases]]
  /\ bases \subseteq Hosts \X Claimants
  /\ abandoned \subseteq Hosts \X Claimants
  /\ usedBase \in [Instances -> PossibleBases]

\* No directory is forgotten: wherever the tests of a file went and at whatever point
\* it failed, what it leaves behind on a host when it is over was asked to be removed
\* over a connection and the host did not, or nobody ever learned its path.
NoBaseForgotten ==
  ~keepTemp =>
    \A b \in bases : at[<<b[2][1], 0>>] = "exited" => b \in abandoned

\* A command runs over a live connection and in a directory that exists; none is
\* removed or closed under it by its file or by another one sharing the host.
RunsInALiveBase ==
  \A c \in Instances :
    at[c] = "executing" => usedBase[c] \in bases /\ master[usedBase[c][1]] = "up"

\* Tests of a file that override to the same host share one directory and one
\* mirror of shared/ there.
OneScopePerTarget ==
  \A c, d \in Instances :
    /\ c[1] = d[1] /\ Target(c) = Target(d)
    /\ usedBase[c] # NoBase /\ usedBase[d] # NoBase
    => usedBase[c] = usedBase[d]

\* A directory is claimed on a host only for a file that was approved for that
\* host, or on the host the operator typed; another file's approval, or its open
\* connection, does not count.
EveryHostWasGranted ==
  \A b \in bases :
    IF typed # NoHost THEN b[1] = typed ELSE <<b[2][1], b[1]>> \in approved

\* When the run is over no ssh process of it is left, those of hosts that turned
\* out unusable included.
MastersStopped == run = "closed" => \A h \in Hosts : master[h] = "none"

\* The lock around a dial and the once in it never make the goroutines of a run
\* wait for one another for ever.
RunCloses == <>(run = "closed")

\* docs/cli.md:196, "remote paths normalize to the same {testdir}/{shareddir}/
\* {tmproot} tokens", so that goldens are the same wherever a test ran: the
\* directory replaced by tokens is the one the command ran in.
NormalizedPaths ==
  \A c \in Instances : at[c] = "executing" => usedBase[c] = SnapshotBase(c)
=============================================================================
