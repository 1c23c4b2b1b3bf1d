---------------------------- MODULE SshRemote_proofs ----------------------------
(***************************************************************************)
(* Theorems about SshRemote, for any number of files, hosts and overriding *)
(* tests: which directories a run claims and on whose approval, that they  *)
(* are alive while a command is in them, that the tests of a file share    *)
(* one per host, and that nothing is left behind.                          *)
(***************************************************************************)
EXTENDS SshRemote, TLAPS

-----------------------------------------------------------------------------
(***************************************************************************)
(* The inductive invariant.                                                *)
(***************************************************************************)

\* Where a claimant is between Resolve and its directory, and where altScope is
\* while it holds altMu.
Claiming == {"connect", "dialing", "alloc"}
Building == {"resolve", "connect", "dialing", "alloc", "push"}

\* A file's goroutine and an instance's have places of their own, and an instance
\* is under way only while its file is open.
PlaceInv ==
  /\ \A f \in Files : at[<<f, 0>>] \in {"resolve", "open", "exited"} \cup Claiming
  /\ \A c \in Instances :
       /\ at[c] \in {"idle", "lock", "scoped", "executing", "done"} \cup Building
       /\ at[c] \notin {"idle", "done"} => at[<<c[1], 0>>] = "open"
       /\ at[c] = "done" => at[<<c[1], 0>>] \in {"open", "exited"}

\* What has been granted to whom, and what a claimant past the dial knows of its
\* connection.
ClaimInv ==
  /\ \A c \in Claimants :
       /\ at[c] \in Claiming \cup {"push", "open"} => Granted(c) /\ HostFor(c) \in known
       /\ at[c] \in {"alloc", "push", "open"} => conn[HostFor(c)] = "up"
       /\ at[c] = "dialing" => conn[HostFor(c)] = "dialing"
  /\ \A f \in Files :
       at[<<f, 0>>] \in Claiming \cup {"open"} => home[f] = HostFor(<<f, 0>>)

\* Each host is dialled by one goroutine.
DialInv ==
  \A c, d \in Claimants :
    at[c] = "dialing" /\ at[d] = "dialing" /\ HostFor(c) = HostFor(d) => c = d

\* altMu is held by the instance that builds a scope, which has none yet.
LockInv ==
  \A c \in Instances :
    /\ at[c] \in Building => /\ mutex[c[1]] = c
                             /\ scopes[c[1]][Target(c)] = NoBase
    /\ at[c] \in Building \cup {"lock"} => ~OnHome(c)

\* While the run is open a usable connection has its master, and every master is
\* in the manager's map; after it there is none, and nobody to start one.
MasterInv ==
  /\ run = "open" => \A h \in Hosts : /\ conn[h] = "up" => master[h] = "up"
                                      /\ master[h] = "up" => h \in known
  /\ run = "closed" => /\ \A h \in Hosts : master[h] = "none"
                       /\ \A f \in Files : at[<<f, 0>>] = "exited"

\* Whose a directory is: the open file's, an instance's that is mirroring shared/
\* into it, or a scope's.
Claimed(b) ==
  IF b[2][2] = 0 THEN at[b[2]] = "open"
  ELSE at[b[2]] = "push" \/ scopes[b[2][1]][Target(b[2])] = b

BaseInv ==
  /\ \A b \in bases :
       /\ b[1] = HostFor(b[2]) /\ Target(b[2]) \in Hosts
       /\ Granted(b[2]) /\ conn[b[1]] = "up"
       /\ ~keepTemp => Claimed(b) \/ b \in abandoned
  /\ \A f \in Files : at[<<f, 0>>] = "open" => HomeBase(f) \in bases
  /\ \A c \in Instances : at[c] = "push" => <<HostFor(c), c>> \in bases

\* A scope of an open file is a directory one of its own instances made.
Built(f, h) ==
  \E d \in Instances : /\ d[1] = f /\ Target(d) = h
                       /\ scopes[f][h] = <<HostFor(d), d>>
                       /\ at[d] \in {"scoped", "executing", "done"}

ScopeInv ==
  /\ \A f \in Files, h \in Hosts : scopes[f][h] # NoBase =>
       at[<<f, 0>>] = "open" /\ scopes[f][h] \in bases /\ Built(f, h)
  /\ \A c \in Instances : at[c] = "scoped" => BaseOf(c) # NoBase

\* An instance ran where its scope is, for as long as the file remembers it.
UsedInv ==
  /\ \A c \in Instances :
       /\ usedBase[c] # NoBase => at[c] \in {"executing", "done"}
       /\ at[c] = "executing" => usedBase[c] # NoBase
       /\ usedBase[c] # NoBase /\ at[<<c[1], 0>>] = "open" => usedBase[c] = BaseOf(c)
  /\ OneScopePerTarget

IInv ==
  /\ TypeOK /\ PlaceInv /\ ClaimInv /\ DialInv /\ LockInv
  /\ MasterInv /\ BaseInv /\ ScopeInv /\ UsedInv

-----------------------------------------------------------------------------
(***************************************************************************)
(* Shapes, and what no step changes.                                       *)
(***************************************************************************)
USE DEF options, network, disks

\* A claimant is a file, with index 0, or an instance, with its own.
LEMMA ClaimantShape ==
  /\ \A c \in Claimants : /\ c[1] \in Files /\ c[2] \in Nat /\ c = <<c[1], c[2]>>
                          /\ c \in Instances <=> c[2] # 0
  /\ \A c \in Instances : c \in Claimants
  /\ \A f \in Files : <<f, 0>> \in Claimants
  /\ Free \notin Claimants
BY ConstantsAssumption DEF Claimants, Instances, Files, Free

\* A directory some claimant made is not the absent one.
LEMMA BaseShape == \A h, c : c \in Claimants => <<h, c>> # NoBase
BY ClaimantShape DEF NoBase, Free

\* What a claimant can ask for, and the host it is given.
LEMMA TargetType ==
  /\ \A c \in Instances : Target(c) \in Hosts \cup {NoHost}
  /\ \A f \in Files : Target(<<f, 0>>) \in Hosts
<1>1. ASSUME NEW c \in Instances PROVE Target(c) \in Hosts \cup {NoHost}
  <2>1. c[1] \in Files /\ c[2] # 0 /\ c[2] \in 1 .. Len(Override[c[1]])
    BY ConstantsAssumption DEF Instances
  <2>2. Override[c[1]] \in Seq(Hosts \cup {NoHost})
    BY <2>1, ConstantsAssumption
  <2> QED
    BY <2>1, <2>2 DEF Target
<1> QED
  BY <1>1, ConstantsAssumption DEF Target

\* A claimant that has anything to do with a connection names a host.
LEMMA HostType ==
  ASSUME TypeOK, LockInv, NEW c \in Claimants,
         c[2] = 0 \/ at[c] \in Building \cup {"lock"}
  PROVE  HostFor(c) \in Hosts /\ Target(c) \in Hosts
<1>1. Target(c) \in Hosts
  <2>1. CASE c[2] = 0
    BY <2>1, ClaimantShape, TargetType
  <2>2. CASE c[2] # 0
    <3>1. c \in Instances
      BY <2>2, ClaimantShape
    <3>2. Target(c) # NoHost
      BY <2>2, <3>1 DEF LockInv, OnHome
    <3> QED
      BY <3>1, <3>2, TargetType
  <2> QED
    BY <2>1, <2>2
<1> QED
  BY <1>1 DEF TypeOK, HostFor

\* A claim fails before the claimant has a directory.
LEMMA FailsFrom == \A c : ClaimFails(c) => at[c] \in {"resolve", "connect", "alloc"}
BY DEF ClaimFails

\* It moves nothing but the directories: the one mktemp may have made
\* is on the host it was given.
LEMMA ClaimFailure ==
  ASSUME TypeOK, LockInv, NEW c \in Claimants, ClaimFails(c)
  PROVE  /\ at[c] \in {"resolve", "connect", "alloc"}
         /\ HostFor(c) \in Hosts /\ Target(c) \in Hosts
         /\ \/ UNCHANGED disks
            \/ /\ at[c] = "alloc"
               /\ bases' = bases \cup {<<HostFor(c), c>>}
               /\ abandoned' = abandoned \cup {<<HostFor(c), c>>}
<1>1. at[c] \in {"resolve", "connect", "alloc"}
  BY FailsFrom
<1> QED
  BY <1>1, HostType DEF ClaimFails, Building

\* The options and the approvals do not change, nor does what they decide.
LEMMA Fixed ==
  ASSUME [Next]_vars
  PROVE  /\ UNCHANGED options
         /\ \A c : HostFor(c)' = HostFor(c)
         /\ \A c : Granted(c)' = Granted(c)
<1>1. UNCHANGED options
  BY DEF Next, FileStep, InstanceStep, ClaimStep, Resolve, Dial, DialEnds, ConnectReturns,
         AllocBase, OpenFails, CloseFile, StartInstance, LockScopes, PushShared,
         PushSharedFails, ScopeFails, Execute, EndInstance, Close, Closed, vars
<1> QED
  BY <1>1 DEF HostFor, Granted

\* A claimant that moves leaves the others where they are; an instance leaves the
\* files.
LEMMA Moves ==
  ASSUME TypeOK, NEW c \in Claimants, NEW p, at' = [at EXCEPT ![c] = p]
  PROVE  /\ at'[c] = p
         /\ \A d \in Claimants : d # c => at'[d] = at[d]
         /\ c \in Instances => \A f \in Files : at'[<<f, 0>>] = at[<<f, 0>>]
<1>1. c \in Instances => \A f \in Files : <<f, 0>> # c
  BY ClaimantShape
<1> QED
  BY <1>1, ClaimantShape DEF TypeOK

\* Where each step takes its claimant from and to.
LEMMA ClaimSteps ==
  ASSUME NEW c, ClaimStep(c)
  PROVE  /\ at[c] \in {"resolve"} \cup Claiming
         /\ \/ \E p \in Claiming : at' = [at EXCEPT ![c] = p]
            \/ at[c] = "alloc" /\ at' = [at EXCEPT ![c] = IF c[2] = 0 THEN "open" ELSE "push"]
         /\ UNCHANGED <<run, mutex, scopes, usedBase>>
BY DEF ClaimStep, Resolve, Dial, DialEnds, ConnectReturns, AllocBase, Goto, Claiming

-----------------------------------------------------------------------------
(***************************************************************************)
(* The parts of the invariant are inductive.                               *)
(***************************************************************************)

\* A removal makes no directory.
LEMMA RemovalKeepsTypes ==
  ASSUME TypeOK, NEW claimed, RemoveBases(claimed) \/ UNCHANGED disks
  PROVE  bases' \subseteq Hosts \X Claimants /\ abandoned' \subseteq Hosts \X Claimants
<1>1. CASE UNCHANGED disks
  BY <1>1 DEF TypeOK
<1>2. CASE RemoveBases(claimed)
  BY <1>2 DEF RemoveBases, TypeOK
<1> QED
  BY <1>1, <1>2

\* Every operation leaves every variable within its type.
LEMMA TypeStep ==
  ASSUME IInv, [Next]_vars
  PROVE  TypeOK'
<1> USE ClaimantShape DEF IInv, TypeOK
<1>1. ASSUME NEW c \in Claimants, c[2] = 0 \/ c \in Instances, ClaimStep(c) PROVE TypeOK'
  <2>1. at[c] \in Building
    BY <1>1, ClaimSteps DEF Building, Claiming
  <2>2. HostFor(c) \in Hosts
    BY <2>1, HostType
  <2>3. CASE Resolve(c)
    <3>1. home' \in [Files -> Hosts \cup {NoHost}]
      BY <2>2, <2>3 DEF Resolve
    <3> QED
      BY <2>2, <2>3, <3>1 DEF Resolve, Goto
  <2>4. CASE Dial(c)
    BY <2>2, <2>4 DEF Dial, Goto
  <2>5. CASE DialEnds(c)
    BY <2>2, <2>5 DEF DialEnds, Goto
  <2>6. CASE ConnectReturns(c)
    BY <2>6 DEF ConnectReturns, Goto
  <2>7. CASE AllocBase(c)
    BY <2>2, <2>7 DEF AllocBase, Goto
  <2> QED
    BY <1>1, <2>3, <2>4, <2>5, <2>6, <2>7 DEF ClaimStep
<1>2. ASSUME NEW f \in Files, OpenFails(f) PROVE TypeOK'
  <2>1. ClaimFails(<<f, 0>>) /\ <<f, 0>> \in Claimants
    BY <1>2 DEF OpenFails
  <2>2. bases' \subseteq Hosts \X Claimants /\ abandoned' \subseteq Hosts \X Claimants
    <3>1. HostFor(<<f, 0>>) \in Hosts
      BY <2>1, ClaimFailure
    <3>2. <<HostFor(<<f, 0>>), <<f, 0>>>> \in Hosts \X Claimants
      BY <2>1, <3>1
    <3> QED
      BY <2>1, <3>2 DEF ClaimFails
  <2> QED
    BY <1>2, <2>2 DEF OpenFails, Goto
<1>3. ASSUME NEW f \in Files, CloseFile(f) PROVE TypeOK'
  <2>1. bases' \subseteq Hosts \X Claimants /\ abandoned' \subseteq Hosts \X Claimants
    BY <1>3, RemovalKeepsTypes DEF CloseFile
  <2> QED
    BY <1>3, <2>1 DEF CloseFile, Goto, PossibleBases
<1>4. ASSUME NEW c \in Instances, StartInstance(c) \/ EndInstance(c) PROVE TypeOK'
  BY <1>4 DEF StartInstance, EndInstance, Goto
<1>5. ASSUME NEW c \in Instances, LockScopes(c) PROVE TypeOK'
  <2>1. /\ at' = [at EXCEPT ![c] = "scoped"] \/ at' = [at EXCEPT ![c] = "resolve"]
        /\ mutex' = mutex \/ mutex' = [mutex EXCEPT ![c[1]] = c]
        /\ UNCHANGED <<options, run, network, home, scopes, disks, usedBase>>
    BY <1>5 DEF LockScopes, Goto
  <2>2. mutex' \in [Files -> Instances \cup {Free}]
    BY <2>1
  <2>3. at' \in [Claimants -> {"resolve", "connect", "dialing", "alloc", "open", "exited",
                                "idle", "lock", "push", "scoped", "executing", "done"}]
    BY <2>1
  <2> QED
    BY <2>1, <2>2, <2>3
<1>6. ASSUME NEW c \in Instances, PushShared(c) PROVE TypeOK'
  <2>1. HostFor(c) \in Hosts /\ Target(c) \in Hosts
    BY <1>6, HostType DEF PushShared, Building
  <2>2. scopes' \in [Files -> [Hosts -> PossibleBases]]
    BY <1>6, <2>1 DEF PushShared, PossibleBases
  <2> QED
    BY <1>6, <2>2 DEF PushShared, Goto, Unlock
<1>7. ASSUME NEW c \in Instances, PushSharedFails(c) \/ ScopeFails(c) PROVE TypeOK'
  <2>1. bases' \subseteq Hosts \X Claimants /\ abandoned' \subseteq Hosts \X Claimants
    BY <1>7, ClaimFailure, RemovalKeepsTypes DEF PushSharedFails, ScopeFails
  <2>2. /\ at' = [at EXCEPT ![c] = "done"] /\ mutex' = [mutex EXCEPT ![c[1]] = Free]
        /\ UNCHANGED <<options, run, network, home, scopes, usedBase>>
    BY <1>7 DEF PushSharedFails, ScopeFails, Goto, Unlock
  <2> QED
    BY <2>1, <2>2
<1>8. ASSUME NEW c \in Instances, Execute(c) PROVE TypeOK'
  <2>1. BaseOf(c) \in PossibleBases
    <3>1. CASE OnHome(c)
      <4>1. at[<<c[1], 0>>] = "open"
        BY <1>8 DEF Execute, PlaceInv
      <4>2. HomeBase(c[1]) \in bases
        BY <4>1 DEF BaseInv
      <4> QED
        BY <3>1, <4>2 DEF BaseOf, PossibleBases
    <3>2. CASE ~OnHome(c)
      BY <3>2, TargetType DEF OnHome, BaseOf
    <3> QED
      BY <3>1, <3>2
  <2> QED
    BY <1>8, <2>1 DEF Execute, Goto
<1>9. CASE Close
  BY <1>9 DEF Close
<1>10. CASE UNCHANGED vars
  BY <1>10 DEF vars
<1> QED
  BY <1>1, <1>2, <1>3, <1>4, <1>5, <1>6, <1>7, <1>8, <1>9, <1>10
     DEF Next, FileStep, InstanceStep, Closed

\* A file is closed only when its instances are over, and none starts after.
LEMMA PlaceStep ==
  ASSUME IInv, [Next]_vars
  PROVE  PlaceInv'
<1> USE ClaimantShape DEF IInv, TypeOK, PlaceInv, Claiming, Building
<1>1. ASSUME NEW c \in Claimants, ClaimStep(c) PROVE PlaceInv'
  <2>1. /\ at[c] \in {"resolve", "connect", "dialing", "alloc"}
        /\ \E p \in {"connect", "dialing", "alloc", "open", "push"} :
             /\ at' = [at EXCEPT ![c] = p]
             /\ p \in {"open", "push"} => p = IF c[2] = 0 THEN "open" ELSE "push"
    BY <1>1, ClaimSteps
  <2> QED
    BY <2>1
<1>2. ASSUME NEW f \in Files, OpenFails(f) PROVE PlaceInv'
  <2>1. at[<<f, 0>>] # "open" /\ at' = [at EXCEPT ![<<f, 0>>] = "exited"]
    BY <1>2, FailsFrom DEF OpenFails, Goto
  <2> QED
    BY <2>1
<1>3. ASSUME NEW f \in Files, CloseFile(f) PROVE PlaceInv'
  <2>1. /\ \A c \in Instances : c[1] = f => at[c] \in {"idle", "done"}
        /\ at' = [at EXCEPT ![<<f, 0>>] = "exited"]
    BY <1>3 DEF CloseFile, TestsOver, InstancesOf, Goto
  <2> QED
    BY <2>1
<1>4. ASSUME NEW c \in Instances, at[<<c[1], 0>>] = "open",
             NEW p \in {"lock", "scoped", "executing", "done", "resolve"},
             at' = [at EXCEPT ![c] = p]
      PROVE  PlaceInv'
  <2>1. /\ at'[c] = p /\ \A f \in Files : at'[<<f, 0>>] = at[<<f, 0>>]
        /\ \A d \in Instances : d # c => at'[d] = at[d]
    BY <1>4, Moves
  <2>2. ASSUME NEW d \in Instances, d # c PROVE PlaceInv!2!(d)'
    <3>1. at'[d] = at[d] /\ at'[<<d[1], 0>>] = at[<<d[1], 0>>]
      BY <2>1, <2>2
    <3> QED
      BY <3>1
  <2>3. PlaceInv!2!(c)'
    <3>1. at'[c] = p /\ at'[<<c[1], 0>>] = at[<<c[1], 0>>]
      BY <2>1
    <3> QED
      BY <1>4, <3>1
  <2> QED
    BY <2>1, <2>2, <2>3
<1>5. ASSUME NEW c \in Instances, InstanceStep(c), ~ClaimStep(c) PROVE PlaceInv'
  <2>1. /\ at[<<c[1], 0>>] = "open"
        /\ \E p \in {"lock", "scoped", "executing", "done", "resolve"} :
             at' = [at EXCEPT ![c] = p]
    <3>1. CASE ScopeFails(c)
      BY <3>1, FailsFrom DEF ScopeFails, Goto
    <3>2. CASE ~ScopeFails(c)
      BY <1>5, <3>2 DEF InstanceStep, StartInstance, LockScopes, PushShared, PushSharedFails,
                        Execute, EndInstance, Goto
    <3> QED
      BY <3>1, <3>2
  <2>2. PICK p \in {"lock", "scoped", "executing", "done", "resolve"} : at' = [at EXCEPT ![c] = p]
    BY <2>1
  <2> QED
    BY <1>4, <2>1, <2>2
<1>6. CASE UNCHANGED at
  BY <1>6
<1> QED
  BY <1>1, <1>2, <1>3, <1>5, <1>6 DEF Next, FileStep, InstanceStep, Close, Closed, vars

\* Only a granted claimant comes to connect, and a host stays in the map until
\* every file has returned.
LEMMA ClaimInvStep ==
  ASSUME IInv, [Next]_vars
  PROVE  ClaimInv' /\ DialInv'
<1> USE DEF Claiming, Building
<1>1. \A d : HostFor(d)' = HostFor(d) /\ Granted(d)' = Granted(d)
  BY Fixed
<1>2. /\ \A d \in Claimants : d[1] \in Files /\ d = <<d[1], d[2]>>
      /\ \A d \in Instances : d \in Claimants
      /\ \A f \in Files : <<f, 0>> \in Claimants
  BY ClaimantShape
<1>3. ASSUME NEW c \in Claimants, c[2] = 0 \/ c \in Instances, ClaimStep(c)
      PROVE  ClaimInv' /\ DialInv'
  <2>1. at[c] \in Building /\ HostFor(c) \in Hosts
    BY <1>3, ClaimSteps, HostType DEF IInv
  <2>2. CASE Resolve(c)
    <3>1. /\ at'[c] = "connect" /\ \A d \in Claimants : d # c => at'[d] = at[d]
          /\ Granted(c) /\ known' = known \cup {HostFor(c)} /\ conn' = conn
          /\ \A f \in Files : <<f, 0>> # c => home'[f] = home[f]
          /\ c[2] = 0 => home'[c[1]] = HostFor(c)
      BY <1>2, <2>2, Moves DEF Resolve, Goto, IInv, TypeOK
    <3> QED
      BY <1>1, <1>2, <3>1 DEF IInv, ClaimInv, DialInv
  <2>3. CASE Dial(c)
    <3>1. /\ at'[c] = "dialing" /\ \A d \in Claimants : d # c => at'[d] = at[d]
          /\ at[c] = "connect" /\ conn[HostFor(c)] = "new" /\ conn'[HostFor(c)] = "dialing"
          /\ \A h : h # HostFor(c) => conn'[h] = conn[h]
          /\ UNCHANGED <<known, home>>
      BY <2>1, <2>3, Moves DEF Dial, Goto, IInv, TypeOK
    <3> QED
      BY <1>1, <1>2, <3>1 DEF IInv, ClaimInv, DialInv
  <2>4. CASE DialEnds(c)
    <3>1. /\ at'[c] = "connect" /\ \A d \in Claimants : d # c => at'[d] = at[d]
          /\ at[c] = "dialing" /\ conn[HostFor(c)] = "dialing"
          /\ \A h : h # HostFor(c) => conn'[h] = conn[h]
          /\ UNCHANGED <<known, home>>
      BY <2>1, <2>4, Moves DEF DialEnds, Goto, IInv, TypeOK, ClaimInv
    <3> QED
      BY <1>1, <1>2, <3>1 DEF IInv, ClaimInv, DialInv
  <2>5. CASE ConnectReturns(c)
    <3>1. /\ at'[c] = "alloc" /\ \A d \in Claimants : d # c => at'[d] = at[d]
          /\ at[c] = "connect" /\ conn[HostFor(c)] = "up"
          /\ UNCHANGED <<known, home, conn>>
      BY <2>1, <2>5, Moves DEF ConnectReturns, Goto, IInv
    <3> QED
      BY <1>1, <1>2, <3>1 DEF IInv, ClaimInv, DialInv
  <2>6. CASE AllocBase(c)
    <3>1. /\ at'[c] \in {"open", "push"} /\ \A d \in Claimants : d # c => at'[d] = at[d]
          /\ at[c] = "alloc" /\ UNCHANGED <<known, home, conn>>
      BY <2>1, <2>6, Moves DEF AllocBase, Goto, IInv
    <3> QED
      BY <1>1, <1>2, <3>1 DEF IInv, ClaimInv, DialInv
  <2> QED
    BY <1>3, <2>2, <2>3, <2>4, <2>5, <2>6 DEF ClaimStep
<1>4. ASSUME NEW c \in Claimants,
             NEW p \in {"lock", "scoped", "executing", "done", "resolve", "exited"},
             at' = [at EXCEPT ![c] = p], UNCHANGED <<known, conn, home>>
      PROVE  ClaimInv' /\ DialInv'
  <2>1. at'[c] = p /\ \A d \in Claimants : d # c => at'[d] = at[d]
    BY <1>4, Moves DEF IInv
  <2> QED
    BY <1>1, <1>2, <1>4, <2>1 DEF IInv, ClaimInv, DialInv
<1>5. ASSUME NEW f \in Files, OpenFails(f) \/ CloseFile(f) PROVE ClaimInv' /\ DialInv'
  BY <1>2, <1>4, <1>5 DEF OpenFails, CloseFile, Goto
<1>6. ASSUME NEW c \in Instances, InstanceStep(c), ~ClaimStep(c) PROVE ClaimInv' /\ DialInv'
  <2>1. /\ \E p \in {"lock", "scoped", "executing", "done", "resolve"} :
             at' = [at EXCEPT ![c] = p]
        /\ UNCHANGED <<known, conn, home>>
    BY <1>6 DEF InstanceStep, StartInstance, LockScopes, PushShared, PushSharedFails,
                ScopeFails, Execute, EndInstance, Goto
  <2> QED
    BY <1>2, <1>4, <2>1
<1>7. CASE Close
  <2>1. \A f \in Files : at[<<f, 0>>] = "exited"
    BY <1>7 DEF Close
  <2>2. ASSUME NEW c \in Claimants PROVE at[c] \in {"exited", "idle", "done"}
    <3>1. CASE c \in Instances
      BY <1>2, <2>1, <3>1 DEF IInv, PlaceInv
    <3>2. CASE c \notin Instances
      BY <2>1, <3>2, ClaimantShape
    <3> QED
      BY <3>1, <3>2
  <2>3. UNCHANGED <<at, conn, home>>
    BY <1>7 DEF Close
  <2> QED
    BY <1>1, <1>2, <2>1, <2>2, <2>3 DEF IInv, ClaimInv, DialInv
<1>8. CASE UNCHANGED vars
  BY <1>1, <1>8 DEF vars, IInv, ClaimInv, DialInv
<1> QED
  BY <1>2, <1>3, <1>5, <1>6, <1>7, <1>8 DEF Next, FileStep, InstanceStep, Closed

\* The home of a file is settled before it is open.
LEMMA HomeKept ==
  ASSUME IInv, [Next]_vars, NEW f \in Files, at[<<f, 0>>] # "resolve"
  PROVE  home'[f] = home[f]
<1>1. ASSUME NEW c \in Claimants, c[2] = 0 \/ c \in Instances, Resolve(c) PROVE home'[f] = home[f]
  <2>1. c # <<f, 0>>
    BY <1>1 DEF Resolve
  <2>2. c[2] = 0 => c[1] # f
    BY <2>1, ClaimantShape
  <2> QED
    BY <1>1, <2>2, ClaimantShape DEF Resolve, IInv, TypeOK
<1> QED
  BY <1>1, ClaimantShape
     DEF Next, FileStep, InstanceStep, ClaimStep, Dial, DialEnds, ConnectReturns, AllocBase,
         OpenFails, CloseFile, StartInstance, LockScopes, PushShared, PushSharedFails, ScopeFails,
         Execute, EndInstance, Close, Closed, vars

\* altMu admits one builder per file, and the scope it builds is not there yet.
LEMMA LockInvStep ==
  ASSUME IInv, [Next]_vars
  PROVE  LockInv'
<1> DEFINE L(e) == /\ at[e] \in Building => mutex[e[1]] = e /\ scopes[e[1]][Target(e)] = NoBase
                   /\ at[e] \in Building \cup {"lock"} => ~OnHome(e)
<1>1. \A e \in Instances : /\ e[1] \in Files /\ e \in Claimants /\ e # Free
                           /\ e[2] # 0
  BY ClaimantShape
<1>2. \A e \in Instances : L(e)
  BY DEF IInv, LockInv
<1>3. ASSUME NEW e \in Instances, at[e] \notin {"idle", "done"}
      PROVE  OnHome(e)' = OnHome(e)
  <2>1. home'[e[1]] = home[e[1]]
    BY <1>1, <1>3, HomeKept DEF IInv, PlaceInv
  <2> QED
    BY <2>1 DEF OnHome
<1>4. ASSUME NEW e \in Instances, at'[e] = at[e], UNCHANGED mutex,
             scopes'[e[1]] = scopes[e[1]] \/ at[e] \in {"idle", "done"}
      PROVE  L(e)'
  BY <1>2, <1>3, <1>4 DEF Building
<1>5. ASSUME NEW c \in Claimants, ClaimStep(c) PROVE LockInv'
  <2>1. /\ at[c] \in Building /\ UNCHANGED <<mutex, scopes>>
        /\ \A e \in Instances : e # c => at'[e] = at[e]
    BY <1>1, <1>5, ClaimSteps, Moves DEF Building, Claiming, IInv
  <2>2. ASSUME c \in Instances PROVE L(c)'
    BY <1>2, <1>3, <2>1, <2>2 DEF Building
  <2>3. ASSUME NEW e \in Instances PROVE L(e)'
    BY <1>4, <2>1, <2>2, <2>3
  <2> QED
    BY <2>3 DEF LockInv
<1>6. ASSUME NEW f \in Files, OpenFails(f) PROVE LockInv'
  <2>1. /\ UNCHANGED <<mutex, scopes>>
        /\ \A e \in Instances : at'[e] = at[e]
    BY <1>1, <1>6, Moves, ClaimantShape DEF OpenFails, Goto, IInv
  <2>2. \A e \in Instances : L(e)'
    BY <1>4, <2>1
  <2> QED
    BY <2>2 DEF LockInv
<1>7. ASSUME NEW f \in Files, CloseFile(f) PROVE LockInv'
  <2>1. /\ UNCHANGED mutex
        /\ \A e \in Instances : at'[e] = at[e]
        /\ \A e \in Instances : e[1] = f => at[e] \in {"idle", "done"}
        /\ \A g \in Files : g # f => scopes'[g] = scopes[g]
    BY <1>1, <1>7, Moves, ClaimantShape DEF CloseFile, TestsOver, InstancesOf, Goto, IInv, TypeOK
  <2>2. \A e \in Instances : L(e)'
    BY <1>1, <1>4, <2>1
  <2> QED
    BY <2>2 DEF LockInv
<1>8. ASSUME NEW c \in Instances, StartInstance(c) \/ Execute(c) \/ EndInstance(c) PROVE LockInv'
  <2>1. /\ UNCHANGED <<mutex, scopes>> /\ \A e \in Instances : e # c => at'[e] = at[e]
        /\ home' = home /\ at'[c] \in {"scoped", "lock", "executing", "done"}
        /\ at'[c] = "lock" => ~OnHome(c)
    BY <1>1, <1>8, Moves DEF StartInstance, Execute, EndInstance, Goto, IInv
  <2>2. L(c)'
    BY <2>1 DEF Building, OnHome
  <2>3. \A e \in Instances : L(e)'
    BY <1>4, <2>1, <2>2
  <2> QED
    BY <2>3 DEF LockInv
<1>9. ASSUME NEW c \in Instances, LockScopes(c) PROVE LockInv'
  <2>1. /\ at[c] = "lock" /\ mutex[c[1]] = Free /\ UNCHANGED <<scopes, home>>
        /\ \A e \in Instances : e # c => at'[e] = at[e]
        /\ \/ at'[c] = "scoped" /\ mutex' = mutex
           \/ /\ at'[c] = "resolve" /\ mutex' = [mutex EXCEPT ![c[1]] = c]
              /\ scopes[c[1]][Target(c)] = NoBase
    <3>1. /\ at[c] = "lock" /\ mutex[c[1]] = Free /\ UNCHANGED <<scopes, home>>
          /\ \/ at' = [at EXCEPT ![c] = "scoped"] /\ mutex' = mutex
             \/ /\ at' = [at EXCEPT ![c] = "resolve"] /\ mutex' = [mutex EXCEPT ![c[1]] = c]
                /\ scopes[c[1]][Target(c)] = NoBase
      BY <1>9 DEF LockScopes, CanLock, Goto
    <3>2. PICK p \in {"scoped", "resolve"} : at' = [at EXCEPT ![c] = p]
      BY <3>1
    <3>3. at'[c] = p /\ \A e \in Instances : e # c => at'[e] = at[e]
      BY <1>1, <3>2, Moves DEF IInv
    <3>4. CASE p = "scoped"
      BY <1>1, <3>1, <3>2, <3>3, <3>4 DEF IInv, TypeOK
    <3>5. CASE p = "resolve"
      BY <1>1, <3>1, <3>2, <3>3, <3>5 DEF IInv, TypeOK
    <3> QED
      BY <3>2, <3>4, <3>5
  <2>2. L(c)'
    BY <1>1, <1>2, <1>3, <2>1 DEF Building, IInv, TypeOK
  <2>3. ASSUME NEW e \in Instances, e # c PROVE L(e)'
    <3>1. CASE e[1] = c[1]
      <4>1. at[e] \notin Building
        BY <1>1, <1>2, <2>1, <3>1
      <4> QED
        BY <1>2, <1>3, <2>1, <2>3, <4>1 DEF Building
    <3>2. CASE e[1] # c[1]
      <4>1. mutex'[e[1]] = mutex[e[1]]
        BY <1>1, <2>1, <3>2 DEF IInv, TypeOK
      <4> QED
        BY <1>2, <1>3, <2>1, <2>3, <4>1 DEF Building
    <3> QED
      BY <3>1, <3>2
  <2> QED
    BY <2>2, <2>3 DEF LockInv
<1>10. ASSUME NEW c \in Instances, at[c] \in Building, at'[c] \in {"scoped", "done"},
              \A e \in Instances : e # c => at'[e] = at[e],
              \A g \in Files : g # c[1] => scopes'[g] = scopes[g] /\ mutex'[g] = mutex[g]
       PROVE  LockInv'
  <2>1. L(c)'
    BY <1>10 DEF Building
  <2>2. ASSUME NEW e \in Instances, e # c PROVE L(e)'
    <3>1. CASE e[1] = c[1]
      <4>1. at[e] \notin Building
        BY <1>2, <1>10, <2>2, <3>1
      <4> QED
        BY <1>2, <1>3, <1>10, <2>2, <4>1 DEF Building
    <3>2. CASE e[1] # c[1]
      BY <1>1, <1>2, <1>3, <1>10, <2>2, <3>2 DEF Building
    <3> QED
      BY <3>1, <3>2
  <2> QED
    BY <2>1, <2>2 DEF LockInv
<1>11. ASSUME NEW c \in Instances, PushShared(c) \/ PushSharedFails(c) \/ ScopeFails(c)
       PROVE  LockInv'
  <2>1. /\ at[c] \in Building /\ at'[c] \in {"scoped", "done"}
        /\ \A e \in Instances : e # c => at'[e] = at[e]
    BY <1>1, <1>11, FailsFrom, Moves
       DEF PushShared, PushSharedFails, ScopeFails, Goto, Building, IInv
  <2>2. \A g \in Files : g # c[1] => scopes'[g] = scopes[g] /\ mutex'[g] = mutex[g]
    BY <1>1, <1>11 DEF PushShared, PushSharedFails, ScopeFails, Unlock, IInv, TypeOK
  <2> QED
    BY <1>10, <2>1, <2>2
<1>12. CASE Close \/ UNCHANGED vars
  <2>1. UNCHANGED <<at, mutex, scopes>>
    BY <1>12 DEF Close, vars
  <2>2. \A e \in Instances : L(e)'
    BY <1>4, <2>1
  <2> QED
    BY <2>2 DEF LockInv
<1> QED
  BY <1>1, <1>5, <1>6, <1>7, <1>8, <1>9, <1>11, <1>12, ClaimantShape
     DEF Next, FileStep, InstanceStep, Closed

\* Every connection a run opened is in the manager's map when it closes.
LEMMA MasterInvStep ==
  ASSUME IInv, [Next]_vars
  PROVE  MasterInv'
<1> USE DEF IInv, TypeOK, MasterInv
<1>1. ASSUME NEW c \in Claimants, c[2] = 0 \/ c \in Instances, ClaimStep(c) PROVE MasterInv'
  <2>1. run = "open" /\ run' = run
    <3>1. \E f \in Files : at[<<f, 0>>] # "exited"
      <4>1. CASE c \in Instances
        BY <1>1, <4>1, ClaimantShape, ClaimSteps DEF PlaceInv, Claiming
      <4>2. CASE c \notin Instances
        <5>1. c[1] \in Files /\ c = <<c[1], 0>>
          BY <4>2, ClaimantShape
        <5>2. at[c] # "exited"
          BY <1>1, ClaimSteps DEF Claiming
        <5> QED
          BY <5>1, <5>2
      <4> QED
        BY <4>1, <4>2
    <3> QED
      BY <1>1, <3>1, ClaimSteps
  <2>2. HostFor(c) \in Hosts
    BY <1>1, ClaimSteps, HostType DEF Building, Claiming
  <2>3. CASE DialEnds(c)
    <3>1. HostFor(c) \in known /\ known' = known
      BY <2>3 DEF DialEnds, ClaimInv, Claiming
    <3>2. \E r \in {<<"failed", "none">>, <<"failed", "up">>, <<"up", "up">>} :
            /\ conn' = [conn EXCEPT ![HostFor(c)] = r[1]]
            /\ master' = [master EXCEPT ![HostFor(c)] = r[2]]
      BY <2>3 DEF DialEnds
    <3> QED
      BY <2>1, <2>2, <3>1, <3>2
  <2>4. CASE Dial(c)
    BY <2>1, <2>2, <2>4 DEF Dial
  <2>5. CASE Resolve(c) \/ ConnectReturns(c) \/ AllocBase(c)
    BY <2>1, <2>5 DEF Resolve, ConnectReturns, AllocBase
  <2> QED
    BY <1>1, <2>3, <2>4, <2>5 DEF ClaimStep
<1>2. ASSUME NEW f \in Files, OpenFails(f) \/ CloseFile(f) PROVE MasterInv'
  <2>1. UNCHANGED <<run, network>> /\ \A g \in Files : at[<<g, 0>>] = "exited" => at'[<<g, 0>>] = "exited"
    BY <1>2, ClaimantShape DEF OpenFails, CloseFile, Goto
  <2> QED
    BY <2>1
<1>3. ASSUME NEW c \in Instances, InstanceStep(c), ~ClaimStep(c) PROVE MasterInv'
  <2>1. UNCHANGED <<run, network>> /\ \E p : at' = [at EXCEPT ![c] = p]
    BY <1>3 DEF InstanceStep, StartInstance, LockScopes, PushShared, PushSharedFails,
                ScopeFails, Execute, EndInstance, Goto
  <2>2. \A f \in Files : at'[<<f, 0>>] = at[<<f, 0>>]
    BY <2>1, Moves, ClaimantShape
  <2> QED
    BY <2>1, <2>2
<1>4. CASE Close
  BY <1>4 DEF Close, StoppedByClose
<1>5. CASE UNCHANGED vars
  BY <1>5 DEF vars
<1> QED
  BY <1>1, <1>2, <1>3, <1>4, <1>5, ClaimantShape DEF Next, FileStep, InstanceStep, Closed

\* A connection found usable stays so: the once in Connect dials no host again.
LEMMA ConnKept ==
  ASSUME IInv, [Next]_vars, NEW h \in Hosts, conn[h] = "up"
  PROVE  conn'[h] = "up"
<1>1. ASSUME NEW c \in Claimants, ClaimStep(c) PROVE conn'[h] = "up"
  <2>1. CASE Dial(c)
    BY <2>1 DEF Dial, IInv, TypeOK
  <2>2. CASE DialEnds(c)
    <3>1. HostFor(c) # h
      BY <2>2 DEF DialEnds, IInv, ClaimInv
    <3> QED
      BY <2>2, <3>1 DEF DialEnds, IInv, TypeOK
  <2>3. CASE Resolve(c) \/ ConnectReturns(c) \/ AllocBase(c)
    BY <2>3 DEF Resolve, ConnectReturns, AllocBase
  <2> QED
    BY <1>1, <2>1, <2>2, <2>3 DEF ClaimStep
<1> QED
  BY <1>1, ClaimantShape
     DEF Next, FileStep, InstanceStep, OpenFails, CloseFile, StartInstance, LockScopes,
         PushShared, PushSharedFails, ScopeFails, Execute, EndInstance, Close, Closed, vars

\* A directory is known by the claimant that made it.
LEMMA BaseOwner ==
  ASSUME IInv, NEW b \in bases
  PROVE  /\ b[2] \in Claimants /\ b[1] \in Hosts
         /\ b = <<HostFor(b[2]), b[2]>> /\ b # NoBase
<1>1. b \in Hosts \X Claimants /\ b[1] = HostFor(b[2])
  BY DEF IInv, TypeOK, BaseInv
<1> QED
  BY <1>1, BaseShape

\* The directory of a scope is nobody else's.
LEMMA ScopeApart ==
  ASSUME IInv
  PROVE  \A f \in Files, h \in Hosts, b \in bases :
           scopes[f][h] = b => b[2] \in Instances /\ b[2][1] = f /\ at[b[2]] # "push"
<1> SUFFICES ASSUME NEW f \in Files, NEW h \in Hosts, NEW b \in bases, scopes[f][h] = b
             PROVE  b[2] \in Instances /\ b[2][1] = f /\ at[b[2]] # "push"
  OBVIOUS
<1>1. scopes[f][h] # NoBase
  BY BaseOwner
<1>2. Built(f, h)
  BY <1>1 DEF IInv, ScopeInv
<1> QED
  BY <1>2 DEF Built

\* Steps that make and remove no directory, and change no scope.
LEMMA BaseInvFrame ==
  ASSUME IInv, [Next]_vars, UNCHANGED <<disks, scopes>>,
         \A d \in Claimants : /\ at'[d] = "open" <=> at[d] = "open"
                              /\ at'[d] = "push" <=> at[d] = "push"
  PROVE  BaseInv'
<1>1. /\ UNCHANGED keepTemp
      /\ \A d : HostFor(d)' = HostFor(d) /\ Granted(d)' = Granted(d)
  BY Fixed
<1>2. \A b \in bases : b[2] \in Claimants /\ b[1] \in Hosts
  BY BaseOwner
<1>3. ASSUME NEW b \in bases' PROVE BaseInv!1!(b)'
  <2>1. b \in bases /\ (Claimed(b) => Claimed(b)')
    BY <1>2, <1>3 DEF Claimed
  <2>2. conn'[b[1]] = "up"
    BY <1>2, <2>1, ConnKept DEF IInv, BaseInv
  <2> QED
    BY <1>1, <2>1, <2>2 DEF IInv, BaseInv
<1>4. ASSUME NEW f \in Files, at'[<<f, 0>>] = "open" PROVE (HomeBase(f) \in bases)'
  <2>1. at[<<f, 0>>] = "open" /\ home'[f] = home[f]
    BY <1>4, ClaimantShape, HomeKept
  <2> QED
    BY <2>1 DEF IInv, BaseInv, HomeBase
<1>5. ASSUME NEW c \in Instances, at'[c] = "push" PROVE (<<HostFor(c), c>> \in bases)'
  BY <1>1, <1>5, ClaimantShape DEF IInv, BaseInv
<1> QED
  BY <1>3, <1>4, <1>5 DEF BaseInv

\* A claim that fails leaves the others alone; the directory it may have made is
\* nobody's.
LEMMA BaseInvFailure ==
  ASSUME IInv, [Next]_vars, NEW c \in Claimants, ClaimFails(c), UNCHANGED scopes,
         NEW p \in {"exited", "done"}, at' = [at EXCEPT ![c] = p]
  PROVE  BaseInv'
<1>1. /\ at[c] \in {"resolve", "connect", "alloc"}
      /\ HostFor(c) \in Hosts /\ Target(c) \in Hosts
      /\ \/ UNCHANGED disks
         \/ /\ at[c] = "alloc"
            /\ bases' = bases \cup {<<HostFor(c), c>>}
            /\ abandoned' = abandoned \cup {<<HostFor(c), c>>}
  BY ClaimFailure DEF IInv
<1>2. at'[c] = p /\ \A d \in Claimants : d # c => at'[d] = at[d]
  BY Moves DEF IInv
<1>3. \A d \in Claimants : /\ at'[d] = "open" <=> at[d] = "open"
                           /\ at'[d] = "push" <=> at[d] = "push"
  BY <1>1, <1>2
<1>4. CASE UNCHANGED disks
  BY <1>3, <1>4, BaseInvFrame
<1>5. CASE /\ at[c] = "alloc"
           /\ bases' = bases \cup {<<HostFor(c), c>>}
           /\ abandoned' = abandoned \cup {<<HostFor(c), c>>}
  <2>1. /\ UNCHANGED keepTemp
        /\ \A d : HostFor(d)' = HostFor(d) /\ Granted(d)' = Granted(d)
    BY Fixed
  <2>2. Granted(c) /\ conn[HostFor(c)] = "up"
    BY <1>5 DEF IInv, ClaimInv, Claiming
  <2>3. ASSUME NEW b \in bases' PROVE BaseInv!1!(b)'
    <3>1. CASE b \in bases
      <4>1. b[2] \in Claimants /\ b[1] \in Hosts
        BY <3>1, BaseOwner
      <4>2. Claimed(b) => Claimed(b)'
        BY <1>3, <4>1 DEF Claimed
      <4>3. conn'[b[1]] = "up"
        BY <3>1, <4>1, ConnKept DEF IInv, BaseInv
      <4> QED
        BY <1>5, <2>1, <3>1, <4>2, <4>3 DEF IInv, BaseInv
    <3>2. CASE b = <<HostFor(c), c>>
      <4>1. conn'[HostFor(c)] = "up"
        BY <1>1, <2>2, ConnKept
      <4> QED
        BY <1>1, <1>5, <2>1, <2>2, <3>2, <4>1
    <3> QED
      BY <1>5, <2>3, <3>1, <3>2
  <2>4. ASSUME NEW f \in Files, at'[<<f, 0>>] = "open" PROVE (HomeBase(f) \in bases)'
    <3>1. at[<<f, 0>>] = "open" /\ home'[f] = home[f]
      BY <1>3, <2>4, ClaimantShape, HomeKept
    <3> QED
      BY <1>5, <3>1 DEF IInv, BaseInv, HomeBase
  <2>5. ASSUME NEW d \in Instances, at'[d] = "push" PROVE (<<HostFor(d), d>> \in bases)'
    BY <1>3, <1>5, <2>1, <2>5, ClaimantShape DEF IInv, BaseInv
  <2> QED
    BY <2>3, <2>4, <2>5 DEF BaseInv
<1> QED
  BY <1>1, <1>4, <1>5

\* Every directory is claimed from its mktemp to its removal: by the file, by the
\* instance that fills it, and then by its scope.
LEMMA BaseInvStep ==
  ASSUME IInv, [Next]_vars
  PROVE  BaseInv'
<1>1. /\ UNCHANGED keepTemp
      /\ \A d : HostFor(d)' = HostFor(d) /\ Granted(d)' = Granted(d)
  BY Fixed
<1>2. \A b \in bases : /\ b[2] \in Claimants /\ b[1] \in Hosts /\ b # NoBase
                       /\ b = <<HostFor(b[2]), b[2]>>
  BY BaseOwner
<1>3. ASSUME NEW b \in bases
      PROVE  b[1] = HostFor(b[2])' /\ Granted(b[2])' /\ conn'[b[1]] = "up"
  BY <1>1, <1>2, <1>3, ConnKept DEF IInv, BaseInv
<1>4. ASSUME NEW f \in Files, at[<<f, 0>>] = "open"
      PROVE  HomeBase(f) \in bases /\ HomeBase(f)' = HomeBase(f)
  BY <1>4, HomeKept DEF IInv, BaseInv, HomeBase
<1>5. ASSUME NEW c \in Claimants, c[2] = 0 \/ c \in Instances, ClaimStep(c) PROVE BaseInv'
  <2>1. CASE AllocBase(c)
    <3> DEFINE p == IF c[2] = 0 THEN "open" ELSE "push"
    <3>1. /\ at[c] = "alloc" /\ at'[c] = p
          /\ \A d \in Claimants : d # c => at'[d] = at[d]
          /\ bases' = bases \cup {<<HostFor(c), c>>}
          /\ UNCHANGED <<abandoned, scopes, home>>
      BY <2>1, Moves DEF AllocBase, Goto, IInv
    <3>2. /\ Granted(c) /\ conn[HostFor(c)] = "up"
          /\ HostFor(c) \in Hosts /\ Target(c) \in Hosts
          /\ c[2] = 0 => home[c[1]] = HostFor(c)
      BY <1>5, <2>1, <3>1, ClaimantShape, HostType DEF IInv, ClaimInv, Claiming, Building
    <3>3. conn'[HostFor(c)] = "up"
      BY <3>2, ConnKept
    <3>4. ASSUME NEW b \in bases' PROVE BaseInv!1!(b)'
      <4>1. CASE b \in bases
        <5>1. Claimed(b) => Claimed(b)'
          BY <1>2, <3>1, <4>1, ClaimantShape DEF Claimed
        <5> QED
          BY <1>1, <1>3, <3>1, <4>1, <5>1 DEF IInv, BaseInv
      <4>2. CASE b = <<HostFor(c), c>>
        <5>1. Claimed(b)'
          BY <3>1, <4>2 DEF Claimed
        <5> QED
          BY <1>1, <3>2, <3>3, <4>2, <5>1
      <4> QED
        BY <3>1, <3>4, <4>1, <4>2
    <3>5. ASSUME NEW f \in Files, at'[<<f, 0>>] = "open" PROVE (HomeBase(f) \in bases)'
      <4>1. CASE <<f, 0>> = c
        BY <3>1, <3>2, <4>1 DEF HomeBase
      <4>2. CASE <<f, 0>> # c
        BY <1>4, <3>1, <3>5, <4>2, ClaimantShape
      <4> QED
        BY <4>1, <4>2
    <3>6. ASSUME NEW e \in Instances, at'[e] = "push" PROVE (<<HostFor(e), e>> \in bases)'
      BY <1>1, <3>1, <3>6, ClaimantShape DEF IInv, BaseInv
    <3> QED
      BY <3>4, <3>5, <3>6 DEF BaseInv
  <2>2. CASE ~AllocBase(c)
    <3>1. /\ UNCHANGED <<disks, scopes>> /\ at[c] \notin {"open", "push"}
          /\ \E p \in Claiming : at' = [at EXCEPT ![c] = p]
      BY <1>5, <2>2 DEF ClaimStep, Resolve, Dial, DialEnds, ConnectReturns, Goto, Claiming
    <3> QED
      BY <3>1, BaseInvFrame DEF IInv, TypeOK, Claiming
  <2> QED
    BY <2>1, <2>2
<1>6. ASSUME NEW f \in Files, OpenFails(f) PROVE BaseInv'
  BY <1>6, BaseInvFailure, ClaimantShape DEF OpenFails, Goto
<1>7. ASSUME NEW f \in Files, CloseFile(f) PROVE BaseInv'
  <2> DEFINE gone == {HomeBase(f)} \cup {scopes[f][h] : h \in Hosts}
  <2>1. /\ at[<<f, 0>>] = "open" /\ at'[<<f, 0>>] = "exited"
        /\ \A d \in Claimants : d # <<f, 0>> => at'[d] = at[d]
        /\ \A d \in Instances : d[1] = f => at[d] \in {"idle", "done"}
        /\ \A g \in Files : g # f => scopes'[g] = scopes[g]
        /\ IF keepTemp THEN UNCHANGED disks ELSE RemoveBases(gone)
    BY <1>7, ClaimantShape, Moves DEF CloseFile, TestsOver, InstancesOf, Goto, IInv, TypeOK
  <2>6. /\ bases' \subseteq bases /\ bases \ gone \subseteq bases'
        /\ abandoned \subseteq abandoned'
        /\ ~keepTemp => \A b \in bases' : b \in gone /\ master[b[1]] = "up" => b \in abandoned'
    BY <2>1 DEF RemoveBases
  <2>7. run = "open"
    BY <2>1 DEF IInv, TypeOK, MasterInv
  <2>2. ASSUME NEW b \in bases, ~keepTemp, b[2][1] = f, b \notin abandoned PROVE b \in gone
    <3>1. Claimed(b) /\ b[2] \in Claimants /\ b = <<HostFor(b[2]), b[2]>>
      BY <1>2, <2>2 DEF IInv, BaseInv
    <3>2. CASE b[2][2] = 0
      <4>1. b[2] = <<f, 0>>
        BY <2>2, <3>1, <3>2, ClaimantShape
      <4>2. home[f] = HostFor(<<f, 0>>)
        BY <2>1 DEF IInv, ClaimInv
      <4> QED
        BY <3>1, <4>1, <4>2 DEF HomeBase
    <3>3. CASE b[2][2] # 0
      <4>1. b[2] \in Instances
        BY <3>1, <3>3, ClaimantShape
      <4>2. scopes[f][Target(b[2])] = b
        BY <2>1, <2>2, <3>1, <3>3, <4>1 DEF Claimed
      <4>3. Target(b[2]) \in Hosts
        BY <2>2 DEF IInv, BaseInv
      <4> QED
        BY <4>2, <4>3
    <3> QED
      BY <3>2, <3>3
  <2>3. ASSUME NEW b \in bases' PROVE BaseInv!1!(b)'
    <3>1. b \in bases
      BY <2>6, <2>3
    <3>2. ASSUME ~keepTemp, b \notin abandoned' PROVE Claimed(b)'
      <4>1. b[2][1] # f
        <5>1. master[b[1]] = "up"
          BY <1>2, <2>7, <3>1 DEF IInv, BaseInv, MasterInv
        <5> QED
          BY <2>6, <2>2, <2>3, <3>1, <3>2, <5>1
      <4>2. b[2] \in Claimants /\ Claimed(b)
        BY <1>2, <2>6, <3>1, <3>2 DEF IInv, BaseInv
      <4>3. b[2] # <<f, 0>> /\ b[2][1] \in Files
        BY <4>1, <4>2, ClaimantShape
      <4> QED
        BY <2>1, <4>1, <4>2, <4>3 DEF Claimed
    <3> QED
      BY <1>1, <1>3, <3>1, <3>2 DEF IInv, BaseInv
  <2>4. ASSUME NEW g \in Files, at'[<<g, 0>>] = "open" PROVE (HomeBase(g) \in bases)'
    <3>1. g # f /\ at[<<g, 0>>] = "open"
      BY <2>1, <2>4, ClaimantShape
    <3>2. HomeBase(g) \in bases /\ HomeBase(g)' = HomeBase(g)
      BY <1>4, <3>1
    <3>3. HomeBase(g) \notin gone
      <4>1. HomeBase(g)[2] = <<g, 0>> /\ HomeBase(f)[2] = <<f, 0>>
        BY DEF HomeBase
      <4>2. ASSUME NEW h \in Hosts, scopes[f][h] = HomeBase(g) PROVE FALSE
        BY <3>2, <4>1, <4>2, ScopeApart, ClaimantShape
      <4> QED
        BY <3>1, <4>1, <4>2
    <3> QED
      BY <2>6, <3>2, <3>3
  <2>5. ASSUME NEW c \in Instances, at'[c] = "push" PROVE (<<HostFor(c), c>> \in bases)'
    <3>1. at[c] = "push" /\ c[1] # f
      BY <2>1, <2>5, ClaimantShape
    <3>2. <<HostFor(c), c>> \in bases
      BY <3>1 DEF IInv, BaseInv
    <3>3. <<HostFor(c), c>> \notin gone
      <4>1. c # <<f, 0>>
        BY ClaimantShape
      <4>2. ASSUME NEW h \in Hosts, scopes[f][h] = <<HostFor(c), c>> PROVE FALSE
        BY <3>1, <3>2, <4>2, ScopeApart
      <4> QED
        BY <4>1, <4>2 DEF HomeBase
    <3> QED
      BY <1>1, <2>6, <3>2, <3>3
  <2> QED
    BY <2>3, <2>4, <2>5 DEF BaseInv
<1>8. ASSUME NEW c \in Instances, UNCHANGED <<disks, scopes>>, at[c] # "push",
             NEW p, p \notin {"open", "push"}, at' = [at EXCEPT ![c] = p]
      PROVE  BaseInv'
  <2>1. at[c] # "open"
    BY DEF IInv, PlaceInv, Building
  <2> QED
    BY <1>8, <2>1, Moves, BaseInvFrame, ClaimantShape DEF IInv
<1>9. ASSUME NEW c \in Instances,
             StartInstance(c) \/ LockScopes(c) \/ ScopeFails(c) \/ Execute(c) \/ EndInstance(c)
      PROVE  BaseInv'
  <2>1. CASE ScopeFails(c)
    BY <2>1, BaseInvFailure, ClaimantShape DEF ScopeFails, Goto
  <2>2. CASE ~ScopeFails(c)
    <3>1. /\ UNCHANGED <<disks, scopes>> /\ at[c] # "push"
          /\ \E p : p \notin {"open", "push"} /\ at' = [at EXCEPT ![c] = p]
      BY <1>9, <2>2 DEF StartInstance, LockScopes, Execute, EndInstance, Goto
    <3> QED
      BY <1>8, <3>1
  <2> QED
    BY <2>1, <2>2
<1>10. ASSUME NEW c \in Instances, PushShared(c) PROVE BaseInv'
  <2>1. /\ at[c] = "push" /\ at'[c] = "scoped" /\ UNCHANGED <<disks, home>>
        /\ \A d \in Claimants : d # c => at'[d] = at[d]
        /\ c[1] \in Files /\ Target(c) \in Hosts
        /\ scopes[c[1]][Target(c)] = NoBase
        /\ scopes' = [scopes EXCEPT ![c[1]][Target(c)] = <<HostFor(c), c>>]
    BY <1>10, ClaimantShape, Moves, HostType DEF PushShared, Goto, IInv, LockInv, Building
  <2>2. ASSUME NEW b \in bases, Claimed(b) PROVE Claimed(b)'
    <3>1. b[2] \in Claimants /\ b = <<HostFor(b[2]), b[2]>> /\ b # NoBase
      BY <1>2
    <3>2. CASE b[2] = c
      <4>1. scopes'[c[1]][Target(c)] = <<HostFor(c), c>>
        BY <2>1 DEF IInv, TypeOK
      <4> QED
        BY <3>1, <3>2, <4>1, ClaimantShape DEF Claimed
    <3>3. CASE b[2] # c /\ (b[2][2] = 0 \/ at[b[2]] = "push")
      BY <2>1, <2>2, <3>1, <3>3 DEF Claimed
    <3>4. CASE b[2] # c /\ b[2][2] # 0 /\ at[b[2]] # "push"
      <4>1. scopes[b[2][1]][Target(b[2])] = b /\ b[2][1] \in Files
        BY <2>2, <3>1, <3>4, ClaimantShape DEF Claimed
      <4>2. Target(b[2]) \in Hosts
        BY DEF IInv, BaseInv
      <4>3. scopes'[b[2][1]][Target(b[2])] = b
        BY <2>1, <3>1, <4>1, <4>2 DEF IInv, TypeOK
      <4> QED
        BY <3>4, <4>3 DEF Claimed
    <3> QED
      BY <3>2, <3>3, <3>4
  <2>3. ASSUME NEW b \in bases' PROVE BaseInv!1!(b)'
    BY <1>1, <1>3, <2>1, <2>2, <2>3 DEF IInv, BaseInv
  <2>4. ASSUME NEW g \in Files, at'[<<g, 0>>] = "open" PROVE (HomeBase(g) \in bases)'
    BY <1>4, <2>1, <2>4, ClaimantShape
  <2>5. ASSUME NEW d \in Instances, at'[d] = "push" PROVE (<<HostFor(d), d>> \in bases)'
    BY <1>1, <2>1, <2>5, ClaimantShape DEF IInv, BaseInv
  <2> QED
    BY <2>3, <2>4, <2>5 DEF BaseInv
<1>11. ASSUME NEW c \in Instances, PushSharedFails(c) PROVE BaseInv'
  <2>1. /\ at[c] = "push" /\ at'[c] = "done" /\ UNCHANGED <<scopes, home>>
        /\ \A d \in Claimants : d # c => at'[d] = at[d]
        /\ bases' \subseteq bases /\ bases \ {<<HostFor(c), c>>} \subseteq bases'
        /\ abandoned \subseteq abandoned'
        /\ <<HostFor(c), c>> \in bases' /\ master[HostFor(c)] = "up"
             => <<HostFor(c), c>> \in abandoned'
    BY <1>11, ClaimantShape, Moves DEF PushSharedFails, RemoveBases, Goto, IInv
  <2>2. ASSUME NEW b \in bases' PROVE BaseInv!1!(b)'
    <3>1. b \in bases /\ b[2] \in Claimants
      BY <1>2, <2>1, <2>2
    <3>2. Claimed(b) => Claimed(b)' \/ b \in abandoned'
      <4>1. CASE b[2] # c
        BY <2>1, <3>1, <4>1 DEF Claimed
      <4>2. CASE b[2] = c
        <5>1. b = <<HostFor(c), c>> /\ b[1] \in Hosts /\ conn[b[1]] = "up"
          BY <1>2, <3>1, <4>2 DEF IInv, BaseInv
        <5>2. run = "open"
          <6>1. c[1] \in Files /\ at[<<c[1], 0>>] = "open"
            BY <2>1, ClaimantShape DEF IInv, PlaceInv
          <6> QED
            BY <6>1 DEF IInv, TypeOK, MasterInv
        <5> QED
          BY <2>1, <2>2, <5>1, <5>2 DEF IInv, MasterInv
      <4> QED
        BY <4>1, <4>2
    <3> QED
      BY <1>1, <1>3, <2>1, <3>1, <3>2 DEF IInv, BaseInv
  <2>3. ASSUME NEW g \in Files, at'[<<g, 0>>] = "open" PROVE (HomeBase(g) \in bases)'
    <3>1. HomeBase(g) \in bases /\ HomeBase(g)' = HomeBase(g)
      BY <1>4, <2>1, <2>3, ClaimantShape
    <3>2. HomeBase(g)[2] # c
      BY ClaimantShape DEF HomeBase
    <3> QED
      BY <2>1, <3>1, <3>2
  <2>4. ASSUME NEW d \in Instances, at'[d] = "push" PROVE (<<HostFor(d), d>> \in bases)'
    BY <1>1, <2>1, <2>4, ClaimantShape DEF IInv, BaseInv
  <2> QED
    BY <2>2, <2>3, <2>4 DEF BaseInv
<1>12. CASE Close \/ UNCHANGED vars
  BY <1>12, BaseInvFrame DEF Close, vars
<1> QED
  BY <1>5, <1>6, <1>7, <1>9, <1>10, <1>11, <1>12, ClaimantShape
     DEF Next, FileStep, InstanceStep, Closed

-----------------------------------------------------------------------------
(***************************************************************************)
(* What a claimant, a scope and the record of an instance go through.      *)
(***************************************************************************)

\* Only its own goroutine moves a claimant.
LEMMA Mover ==
  ASSUME IInv, [Next]_vars, NEW d \in Claimants, at'[d] # at[d]
  PROVE  \/ \E f \in Files : d = <<f, 0>> /\ FileStep(f)
         \/ d \in Instances /\ InstanceStep(d)
<1>1. ASSUME NEW c \in Claimants, NEW p, at' = [at EXCEPT ![c] = p] PROVE c = d
  BY <1>1, Moves DEF IInv
<1>2. ASSUME NEW f \in Files, FileStep(f) PROVE d = <<f, 0>>
  <2>1. \E p : at' = [at EXCEPT ![<<f, 0>>] = p]
    BY <1>2, ClaimSteps DEF FileStep, OpenFails, CloseFile, Goto
  <2> QED
    BY <1>1, <2>1, ClaimantShape
<1>3. ASSUME NEW c \in Instances, InstanceStep(c) PROVE d = c
  <2>1. \E p : at' = [at EXCEPT ![c] = p]
    BY <1>3, ClaimSteps DEF InstanceStep, StartInstance, LockScopes, PushShared,
       PushSharedFails, ScopeFails, Execute, EndInstance, Goto
  <2> QED
    BY <1>1, <2>1, ClaimantShape
<1> QED
  BY <1>2, <1>3 DEF Next, Close, Closed, vars

\* A file that is open is left by CloseFile, and one that is over stays so.
LEMMA FileMoves ==
  ASSUME IInv, [Next]_vars, NEW f \in Files
  PROVE  /\ at[<<f, 0>>] = "open" => at'[<<f, 0>>] = "open" \/ CloseFile(f)
         /\ at[<<f, 0>>] = "exited" => at'[<<f, 0>>] = "exited"
<1> SUFFICES ASSUME at'[<<f, 0>>] # at[<<f, 0>>], at[<<f, 0>>] \in {"open", "exited"}
             PROVE  CloseFile(f) /\ at[<<f, 0>>] = "open"
  OBVIOUS
<1>1. FileStep(f)
  BY Mover, ClaimantShape
<1> QED
  BY <1>1, ClaimSteps, FailsFrom DEF FileStep, OpenFails, CloseFile, Claiming

\* An instance goes from its scope to its command to its end.
LEMMA InstanceMoves ==
  ASSUME IInv, [Next]_vars, NEW c \in Instances
  PROVE  /\ at[c] = "scoped" => at'[c] \in {"scoped", "executing"}
         /\ at[c] = "executing" => at'[c] \in {"executing", "done"}
         /\ at[c] = "done" => at'[c] = "done"
         /\ at'[c] = "scoped" /\ at[c] # "scoped" =>
              \/ StartInstance(c) /\ OnHome(c)
              \/ LockScopes(c) /\ mutex' = mutex
              \/ PushShared(c)
         /\ at'[c] = "executing" /\ at[c] # "executing" => Execute(c)
<1>1. CASE at'[c] = at[c]
  BY <1>1
<1>2. CASE at'[c] # at[c]
  <2>1. InstanceStep(c) /\ c \in Claimants /\ c[2] # 0
    BY <1>2, Mover, ClaimantShape
  <2>2. \A p : at' = [at EXCEPT ![c] = p] => at'[c] = p
    BY <2>1, Moves DEF IInv
  <2>3. CASE ClaimStep(c)
    <3>1. at[c] \in Building /\ at'[c] \in Building
      BY <2>1, <2>2, <2>3, ClaimSteps DEF Building, Claiming
    <3> QED
      BY <3>1 DEF Building
  <2>4. CASE ~ClaimStep(c)
    <3>1. CASE StartInstance(c)
      BY <2>2, <3>1 DEF StartInstance, Goto
    <3>2. CASE LockScopes(c)
      BY <2>2, <3>2 DEF LockScopes, Goto
    <3>3. CASE PushShared(c)
      BY <2>2, <3>3 DEF PushShared, Goto
    <3>4. CASE PushSharedFails(c) \/ ScopeFails(c)
      BY <2>2, <3>4, FailsFrom DEF PushSharedFails, ScopeFails, Goto
    <3>5. CASE Execute(c)
      BY <2>2, <3>5 DEF Execute, Goto
    <3>6. CASE EndInstance(c)
      BY <2>2, <3>6 DEF EndInstance, Goto
    <3> QED
      BY <2>1, <2>4, <3>1, <3>2, <3>3, <3>4, <3>5, <3>6 DEF InstanceStep
  <2> QED
    BY <2>3, <2>4
<1> QED
  BY <1>1, <1>2

\* A scope is built once, by an instance that holds altMu, and forgotten with its
\* file.
LEMMA ScopesKept ==
  ASSUME IInv, [Next]_vars, NEW f \in Files, NEW h \in Hosts, scopes'[f][h] # scopes[f][h]
  PROVE  \/ CloseFile(f) /\ scopes'[f][h] = NoBase
         \/ \E c \in Instances : /\ PushShared(c) /\ c[1] = f /\ Target(c) = h
                                 /\ scopes[f][h] = NoBase
                                 /\ scopes'[f][h] = <<HostFor(c), c>>
<1>1. ASSUME NEW g \in Files, CloseFile(g) PROVE CloseFile(f) /\ scopes'[f][h] = NoBase
  <2>1. g = f
    BY <1>1 DEF CloseFile, IInv, TypeOK
  <2> QED
    BY <1>1, <2>1 DEF CloseFile, IInv, TypeOK
<1>2. ASSUME NEW c \in Instances, PushShared(c)
      PROVE  /\ PushShared(c) /\ c[1] = f /\ Target(c) = h
             /\ scopes[f][h] = NoBase /\ scopes'[f][h] = <<HostFor(c), c>>
  <2>1. /\ scopes' = [scopes EXCEPT ![c[1]][Target(c)] = <<HostFor(c), c>>]
        /\ scopes[c[1]][Target(c)] = NoBase
        /\ c[1] \in Files /\ Target(c) \in Hosts
    BY <1>2, ClaimantShape, HostType DEF PushShared, IInv, LockInv, Building
  <2>2. c[1] = f /\ Target(c) = h
    BY <2>1 DEF IInv, TypeOK
  <2> QED
    BY <1>2, <2>1, <2>2 DEF IInv, TypeOK
<1>3. ASSUME NEW c \in Claimants, ClaimStep(c) PROVE FALSE
  BY <1>3, ClaimSteps
<1> QED
  BY <1>1, <1>2, <1>3, ClaimantShape
     DEF Next, FileStep, InstanceStep, OpenFails, StartInstance, LockScopes, PushSharedFails,
         ScopeFails, Execute, EndInstance, Close, Closed, vars

\* A directory is removed by its file, or by the instance that could not fill it.
LEMMA BasesKept ==
  ASSUME IInv, [Next]_vars, NEW b \in bases, b \notin bases'
  PROVE  at[b[2]] = "push" \/ \E f \in Files : CloseFile(f)
<1>1. ASSUME NEW c \in Instances, PushSharedFails(c) PROVE at[b[2]] = "push"
  BY <1>1 DEF PushSharedFails, RemoveBases
<1>2. ASSUME NEW c \in Claimants, ClaimStep(c) PROVE FALSE
  BY <1>2 DEF ClaimStep, Resolve, Dial, DialEnds, ConnectReturns, AllocBase
<1>3. ASSUME NEW c, ClaimFails(c) PROVE FALSE
  BY <1>3 DEF ClaimFails
<1> QED
  BY <1>1, <1>2, <1>3, ClaimantShape
     DEF Next, FileStep, InstanceStep, OpenFails, StartInstance, LockScopes, PushShared,
         ScopeFails, Execute, EndInstance, Close, Closed, vars

\* Where an instance ran is written once.
LEMMA UsedKept ==
  ASSUME IInv, [Next]_vars, NEW c \in Instances
  PROVE  \/ Execute(c) /\ usedBase'[c] = BaseOf(c)
         \/ usedBase'[c] = usedBase[c] /\ ~Execute(c)
<1>1. ASSUME NEW d \in Instances, Execute(d) PROVE usedBase'[c] = usedBase[c] \/ c = d
  BY <1>1 DEF Execute, IInv, TypeOK
<1>2. Execute(c) => usedBase'[c] = BaseOf(c)
  BY DEF Execute, IInv, TypeOK
<1>3. ASSUME NEW d \in Claimants, ClaimStep(d) PROVE UNCHANGED usedBase
  BY <1>3, ClaimSteps
<1> QED
  BY <1>1, <1>2, <1>3, ClaimantShape
     DEF Next, FileStep, InstanceStep, OpenFails, CloseFile, StartInstance, LockScopes,
         PushShared, PushSharedFails, ScopeFails, EndInstance, Close, Closed, vars

-----------------------------------------------------------------------------
\* A scope stays, with its directory, from its push to the end of its file.
LEMMA ScopeInvStep ==
  ASSUME IInv, [Next]_vars
  PROVE  ScopeInv'
<1>1. ASSUME NEW f \in Files, NEW h \in Hosts, scopes'[f][h] # NoBase
      PROVE  (at[<<f, 0>>] = "open" /\ scopes[f][h] \in bases /\ Built(f, h))'
  <2>1. CASE scopes'[f][h] = scopes[f][h]
    <3> DEFINE b == scopes[f][h]
    <3>1. at[<<f, 0>>] = "open" /\ b \in bases /\ Built(f, h)
      BY <1>1, <2>1 DEF IInv, ScopeInv
    <3>2. b[2] \in Instances /\ b[2][1] = f /\ at[b[2]] # "push"
      BY <3>1, ScopeApart
    <3>3. ASSUME NEW g \in Files, CloseFile(g) PROVE g # f /\ b \in bases'
      <4>1. g # f
        BY <1>1, <3>3, ClaimantShape DEF CloseFile, IInv, TypeOK
      <4>2. b # HomeBase(g)
        BY <3>2, ClaimantShape DEF HomeBase
      <4>3. \A i \in Hosts : b # scopes[g][i]
        BY <3>1, <3>2, <4>1, ScopeApart
      <4> QED
        BY <3>1, <3>3, <4>1, <4>2, <4>3 DEF CloseFile, RemoveBases
    <3>4. b \in bases'
      BY <3>1, <3>2, <3>3, BasesKept
    <3>5. at'[<<f, 0>>] = "open"
      BY <3>1, <3>3, FileMoves
    <3>6. PICK d \in Instances : /\ d[1] = f /\ Target(d) = h /\ b = <<HostFor(d), d>>
                                 /\ at[d] \in {"scoped", "executing", "done"}
      BY <3>1 DEF Built
    <3>7. at'[d] \in {"scoped", "executing", "done"} /\ HostFor(d)' = HostFor(d)
      BY <3>6, InstanceMoves, Fixed
    <3> QED
      BY <2>1, <3>4, <3>5, <3>6, <3>7 DEF Built
  <2>2. CASE scopes'[f][h] # scopes[f][h]
    <3>1. PICK c \in Instances : /\ PushShared(c) /\ c[1] = f /\ Target(c) = h
                                 /\ scopes'[f][h] = <<HostFor(c), c>>
      BY <1>1, <2>2, ScopesKept
    <3>2. /\ at[c] = "push" /\ at'[c] = "scoped" /\ bases' = bases
          /\ at'[<<f, 0>>] = at[<<f, 0>>]
      BY <3>1, ClaimantShape, Moves DEF PushShared, Goto, IInv
    <3>3. at[<<f, 0>>] = "open" /\ <<HostFor(c), c>> \in bases
      BY <3>1, <3>2 DEF IInv, PlaceInv, BaseInv
    <3>4. HostFor(c)' = HostFor(c)
      BY Fixed
    <3> QED
      BY <3>1, <3>2, <3>3, <3>4 DEF Built
  <2> QED
    BY <2>1, <2>2
<1>2. ASSUME NEW c \in Instances, at'[c] = "scoped" PROVE BaseOf(c)' # NoBase
  <2> DEFINE f == c[1]
  <2>1. f \in Files /\ c \in Claimants
    BY ClaimantShape
  <2>2. at[<<f, 0>>] = "open"
    <3>1. CASE at[c] = "scoped"
      BY <3>1 DEF IInv, PlaceInv
    <3>2. CASE at[c] # "scoped"
      <4>1. StartInstance(c) \/ at[c] \in {"lock", "push"}
        BY <1>2, <3>2, InstanceMoves DEF LockScopes, PushShared
      <4> QED
        BY <4>1 DEF IInv, PlaceInv, StartInstance
    <3> QED
      BY <3>1, <3>2
  <2>3. home'[f] = home[f]
    BY <2>1, <2>2, HomeKept
  <2>4. CASE OnHome(c)
    <3>1. HomeBase(f)' # NoBase
      BY <2>1, ClaimantShape, BaseShape DEF HomeBase
    <3> QED
      BY <2>3, <2>4, <3>1 DEF BaseOf, OnHome
  <2>5. CASE ~OnHome(c)
    <3>1. Target(c) \in Hosts
      BY <2>5, TargetType DEF OnHome
    <3>2. scopes'[f][Target(c)] # NoBase
      <4>1. CASE PushShared(c)
        <5>1. <<HostFor(c), c>> # NoBase
          BY <2>1, BaseShape
        <5> QED
          BY <2>1, <3>1, <4>1, <5>1 DEF PushShared, IInv, TypeOK
      <4>2. CASE ~PushShared(c)
        <5>1. scopes[f][Target(c)] # NoBase
          <6>1. CASE at[c] = "scoped"
            <7>1. BaseOf(c) # NoBase
              BY <6>1 DEF IInv, ScopeInv
            <7> QED
              BY <2>5, <7>1 DEF BaseOf
          <6>2. CASE at[c] # "scoped"
            <7>1. LockScopes(c) /\ mutex' = mutex
              BY <1>2, <2>5, <4>2, <6>2, InstanceMoves
            <7>2. at'[c] # "resolve"
              BY <1>2
            <7> QED
              BY <2>1, <7>1, <7>2, Moves DEF LockScopes, Goto, IInv
          <6> QED
            BY <6>1, <6>2
        <5>2. ~CloseFile(f)
          BY <1>2, <2>1, <2>2, ClaimantShape, Moves DEF CloseFile, TestsOver, InstancesOf, Goto, IInv
        <5> QED
          BY <2>1, <3>1, <5>1, <5>2, ScopesKept
      <4> QED
        BY <4>1, <4>2
    <3> QED
      BY <2>3, <2>5, <3>2 DEF BaseOf, OnHome
  <2> QED
    BY <2>4, <2>5
<1> QED
  BY <1>1, <1>2 DEF ScopeInv

\* What BaseOf says of an instance that has run does not change while its file is
\* open.
LEMMA BaseOfKept ==
  ASSUME IInv, [Next]_vars, NEW c \in Instances, at[<<c[1], 0>>] = "open",
         at'[<<c[1], 0>>] = "open", BaseOf(c) # NoBase
  PROVE  BaseOf(c)' = BaseOf(c)
<1> DEFINE f == c[1]
<1>1. f \in Files
  BY ClaimantShape
<1>2. home'[f] = home[f]
  BY <1>1, HomeKept
<1>3. CASE OnHome(c)
  BY <1>2, <1>3 DEF OnHome, BaseOf, HomeBase
<1>4. CASE ~OnHome(c)
  <2>1. Target(c) \in Hosts
    BY <1>4, TargetType DEF OnHome
  <2>2. scopes[f][Target(c)] # NoBase
    BY <1>4 DEF BaseOf
  <2>3. ~CloseFile(f)
    BY <1>1, ClaimantShape, Moves DEF CloseFile, Goto, IInv
  <2>4. scopes'[f][Target(c)] = scopes[f][Target(c)]
    BY <1>1, <2>1, <2>2, <2>3, ScopesKept
  <2> QED
    BY <1>2, <1>4, <2>4 DEF OnHome, BaseOf
<1> QED
  BY <1>3, <1>4

\* Two instances of a file with one target are given one directory, and keep the
\* record of it.
LEMMA UsedInvStep ==
  ASSUME IInv, [Next]_vars
  PROVE  UsedInv'
<1>1. ASSUME NEW c \in Instances
      PROVE  /\ usedBase'[c] # NoBase => at'[c] \in {"executing", "done"}
             /\ at'[c] = "executing" => usedBase'[c] # NoBase
             /\ usedBase'[c] # NoBase /\ at'[<<c[1], 0>>] = "open" => usedBase'[c] = BaseOf(c)'
             /\ usedBase'[c] # NoBase /\ at'[<<c[1], 0>>] # "open" => usedBase'[c] = usedBase[c]
  <2>1. c[1] \in Files /\ c \in Claimants /\ c[2] # 0
    BY ClaimantShape
  <2>2. CASE Execute(c)
    <3>1. /\ at[c] = "scoped" /\ at'[c] = "executing" /\ usedBase'[c] = BaseOf(c)
          /\ at'[<<c[1], 0>>] = at[<<c[1], 0>>]
      BY <2>1, <2>2, Moves DEF Execute, Goto, IInv, TypeOK
    <3>2. BaseOf(c) # NoBase /\ at[<<c[1], 0>>] = "open"
      BY <3>1 DEF IInv, ScopeInv, PlaceInv
    <3>3. BaseOf(c)' = BaseOf(c)
      BY <3>1, <3>2, BaseOfKept
    <3> QED
      BY <3>1, <3>2, <3>3
  <2>3. CASE ~Execute(c)
    <3>1. usedBase'[c] = usedBase[c]
      BY <2>3, UsedKept
    <3>2. /\ usedBase[c] # NoBase => at[c] \in {"executing", "done"}
          /\ at[c] = "executing" => usedBase[c] # NoBase
          /\ usedBase[c] # NoBase /\ at[<<c[1], 0>>] = "open" => usedBase[c] = BaseOf(c)
      BY DEF IInv, UsedInv
    <3>3. usedBase[c] # NoBase => at'[c] \in {"executing", "done"}
      BY <3>2, InstanceMoves
    <3>4. at'[c] = "executing" => usedBase[c] # NoBase
      BY <2>3, <3>2, InstanceMoves
    <3>5. ASSUME usedBase[c] # NoBase, at'[<<c[1], 0>>] = "open" PROVE usedBase[c] = BaseOf(c)'
      <4>1. at[<<c[1], 0>>] \in {"open", "exited"}
        BY <3>2, <3>5 DEF IInv, PlaceInv
      <4>2. at[<<c[1], 0>>] = "open"
        BY <2>1, <3>5, <4>1, FileMoves
      <4>3. usedBase[c] = BaseOf(c)
        BY <3>2, <3>5, <4>2
      <4> QED
        BY <3>5, <4>2, <4>3, BaseOfKept
    <3> QED
      BY <3>1, <3>3, <3>4, <3>5
  <2> QED
    BY <2>2, <2>3
<1>2. ASSUME NEW c \in Instances, NEW d \in Instances, c[1] = d[1], Target(c) = Target(d),
             usedBase'[c] # NoBase, usedBase'[d] # NoBase
      PROVE  usedBase'[c] = usedBase'[d]
  <2>1. CASE at'[<<c[1], 0>>] = "open"
    <3>1. usedBase'[c] = BaseOf(c)' /\ usedBase'[d] = BaseOf(d)'
      BY <1>1, <1>2, <2>1
    <3>2. BaseOf(c)' = BaseOf(d)'
      BY <1>2 DEF BaseOf, OnHome
    <3> QED
      BY <3>1, <3>2
  <2>2. CASE at'[<<c[1], 0>>] # "open"
    <3>1. usedBase'[c] = usedBase[c] /\ usedBase'[d] = usedBase[d]
      BY <1>1, <1>2, <2>2
    <3> QED
      BY <1>2, <3>1 DEF IInv, UsedInv, OneScopePerTarget
  <2> QED
    BY <2>1, <2>2
<1> QED
  BY <1>1, <1>2 DEF UsedInv, OneScopePerTarget

\* Nothing has been claimed when a run begins.
LEMMA InitIInv ==
  ASSUME Init
  PROVE  IInv
<1> USE ClaimantShape DEF Init
<1>1. \A c \in Claimants : at[c] = (IF c[2] = 0 THEN "resolve" ELSE "idle")
  OBVIOUS
<1>2. \A f \in Files, h \in Hosts : scopes[f][h] = NoBase
  OBVIOUS
<1>3. (\A f \in Files : at[<<f, 0>>] = "resolve") /\ (\A c \in Instances : at[c] = "idle")
  BY <1>1
<1>4. TypeOK
  <2>1. NoBase \in PossibleBases
    BY DEF PossibleBases
  <2>2. at \in [Claimants -> {"resolve", "idle"}]
    OBVIOUS
  <2> QED
    BY <2>1, <2>2 DEF TypeOK
<1>5. PlaceInv
  BY <1>3 DEF PlaceInv
<1>6. ClaimInv /\ DialInv
  BY <1>1, <1>3 DEF ClaimInv, DialInv, Claiming
<1>7. LockInv
  BY <1>3 DEF LockInv, Building
<1>8. MasterInv
  BY DEF MasterInv
<1>9. BaseInv
  BY <1>3 DEF BaseInv
<1>10. ScopeInv
  BY <1>2, <1>3 DEF ScopeInv
<1>11. UsedInv
  BY <1>3 DEF UsedInv, OneScopePerTarget
<1> QED
  BY <1>4, <1>5, <1>6, <1>7, <1>8, <1>9, <1>10, <1>11 DEF IInv

-----------------------------------------------------------------------------
(***************************************************************************)
(* The theorems.                                                           *)
(***************************************************************************)

\* The invariant holds in every reachable state of ssh_manager.go, ssh_transport.go
\* and ssh_scope.go.
THEOREM Invariance == Spec => []IInv
<1>1. IInv /\ [Next]_vars => IInv'
  BY TypeStep, PlaceStep, ClaimInvStep, LockInvStep, MasterInvStep, BaseInvStep,
     ScopeInvStep, UsedInvStep DEF IInv
<1>2. Init => IInv
  BY InitIInv
<1> QED
  BY <1>1, <1>2, PTL DEF Spec

\* Connections, claimants and scopes stay within their types.
THEOREM TypeCorrect == Spec => []TypeOK
<1>1. IInv => TypeOK
  BY DEF IInv
<1> QED
  BY <1>1, Invariance, PTL

\* When runFile has returned, RemoveBase and closeAltScopes have asked for every
\* directory its claimants know of: what is left on a host is a directory whose
\* removal failed over a live connection, or one that a failed mktemp told nobody of.
THEOREM NothingIsForgotten == Spec => []NoBaseForgotten
<1>1. IInv => NoBaseForgotten
  <2> SUFFICES ASSUME IInv, ~keepTemp, NEW b \in bases, at[<<b[2][1], 0>>] = "exited",
                      b \notin abandoned
               PROVE  FALSE
    BY DEF NoBaseForgotten
  <2>1. Claimed(b) /\ b[2] \in Claimants /\ Target(b[2]) \in Hosts
    BY BaseOwner DEF IInv, BaseInv
  <2>2. b = <<HostFor(b[2]), b[2]>> /\ b # NoBase
    BY BaseOwner
  <2>3. CASE b[2][2] = 0
    <3>1. b[2] = <<b[2][1], 0>>
      BY <2>1, <2>3, ClaimantShape
    <3> QED
      BY <2>1, <2>3, <3>1 DEF Claimed
  <2>4. CASE b[2][2] # 0
    <3>1. b[2] \in Instances /\ b[2][1] \in Files
      BY <2>1, <2>4, ClaimantShape
    <3>2. at[b[2]] # "push"
      BY <3>1 DEF IInv, PlaceInv
    <3>3. scopes[b[2][1]][Target(b[2])] = b
      BY <2>1, <2>4, <3>2 DEF Claimed
    <3> QED
      BY <2>1, <2>2, <3>1, <3>3 DEF IInv, ScopeInv
  <2> QED
    BY <2>3, <2>4
<1> QED
  BY <1>1, Invariance, PTL

\* A remote command runs in a directory that exists, over a connection whose master
\* is up: neither its file nor another that shares the host takes them from it.
THEOREM CommandsRunInALiveBase == Spec => []RunsInALiveBase
<1>1. IInv => RunsInALiveBase
  <2> SUFFICES ASSUME IInv, NEW c \in Instances, at[c] = "executing"
               PROVE  usedBase[c] \in bases /\ master[usedBase[c][1]] = "up"
    BY DEF RunsInALiveBase
  <2>1. c[1] \in Files /\ at[<<c[1], 0>>] = "open"
    BY ClaimantShape DEF IInv, PlaceInv
  <2>2. usedBase[c] # NoBase /\ usedBase[c] = BaseOf(c)
    BY <2>1 DEF IInv, UsedInv
  <2>3. usedBase[c] \in bases
    <3>1. CASE OnHome(c)
      BY <2>1, <2>2, <3>1 DEF BaseOf, IInv, BaseInv
    <3>2. CASE ~OnHome(c)
      <4>1. Target(c) \in Hosts
        BY <3>2, TargetType DEF OnHome
      <4> QED
        BY <2>1, <2>2, <3>2, <4>1 DEF BaseOf, IInv, ScopeInv
    <3> QED
      BY <3>1, <3>2
  <2>4. conn[usedBase[c][1]] = "up" /\ usedBase[c][1] \in Hosts
    BY <2>3, BaseOwner DEF IInv, BaseInv
  <2>5. run = "open"
    BY <2>1 DEF IInv, MasterInv, TypeOK
  <2> QED
    BY <2>3, <2>4, <2>5 DEF IInv, MasterInv
<1> QED
  BY <1>1, Invariance, PTL

\* altScope returns one scope to all the tests of a file with one target.
THEOREM ScopesAreShared == Spec => []OneScopePerTarget
<1>1. IInv => OneScopePerTarget
  BY DEF IInv, UsedInv
<1> QED
  BY <1>1, Invariance, PTL

\* Every directory on a host was claimed on the typed target, or by a file that was
\* approved for the host: Resolve asks for every file, whatever is connected.
THEOREM GrantsComeFirst == Spec => []EveryHostWasGranted
<1>1. IInv => EveryHostWasGranted
  <2> SUFFICES ASSUME IInv, NEW b \in bases
               PROVE  IF typed # NoHost THEN b[1] = typed ELSE <<b[2][1], b[1]>> \in approved
    BY DEF EveryHostWasGranted
  <2>1. b[1] = HostFor(b[2]) /\ Granted(b[2])
    BY DEF IInv, BaseInv
  <2> QED
    BY <2>1 DEF HostFor, Granted
<1> QED
  BY <1>1, Invariance, PTL

\* SSHManager.Close stops every master the run started.
THEOREM NoMasterOutlivesTheRun == Spec => []MastersStopped
<1>1. IInv => MastersStopped
  BY DEF IInv, MasterInv, MastersStopped
<1> QED
  BY <1>1, Invariance, PTL

\* The directory applySnapshot takes for the one in the output is the one the command
\* ran in exactly for the tests that scopeFor leaves at home: an override is all it
\* takes for a golden to keep a path, and nothing less does.
OnlyOverridesKeepPaths ==
  \A c \in Instances : at[c] = "executing" => (usedBase[c] = SnapshotBase(c) <=> OnHome(c))

\* What is wrong with the goldens of NormalizedPaths is the override alone: without
\* one, paths are normalized whichever files and tests share hosts and connections.
THEOREM HomeOutputIsNormalized == Spec => []OnlyOverridesKeepPaths
<1>1. IInv => OnlyOverridesKeepPaths
  <2> SUFFICES ASSUME IInv, NEW c \in Instances, at[c] = "executing"
               PROVE  usedBase[c] = SnapshotBase(c) <=> OnHome(c)
    BY DEF OnlyOverridesKeepPaths
  <2>1. c[1] \in Files /\ at[<<c[1], 0>>] = "open"
    BY ClaimantShape DEF IInv, PlaceInv
  <2>2. usedBase[c] # NoBase /\ usedBase[c] = BaseOf(c)
    BY <2>1 DEF IInv, UsedInv
  <2>3. CASE OnHome(c)
    BY <2>2, <2>3 DEF BaseOf, SnapshotBase
  <2>4. CASE ~OnHome(c)
    <3>1. Target(c) \in Hosts /\ usedBase[c] = scopes[c[1]][Target(c)]
      BY <2>2, <2>4, TargetType DEF OnHome, BaseOf
    <3>2. usedBase[c] \in bases
      BY <2>1, <2>2, <3>1 DEF IInv, ScopeInv
    <3>3. usedBase[c][2] \in Instances
      BY <2>1, <3>1, <3>2, ScopeApart
    <3>4. SnapshotBase(c)[2] \notin Instances
      BY <2>1, ClaimantShape DEF SnapshotBase, HomeBase
    <3> QED
      BY <2>4, <3>3, <3>4
  <2> QED
    BY <2>3, <2>4
<1> QED
  BY <1>1, Invariance, PTL

=================================================================================
