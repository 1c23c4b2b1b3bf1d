------------------------------ MODULE Execution ------------------------------
(***************************************************************************)
(* One command under execute (runner/exec.go): the process dats spawns,    *)
(* the context that may end it, os/exec's watcher that calls               *)
(* command.Cancel, the goroutine that kills what runs beyond the spawned   *)
(* process, the pipes, and the classification of the outcome; then the end *)
(* of the file and of dats itself.                                         *)
(*                                                                         *)
(* The spawned client is the command itself (host), bwrap around it, the   *)
(* docker client or the ssh client.  The workload is what remains of the   *)
(* command beside its client: background processes of its group, the       *)
(* container, or the remote processes.  os/exec, docker, ssh and the       *)
(* kernel are modelled from how execute uses them.                         *)
(***************************************************************************)
CONSTANTS
  Boundaries,   (* among "host", "bwrap", "container" and "remote"          *)
  KillFails     (* the kill over docker or ssh may fail; it is best effort  *)

ASSUME ConstantsAssumption ==
  /\ Boundaries \subseteq {"host", "bwrap", "container", "remote"}
  /\ KillFails \in BOOLEAN

VARIABLES
  boundary,     (* where the command runs                                   *)
  bounded,      (* req.Timeout > 0                                          *)
  exec,         (* where execute is                                         *)
  ctxErr,       (* ctx.Err(): what ended the context first                  *)
  client,       (* the spawned process                                      *)
  status,       (* how it ended                                             *)
  workload,     (* the rest of the command                                  *)
  canceller,    (* os/exec's context watcher                                *)
  cancelFired,
  killer,       (* the goroutine of sandboxed.Kill                          *)
  forker,       (* startCommand's locked thread                             *)
  result,       (* what the caller learns                                   *)
  base,         (* the file's directory on the target, with the pid files   *)
  dats          (* the dats process                                         *)

outside == <<boundary, bounded, base, dats>>
vars == <<outside, exec, ctxErr, client, status, workload, canceller,
          cancelFired, killer, forker, result>>

Elsewhere == boundary \in {"container", "remote"}

Init ==
  /\ boundary \in Boundaries
  /\ bounded \in BOOLEAN
  /\ exec = "starting"
  /\ ctxErr \in {"none", "canceled"}
  /\ client = "none"
  /\ status = "none"
  /\ workload = "none"
  /\ canceller = "idle"
  /\ cancelFired = FALSE
  /\ killer = "none"
  /\ forker = "none"
  /\ result = "none"
  /\ base = "present"
  /\ dats = "alive"

-----------------------------------------------------------------------------
(***************************************************************************)
(* The context: WithTimeout around the caller's, the first cause stays.    *)
(***************************************************************************)
Deadline ==
  /\ bounded /\ ctxErr = "none" /\ exec # "returned"
  /\ ctxErr' = "deadline"
  /\ UNCHANGED <<outside, exec, client, status, workload, canceller,
                 cancelFired, killer, forker, result>>

Interrupt ==
  /\ ctxErr = "none" /\ exec # "returned"
  /\ ctxErr' = "canceled"
  /\ UNCHANGED <<outside, exec, client, status, workload, canceller,
                 cancelFired, killer, forker, result>>

(***************************************************************************)
(* startCommand.  Start refuses a context that is done, and may fail.      *)
(***************************************************************************)
StartFails ==
  /\ exec = "starting"
  /\ exec' = "returned"
  /\ result' = "error"
  /\ UNCHANGED <<outside, ctxErr, client, status, workload, canceller,
                 cancelFired, killer, forker>>

Start ==
  /\ exec = "starting"
  /\ ctxErr = "none"
  /\ exec' = "waiting"
  /\ client' = "running"
  /\ forker' = "alive"
  /\ UNCHANGED <<outside, ctxErr, status, workload, canceller,
                 cancelFired, killer, result>>

(***************************************************************************)
(* The command.                                                            *)
(***************************************************************************)

\* A background process is forked, the container is created, or the remote
\* shell writes its pid file and becomes the command.
WorkloadStarts ==
  /\ client = "running"
  /\ workload = "none"
  /\ workload' = "running"
  /\ UNCHANGED <<outside, exec, ctxErr, client, status, canceller,
                 cancelFired, killer, forker, result>>

\* The command ends by itself.  Background processes may stay, on the host and on
\* the target; a container and a bwrap namespace end with their main process.
ClientExits ==
  /\ client = "running"
  /\ boundary = "container" => workload # "gone"
  /\ client' = "exited"
  /\ status' \in {"success", "failure", "signal"}
  /\ IF boundary \in {"host", "remote"}
       THEN workload' \in {workload, "gone"}
       ELSE workload' = "gone"
  /\ UNCHANGED <<outside, exec, ctxErr, canceller, cancelFired, killer,
                 forker, result>>

\* The connection breaks: ssh itself exits 255 and the remote command goes on.
ConnectionLost ==
  /\ boundary = "remote"
  /\ client = "running"
  /\ client' = "exited"
  /\ status' = "lost"
  /\ UNCHANGED <<outside, exec, ctxErr, workload, canceller, cancelFired, killer,
                 forker, result>>

\* The killing goroutine was faster than the signal to the client, which exits and
\* passes on that its command was killed: docker with 137, ssh with 255.
ClientRelaysKill ==
  /\ Elsewhere
  /\ client = "running"
  /\ workload = "gone"
  /\ client' = "exited"
  /\ status' = "relayed"
  /\ UNCHANGED <<outside, exec, ctxErr, workload, canceller, cancelFired, killer,
                 forker, result>>

WorkloadEnds ==
  /\ workload = "running"
  /\ client = "exited"
  /\ workload' = "gone"
  /\ UNCHANGED <<outside, exec, ctxErr, client, status, canceller,
                 cancelFired, killer, forker, result>>

(***************************************************************************)
(* command.Cancel, called by os/exec's watcher until Wait has heard from   *)
(* it: possibly after the client was reaped.                               *)
(***************************************************************************)
\* Defect: the watcher looks at the caller's context, not at the one with the
\* timeout.
CancelOnInterruptOnly ==
  /\ exec \in {"waiting", "reaped"}
  /\ canceller = "idle"
  /\ ctxErr = "canceled"
  /\ canceller' = "killing"
  /\ cancelFired' = TRUE
  /\ killer' = IF Elsewhere THEN "spawned" ELSE "none"
  /\ UNCHANGED <<outside, exec, ctxErr, client, status, workload, forker,
                 result>>

Cancel ==
  /\ exec \in {"waiting", "reaped"}
  /\ canceller = "idle"
  /\ ctxErr # "none"
  /\ canceller' = "killing"
  /\ cancelFired' = TRUE
  /\ killer' = IF Elsewhere THEN "spawned" ELSE "none"
  /\ UNCHANGED <<outside, exec, ctxErr, client, status, workload, forker,
                 result>>

\* killProcessGroup looks the group up.  A process that has ended can still be
\* found until Wait reaps it; then Process.Kill is the fallback, and finds the
\* process done.
FindGroup ==
  /\ canceller = "killing"
  /\ canceller' = IF exec = "waiting" THEN "found" ELSE "done"
  /\ UNCHANGED <<outside, exec, ctxErr, client, status, workload, cancelFired,
                 killer, forker, result>>

\* Defect: the status is taken at the kill and not from Wait.
KillWithoutWait ==
  /\ canceller = "found"
  /\ canceller' = "done"
  /\ status' = "killed"
  /\ UNCHANGED <<outside, client, workload, exec, ctxErr, cancelFired, killer,
                 forker, result>>

\* The signal to what is in the group by now, its leader reaped meanwhile or not.
\* What runs in a container or on the target is not in it.
SignalGroup ==
  /\ canceller = "found"
  /\ canceller' = "done"
  /\ client' = "exited"
  /\ status' = IF client = "running" THEN "killed" ELSE status
  /\ workload' = IF Elsewhere THEN workload ELSE "gone"
  /\ UNCHANGED <<outside, exec, ctxErr, cancelFired, killer, forker, result>>

\* killContainer and KillRemote.  A container not created yet is not found, nor is
\* a remote process whose pid file is gone.
KillWorkload ==
  /\ dats = "alive"
  /\ killer = "spawned"
  /\ killer' = "done"
  /\ \/ workload' = IF workload = "running" /\ (boundary = "remote" => base = "present")
                      THEN "gone" ELSE workload
     \/ KillFails /\ UNCHANGED workload
  /\ UNCHANGED <<outside, exec, ctxErr, client, status, canceller,
                 cancelFired, forker, result>>

(***************************************************************************)
(* command.Wait.                                                           *)
(***************************************************************************)
Reap ==
  /\ exec = "waiting"
  /\ client = "exited"
  /\ exec' = "reaped"
  /\ UNCHANGED <<outside, ctxErr, client, status, workload, canceller,
                 cancelFired, killer, forker, result>>

\* Wait hears from the watcher, which is then over.
Drain ==
  /\ exec = "reaped"
  /\ canceller \in {"idle", "done"}
  /\ exec' = "draining"
  /\ UNCHANGED <<outside, ctxErr, client, status, workload, canceller,
                 cancelFired, killer, forker, result>>

\* Defect: no WaitDelay, the pipes are read to their end.
PipesReadToTheEnd == boundary \in {"host", "bwrap"} => workload # "running"

\* Stragglers hold the pipes open; after WaitDelay they are closed on this side.
PipesClosed == TRUE

\* Defect: a late exit of the command's own is taken for the timeout.
TimedOutWhateverTheStatus == ctxErr = "deadline" /\ cancelFired

\* A signal status is the one thing that tells a killed command from one that
\* exited by itself while the deadline passed.
TimedOut == ctxErr = "deadline" /\ cancelFired /\ status \in {"signal", "killed"}

\* The output is collected and the outcome classified; any status of the client,
\* docker's 137 and ssh's 255 included, is the command's.
Return ==
  /\ exec = "draining"
  /\ PipesClosed
  /\ exec' = "returned"
  /\ result' = IF TimedOut THEN "timedout" ELSE "completed"
  /\ UNCHANGED <<outside, ctxErr, client, status, workload, canceller,
                 cancelFired, killer, forker>>

\* Defect: the thread that forked the command is not held.
ForkerNotHeld == exec # "starting"

\* release() follows Wait.
ForkerReleased == exec \in {"draining", "returned"}

\* The parent-death signal of bwrap --die-with-parent is raised when the thread
\* that forked it ends.
ForkerEnds ==
  /\ forker = "alive"
  /\ ForkerReleased
  /\ forker' = "ended"
  /\ IF boundary = "bwrap" /\ client = "running"
       THEN client' = "exited" /\ status' = "killed" /\ workload' = "gone"
       ELSE UNCHANGED <<client, status, workload>>
  /\ UNCHANGED <<outside, exec, ctxErr, canceller, cancelFired, killer, result>>

(***************************************************************************)
(* After execute: the file's deferred RemoveBase, and the end of dats,     *)
(* neither of which waits for the killing goroutine.                       *)
(***************************************************************************)
FileEnds ==
  /\ exec = "returned"
  /\ base = "present"
  /\ base' = "removed"
  /\ UNCHANGED <<boundary, bounded, dats, exec, ctxErr, client, status, workload,
                 canceller, cancelFired, killer, forker, result>>

DatsExits ==
  /\ base = "removed"
  /\ dats = "alive"
  /\ dats' = "exited"
  /\ UNCHANGED <<boundary, bounded, base, exec, ctxErr, client, status, workload,
                 canceller, cancelFired, killer, forker, result>>

-----------------------------------------------------------------------------
\* What dats and os/exec do; whether a command ends, and when, is its own affair.
DatsStep ==
  \/ StartFails \/ Start \/ Reap \/ Drain \/ Return \/ FileEnds \/ DatsExits
WatcherStep == Cancel \/ FindGroup \/ SignalGroup

Next ==
  \/ DatsStep \/ WatcherStep \/ KillWorkload \/ ForkerEnds
  \/ Deadline \/ Interrupt
  \/ WorkloadStarts \/ ClientExits \/ ConnectionLost \/ ClientRelaysKill \/ WorkloadEnds

\* Goroutines are scheduled, and a timer that runs fires.
Spec ==
  /\ Init /\ [][Next]_vars
  /\ WF_vars(DatsStep) /\ WF_vars(WatcherStep)
  /\ WF_vars(KillWorkload) /\ WF_vars(Deadline)

-----------------------------------------------------------------------------
(***************************************************************************)
(* Properties.                                                             *)
(***************************************************************************)

\* Every variable ranges over what the code can store in it, and a process has a
\* status exactly when it has ended.
TypeOK ==
  /\ boundary \in Boundaries
  /\ bounded \in BOOLEAN /\ cancelFired \in BOOLEAN
  /\ exec \in {"starting", "waiting", "reaped", "draining", "returned"}
  /\ ctxErr \in {"none", "deadline", "canceled"}
  /\ client \in {"none", "running", "exited"}
  /\ status \in {"none", "success", "failure", "signal", "killed", "lost", "relayed"}
  /\ status # "none" <=> client = "exited"
  /\ workload \in {"none", "running", "gone"}
  /\ canceller \in {"idle", "killing", "found", "done"}
  /\ killer \in {"none", "spawned", "done"}
  /\ forker \in {"none", "alive", "ended"}
  /\ result \in {"none", "error", "timedout", "completed"}
  /\ base \in {"present", "removed"}
  /\ dats \in {"alive", "exited"}

\* However exit, deadline and interrupt race, execute does not take one for the
\* other: a command its signal killed at the deadline timed out, one that exited by
\* itself in the last moment did not, and neither did one an interrupt killed.  What
\* becomes of a connection that broke, and of a client that passes on a kill of its
\* command, is no part of this: both count as the command's own exit.
OutcomeIsHonest ==
  exec = "returned" /\ client = "exited" =>
    /\ status = "killed" /\ ctxErr = "deadline" => result = "timedout"
    /\ status \in {"success", "failure"} => result = "completed"
    /\ ctxErr = "canceled" => result # "timedout"

\* A command is killed because its context ended and for no other reason: the
\* thread whose death would kill it outlives it.
KilledOnPurposeOnly == status = "killed" => cancelFired

\* A command whose process ended is reported even if background processes hold its
\* pipes, and one whose context ended is killed and reported.
ExecutionEnds ==
  exec \in {"waiting", "reaped", "draining"} /\ (client = "exited" \/ ctxErr # "none")
    ~> exec = "returned"

\* A timeout holds: a command given one is over some time after it starts.
TimeoutHolds == bounded ~> exec = "returned"

\* docs/cli.md:142, a docker command has its "own container, killed when the
\* command is".
ContainerKilledWithCommand ==
  boundary = "container" /\ status = "killed" ~> workload # "running"
=============================================================================
