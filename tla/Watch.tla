-------------------------------- MODULE Watch --------------------------------
(***************************************************************************)
(* dats watch (cmd/watch.go): the loop that runs the suites, the watcher   *)
(* rebuilt before every run, and the pump goroutine that forwards the      *)
(* watcher's events to the loop through a bounded channel that drops what  *)
(* does not fit.                                                           *)
(*                                                                         *)
(* A path is abstracted to what the code asks of it: the directory it is   *)
(* in, and whether it is a suite (.dats), a golden file or a directory.    *)
(* Every directory holds at most one suite, and a suite at most one golden *)
(* directory.  Hidden paths, chmod-only events and unrelated files are     *)
(* left out: relevantChange ignores them whatever the state.               *)
(***************************************************************************)
EXTENDS Integers, FiniteSets

CONSTANTS
  SubDirs,      (* directories that may appear below the root               *)
  Capacity,     (* of the events channel, 64 in the code                    *)
  Environments  (* bounds on what may happen around the watch: how many     *)
                (* changes to the file system, suites saved again without   *)
                (* end, and which of the watcher's calls fail               *)

Root == "root"
Dirs == {Root} \cup SubDirs

ASSUME ConstantsAssumption ==
  /\ Root \notin SubDirs
  /\ Capacity \in Nat \ {0}
  /\ Environments \subseteq
       [changes : Nat, endless : BOOLEAN, faults : SUBSET {"NewWatcher", "Add"}]

VARIABLES
  tree,        (* the argument is a directory, not one suite                *)
  update,      (* --update                                                  *)
  around,      (* the environment of this watch                             *)
  subdirs,     (* the subdirectories that exist                             *)
  suites,      (* directories that hold a suite                             *)
  goldens,     (* directories whose suite has a golden directory            *)
  changes,     (* changes made so far                                       *)
  unnoticed,   (* inputs in scope that changed since the loop last looked   *)
  loop,        (* where watchLoop and cycle are                             *)
  files,       (* w.files: the suites last resolved                         *)
  planned,     (* places still to be added to the new watcher               *)
  fresh,       (* the watcher being built                                   *)
  open,        (* w.watcher                                                 *)
  channel,     (* events in w.events                                        *)
  cancelled    (* the context of signal.NotifyContext is done               *)

flags   == <<tree, update, around>>
disk    == <<subdirs, suites, goldens>>
watches == <<planned, fresh, open>>
vars    == <<flags, disk, changes, unnoticed, loop, files, watches, channel, cancelled>>

-----------------------------------------------------------------------------
LoopStates == {"resolve", "rebuild", "add", "run", "running",
               "idle", "debounce", "stopped"}

\* What can be watched: a directory, and the golden directory of its suite.
Places == {"dir", "goldens"} \X Dirs

\* What a place reports: a suite written or removed, a golden file written, a
\* directory created.
Events == {"suite", "golden", "mkdir"} \X Dirs

\* The inputs of a run, and the place that reports on each.
Inputs == {"suite", "golden"} \X Dirs
PlaceOf(input) == <<IF input[1] = "suite" THEN "dir" ELSE "goldens", input[2]>>

NoWatcher == [places |-> {}, queue |-> {}]

\* FindFiles: a directory argument is walked, a file argument must exist; no
\* suite is an error.
InScope(d) == tree \/ d = Root
Resolved == {d \in suites : InScope(d)}

Init ==
  /\ tree \in BOOLEAN
  /\ update \in BOOLEAN
  /\ around \in Environments
  /\ subdirs \in SUBSET SubDirs
  /\ suites \in SUBSET ({Root} \cup subdirs)
  /\ Resolved # {}                    \* startup errors end the command
  /\ goldens \in SUBSET suites
  /\ changes = 0
  /\ unnoticed = {}
  /\ loop = "resolve"
  /\ files = {}
  /\ planned = {}
  /\ fresh = NoWatcher
  /\ open = NoWatcher
  /\ channel = 0
  /\ cancelled = FALSE

-----------------------------------------------------------------------------
(***************************************************************************)
(* The file system, changed by the user, another program or a run.         *)
(***************************************************************************)

\* Defect: golden files trigger whether or not the run itself writes them.
RelevantIgnoringUpdate(e) ==
  \/ e[1] = "suite" /\ InScope(e[2])
  \/ e[1] = "mkdir" /\ tree
  \/ e[1] = "golden"

\* relevantChange, for the events a watched place can report.
Relevant(e) ==
  \/ e[1] = "suite" /\ InScope(e[2])
  \/ e[1] = "mkdir" /\ tree
  \/ e[1] = "golden" /\ ~update

\* The kernel queues an event on every watcher whose places include where it
\* happened; reports is a set of <<place, event>>.
Reporting(w, reports) ==
  [w EXCEPT !.queue = @ \cup {r[2] : r \in {q \in reports : q[1] \in w.places}}]
Report(reports) ==
  /\ open' = Reporting(open, reports)
  /\ fresh' = Reporting(fresh, reports)
  /\ UNCHANGED planned

Change ==
  /\ changes < around.changes
  /\ loop # "stopped"
  /\ changes' = changes + 1
  /\ UNCHANGED <<flags, loop, files, channel, cancelled>>

WriteSuite(d) ==
  /\ Change
  /\ d = Root \/ d \in subdirs
  /\ suites' = suites \cup {d}
  /\ unnoticed' = unnoticed \cup (IF InScope(d) THEN {<<"suite", d>>} ELSE {})
  /\ Report({<<<<"dir", d>>, <<"suite", d>>>>})
  /\ UNCHANGED <<subdirs, goldens>>

\* A suite is saved over and over, by an editor or a build that does not stop.
SaveAgain(d) ==
  /\ around.endless
  /\ loop # "stopped"
  /\ d \in suites
  /\ unnoticed' = unnoticed \cup (IF InScope(d) THEN {<<"suite", d>>} ELSE {})
  /\ Report({<<<<"dir", d>>, <<"suite", d>>>>})
  /\ UNCHANGED <<flags, disk, changes, loop, files, channel, cancelled>>

RemoveSuite(d) ==
  /\ Change
  /\ d \in suites
  /\ suites' = suites \ {d}
  /\ unnoticed' = unnoticed \cup (IF InScope(d) THEN {<<"suite", d>>} ELSE {})
  /\ Report({<<<<"dir", d>>, <<"suite", d>>>>})
  /\ UNCHANGED <<subdirs, goldens>>

MakeDir(d) ==
  /\ Change
  /\ d \in SubDirs \ subdirs
  /\ subdirs' = subdirs \cup {d}
  /\ Report({<<<<"dir", Root>>, <<"mkdir", d>>>>})
  /\ UNCHANGED <<suites, goldens, unnoticed>>

\* A golden file is edited by hand; under --update it is not an input.
EditGolden(d) ==
  /\ Change
  /\ d \in goldens
  /\ unnoticed' = unnoticed \cup
       (IF InScope(d) /\ d \in suites /\ ~update THEN {<<"golden", d>>} ELSE {})
  /\ Report({<<<<"goldens", d>>, <<"golden", d>>>>})
  /\ UNCHANGED disk

-----------------------------------------------------------------------------
(***************************************************************************)
(* cycle: resolve the scope, rebuild the watcher, run.                     *)
(***************************************************************************)

\* The suites left the scope or the argument cannot be resolved: the error is
\* reported, and the old watcher stays as it is.
ResolveFails ==
  /\ loop = "resolve"
  /\ Resolved = {}
  /\ unnoticed' = {}
  /\ loop' = "idle"
  /\ UNCHANGED <<flags, disk, changes, files, watches, channel, cancelled>>

Resolve ==
  /\ loop = "resolve"
  /\ Resolved # {}
  /\ files' = Resolved
  /\ loop' = "rebuild"
  /\ UNCHANGED <<flags, disk, changes, unnoticed, watches, channel, cancelled>>

\* computeWatchDirs: the directories of the suites, their golden directories
\* where they exist, and the walk of a directory argument.
WatchDirs ==
  {<<"dir", d>> : d \in files}
    \cup {<<"goldens", d>> : d \in files \cap goldens}
    \cup (IF tree THEN {<<"dir", d>> : d \in {Root} \cup subdirs} ELSE {})

RebuildWatches ==
  /\ loop = "rebuild"
  /\ planned' = WatchDirs
  /\ fresh' = NoWatcher
  /\ loop' = "add"
  /\ UNCHANGED <<flags, disk, changes, unnoticed, files, open, channel, cancelled>>

\* fsnotify.NewWatcher fails: the old watcher is kept, the run still counts.
RebuildFails ==
  /\ "NewWatcher" \in around.faults
  /\ loop = "rebuild"
  /\ loop' = "run"
  /\ UNCHANGED <<flags, disk, changes, unnoticed, files, watches, channel, cancelled>>

AddWatch ==
  /\ loop = "add"
  /\ \E p \in planned :
       /\ planned' = planned \ {p}
       /\ fresh' = [fresh EXCEPT !.places = @ \cup {p}]
  /\ UNCHANGED <<flags, disk, changes, unnoticed, loop, files, open, channel, cancelled>>

\* The error of watcher.Add is dropped: the place goes unwatched.
AddFails ==
  /\ "Add" \in around.faults
  /\ loop = "add"
  /\ \E p \in planned : planned' = planned \ {p}
  /\ UNCHANGED <<flags, disk, changes, unnoticed, loop, files, fresh, open, channel, cancelled>>

\* The old watcher is closed, and what it had queued is gone.
SwapWatcher ==
  /\ loop = "add"
  /\ planned = {}
  /\ open' = fresh
  /\ fresh' = NoWatcher
  /\ loop' = "run"
  /\ UNCHANGED <<flags, disk, changes, unnoticed, files, planned, channel, cancelled>>

\* runTests resolves the arguments again and reads every suite before it runs
\* the first command.
RunTests ==
  /\ loop = "run"
  /\ unnoticed' = {}
  /\ loop' = "running"
  /\ UNCHANGED <<flags, disk, changes, files, watches, channel, cancelled>>

\* Under --update a run may write goldens, creating golden directories.  Whether
\* it failed, and whether it was interrupted, changes what is printed only.
RunEnds ==
  /\ loop = "running"
  /\ \E D \in SUBSET (IF update THEN Resolved ELSE {}) :
       /\ goldens' = goldens \cup D
       /\ Report({<<<<"dir", d>>, <<"mkdir", d>>>> : d \in D \ goldens}
                   \cup {<<<<"goldens", d>>, <<"golden", d>>>> : d \in D})
  /\ loop' = "idle"
  /\ UNCHANGED <<flags, subdirs, suites, changes, unnoticed, files, channel, cancelled>>

(***************************************************************************)
(* pumpEvents, in a goroutine of its own.                                  *)
(***************************************************************************)

\* Defect: an unbuffered channel, which takes an event only when the loop is
\* receiving.
ForwardUnbuffered ==
  \E e \in open.queue :
    /\ open' = [open EXCEPT !.queue = @ \ {e}]
    /\ channel' = IF Relevant(e) /\ channel = 0 /\ loop \in {"idle", "debounce"} THEN 1 ELSE channel
    /\ UNCHANGED <<flags, disk, changes, unnoticed, loop, files, planned, fresh, cancelled>>

\* Defect: one event more than the channel holds.
ForwardOverfull ==
  \E e \in open.queue :
    /\ open' = [open EXCEPT !.queue = @ \ {e}]
    /\ channel' = IF Relevant(e) /\ channel <= Capacity THEN channel + 1 ELSE channel
    /\ UNCHANGED <<flags, disk, changes, unnoticed, loop, files, planned, fresh, cancelled>>

Forward ==
  \E e \in open.queue :
    /\ open' = [open EXCEPT !.queue = @ \ {e}]
    /\ channel' = IF Relevant(e) /\ channel < Capacity THEN channel + 1 ELSE channel
    /\ UNCHANGED <<flags, disk, changes, unnoticed, loop, files, planned, fresh, cancelled>>

(***************************************************************************)
(* watchLoop.                                                              *)
(***************************************************************************)

\* The first event starts the debounce timer, each later one restarts it.
Receive ==
  /\ loop \in {"idle", "debounce"}
  /\ channel > 0
  /\ channel' = channel - 1
  /\ loop' = "debounce"
  /\ UNCHANGED <<flags, disk, changes, unnoticed, files, watches, cancelled>>

DebounceOver ==
  /\ loop = "debounce"
  /\ loop' = "resolve"
  /\ UNCHANGED <<flags, disk, changes, unnoticed, files, watches, channel, cancelled>>

\* Defect: the loop looks at the context while it waits for a first event only.
StopWaiting ==
  /\ loop = "idle"
  /\ cancelled
  /\ loop' = "stopped"
  /\ UNCHANGED <<flags, disk, changes, unnoticed, files, watches, channel, cancelled>>

Stop ==
  /\ loop \in {"idle", "debounce"}
  /\ cancelled
  /\ loop' = "stopped"
  /\ UNCHANGED <<flags, disk, changes, unnoticed, files, watches, channel, cancelled>>

Interrupt ==
  /\ loop # "stopped"
  /\ ~cancelled
  /\ cancelled' = TRUE
  /\ UNCHANGED <<flags, disk, changes, unnoticed, loop, files, watches, channel>>

-----------------------------------------------------------------------------
LoopStep ==
  \/ ResolveFails \/ Resolve \/ RebuildWatches \/ RebuildFails \/ AddWatch
  \/ AddFails \/ SwapWatcher \/ RunTests \/ RunEnds \/ Receive \/ DebounceOver \/ Stop

UserStep ==
  \/ \E d \in Dirs : WriteSuite(d) \/ SaveAgain(d) \/ RemoveSuite(d) \/ EditGolden(d)
  \/ \E d \in SubDirs : MakeDir(d)

Next == LoopStep \/ Forward \/ UserStep \/ Interrupt

\* The loop and the pump are goroutines, a run ends (DatsRunner), the debounce
\* timer fires.  Users need not do anything.  Both selects of watchLoop choose at
\* random among the cases that are ready, so a done context is not passed over for
\* ever: strong fairness of Stop, which is not ready during a run.
Spec ==
  /\ Init /\ [][Next]_vars
  /\ WF_vars(LoopStep) /\ WF_vars(Forward)
  /\ SF_vars(Stop)

-----------------------------------------------------------------------------
(***************************************************************************)
(* Properties.                                                             *)
(***************************************************************************)

\* Every variable ranges over what the code can store in it, and goldens are of
\* directories that exist.
TypeOK ==
  /\ {tree, update, cancelled} \subseteq BOOLEAN
  /\ around \in Environments
  /\ subdirs \subseteq SubDirs
  /\ suites \subseteq {Root} \cup subdirs
  /\ goldens \subseteq {Root} \cup subdirs
  /\ changes \in 0 .. around.changes
  /\ unnoticed \subseteq Inputs
  /\ loop \in LoopStates
  /\ files \subseteq Dirs
  /\ planned \subseteq Places
  /\ fresh \in [places : SUBSET Places, queue : SUBSET Events]
  /\ open \in [places : SUBSET Places, queue : SUBSET Events]
  /\ channel \in 0 .. Capacity

Watched(input) == PlaceOf(input) \in open.places

\* No wakeup is lost.  The channel drops events and closing a watcher drops its
\* queue; still, whenever a watched input has changed since the last look, an
\* event is queued, or on its way to the loop, or the loop is about to look.
NoLostWakeup ==
  loop = "idle" /\ channel = 0 /\ (\A e \in open.queue : ~Relevant(e)) =>
    \A input \in unnoticed : ~Watched(input)

\* A change of a watched input is followed by a run, or by the report that
\* nothing is left to run, unless the watch ends first, or saving without end keeps
\* the debounce timer from firing.
WatchedChangesNoticed ==
  \A input \in Inputs :
    ~around.endless /\ input \in unnoticed /\ Watched(input)
      ~> input \notin unnoticed \/ loop = "stopped"

\* Once nobody changes a file any more the watch stops re-running: what a run
\* writes itself, goldens under --update included, does not keep triggering it.
Settles == ~around.endless => <>[](loop \in {"idle", "stopped"})

\* Ctrl-C ends the watch wherever the loop is, although events that never stop
\* may keep it debouncing and running.
InterruptEndsWatch == cancelled ~> loop = "stopped"

\* docs/cli.md:297, "newly created .dats files and new subdirectories are picked
\* up and join the scope": while a directory argument is watched, a suite created
\* or changed anywhere below it is noticed.
NewSuitesJoin ==
  \A d \in Dirs :
    ~around.endless /\ tree /\ Watched(<<"suite", Root>>) /\ <<"suite", d>> \in unnoticed
      ~> <<"suite", d>> \notin unnoticed \/ loop = "stopped"
=============================================================================
