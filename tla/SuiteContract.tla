----------------------------- MODULE SuiteContract -----------------------------
(***************************************************************************)
(* What a run promises the author of a suite (docs/cli.md, "Scheduling",   *)
(* and docs/file-format.md, "File-Level Setup, Teardown, and Shared        *)
(* Fixtures"), without goroutines, slots, results or errors: in which      *)
(* order the commands of a file may begin, and how many at once.           *)
(* DatsRunner implements this specification.                               *)
(***************************************************************************)
EXTENDS Integers, FiniteSets

CONSTANTS NumFiles, Jobs, Setup, Tests, Teardown

Files == 1 .. NumFiles

SetupHooks(f)    == {<<f, "setup", i>>    : i \in 1 .. Setup[f]}
Instances(f)     == {<<f, "tests", i>>    : i \in 1 .. Tests[f]}
TeardownHooks(f) == {<<f, "teardown", i>> : i \in 1 .. Teardown[f]}
CommandsOf(f)    == SetupHooks(f) \cup Instances(f) \cup TeardownHooks(f)

VARIABLES
  stage,    (* how far each file is                    *)
  active,   (* the commands executing now              *)
  started   (* the commands that have begun, ever      *)

vars == <<stage, active, started>>

ActiveOf(f) == {c \in active : c[1] = f}

Init ==
  /\ stage = [f \in Files |-> "pending"]
  /\ active = {}
  /\ started = {}

(***************************************************************************)
(* A file moves forward only, and never past a command that is executing.  *)
(* Its tests stage is reached only after all of its setup commands began;  *)
(* its teardown stage is never skipped once setup was entered.             *)
(***************************************************************************)
MayFollow(f, to) ==
  \/ stage[f] = "pending"  /\ to \in {"setup", "closed"}
  \/ stage[f] = "setup"    /\ to = "tests" /\ SetupHooks(f) \subseteq started
  \/ stage[f] = "setup"    /\ to = "teardown"
  \/ stage[f] = "tests"    /\ to = "teardown"
  \/ stage[f] = "teardown" /\ to = "closed"

Advance(f) ==
  /\ ActiveOf(f) = {}
  /\ \E to \in {"setup", "tests", "teardown", "closed"} :
       /\ MayFollow(f, to)
       /\ stage' = [stage EXCEPT ![f] = to]
  /\ UNCHANGED <<active, started>>

\* Hooks are sequential; instances are when there is a single slot.  (With more, the
\* order in which docs/cli.md:233 has them start is not kept, and no part of this.)
Exclusive(c) == c[2] # "tests" \/ Jobs = 1

Begin(c) ==
  /\ c \notin started
  /\ stage[c[1]] = c[2]
  /\ Cardinality(active) < Jobs
  /\ Exclusive(c) =>
       /\ ActiveOf(c[1]) = {}
       /\ \A d \in started : d[1] = c[1] /\ d[2] = c[2] => d[3] < c[3]
  /\ active' = active \cup {c}
  /\ started' = started \cup {c}
  /\ UNCHANGED stage

End(c) ==
  /\ active' = active \ {c}
  /\ UNCHANGED <<stage, started>>

Next ==
  \/ \E f \in Files : Advance(f)
  \/ \E f \in Files : \E c \in CommandsOf(f) : Begin(c)
  \/ \E c \in active : End(c)

Spec == Init /\ [][Next]_vars
=============================================================================
