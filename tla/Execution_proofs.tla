-------------------------- MODULE Execution_proofs --------------------------
(***************************************************************************)
(* Theorems about Execution: what execute reports, and when it kills, for  *)
(* every set of boundaries and in every order of exit, deadline and        *)
(* interrupt.                                                              *)
(***************************************************************************)
EXTENDS Execution, TLAPS

-----------------------------------------------------------------------------
(***************************************************************************)
(* The inductive invariant.                                                *)
(***************************************************************************)

\* Where execute is says whether the process exists and whether the watcher may
\* still be at work: Wait hears from it before it drains the pipes, so nothing is
\* killed after that.
ControlInv ==
  /\ exec = "starting" => client = "none" /\ canceller = "idle" /\ forker = "none"
  /\ exec = "waiting" => client # "none"
  /\ exec \in {"reaped", "draining"} => client = "exited"
  /\ exec = "returned" => client # "running"
  /\ exec \in {"draining", "returned"} => canceller \in {"idle", "done"}
  /\ canceller = "found" => client # "none"
  /\ canceller # "idle" => cancelFired

\* The classification made by Return still describes the state: neither the cause
\* of the context nor the status changes after it.
ResultInv ==
  exec = "returned" /\ client = "exited" =>
    result = IF TimedOut THEN "timedout" ELSE "completed"

IInv == TypeOK /\ ControlInv /\ ResultInv /\ KilledOnPurposeOnly

-----------------------------------------------------------------------------
\* Before the command starts nothing is killed and nothing reported.
LEMMA InitIInv == Init => IInv
BY DEF Init, IInv, TypeOK, ControlInv, ResultInv, TimedOut, KilledOnPurposeOnly

\* Every operation leaves every variable within its type.
LEMMA TypeStep == IInv /\ [Next]_vars => TypeOK'
<1> SUFFICES ASSUME IInv, [Next]_vars PROVE TypeOK'
  OBVIOUS
<1> USE DEF IInv, TypeOK
<1>1. CASE Deadline \/ Interrupt
  BY <1>1 DEF Deadline, Interrupt, outside
<1>2. CASE DatsStep
  BY <1>2 DEF DatsStep, StartFails, Start, Reap, Drain, Return, FileEnds, DatsExits,
              ControlInv, outside
<1>3. CASE WatcherStep
  <2>1. CASE Cancel
    BY <2>1 DEF Cancel, outside
  <2>2. CASE FindGroup
    BY <2>2 DEF FindGroup, outside
  <2>3. CASE SignalGroup
    BY <2>3 DEF SignalGroup, ControlInv, outside
  <2> QED
    BY <1>3, <2>1, <2>2, <2>3 DEF WatcherStep
<1>4. CASE KillWorkload
  BY <1>4 DEF KillWorkload, outside
<1>5. CASE ForkerEnds
  BY <1>5 DEF ForkerEnds, outside
<1>6. CASE WorkloadStarts \/ WorkloadEnds
  BY <1>6 DEF WorkloadStarts, WorkloadEnds, outside
<1>7. CASE ClientExits \/ ConnectionLost \/ ClientRelaysKill
  BY <1>7 DEF ClientExits, ConnectionLost, ClientRelaysKill, outside
<1>8. CASE UNCHANGED vars
  BY <1>8 DEF vars, outside
<1> QED
  BY <1>1, <1>2, <1>3, <1>4, <1>5, <1>6, <1>7, <1>8 DEF Next

\* Wait is past the watcher before it returns, and the process past its end.
LEMMA ControlStep == IInv /\ [Next]_vars => ControlInv'
<1> SUFFICES ASSUME IInv, [Next]_vars PROVE ControlInv'
  OBVIOUS
<1> USE DEF IInv, ControlInv
<1>1. CASE Deadline \/ Interrupt
  BY <1>1 DEF Deadline, Interrupt
<1>2. CASE DatsStep
  BY <1>2 DEF DatsStep, StartFails, Start, Reap, Drain, Return, FileEnds, DatsExits
<1>3. CASE WatcherStep
  BY <1>3 DEF WatcherStep, Cancel, FindGroup, SignalGroup, TypeOK
<1>4. CASE KillWorkload \/ ForkerEnds
  BY <1>4 DEF KillWorkload, ForkerEnds
<1>5. CASE WorkloadStarts \/ WorkloadEnds \/ ClientExits \/ ConnectionLost \/ ClientRelaysKill
  BY <1>5 DEF WorkloadStarts, WorkloadEnds, ClientExits, ConnectionLost, ClientRelaysKill, TypeOK
<1>6. CASE UNCHANGED vars
  BY <1>6 DEF vars
<1> QED
  BY <1>1, <1>2, <1>3, <1>4, <1>5, <1>6 DEF Next

\* What Return reported stays true, and only the watcher kills.
LEMMA OutcomeStep == IInv /\ [Next]_vars => ResultInv' /\ KilledOnPurposeOnly'
<1> SUFFICES ASSUME IInv, [Next]_vars PROVE ResultInv' /\ KilledOnPurposeOnly'
  OBVIOUS
<1> USE DEF IInv, TypeOK, ControlInv, ResultInv, TimedOut, KilledOnPurposeOnly
<1>1. CASE Deadline \/ Interrupt
  BY <1>1 DEF Deadline, Interrupt, outside
<1>2. CASE DatsStep
  BY <1>2 DEF DatsStep, StartFails, Start, Reap, Drain, Return, FileEnds, DatsExits, outside
<1>3. CASE Cancel
  BY <1>3 DEF Cancel, outside
<1>4. CASE FindGroup \/ SignalGroup
  BY <1>4 DEF FindGroup, SignalGroup, outside
<1>5. CASE KillWorkload
  BY <1>5 DEF KillWorkload, outside
<1>6. CASE ForkerEnds
  BY <1>6 DEF ForkerEnds, ForkerReleased, outside
<1>7. CASE WorkloadStarts \/ WorkloadEnds
  BY <1>7 DEF WorkloadStarts, WorkloadEnds, outside
<1>8. CASE ClientExits \/ ConnectionLost \/ ClientRelaysKill
  BY <1>8 DEF ClientExits, ConnectionLost, ClientRelaysKill, outside
<1>9. CASE UNCHANGED vars
  BY <1>9 DEF vars, outside
<1> QED
  BY <1>1, <1>2, <1>3, <1>4, <1>5, <1>6, <1>7, <1>8, <1>9 DEF Next, WatcherStep

-----------------------------------------------------------------------------
\* IInv is inductive: every reachable state of an execution satisfies it.
THEOREM Invariance == Spec => []IInv
<1>1. IInv /\ [Next]_vars => IInv'
  BY TypeStep, ControlStep, OutcomeStep DEF IInv
<1> QED
  BY InitIInv, <1>1, PTL DEF Spec

\* Type correctness of execute.
THEOREM TypeCorrect == Spec => []TypeOK
BY Invariance, PTL DEF IInv

\* A command that its deadline's signal killed is reported as timed out; an exit of
\* the command's own and an interrupt are never taken for a timeout.
THEOREM OutcomesAreHonest == Spec => []OutcomeIsHonest
<1>1. IInv => OutcomeIsHonest
  BY DEF IInv, TypeOK, ResultInv, TimedOut, KilledOnPurposeOnly, OutcomeIsHonest
<1> QED
  BY Invariance, <1>1, PTL

\* A command is killed only by command.Cancel: the end of the thread that forked it
\* never takes it down.
THEOREM KillsAreMeant == Spec => []KilledOnPurposeOnly
BY Invariance, PTL DEF IInv
=============================================================================
