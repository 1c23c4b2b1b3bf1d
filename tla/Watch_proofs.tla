------------------------------ MODULE Watch_proofs ------------------------------
(***************************************************************************)
(* Theorems about Watch, for any set of subdirectories, any capacity of    *)
(* the events channel and any number of changes.                           *)
(***************************************************************************)
EXTENDS Watch, TLAPS

-----------------------------------------------------------------------------
(***************************************************************************)
(* The inductive invariant.  NoLostWakeup speaks of the loop that waits;   *)
(* what carries it there is that the same holds while a run is under way,  *)
(* from the moment the run has looked at its inputs.                       *)
(***************************************************************************)

\* An event that will reach the loop is in the channel or in the open watcher's
\* queue.
WakeupPending == channel > 0 \/ \E e \in open.queue : Relevant(e)

WakeupInv ==
  loop \in {"running", "idle"} =>
    \A input \in unnoticed : Watched(input) => WakeupPending

IInv == TypeOK /\ WakeupInv

-----------------------------------------------------------------------------
(***************************************************************************)
(* What the operators return.                                              *)
(***************************************************************************)
USE DEF flags, disk, watches

\* A watcher keeps its places and what it has queued, and queues in addition what
\* happens in its places.
LEMMA ReportingAdds ==
  ASSUME NEW w \in [places : SUBSET Places, queue : SUBSET Events],
         NEW reports \in SUBSET (Places \X Events)
  PROVE  /\ Reporting(w, reports) \in [places : SUBSET Places, queue : SUBSET Events]
         /\ Reporting(w, reports).places = w.places
         /\ w.queue \subseteq Reporting(w, reports).queue
         /\ \A p, e : <<p, e>> \in reports /\ p \in w.places => e \in Reporting(w, reports).queue
<1> DEFINE new == {r[2] : r \in {q \in reports : q[1] \in w.places}}
<1>1. Reporting(w, reports) = [w EXCEPT !.queue = w.queue \cup new]
  BY DEF Reporting
<1>2. new \subseteq Events
  OBVIOUS
<1>3. \A p, e : <<p, e>> \in reports /\ p \in w.places => e \in new
  <2> SUFFICES ASSUME NEW p, NEW e, <<p, e>> \in reports, p \in w.places PROVE e \in new
    OBVIOUS
  <2>1. <<p, e>> \in {q \in reports : q[1] \in w.places} /\ <<p, e>>[2] = e
    OBVIOUS
  <2> QED
    BY <2>1
<1> HIDE DEF new
<1> QED
  BY <1>1, <1>2, <1>3

\* An event of a watched place reaches the open watcher's queue, and neither watcher
\* leaves its type.
LEMMA ReportQueues ==
  ASSUME TypeOK, NEW reports \in SUBSET (Places \X Events), Report(reports)
  PROVE  /\ fresh' \in [places : SUBSET Places, queue : SUBSET Events]
         /\ open' \in [places : SUBSET Places, queue : SUBSET Events]
         /\ open'.places = open.places /\ open.queue \subseteq open'.queue
         /\ \A p, e : <<p, e>> \in reports /\ p \in open.places => e \in open'.queue
         /\ planned' = planned
BY ReportingAdds DEF Report, TypeOK

\* Files and directories of the scope are in known directories.
LEMMA DirsKnown ==
  ASSUME TypeOK
  PROVE  /\ {Root} \cup subdirs \subseteq Dirs
         /\ suites \subseteq Dirs /\ goldens \subseteq Dirs /\ Resolved \subseteq suites
         /\ WatchDirs \subseteq Places
BY DEF TypeOK, Dirs, Resolved, WatchDirs, Places

-----------------------------------------------------------------------------
(***************************************************************************)
(* The parts of the invariant are inductive.                               *)
(***************************************************************************)

\* A change adds what it changed to the inputs a run has still to look at, and its
\* event to the queue of the watcher that watches the place.
LEMMA ChangeStep ==
  ASSUME IInv, UserStep
  PROVE  IInv'
<1> USE DEF IInv
<1>1. ASSUME NEW d \in Dirs, NEW k \in {"suite", "golden"},
             Report({<<PlaceOf(<<k, d>>), <<k, d>>>>}),
             changes' \in 0 .. around.changes,
             UNCHANGED <<flags, subdirs, loop, files, channel, cancelled>>,
             suites' \subseteq {Root} \cup subdirs, goldens' \subseteq {Root} \cup subdirs,
             unnoticed' \subseteq unnoticed \cup {<<k, d>>},
             <<k, d>> \in unnoticed' \ unnoticed => Relevant(<<k, d>>)
      PROVE  IInv'
  <2>1. {<<PlaceOf(<<k, d>>), <<k, d>>>>} \in SUBSET (Places \X Events)
    BY <1>1 DEF PlaceOf, Places, Events
  <2>2. /\ fresh' \in [places : SUBSET Places, queue : SUBSET Events]
        /\ open' \in [places : SUBSET Places, queue : SUBSET Events]
        /\ open'.places = open.places /\ open.queue \subseteq open'.queue
        /\ PlaceOf(<<k, d>>) \in open.places => <<k, d>> \in open'.queue
        /\ planned' = planned
    BY <1>1, <2>1, ReportQueues
  <2>3. TypeOK'
    <3>1. unnoticed' \subseteq Inputs
      BY <1>1 DEF TypeOK, Inputs
    <3> QED
      BY <1>1, <2>2, <3>1 DEF TypeOK
  <2>4. WakeupInv'
    <3>1. \A e : Relevant(e)' = Relevant(e)
      BY <1>1 DEF Relevant, InScope
    <3>2. WakeupPending => WakeupPending'
      BY <1>1, <2>2, <3>1 DEF WakeupPending
    <3>3. ASSUME NEW input \in unnoticed', Watched(input)', loop' \in {"running", "idle"}
          PROVE  WakeupPending'
      <4>1. Watched(input)
        BY <2>2, <3>3 DEF Watched
      <4>2. CASE input \in unnoticed
        BY <1>1, <3>2, <3>3, <4>1, <4>2 DEF WakeupInv
      <4>3. CASE input \notin unnoticed
        <5>1. input = <<k, d>> /\ Relevant(<<k, d>>)
          BY <1>1, <3>3, <4>3
        <5>2. <<k, d>> \in open'.queue
          BY <2>2, <4>1, <5>1 DEF Watched
        <5> QED
          BY <3>1, <5>1, <5>2 DEF WakeupPending
      <4> QED
        BY <4>2, <4>3
    <3> QED
      BY <3>3 DEF WakeupInv
  <2> QED
    BY <2>3, <2>4
<1>2. Change => /\ changes' \in 0 .. around.changes
                /\ UNCHANGED <<flags, loop, files, channel, cancelled>>
  BY ConstantsAssumption DEF Change, TypeOK
<1>3. ASSUME NEW d \in Dirs, WriteSuite(d) \/ SaveAgain(d) \/ RemoveSuite(d) PROVE IInv'
  <2>1. Report({<<PlaceOf(<<"suite", d>>), <<"suite", d>>>>})
    BY <1>3 DEF WriteSuite, SaveAgain, RemoveSuite, PlaceOf
  <2>2. /\ UNCHANGED <<flags, subdirs, loop, files, channel, cancelled>>
        /\ goldens' = goldens /\ changes' \in 0 .. around.changes
        /\ suites' \subseteq {Root} \cup subdirs
        /\ unnoticed' = unnoticed \cup (IF InScope(d) THEN {<<"suite", d>>} ELSE {})
    BY <1>2, <1>3 DEF WriteSuite, SaveAgain, RemoveSuite, TypeOK
  <2>3. <<"suite", d>> \in unnoticed' \ unnoticed => Relevant(<<"suite", d>>)
    BY <2>2 DEF Relevant
  <2> QED
    BY <1>1, <2>1, <2>2, <2>3 DEF TypeOK
<1>4. ASSUME NEW d \in Dirs, EditGolden(d) PROVE IInv'
  <2>1. Report({<<PlaceOf(<<"golden", d>>), <<"golden", d>>>>})
    BY <1>4 DEF EditGolden, PlaceOf
  <2>2. /\ UNCHANGED <<flags, disk, loop, files, channel, cancelled>>
        /\ changes' \in 0 .. around.changes
        /\ unnoticed' = unnoticed \cup
             (IF InScope(d) /\ d \in suites /\ ~update THEN {<<"golden", d>>} ELSE {})
    BY <1>2, <1>4 DEF EditGolden
  <2>3. <<"golden", d>> \in unnoticed' \ unnoticed => Relevant(<<"golden", d>>)
    BY <2>2 DEF Relevant
  <2> QED
    BY <1>1, <2>1, <2>2, <2>3 DEF TypeOK
<1>5. ASSUME NEW d \in SubDirs, MakeDir(d) PROVE IInv'
  <2> DEFINE reports == {<<<<"dir", Root>>, <<"mkdir", d>>>>}
  <2>1. reports \in SUBSET (Places \X Events) /\ Report(reports)
    BY <1>5 DEF MakeDir, Places, Events, Dirs
  <2>2. /\ fresh' \in [places : SUBSET Places, queue : SUBSET Events]
        /\ open' \in [places : SUBSET Places, queue : SUBSET Events]
        /\ open'.places = open.places /\ open.queue \subseteq open'.queue
        /\ planned' = planned
    BY <2>1, ReportQueues
  <2>3. changes' \in 0 .. around.changes
    BY <1>5, ConstantsAssumption DEF MakeDir, Change, TypeOK
  <2>4. TypeOK'
    BY <1>5, <2>2, <2>3 DEF MakeDir, Change, TypeOK
  <2>5. WakeupInv'
    BY <1>5, <2>2 DEF MakeDir, Change, WakeupInv, WakeupPending, Watched, Relevant, InScope
  <2> QED
    BY <2>4, <2>5
<1> QED
  BY <1>3, <1>4, <1>5 DEF UserStep

\* The loop comes to wait, or to await a run, only when it has just looked; from
\* then on the watcher stays the same, and a run that writes goldens only adds to
\* what it has queued.
LEMMA LoopStepKeeps ==
  ASSUME IInv, LoopStep
  PROVE  IInv'
<1> USE DEF IInv
<1>1. CASE ResolveFails
  BY <1>1 DEF ResolveFails, TypeOK, WakeupInv, LoopStates
<1>2. CASE Resolve
  BY <1>2, DirsKnown DEF Resolve, TypeOK, WakeupInv, LoopStates
<1>3. CASE RebuildWatches \/ RebuildFails
  BY <1>3, DirsKnown DEF RebuildWatches, RebuildFails, TypeOK, WakeupInv, LoopStates, NoWatcher
<1>4. CASE AddWatch \/ AddFails
  BY <1>4 DEF AddWatch, AddFails, TypeOK, WakeupInv
<1>5. CASE SwapWatcher
  BY <1>5 DEF SwapWatcher, TypeOK, WakeupInv, LoopStates, NoWatcher
<1>6. CASE RunTests
  BY <1>6 DEF RunTests, TypeOK, WakeupInv, LoopStates
<1>7. CASE RunEnds
  <2>1. PICK D \in SUBSET (IF update THEN Resolved ELSE {}) :
          /\ goldens' = goldens \cup D
          /\ Report({<<<<"dir", d>>, <<"mkdir", d>>>> : d \in D \ goldens}
                      \cup {<<<<"goldens", d>>, <<"golden", d>>>> : d \in D})
    BY <1>7 DEF RunEnds
  <2> DEFINE reports == {<<<<"dir", d>>, <<"mkdir", d>>>> : d \in D \ goldens}
                          \cup {<<<<"goldens", d>>, <<"golden", d>>>> : d \in D}
  <2>2. D \subseteq suites /\ D \subseteq Dirs
    BY DirsKnown
  <2>3. reports \in SUBSET (Places \X Events)
    BY <2>2 DEF Places, Events
  <2>4. /\ fresh' \in [places : SUBSET Places, queue : SUBSET Events]
        /\ open' \in [places : SUBSET Places, queue : SUBSET Events]
        /\ open'.places = open.places /\ open.queue \subseteq open'.queue
        /\ planned' = planned
    BY <2>1, <2>3, ReportQueues
  <2>5. TypeOK'
    BY <1>7, <2>1, <2>2, <2>4 DEF RunEnds, TypeOK, LoopStates
  <2>6. WakeupInv'
    BY <1>7, <2>4 DEF RunEnds, WakeupInv, WakeupPending, Watched, Relevant, InScope
  <2> QED
    BY <2>5, <2>6
<1>8. CASE Receive
  BY <1>8, ConstantsAssumption DEF Receive, TypeOK, WakeupInv, LoopStates
<1>9. CASE DebounceOver \/ Stop
  BY <1>9 DEF DebounceOver, Stop, TypeOK, WakeupInv, LoopStates
<1> QED
  BY <1>1, <1>2, <1>3, <1>4, <1>5, <1>6, <1>7, <1>8, <1>9 DEF LoopStep

\* The pump drops an event only when the channel is full, and a full channel wakes
\* the loop as well.
LEMMA ForwardKeeps ==
  ASSUME IInv, Forward
  PROVE  IInv'
<1>1. PICK e \in open.queue :
        /\ open' = [open EXCEPT !.queue = @ \ {e}]
        /\ channel' = IF Relevant(e) /\ channel < Capacity THEN channel + 1 ELSE channel
        /\ UNCHANGED <<flags, disk, changes, unnoticed, loop, files, planned, fresh, cancelled>>
  BY DEF Forward
<1>2. TypeOK'
  BY <1>1, ConstantsAssumption DEF IInv, TypeOK
<1>3. WakeupPending => WakeupPending'
  <2>1. channel \in Nat /\ Capacity \in Nat \ {0} /\ channel <= Capacity
    BY ConstantsAssumption DEF IInv, TypeOK
  <2>2. \A x : Relevant(x)' = Relevant(x)
    BY <1>1 DEF Relevant, InScope
  <2>3. CASE channel > 0 \/ Relevant(e)
    <3>1. channel' > 0
      BY <1>1, <2>1, <2>3
    <3> QED
      BY <3>1 DEF WakeupPending
  <2>4. CASE channel = 0 /\ ~Relevant(e)
    <3>1. open'.queue = open.queue \ {e}
      BY <1>1 DEF IInv, TypeOK
    <3> QED
      BY <2>2, <2>4, <3>1 DEF WakeupPending
  <2> QED
    BY <2>1, <2>3, <2>4
<1>4. \A input : Watched(input)' = Watched(input)
  BY <1>1 DEF Watched, IInv, TypeOK
<1> QED
  BY <1>1, <1>2, <1>3, <1>4 DEF IInv, WakeupInv

\* A watch begins with a look at its inputs.
LEMMA InitIInv ==
  ASSUME Init
  PROVE  IInv
<1>1. TypeOK
  <2>1. NoWatcher \in [places : SUBSET Places, queue : SUBSET Events]
    BY DEF NoWatcher
  <2>2. 0 \in 0 .. around.changes /\ 0 \in 0 .. Capacity
    BY ConstantsAssumption DEF Init
  <2>3. /\ subdirs \subseteq SubDirs /\ suites \subseteq {Root} \cup subdirs
        /\ goldens \subseteq {Root} \cup subdirs
    BY DEF Init
  <2> QED
    BY <2>1, <2>2, <2>3 DEF Init, TypeOK, LoopStates
<1> QED
  BY <1>1 DEF IInv, WakeupInv, Init

-----------------------------------------------------------------------------
(***************************************************************************)
(* The theorems.                                                           *)
(***************************************************************************)

\* The invariant holds in every reachable state of cmd/watch.go.
THEOREM Invariance == Spec => []IInv
<1>1. IInv /\ [Next]_vars => IInv'
  <2> SUFFICES ASSUME IInv, [Next]_vars PROVE IInv'
    OBVIOUS
  <2>1. CASE Interrupt
    BY <2>1 DEF Interrupt, IInv, TypeOK, WakeupInv, WakeupPending, Watched, Relevant, InScope
  <2>2. CASE UNCHANGED vars
    BY <2>2 DEF vars, IInv, TypeOK, WakeupInv, WakeupPending, Watched, Relevant, InScope
  <2> QED
    BY <2>1, <2>2, ChangeStep, LoopStepKeeps, ForwardKeeps DEF Next
<1>2. Init => IInv
  BY InitIInv
<1> QED
  BY <1>1, <1>2, PTL DEF Spec

\* The loop, the watchers and the channel stay within their types: the channel
\* never holds more than its capacity.
THEOREM TypeCorrect == Spec => []TypeOK
<1>1. IInv => TypeOK
  BY DEF IInv
<1> QED
  BY <1>1, Invariance, PTL

\* Whatever is dropped, by a full channel or with an old watcher, a loop that waits
\* with nothing on its way to it has seen the latest of every watched input.
THEOREM WakeupsAreKept == Spec => []NoLostWakeup
<1>1. IInv => NoLostWakeup
  BY DEF IInv, TypeOK, WakeupInv, WakeupPending, NoLostWakeup
<1> QED
  BY <1>1, Invariance, PTL
=================================================================================
