------------------------------- MODULE Snapshot -------------------------------
(***************************************************************************)
(* The golden files of one suite over a series of runs: parsing, matrix    *)
(* expansion (schema/matrix.go), applySnapshot by each test instance and   *)
(* pruneStaleGoldens (runner/snapshot.go), while between the runs its      *)
(* author edits the suite or deletes goldens, and the program under test   *)
(* changes.                                                                *)
(*                                                                         *)
(* A stream's output is determined by the test, the values of its matrix   *)
(* and the version of the program, and speaks of the instance's temporary  *)
(* directory, which every run names afresh.  A test's strings are          *)
(* abstracted to one text, held by reference like the maps, slices and     *)
(* pointers of schema.Test.  When instances start, slots and hooks are     *)
(* DatsRunner's; that a test of another host speaks of a directory which   *)
(* is not normalized is SshRemote's.                                       *)
(***************************************************************************)
EXTENDS Matrix

CONSTANTS
  Written,      (* contents the .dats file may have: sequences of tests     *)
                (* [desc, matrix, text, streams]                            *)
  Slug,         (* Slug[desc]: the desc in a golden file's name             *)
  Truncated,    (* descs so long that the slug ends before the label        *)
  MaxEdits      (* bound on what happens between runs                       *)

Descs == UNION {{t.desc : t \in ToSet(s)} : s \in Written}

Texts    == Seq(STRING \X STRING)
Matrices == Seq([name : STRING, values : Texts])
Tests ==
  [desc : STRING, matrix : Matrices, text : Texts,
   streams : {<<>>, <<"stdout">>, <<"stderr">>, <<"stdout", "stderr">>}]

\* What ParseFile makes of them.
Suites ==
  {[t \in DOMAIN s |-> [s[t] EXCEPT !.matrix = UnmarshalMatrix(@)]] : s \in Written}

ASSUME ConstantsAssumption ==
  \* ParseFile: "no tests defined".
  /\ Written \subseteq Seq(Tests) \ {<<>>}
  /\ \A s \in Written : \A t \in ToSet(s) : \A v \in ToSet(t.matrix) : \A item \in ToSet(v.values) :
       MatrixValueText(item) \in STRING \X STRING
  /\ Slug \in [Descs -> STRING]
  /\ Truncated \subseteq Descs
  /\ MaxEdits \in Nat

VARIABLES
  suite,        (* the .dats file, as ParseFile reads it                    *)
  program,      (* the version of the program under test                    *)
  edits,        (* what happened between runs so far                        *)
  phase,        (* where the run is                                         *)
  update,       (* --update                                                 *)
  root,         (* the temporary directory of the run, and of the target    *)
  heap,         (* texts of the tests, then of their copies                 *)
  indices,      (* the odometer                                             *)
  counter,      (* instances made of the test being expanded                *)
  instances,    (* [test, assignments, ref], in canonical order             *)
  status,       (* of each instance                                         *)
  todo,         (* streams applySnapshot still has to look at               *)
  goldens,      (* the .golden files and their contents                     *)
  blessed       (* history: an update run was green and nothing changed     *)
                (* since                                                    *)

disk == <<suite, program, edits>>
run  == <<update, root>>
expansion == <<heap, indices, counter, instances>>
vars == <<disk, phase, run, expansion, status, todo, goldens, blessed>>

Roots == {"local", "remote"} \X {0, 1}

Init ==
  /\ suite \in Suites
  /\ program = 0
  /\ edits = 0
  /\ phase = "idle"
  /\ update = FALSE
  /\ root = <<"local", 0>>
  /\ heap = <<>>
  /\ indices = <<>>
  /\ counter = 0
  /\ instances = <<>>
  /\ status = <<>>
  /\ todo = <<>>
  /\ goldens = <<>>
  /\ blessed = FALSE

\* The run is over, and what it kept in memory gone.
Return ==
  /\ phase' = "idle"
  /\ heap' = <<>> /\ indices' = <<>> /\ counter' = 0 /\ instances' = <<>>
  /\ status' = <<>> /\ todo' = <<>>
  /\ UNCHANGED <<disk, run>>

-----------------------------------------------------------------------------
(***************************************************************************)
(* Between runs.                                                           *)
(***************************************************************************)
Edit ==
  /\ phase = "idle"
  /\ edits < MaxEdits
  /\ edits' = edits + 1
  /\ blessed' = FALSE
  /\ UNCHANGED <<phase, run, expansion, status, todo>>

EditSuite ==
  /\ Edit
  /\ suite' \in Suites \ {suite}
  /\ UNCHANGED <<program, goldens>>

ChangeProgram ==
  /\ Edit
  /\ program' = 1 - program
  /\ UNCHANGED <<suite, goldens>>

DeleteGolden ==
  /\ Edit
  /\ \E file \in DOMAIN goldens : goldens' = Restrict(goldens, DOMAIN goldens \ {file})
  /\ UNCHANGED <<suite, program>>

(***************************************************************************)
(* ParseFile and ExpandMatrix.                                             *)
(***************************************************************************)
ValidSuite == \A t \in ToSet(suite) : ValidMatrix(t.matrix) /\ ValidRefs(t.matrix, t.text)

\* A suite that does not parse ends the run: no test runs, nothing is pruned.
StartRun ==
  /\ phase = "idle"
  /\ ValidSuite
  /\ phase' = "expand"
  /\ update' \in BOOLEAN
  /\ root' \in {<<place, 1 - root[2]>> : place \in {"local", "remote"}}
  /\ heap' = [t \in DOMAIN suite |-> suite[t].text]
  /\ indices' = FirstIndices(suite[1].matrix)
  /\ counter' = 0
  /\ instances' = <<>>
  /\ status' = <<>>
  /\ todo' = <<>>
  /\ UNCHANGED <<disk, goldens, blessed>>

Current == IF instances = <<>> THEN 1 ELSE instances[Len(instances)].test

\* The test being expanded: the next one when all of its instances are made.
Expanding ==
  IF counter = Total(suite[Current].matrix) THEN Current + 1 ELSE Current

\* Defect: the copy shares the maps and slices of its test.
SharedCopy(test) == test

\* copyTest: what the copy refers to is its own.
CopyTest(test) == Len(heap) + 1

ExpandOne ==
  /\ phase = "expand"
  /\ Expanding \in DOMAIN suite
  /\ LET matrix == suite[Expanding].matrix
         first  == Expanding # Current
         at     == IF first THEN FirstIndices(matrix) ELSE indices
         values == Assignments(matrix, at)
         ref    == CopyTest(Expanding)
     IN /\ heap' = [Append(heap, heap[Expanding]) EXCEPT
                      ![ref] = Substitute(@, matrix, values)]
        /\ instances' = Append(instances,
                           [test |-> Expanding, assignments |-> values, ref |-> ref])
        /\ indices' = Tick(matrix, at)
        /\ counter' = IF first THEN 1 ELSE counter + 1
  /\ UNCHANGED <<disk, phase, run, status, todo, goldens, blessed>>

\* Shared fixtures and the setup commands: their failure skips tests and pruning.
SetUp ==
  /\ phase = "expand"
  /\ Expanding \notin DOMAIN suite
  /\ \/ /\ phase' = "tests"
        /\ status' = [i \in DOMAIN instances |-> "idle"]
        /\ todo' = [i \in DOMAIN instances |-> <<>>]
        /\ UNCHANGED <<disk, run, expansion>>
     \/ Return
  /\ UNCHANGED <<goldens, blessed>>

(***************************************************************************)
(* The names of golden files, and what is written into them.               *)
(***************************************************************************)

\* instanceName, slugified: the desc and the label.
SlugOf(i) ==
  LET t == suite[instances[i].test]
  IN <<Slug[t.desc], IF t.desc \in Truncated THEN <<>> ELSE instances[i].assignments>>

\* Defect: no instance number.
GoldenFileUnnumbered(i, stream) == <<0, SlugOf(i), stream>>

GoldenFileName(i, stream) == <<i, SlugOf(i), stream>>

StreamsOf(i) == suite[instances[i].test].streams

\* pruneStaleGoldens, expected.
Expected ==
  UNION {{GoldenFileName(i, s) : s \in ToSet(StreamsOf(i))} : i \in DOMAIN instances}

\* A remote command prints remote paths.
Output(i, stream) ==
  [root |-> root, stream |-> stream, text |-> heap[instances[i].ref], program |-> program]

\* Defect: remote paths are not looked for.
BasesLocal == {<<"local", root[2]>>}

\* The directories applySnapshot knows: the file's here and, under ssh, its remote one.
Bases == {<<"local", root[2]>>} \cup (IF root[1] = "remote" THEN {root} ELSE {})

NormalizeSnapshotText(output) ==
  [output EXCEPT !.root = IF @ \in Bases THEN <<"{tmproot}", 0>> ELSE @]

(***************************************************************************)
(* An instance, by its own goroutine.                                      *)
(***************************************************************************)

\* Defect: a failing instance is not told from a clean one.
LooksAtGoldensAlways(clean) == TRUE

\* applySnapshot returns early for an instance that did not run to completion, and
\* under --update for one that has failed already.
LooksAtGoldens(clean) == update => clean

\* RunTest: the command did not complete, or completed and its assertions hold, or
\* one of them fails.
RunInstance(i) ==
  /\ phase = "tests"
  /\ status[i] = "idle"
  /\ \/ /\ status' = [status EXCEPT ![i] = "failed"]
        /\ UNCHANGED todo
     \/ \E clean \in BOOLEAN :
          /\ status' = [status EXCEPT ![i] = IF clean THEN "passed" ELSE "failed"]
          /\ todo' = [todo EXCEPT ![i] = IF LooksAtGoldens(clean) THEN StreamsOf(i) ELSE <<>>]
  /\ UNCHANGED <<disk, phase, run, expansion, goldens, blessed>>

\* One stream of an instance.
AtStream(i) ==
  /\ phase = "tests"
  /\ todo[i] # <<>>
  /\ todo' = [todo EXCEPT ![i] = Tail(@)]
  /\ UNCHANGED <<disk, phase, run, expansion, blessed>>

Same(i) ==
  LET file == GoldenFileName(i, Head(todo[i]))
  IN /\ file \in DOMAIN goldens
     /\ goldens[file] = NormalizeSnapshotText(Output(i, Head(todo[i])))

\* A snapshot failure beside, or without, failures of another kind.
SnapshotFailed(result) == IF result = "failed" THEN "failed" ELSE "snapshot"

\* A missing or different golden is a failure, and so is one that cannot be read.
Compare(i) ==
  /\ AtStream(i)
  /\ ~update
  /\ \/ Same(i) /\ UNCHANGED status
     \/ status' = [status EXCEPT ![i] = SnapshotFailed(@)]
  /\ UNCHANGED goldens

\* A golden that is up to date is not touched.
KeepGolden(i) ==
  /\ AtStream(i)
  /\ update /\ Same(i)
  /\ UNCHANGED <<status, goldens>>

WriteFile(name, content) ==
  [file \in DOMAIN goldens \cup {name} |-> IF file = name THEN content ELSE goldens[file]]

WriteGolden(i) ==
  /\ AtStream(i)
  /\ update /\ ~Same(i)
  /\ goldens' = WriteFile(GoldenFileName(i, Head(todo[i])),
                          NormalizeSnapshotText(Output(i, Head(todo[i]))))
  /\ UNCHANGED status

\* MkdirAll or WriteFile fails; the file may be left truncated.
WriteFails(i) ==
  /\ AtStream(i)
  /\ update /\ ~Same(i)
  /\ status' = [status EXCEPT ![i] = SnapshotFailed(@)]
  /\ \/ UNCHANGED goldens
     \/ goldens' = WriteFile(GoldenFileName(i, Head(todo[i])),
                             [root |-> <<"{tmproot}", 0>>, stream |-> "truncated",
                              text |-> <<>>, program |-> 0])

(***************************************************************************)
(* After wg.Wait: pruneStaleGoldens.                                       *)
(***************************************************************************)
TestsOver ==
  phase = "tests" /\ \A i \in DOMAIN instances : status[i] # "idle" /\ todo[i] = <<>>

EndRun ==
  /\ TestsOver
  /\ ~update
  /\ Return
  /\ UNCHANGED <<goldens, blessed>>

\* A file that cannot be removed is a warning.  Files that are no goldens, and the
\* emptying of the directory, are left out.
Prune ==
  /\ TestsOver
  /\ update
  /\ \E kept \in {{}, DOMAIN goldens \ Expected} :
       /\ goldens' = Restrict(goldens, (DOMAIN goldens \cap Expected) \cup kept)
       /\ blessed' = IF kept = {} /\ \A i \in DOMAIN instances : status[i] = "passed"
                       THEN TRUE ELSE blessed
  /\ Return

\* The process is killed.
Kill ==
  /\ phase # "idle"
  /\ Return
  /\ UNCHANGED <<goldens, blessed>>

-----------------------------------------------------------------------------
InstanceStep(i) ==
  RunInstance(i) \/ Compare(i) \/ KeepGolden(i) \/ WriteGolden(i) \/ WriteFails(i)

Next ==
  \/ EditSuite \/ ChangeProgram \/ DeleteGolden
  \/ StartRun \/ ExpandOne \/ SetUp
  \/ \E i \in DOMAIN instances : InstanceStep(i)
  \/ EndRun \/ Prune \/ Kill

Spec == Init /\ [][Next]_vars

-----------------------------------------------------------------------------
(***************************************************************************)
(* Properties.                                                             *)
(***************************************************************************)
\* Every variable ranges over what the code can store in it.
TypeOK ==
  /\ suite \in Suites
  /\ program \in {0, 1} /\ edits \in 0 .. MaxEdits
  /\ phase \in {"idle", "expand", "tests"}
  /\ update \in BOOLEAN /\ blessed \in BOOLEAN
  /\ root \in Roots
  /\ \A i \in DOMAIN instances :
       instances[i].test \in DOMAIN suite
  /\ phase = "tests" =>
       /\ DOMAIN status = DOMAIN instances /\ DOMAIN todo = DOMAIN instances
       /\ ToSet(status) \subseteq {"idle", "passed", "failed", "snapshot"}

\* A matrix test becomes one instance per combination of its values, each exactly
\* once and in the order of nested loops, the tests in the order of the file; each
\* instance's strings are the test's own with its own values, whatever was done to
\* the instances made before it.
InstancesAreTheProduct ==
  phase = "tests" =>
    /\ \A t \in DOMAIN suite :
         {instances[i].assignments : i \in {k \in DOMAIN instances : instances[k].test = t}}
           = Combinations(suite[t].matrix)
    /\ \A i, j \in DOMAIN instances : i < j =>
         \/ instances[i].test < instances[j].test
         \/ /\ instances[i].test = instances[j].test
            /\ VisitedBefore(suite[instances[i].test].matrix,
                             instances[i].assignments, instances[j].assignments)
    /\ \A i \in DOMAIN instances :
         LET t == suite[instances[i].test]
         IN heap[instances[i].ref] = Substitute(t.text, t.matrix, instances[i].assignments)

\* What the streams of the suite produce, wherever and in whichever run.
Outputs(s) ==
  LET Of(t) == {[root |-> <<"{tmproot}", 0>>, stream |-> st, program |-> program,
                 text |-> Substitute(t.text, t.matrix, a)] :
                  st \in ToSet(t.streams), a \in Combinations(t.matrix)}
  IN UNION {Of(t) : t \in ToSet(s)}

\* A place for every combination of every test, on each of its streams.
Places(s) ==
  UNION {{t} \X ToSet(s[t].streams) \X Combinations(s[t].matrix) : t \in DOMAIN s}

\* docs/file-format.md, "Updating Goldens": from a green update run on, and until
\* something changes, the golden files are those of the suite's instances and
\* streams, one for each with what it produces, and no other; later runs, failing
\* and killed ones included, leave them so.
BlessedIsExact ==
  blessed =>
    /\ Range(goldens) = Outputs(suite)
    /\ Cardinality(DOMAIN goldens) = Cardinality(Places(suite))

\* docs/file-format.md:795, "Goldens never update from a failing instance": a golden
\* that the suite expects is not removed by a run, and is rewritten only under
\* --update and by its own instance, while that has no failure of another kind.
FailuresKeepGoldens ==
  [][phase = "tests" =>
       \A file \in DOMAIN goldens \cap Expected :
         \/ file \in DOMAIN goldens' /\ goldens'[file] = goldens[file]
         \/ /\ update
            /\ \E i \in DOMAIN instances :
                 /\ status[i] # "failed"
                 /\ file \in {GoldenFileName(i, s) : s \in ToSet(todo[i])}]_vars
=============================================================================
