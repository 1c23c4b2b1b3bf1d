----------------------------- MODULE RunTest_proofs -----------------------------
(***************************************************************************)
(* Theorems about RunTest, for any documents, disks and endings: that the  *)
(* files of the suite are where a command finds them by the paths it gets, *)
(* and that a verdict is the truth about what the command did.  First the  *)
(* inductive invariant, then the instances of a document's tests, what     *)
(* each assertion means, what a step leaves of the disk, and the steps.    *)
(***************************************************************************)
EXTENDS RunTest, NaturalsInduction, WellFoundedInduction, SequenceTheorems, TLAPS

-----------------------------------------------------------------------------
(***************************************************************************)
(* The inductive invariant: what is known of the file, of the shared       *)
(* directory on every machine that has one, and of each instance.          *)
(***************************************************************************)
Parsed == phase \in {"shared", "push", "setup", "tests", "failed"}

FileInv ==
  /\ doc \in Documents
  /\ phase \in {"parse", "refused", "shared", "push", "setup", "tests", "failed"}
  /\ Parsed => Valid(doc) /\ tests = Tests(doc)
  /\ ~Parsed => tests = <<>> /\ disk = <<>>
  /\ phase # "tests" => mirrored = {}
  /\ Here \notin mirrored /\ home \notin mirrored
  /\ phase = "push" => home # Here
  /\ DOMAIN at = Ids /\ DOMAIN ctx = Ids /\ DOMAIN args = Ids
  /\ DOMAIN ending = Ids /\ DOMAIN failures = Ids

IsPath(p) ==
  /\ p = At(p.m, p.dir, p.area, p.name)
  /\ p.area \in {"inputs", "outputs", "shared"}
  /\ p.dir = SharedDir <=> p.area = "shared"

IsDisk(d) == \A p \in DOMAIN d : IsPath(p)
DiskInv   == IsDisk(disk)

\* What SetupSharedFixtures and SetupFixtures write.
SharedFiles ==
  Written(SharedDir, "shared", Shared, [r \in Mentioned(Shared) |-> ExpandShared(r, Here)])
Inputs(i) ==
  LET test == tests[i] IN
  Written(TestDir(i), "inputs", test.inputs,
          [r \in Mentioned(test.inputs) |-> Expand(r, NewContext(i, test))])

NamesOf(block) == DOMAIN block.files \cup DOMAIN block.copy

\* Machine m has the block as it was written here, but for some of its names.
Has(m, dir, area, names, written) ==
  \A n \in names : At(m, dir, area, n) \in DOMAIN disk
                   /\ disk[At(m, dir, area, n)] = written[At(Here, dir, area, n)]
HasShared(m, names) == Has(m, SharedDir, "shared", names, SharedFiles)
HasInputs(m, i)     == Has(m, TestDir(i), "inputs", NamesOf(tests[i].inputs), Inputs(i))

\* Setup's files, once it has run.
FromSetupNow == IF phase = "tests" THEN FromSetup ELSE {}

SharedInv ==
  /\ phase \in {"push", "setup", "tests"} =>
       HasShared(Here, NamesOf(Shared) \ (IF home = Here THEN FromSetupNow ELSE {}))
  /\ phase \in {"setup", "tests"} => HasShared(home, NamesOf(Shared) \ FromSetupNow)
  /\ \A m \in mirrored : HasShared(m, NamesOf(Shared))
  /\ \A n \in FromSetupNow : At(home, SharedDir, "shared", n) \in DOMAIN disk
                             /\ disk[At(home, SharedDir, "shared", n)] = File({n}, {})

\* The command has run, and nothing has failed but what it did.
Ran(i) == at[i] \in {"pull", "check"} \/ (at[i] = "done" /\ failures[i] \cap StepFailures = {})

\* The outputs of instance i on machine m.
OutputsOn(m, i) == {p \in DOMAIN disk : p.m = m /\ p.dir = TestDir(i) /\ p.area = "outputs"}

ContextOf(i) == [index |-> i, base |-> Host(i), inputs |-> NamesOf(tests[i].inputs)]

FlowInv(i) ==
  /\ at[i] \in {"idle", "scope", "push", "start", "running", "pull", "check", "done"}
  /\ phase # "tests" => IF phase = "failed" THEN at[i] = "done" ELSE at[i] = "idle"
  /\ at[i] \notin {"check", "done"} => failures[i] = {}
  /\ at[i] = "check" => failures[i] \subseteq {<<"ssh">>}
  /\ at[i] = "scope" => ctx[i] = NewContext(i, tests[i])
  /\ at[i] \in {"push", "start", "running", "pull", "check"} => ctx[i] = ContextOf(i)
  /\ at[i] \in {"push", "start", "running"} => Host(i) \in mirrored \cup {home}
  /\ at[i] \in {"push", "pull"} => Host(i) # Here
  /\ at[i] = "running" => args[i] = [r \in Placeholders(i) |-> Expand(r, ctx[i])]

PlacesInv(i) ==
  /\ at[i] \in {"scope", "push"} => HasInputs(Here, i)
  /\ at[i] \in {"start", "running"} => HasInputs(Host(i), i)
  /\ \A p \in DOMAIN disk : p.dir = TestDir(i) /\ p.area = "outputs" => at[i] \in {"pull", "check", "done"}

RanInv(i) ==
  Ran(i) =>
    /\ ctx[i] = ContextOf(i)
    /\ ending[i] \in Endings[tests[i].cmd]
    /\ ending[i].timedOut => tests[i].timeout > 0
    /\ OutputsOn(Host(i), i) = DOMAIN Outputs(i, ending[i])
    /\ \A p \in DOMAIN Outputs(i, ending[i]) : disk[p] = Outputs(i, ending[i])[p]

\* What came home, where there is a home to come to and the stream held.
CopiesInv(i) ==
  /\ at[i] = "pull" => OutputsOn(Here, i) = {}
  /\ at[i] = "check" /\ Host(i) # Here /\ failures[i] = {} =>
       /\ OutputsOn(Here, i) = {At(Here, TestDir(i), "outputs", n) :
                                  n \in {o \in DOMAIN ending[i].files : ending[i].files[o].kind # "link"}}
       /\ \A p \in OutputsOn(Here, i) : disk[p] = disk[[p EXCEPT !.m = Host(i)]]

VerdictInv(i) ==
  at[i] = "done" =>
    /\ \/ failures[i] \cap StepFailures # {}
       \/ LostOnTheWay(i) \/ NumbersInexact(i)
       \/ (failures[i] = {}) = AssertionsHold(i)
    /\ <<"timed out">> \in failures[i] => ~Unbounded(Declared(i).timeout)

InstanceInv(i) == FlowInv(i) /\ PlacesInv(i) /\ RanInv(i) /\ CopiesInv(i) /\ VerdictInv(i)

IInv == FileInv /\ DiskInv /\ SharedInv /\ \A i \in Ids : InstanceInv(i)

-----------------------------------------------------------------------------
(***************************************************************************)
(* The instances of the tests of a document.                               *)
(***************************************************************************)
LEMMA LeastNat ==
  ASSUME NEW T \in SUBSET Nat, T # {}
  PROVE  \E x \in T : \A y \in T : x <= y
<1>1. PICK x \in T : \A y \in T : <<y, x>> \notin OpToRel(<, Nat)
  BY NatLessThanWellFounded, WFMin
<1>2. \A y \in T : ~(y < x)
  BY <1>1 DEF OpToRel
<1> QED
  BY <1>2

\* FlattenSeq's recursive function exists: a partial one can be continued.
LEMMA FlattenExists ==
  ASSUME NEW seqs, NEW n \in Nat
  PROVE  \E f : f = [i \in 1 .. n |-> IF i = 1 THEN seqs[i] ELSE f[i - 1] \o seqs[i]]
<1> DEFINE Flat(f, m) == f = [i \in 1 .. m |-> IF i = 1 THEN seqs[i] ELSE f[i - 1] \o seqs[i]]
           Bad == {m \in Nat : ~ \E f : Flat(f, m)}
<1>1. SUFFICES ASSUME Bad # {} PROVE FALSE
  <2>1. Bad = {} => \E f : Flat(f, n)
    OBVIOUS
  <2> QED
    BY <2>1
<1>2. PICK m \in Bad : \A k \in Bad : m <= k
  <2>1. Bad \in SUBSET Nat
    OBVIOUS
  <2> HIDE DEF Bad
  <2> QED
    BY <1>1, <2>1, LeastNat
<1>3. CASE m = 0
  <2>1. Flat([i \in {} |-> 0], 0)
    OBVIOUS
  <2> QED
    BY <1>2, <1>3, <2>1
<1>4. CASE m # 0
  <2>1. m \in Nat /\ m - 1 \in Nat /\ m - 1 \notin Bad
    <3>1. m \in Nat
      BY <1>2
    <3> HIDE DEF Bad
    <3> QED
      BY <1>2, <1>4, <3>1
  <2>2. PICK g : Flat(g, m - 1)
    BY <2>1
  <2> DEFINE step(i) == IF i = 1 THEN seqs[i] ELSE g[i - 1] \o seqs[i]
             f == [i \in 1 .. m |-> step(i)]
  <2>3. \A i \in 1 .. (m - 1) : g[i] = step(i)
    BY <2>1, <2>2
  <2>4. \A i \in 1 .. (m - 1) : f[i] = g[i]
    BY <2>1, <2>3
  <2>5. ASSUME NEW i \in 1 .. m, i # 1 PROVE f[i - 1] = g[i - 1]
    <3>1. i - 1 \in 1 .. (m - 1)
      BY <2>1, <2>5
    <3> QED
      BY <2>4, <3>1
  <2>6. \A i \in 1 .. m : f[i] = IF i = 1 THEN seqs[i] ELSE f[i - 1] \o seqs[i]
    <3>1. \A i \in 1 .. m : f[i] = step(i)
      OBVIOUS
    <3> HIDE DEF f
    <3> QED
      BY <2>5, <3>1
  <2>7. f = [i \in 1 .. m |-> IF i = 1 THEN seqs[i] ELSE f[i - 1] \o seqs[i]]
    <3>1. f = [i \in 1 .. m |-> f[i]]
      OBVIOUS
    <3> HIDE DEF f
    <3> QED
      BY <2>6, <3>1
  <2>8. Flat(f, m)
    BY <2>7
  <2>9. \E h : Flat(h, m)
    BY <2>8
  <2> QED
    BY <1>2, <2>9
<1> QED
  BY <1>3, <1>4

LEMMA FlattenInSeq ==
  ASSUME NEW S, NEW seqs \in Seq(Seq(S))
  PROVE  FlattenSeq(seqs) \in Seq(S)
<1> DEFINE n == Len(seqs)
<1>1. n \in Nat /\ \A i \in 1 .. n : seqs[i] \in Seq(S)
  OBVIOUS
<1>2. CASE n = 0
  <2>1. seqs = <<>>
    BY <1>2
  <2> QED
    BY <1>2, <2>1 DEF FlattenSeq
<1>3. CASE n # 0
  <2>1. PICK f : f = [i \in 1 .. n |-> IF i = 1 THEN seqs[i] ELSE f[i - 1] \o seqs[i]] /\ FlattenSeq(seqs) = f[n]
    <3> DEFINE flatten == CHOOSE f : f = [i \in 1 .. n |-> IF i = 1 THEN seqs[i] ELSE f[i - 1] \o seqs[i]]
    <3>1. FlattenSeq(seqs) = flatten[n]
      BY <1>3 DEF FlattenSeq
    <3>2. flatten = [i \in 1 .. n |-> IF i = 1 THEN seqs[i] ELSE flatten[i - 1] \o seqs[i]]
      BY <1>1, FlattenExists
    <3> HIDE DEF flatten
    <3> QED
      BY <3>1, <3>2
  <2> DEFINE Bad == {i \in 1 .. n : f[i] \notin Seq(S)}
  <2>2. Bad = {}
    <3>1. SUFFICES ASSUME Bad # {} PROVE FALSE
      OBVIOUS
    <3>2. PICK i \in Bad : \A j \in Bad : i <= j
      <4>1. Bad \in SUBSET Nat
        BY <1>1
      <4> HIDE DEF Bad
      <4> QED
        BY <3>1, <4>1, LeastNat
    <3>3. f[i] = IF i = 1 THEN seqs[i] ELSE f[i - 1] \o seqs[i]
      BY <2>1, <3>2
    <3>4. i # 1 => i - 1 \in 1 .. n /\ i - 1 \notin Bad
      BY <1>1, <3>2
    <3>5. i # 1 => f[i - 1] \in Seq(S)
      BY <3>4
    <3>6. f[i] \in Seq(S)
      BY <1>1, <3>2, <3>3, <3>5
    <3> QED
      BY <3>2, <3>6
  <2> QED
    <3>1. n \in 1 .. n /\ n \notin Bad
      BY <1>1, <1>3, <2>2
    <3> QED
      BY <2>1, <3>1
<1> QED
  BY <1>2, <1>3

\* What instance x keeps of its test: everything, decoded, but for the sources of
\* its copies.
IsInstance(x, test) ==
  /\ x.cmd = test.cmd /\ x.ssh = TargetName(test.ssh)
  /\ x.exit = ExitCode(test.exit) /\ x.timeout = Duration(test.timeout)
  /\ x.stdout = OutputCheck(test.stdout) /\ x.notStdout = OutputCheck(test.notStdout)
  /\ x.stderr = OutputCheck(test.stderr) /\ x.notStderr = OutputCheck(test.notStderr)
  /\ x.json = test.json /\ x.files = test.files /\ x.notFiles = test.notFiles
  /\ x.inputs.files = test.inputs.files /\ DOMAIN x.inputs.copy = DOMAIN test.inputs.copy

LEMMA InstancesAreOfTheTest ==
  ASSUME NEW document \in Documents, Valid(document), NEW test \in ToSet(document.tests)
  PROVE  /\ InstancesOf(Decoded(test)) \in Seq(ToSet(InstancesOf(Decoded(test))))
         /\ \A x \in ToSet(InstancesOf(Decoded(test))) : IsInstance(x, test)
<1> DEFINE decoded == Decoded(test)
           copy    == decoded.inputs.copy
           sources == ToSet(copy) \cap DOMAIN Filled
           source  == CHOOSE s \in sources : TRUE
           filled  == Filled[source]
           made(k) == [decoded EXCEPT !.inputs.copy =
                         [n \in DOMAIN copy |-> IF copy[n] \in sources THEN Filled[copy[n]][k] ELSE copy[n]]]
<1>1. /\ DOMAIN test = {"cmd", "inputs", "ssh", "exit", "timeout", "snapshot", "stdout", "notStdout",
                        "stderr", "notStderr", "json", "files", "notFiles"}
      /\ DOMAIN test.inputs = {"files", "copy", "env"}
  BY ConstantsAssumption DEF WellFormed
<1>2. IsInstance(decoded, test) /\ DOMAIN decoded = DOMAIN test /\ decoded.inputs = test.inputs
  BY <1>1 DEF Decoded, IsInstance
<1>3. CASE sources = {}
  <2>1. InstancesOf(decoded) = <<decoded>>
    BY <1>3 DEF InstancesOf
  <2>2. ToSet(<<decoded>>) = {decoded}
    BY DEF ToSet
  <2> QED
    BY <1>2, <2>1, <2>2
<1>4. CASE sources # {}
  <2>1. InstancesOf(decoded) = [k \in DOMAIN filled |-> made(k)]
    BY <1>4 DEF InstancesOf
  <2>2. source \in DOMAIN Filled
    BY <1>4
  <2>3. Len(filled) \in Nat /\ DOMAIN filled = 1 .. Len(filled)
    BY <2>2, ConstantsAssumption
  <2>4. \A k : IsInstance(made(k), test)
    BY <1>1, <1>2 DEF IsInstance
  <2>5. InstancesOf(decoded) \in Seq(ToSet(InstancesOf(decoded)))
    <3> HIDE DEF made, filled
    <3>1. \E n \in Nat : InstancesOf(decoded) \in [1 .. n -> ToSet(InstancesOf(decoded))]
      BY <2>1, <2>3 DEF ToSet
    <3> HIDE DEF decoded
    <3> QED
      BY <3>1, SeqDef
  <2>6. \A x \in ToSet(InstancesOf(decoded)) : \E k : x = made(k)
    <3> HIDE DEF made, filled, decoded
    <3> QED
      BY <2>1 DEF ToSet
  <2> QED
    <3> HIDE DEF made
    <3>1. \A x \in ToSet(InstancesOf(decoded)) : IsInstance(x, test)
      BY <2>4, <2>6
    <3> QED
      BY <2>5, <3>1
<1> QED
  BY <1>3, <1>4

LEMMA TestsOfDocument ==
  ASSUME NEW document \in Documents, Valid(document)
  PROVE  /\ DOMAIN Tests(document) \subseteq Nat \ {0}
         /\ \A i \in DOMAIN Tests(document) :
              \E test \in ToSet(document.tests) : IsInstance(Tests(document)[i], test)
<1> DEFINE parts == [t \in DOMAIN document.tests |-> InstancesOf(Decoded(document.tests[t]))]
           All   == UNION {ToSet(InstancesOf(Decoded(test))) : test \in ToSet(document.tests)}
<1>1. Len(document.tests) \in Nat /\ DOMAIN document.tests = 1 .. Len(document.tests)
  BY ConstantsAssumption DEF WellFormed
<1>2. \A t \in DOMAIN document.tests : parts[t] \in Seq(All)
  <2> TAKE t \in DOMAIN document.tests
  <2>1. document.tests[t] \in ToSet(document.tests)
    BY DEF ToSet
  <2>2. parts[t] \in Seq(ToSet(parts[t]))
    BY <2>1, InstancesAreOfTheTest
  <2>3. ToSet(parts[t]) \subseteq All
    BY <2>1
  <2> HIDE DEF parts, All
  <2> QED
    BY <2>2, <2>3, SeqMonotonic
<1>3. parts \in Seq(Seq(All))
  <2>1. \E n \in Nat : parts \in [1 .. n -> Seq(All)]
    <3> HIDE DEF All
    <3> QED
      BY <1>1, <1>2
  <2> HIDE DEF parts, All
  <2> QED
    BY <2>1, SeqDef
<1>4. Tests(document) \in Seq(All)
  <2>1. Tests(document) = FlattenSeq(parts)
    BY DEF Tests
  <2> HIDE DEF parts, All
  <2> QED
    BY <1>3, <2>1, FlattenInSeq
<1>5. \A x \in All : \E test \in ToSet(document.tests) : IsInstance(x, test)
  BY InstancesAreOfTheTest
<1> HIDE DEF All
<1> QED
  BY <1>4, <1>5, ElementOfSeq, LenProperties

-----------------------------------------------------------------------------
(***************************************************************************)
(* What each assertion means: no failure is reported exactly if what the   *)
(* document says is so.                                                    *)
(***************************************************************************)
LEMMA ExitCodesMean ==
  ASSUME NEW node, ValidExit(node), NEW code
  PROVE  AssertExitCode(code, ExitCode(node)) = {} <=> code = CodeMeant(node)
<1>1. ExitCodeOf(ExitCode(node)) = CodeMeant(node)
  <2>1. CASE node = Omitted
    <3>1. node[1] = "omitted"
      BY <2>1 DEF Omitted
    <3>2. IntegerOf(node) = {} /\ ~IsString(node)
      BY <3>1 DEF IntegerOf, IsString
    <3> QED
      BY <2>1, <3>2 DEF ExitCode, ExitCodeOf, CodeMeant
  <2>2. CASE node # Omitted /\ node[1] = "int"
    <3>1. IntegerOf(node) = {node[2]}
      BY <2>2 DEF IntegerOf
    <3> QED
      BY <2>2, <3>1 DEF ExitCode, ExitCodeOf, CodeMeant
  <2>3. CASE node # Omitted /\ node[1] # "int"
    <3>1. IsString(node)
      BY <2>3 DEF ValidExit, IntegerOf
    <3>2. CASE node[2] \in DOMAIN Atoi
      <4>1. IntegerOf(node) = {Atoi[node[2]]} /\ node[2] \notin ExitCodeNames
        BY <2>3, <3>1, <3>2, ConstantsAssumption DEF IntegerOf
      <4> QED
        BY <2>3, <4>1 DEF ExitCode, ExitCodeOf, CodeMeant, ExitCodeNames
    <3>3. CASE node[2] \notin DOMAIN Atoi
      <4>1. IntegerOf(node) = {} /\ node[2] \in ExitCodeNames
        BY <2>3, <3>1, <3>3 DEF IntegerOf, ValidExit
      <4> QED
        BY <2>3, <3>1, <4>1 DEF ExitCode, ExitCodeOf, CodeMeant, ExitCodeNames
    <3> QED
      BY <3>2, <3>3
  <2> QED
    BY <2>1, <2>2, <2>3
<1> QED
  BY <1>1 DEF AssertExitCode

\* The decoder of a stream's check keeps every pattern, with its line.
LEMMA DecodedRequired ==
  ASSUME NEW node, ValidOutputCheck(node)
  PROVE  LET check == OutputCheck(node) IN
         /\ DOMAIN check.lines \subseteq Nat
         /\ Required(node) = {<<{}, p>> : p \in check.patterns}
                               \cup {<<{n}, check.lines[n]>> : n \in DOMAIN check.lines}
<1> DEFINE check == OutputCheck(node)
<1>1. CASE node[1] = "map"
  <2> DEFINE line(k)    == Atoi[node[2][k][1]]
             pattern(k) == node[2][k][2][2]
             at_(n)     == CHOOSE k \in DOMAIN node[2] : LineKeys(node)[k] = n
  <2>1. /\ DOMAIN LineKeys(node) = DOMAIN node[2]
        /\ \A k \in DOMAIN node[2] : LineKeys(node)[k] = line(k)
    BY DEF LineKeys
  <2>2. \A k \in DOMAIN node[2] : line(k) \in Nat
    <3>1. LinesNamedOnce(node)
      BY <1>1 DEF ValidOutputCheck
    <3>2. \A k \in DOMAIN node[2] : node[2][k][1] \in DOMAIN Atoi /\ line(k) >= 0
      BY <2>1, <3>1 DEF LinesNamedOnce, Keys
    <3> QED
      BY <3>2, ConstantsAssumption
  <2>3. ToSet(LineKeys(node)) = {line(k) : k \in DOMAIN node[2]}
    BY <2>1 DEF ToSet
  <2>4. check.patterns = {} /\ check.lines = [n \in ToSet(LineKeys(node)) |-> pattern(at_(n))]
    BY <1>1 DEF OutputCheck
  <2>5. ASSUME NEW k \in DOMAIN node[2] PROVE at_(line(k)) = k
    <3>1. IsInjective(LineKeys(node))
      BY <1>1 DEF ValidOutputCheck, LinesNamedOnce
    <3> HIDE DEF line
    <3>2. \A j \in DOMAIN node[2] : LineKeys(node)[j] = line(k) => j = k
      BY <2>1, <2>5, <3>1 DEF IsInjective
    <3> QED
      BY <2>1, <2>5, <3>2
  <2>6. \A k \in DOMAIN node[2] : line(k) \in DOMAIN check.lines /\ check.lines[line(k)] = pattern(k)
    <3> HIDE DEF line, at_, pattern, check
    <3> QED
      BY <2>3, <2>4, <2>5
  <2>7. Required(node) = {<<{line(k)}, pattern(k)>> : k \in DOMAIN node[2]}
    BY <1>1 DEF Required, ToSet
  <2>8. DOMAIN check.lines = {line(k) : k \in DOMAIN node[2]}
    <3> HIDE DEF line, at_, pattern, check
    <3> QED
      BY <2>3, <2>4
  <2> HIDE DEF line, pattern, check
  <2>9. {<<{line(k)}, pattern(k)>> : k \in DOMAIN node[2]} = {<<{n}, check.lines[n]>> : n \in DOMAIN check.lines}
    BY <2>6, <2>8
  <2> QED
    BY <2>2, <2>4, <2>7, <2>8, <2>9 DEF check
<1>2. CASE node[1] = "seq"
  <2>1. check.lines = <<>> /\ check.patterns = {p[2] : p \in ToSet(node[2])}
    BY <1>2 DEF OutputCheck
  <2>2. Required(node) = {<<{}, p[2]>> : p \in ToSet(node[2])}
    BY <1>2 DEF Required
  <2>3. DOMAIN check.lines = {}
    BY <2>1
  <2>4. {<<{}, p[2]>> : p \in ToSet(node[2])} = {<<{}, p>> : p \in {p[2] : p \in ToSet(node[2])}}
    OBVIOUS
  <2> HIDE DEF check
  <2> QED
    BY <2>1, <2>2, <2>3, <2>4 DEF check
<1>3. CASE node[1] # "map" /\ node[1] # "seq"
  <2>1. check.lines = <<>> /\ check.patterns = {}
    BY <1>3 DEF OutputCheck
  <2>2. Required(node) = {}
    BY <1>3 DEF Required
  <2> QED
    BY <2>1, <2>2
<1> QED
  BY <1>1, <1>2, <1>3

LEMMA EmptyUnion ==
  ASSUME NEW sets
  PROVE  UNION sets = {} <=> \A s \in sets : s = {}
OBVIOUS

IsText(lines) == Len(lines) \in Nat /\ DOMAIN lines = 1 .. Len(lines)

\* Line n of a text, as the assertions and as the reference semantics find it.
LEMMA LinesMean ==
  ASSUME NEW lines, IsText(lines), NEW n \in Nat, NEW pattern
  PROVE  Shows(lines, <<{n}, pattern>>) <=> HasLine(lines, n) /\ pattern \in Line(lines, n)
<1>1. ASSUME HasLine(lines, n), pattern \in Line(lines, n) PROVE Shows(lines, <<{n}, pattern>>)
  <2>1. n + 1 \in DOMAIN lines /\ pattern \in lines[n + 1] /\ (n + 1) - 1 = n
    BY <1>1 DEF HasLine, Line, IsText
  <2> QED
    BY <2>1 DEF Shows
<1>2. ASSUME NEW k \in DOMAIN lines, k - 1 \in {n}, pattern \in lines[k]
      PROVE  HasLine(lines, n) /\ pattern \in Line(lines, n)
  <2>1. k = n + 1 /\ k <= Len(lines)
    BY <1>2 DEF IsText
  <2> QED
    BY <1>2, <2>1 DEF HasLine, Line, IsText
<1> QED
  BY <1>1, <1>2 DEF Shows

\* No failure of a stream is none of any pattern, and none of any line.
LEMMA StreamFailures ==
  ASSUME NEW lines, NEW check
  PROVE  /\ CheckStream(lines, check) = {} <=>
              /\ \A p \in check.patterns : AssertContains(lines, p) = {}
              /\ \A n \in DOMAIN check.lines : AssertLineRegex(lines, n, check.lines[n]) = {}
         /\ RefuteStream(lines, check) = {} <=>
              /\ \A p \in check.patterns : RefuteContains(lines, p) = {}
              /\ \A n \in DOMAIN check.lines : RefuteLineRegex(lines, n, check.lines[n]) = {}
<1>1. \A x : x \in CheckStream(lines, check) <=>
             \/ \E p \in check.patterns : x \in AssertContains(lines, p)
             \/ \E n \in DOMAIN check.lines : x \in AssertLineRegex(lines, n, check.lines[n])
  BY DEF CheckStream
<1>2. \A x : x \in RefuteStream(lines, check) <=>
             \/ \E p \in check.patterns : x \in RefuteContains(lines, p)
             \/ \E n \in DOMAIN check.lines : x \in RefuteLineRegex(lines, n, check.lines[n])
  BY DEF RefuteStream
<1> QED
  BY <1>1, <1>2

LEMMA CheckStreamMeans ==
  ASSUME NEW lines, IsText(lines), NEW node, ValidOutputCheck(node)
  PROVE  CheckStream(lines, OutputCheck(node)) = {} <=>
           \A what \in Required(node) : Shows(lines, what) /\ (what[1] # {} => what[2] \notin BadRegexes)
<1> DEFINE check == OutputCheck(node)
           good(what) == Shows(lines, what) /\ (what[1] # {} => what[2] \notin BadRegexes)
<1>1. \A p : good(<<{}, p>>) <=> AssertContains(lines, p) = {}
  BY DEF Shows, AssertContains, Found
<1>2. \A n \in Nat : \A p : good(<<{n}, p>>) <=> AssertLineRegex(lines, n, p) = {}
  BY LinesMean DEF AssertLineRegex
<1>3. (\A what \in Required(node) : good(what)) <=>
        /\ \A p \in check.patterns : good(<<{}, p>>)
        /\ \A n \in DOMAIN check.lines : good(<<{n}, check.lines[n]>>)
  <2> HIDE DEF good, check
  <2> QED
    BY DecodedRequired DEF check
<1>4. DOMAIN check.lines \subseteq Nat
  BY DecodedRequired
<1>5. CheckStream(lines, check) = {} <=>
        /\ \A p \in check.patterns : AssertContains(lines, p) = {}
        /\ \A n \in DOMAIN check.lines : AssertLineRegex(lines, n, check.lines[n]) = {}
  BY StreamFailures
<1> HIDE DEF check
<1>6. CheckStream(lines, check) = {} <=> \A what \in Required(node) : good(what)
  <2> HIDE DEF good
  <2> QED
    BY <1>1, <1>2, <1>3, <1>4, <1>5
<1> QED
  BY <1>6 DEF check

LEMMA RefuteStreamMeans ==
  ASSUME NEW lines, IsText(lines), NEW node, ValidOutputCheck(node)
  PROVE  RefuteStream(lines, OutputCheck(node)) = {} <=>
           \A what \in Required(node) : ~Shows(lines, what) /\ (what[1] # {} => what[2] \notin BadRegexes)
<1> DEFINE check == OutputCheck(node)
           good(what) == ~Shows(lines, what) /\ (what[1] # {} => what[2] \notin BadRegexes)
<1>1. \A p : good(<<{}, p>>) <=> RefuteContains(lines, p) = {}
  BY DEF Shows, RefuteContains, Found
<1>2. \A n \in Nat : \A p : good(<<{n}, p>>) <=> RefuteLineRegex(lines, n, p) = {}
  BY LinesMean DEF RefuteLineRegex
<1>3. (\A what \in Required(node) : good(what)) <=>
        /\ \A p \in check.patterns : good(<<{}, p>>)
        /\ \A n \in DOMAIN check.lines : good(<<{n}, check.lines[n]>>)
  <2> HIDE DEF good, check
  <2> QED
    BY DecodedRequired DEF check
<1>4. DOMAIN check.lines \subseteq Nat
  BY DecodedRequired
<1>5. RefuteStream(lines, check) = {} <=>
        /\ \A p \in check.patterns : RefuteContains(lines, p) = {}
        /\ \A n \in DOMAIN check.lines : RefuteLineRegex(lines, n, check.lines[n]) = {}
  BY StreamFailures
<1> HIDE DEF check
<1>6. RefuteStream(lines, check) = {} <=> \A what \in Required(node) : good(what)
  <2> HIDE DEF good
  <2> QED
    BY <1>1, <1>2, <1>3, <1>4, <1>5
<1> QED
  BY <1>6 DEF check

LEMMA StreamsMean ==
  ASSUME NEW lines, IsText(lines),
         NEW check, ValidOutputCheck(check), NEW notCheck, ValidOutputCheck(notCheck)
  PROVE  CheckStream(lines, OutputCheck(check)) \cup RefuteStream(lines, OutputCheck(notCheck)) = {}
           <=> StreamHolds(lines, check, notCheck)
BY CheckStreamMeans, RefuteStreamMeans DEF StreamHolds

IsCheck(check) == check.exists \in {"unset", "true", "false"}

LEMMA ContentsMean ==
  ASSUME NEW state, NEW patterns
  PROVE  /\ AssertFileContains(state, patterns) = {} <=>
              Readable(state) /\ patterns \subseteq state.text \ BadRegexes
         /\ RefuteFileContains(state, patterns) = {} <=>
              state.kind = "absent" \/ (Readable(state) /\ patterns \cap (state.text \cup BadRegexes) = {})
BY DEF AssertFileContains, RefuteFileContains

\* What a check, or the opposite of one, asks of a file's existence.
LEMMA ExistenceMeans ==
  ASSUME NEW state
  PROVE  /\ AssertFileExists(state) = {} <=> Exists(state)
         /\ RefuteFileExists(state) = {} <=> state.kind = "absent"
BY DEF AssertFileExists, RefuteFileExists

LEMMA FilesMean ==
  ASSUME NEW state, NEW check, IsCheck(check)
  PROVE  CheckFile(state, check, FALSE) = {} <=> FileHolds(state, check)
<1>1. CheckFile(state, check, FALSE) = {} <=>
        /\ check.exists = "true" \/ IsEmpty(check) => AssertFileExists(state) = {}
        /\ check.exists = "false" => RefuteFileExists(state) = {}
        /\ check.match # {} => AssertFileContains(state, check.match) = {}
        /\ check.notMatch # {} => RefuteFileContains(state, check.notMatch) = {}
  <2>1. CASE IsEmpty(check)
    BY <2>1 DEF CheckFile, IsEmpty
  <2>2. CASE ~IsEmpty(check) /\ check.exists = "unset"
    BY <2>2 DEF CheckFile
  <2>3. CASE ~IsEmpty(check) /\ check.exists = "true"
    BY <2>3 DEF CheckFile
  <2>4. CASE ~IsEmpty(check) /\ check.exists = "false"
    BY <2>4 DEF CheckFile
  <2> QED
    BY <2>1, <2>2, <2>3, <2>4 DEF IsCheck
<1> QED
  BY <1>1, ContentsMean, ExistenceMeans DEF FileHolds

LEMMA OppositeFilesMean ==
  ASSUME NEW state, NEW check, IsCheck(check)
  PROVE  CheckFile(state, check, TRUE) = {} <=> FileHolds(state, Opposite(check))
<1> DEFINE opposite == Opposite(check)
<1>1. /\ ~IsEmpty(opposite)
      /\ opposite.match = check.notMatch /\ opposite.notMatch = check.match
      /\ opposite.exists = "true" <=> check.exists = "false"
      /\ opposite.exists = "false" <=> check.exists = "true" \/ IsEmpty(check)
  BY DEF IsCheck, IsEmpty, Opposite
<1>2. CheckFile(state, check, TRUE) = {} <=>
        /\ check.exists = "true" \/ IsEmpty(check) => RefuteFileExists(state) = {}
        /\ check.exists = "false" => AssertFileExists(state) = {}
        /\ check.match # {} => RefuteFileContains(state, check.match) = {}
        /\ check.notMatch # {} => AssertFileContains(state, check.notMatch) = {}
  <2>1. CASE IsEmpty(check)
    BY <2>1 DEF CheckFile, IsEmpty
  <2>2. CASE ~IsEmpty(check) /\ check.exists = "unset"
    BY <2>2 DEF CheckFile
  <2>3. CASE ~IsEmpty(check) /\ check.exists = "true"
    BY <2>3 DEF CheckFile
  <2>4. CASE ~IsEmpty(check) /\ check.exists = "false"
    BY <2>4 DEF CheckFile
  <2> QED
    BY <2>1, <2>2, <2>3, <2>4 DEF IsCheck
<1> HIDE DEF opposite
<1> QED
  <2>1. FileHolds(state, opposite) <=>
          /\ opposite.exists = "true" \/ IsEmpty(opposite) => Exists(state)
          /\ opposite.exists = "false" => state.kind = "absent"
          /\ opposite.match # {} => AssertFileContains(state, opposite.match) = {}
          /\ opposite.notMatch # {} => RefuteFileContains(state, opposite.notMatch) = {}
    BY ContentsMean DEF FileHolds
  <2>2. FileHolds(state, opposite) <=> CheckFile(state, check, TRUE) = {}
    BY <1>1, <1>2, <2>1, ExistenceMeans
  <2> QED
    BY <2>2 DEF opposite

\* A timeout needs a bound in the document.
LEMMA NoBoundNoTimeout ==
  ASSUME NEW node, Unbounded(node)
  PROVE  ~(Duration(node) > 0)
<1>1. CASE node = Omitted
  BY <1>1 DEF Duration
<1>2. CASE node # Omitted
  <2>1. CASE node = <<"int", 0>>
    <3>1. node[1] = "int" /\ node[2] = 0
      BY <2>1
    <3>2. ValueOf(node) = {0}
      BY <3>1 DEF ValueOf, IntegerOf, IsString
    <3> QED
      BY <1>2, <3>2 DEF Duration
  <2>2. CASE node = <<"str", "0">>
    <3>1. node[1] = "str" /\ node[2] = "0"
      BY <2>2
    <3>2. IntegerOf(node) = {0}
      BY <3>1, ConstantsAssumption DEF IntegerOf, IsString
    <3>3. ValueOf(node) = {0}
      BY <3>1, <3>2, ConstantsAssumption DEF ValueOf
    <3> QED
      BY <1>2, <3>3 DEF Duration
  <2> QED
    BY <1>2, <2>1, <2>2 DEF Unbounded
<1> QED
  BY <1>1, <1>2

-----------------------------------------------------------------------------
(***************************************************************************)
(* CompareJSON finds nothing exactly if the two documents are the same     *)
(* value: the smallest place at which they are not is directly inside of   *)
(* one at which they are, and is one of its missing or unexpected members. *)
(***************************************************************************)
LEMMA Outermost == ASSUME NEW p \in Seq(STRING), Len(p) = 0 PROVE p = <<>> /\ Enclosing(p) = {}
<1>1. p = <<>>
  OBVIOUS
<1> QED
  BY <1>1 DEF Enclosing

LEMMA DirectlyAround ==
  ASSUME NEW p \in Seq(STRING), p # <<>>
  PROVE  LET q == SubSeq(p, 1, Len(p) - 1) IN
         /\ q \in Seq(STRING) /\ Len(q) = Len(p) - 1
         /\ p = Append(q, p[Len(p)])
         /\ Enclosing(p) = Enclosing(q) \cup {q}
<1> DEFINE q == SubSeq(p, 1, Len(p) - 1)
<1>1. Len(p) \in Nat /\ Len(p) >= 1
  OBVIOUS
<1>2. q \in Seq(STRING) /\ Len(q) = Len(p) - 1 /\ \A k \in 1 .. (Len(p) - 1) : q[k] = p[k]
  <2>1. \A k \in 1 .. (Len(p) - 1) : p[k] \in STRING
    BY <1>1
  <2>2. /\ q \in Seq(STRING)
        /\ Len(q) = IF 1 <= Len(p) - 1 THEN (Len(p) - 1) - 1 + 1 ELSE 0
        /\ \A k \in 1 .. ((Len(p) - 1) - 1 + 1) : q[k] = p[1 + k - 1]
    BY <1>1, <2>1, SubSeqProperties
  <2> HIDE DEF q
  <2>3. Len(q) = Len(p) - 1
    <3>1. CASE 1 <= Len(p) - 1
      BY <1>1, <2>2, <3>1
    <3>2. CASE Len(p) = 1
      BY <1>1, <2>2, <3>2
    <3>3. \A l \in Nat : l >= 1 => 1 <= l - 1 \/ l = 1
      OBVIOUS
    <3>4. 1 <= Len(p) - 1 \/ Len(p) = 1
      BY <1>1, <3>3
    <3> QED
      BY <3>1, <3>2, <3>4
  <2>4. \A k \in 1 .. (Len(p) - 1) : k \in 1 .. ((Len(p) - 1) - 1 + 1) /\ 1 + k - 1 = k
    BY <1>1
  <2>5. \A k \in 1 .. (Len(p) - 1) : q[k] = p[k]
    BY <2>2, <2>4
  <2> QED
    BY <2>2, <2>3, <2>5
<1>3. p = Append(q, p[Len(p)])
  <2>1. Append(q, p[Len(p)]) \in Seq(STRING) /\ Len(Append(q, p[Len(p)])) = Len(p)
    BY <1>1, <1>2
  <2>2. \A k \in 1 .. Len(p) : Append(q, p[Len(p)])[k] = p[k]
    BY <1>1, <1>2
  <2> HIDE DEF q
  <2> QED
    BY <2>1, <2>2, SeqEqual
<1>4. \A n \in 0 .. (Len(p) - 1) : SubSeq(p, 1, n) = SubSeq(q, 1, n)
  <2> TAKE n \in 0 .. (Len(p) - 1)
  <2>1. SubSeq(p, 1, n) \in Seq(STRING) /\ Len(SubSeq(p, 1, n)) = n
    BY <1>1, SubSeqProperties
  <2>2. SubSeq(q, 1, n) \in Seq(STRING) /\ Len(SubSeq(q, 1, n)) = n
    BY <1>1, <1>2, SubSeqProperties
  <2>3. \A k \in 1 .. n : SubSeq(p, 1, n)[k] = SubSeq(q, 1, n)[k]
    BY <1>1, <1>2, SubSeqProperties
  <2> QED
    BY <2>1, <2>2, <2>3, SeqEqual
<1>5. Enclosing(p) = {SubSeq(q, 1, n) : n \in 0 .. (Len(p) - 1)}
  BY <1>4 DEF Enclosing
<1>6. SubSeq(q, 1, Len(q)) = q
  BY <1>2, SubSeqFull
<1> HIDE DEF q
<1>7. 0 .. (Len(p) - 1) = (0 .. (Len(q) - 1)) \cup {Len(q)}
  BY <1>1, <1>2
<1> QED
  BY <1>2, <1>3, <1>5, <1>6, <1>7 DEF Enclosing, q

\* The value of v is as large as JSON numbers can be compared exactly.
Comparable(v) == \A p \in DOMAIN v : v[p][1] = "num" => v[p][2] \in DOMAIN Exact

LEMMA DenotedNodes ==
  ASSUME NEW v, NEW p \in DOMAIN v
  PROVE  /\ Denotes(v)[p][1] = v[p][1]
         /\ v[p][1] = "num" => Denotes(v)[p] = <<"num", Exact[v[p][2]]>>
         /\ v[p][1] # "num" => Denotes(v)[p] = v[p]
BY DEF Denotes

LEMMA SameNodes ==
  ASSUME NEW v, IsJSON(v), Comparable(v), NEW w, IsJSON(w), Comparable(w),
         NEW p \in DOMAIN v \cap DOMAIN w, Members(v, p) = Members(w, p)
  PROVE  DifferencesAt(p, v, w) = {} <=> Denotes(v)[p] = Denotes(w)[p]
<1>0. /\ Denotes(v)[p][1] = v[p][1] /\ Denotes(w)[p][1] = w[p][1]
      /\ v[p][1] = "num" => Denotes(v)[p] = <<"num", Exact[v[p][2]]>>
      /\ w[p][1] = "num" => Denotes(w)[p] = <<"num", Exact[w[p][2]]>>
      /\ v[p][1] # "num" => Denotes(v)[p] = v[p]
      /\ w[p][1] # "num" => Denotes(w)[p] = w[p]
  BY DenotedNodes
<1>1. CASE v[p][1] # w[p][1]
  <2>1. DifferencesAt(p, v, w) = {<<"json", p, "type">>}
    BY <1>1 DEF DifferencesAt
  <2>2. Denotes(v)[p] # Denotes(w)[p]
    BY <1>0, <1>1
  <2> QED
    BY <2>1, <2>2
<1>2. CASE v[p][1] = w[p][1] /\ v[p][1] \in {"obj", "arr"}
  <2>1. v[p] = w[p]
    BY <1>2 DEF IsJSON
  <2>2. DifferencesAt(p, v, w) = {}
    BY <1>2 DEF DifferencesAt
  <2> QED
    BY <1>0, <1>2, <2>1, <2>2
<1>3. CASE v[p][1] = w[p][1] /\ v[p][1] = "num"
  <2> DEFINE a == v[p][2]
             b == w[p][2]
  <2>1. NumbersEqual(a, b) <=> Exact[a] = Exact[b]
    BY <1>3 DEF NumbersEqual, Comparable
  <2>2. DifferencesAt(p, v, w) = {} <=> NumbersEqual(a, b)
    BY <1>3 DEF DifferencesAt
  <2>3. <<"num", Exact[a]>> = <<"num", Exact[b]>> <=> Exact[a] = Exact[b]
    OBVIOUS
  <2> QED
    BY <1>0, <1>3, <2>1, <2>2, <2>3
<1>4. CASE v[p][1] = w[p][1] /\ v[p][1] \notin {"obj", "arr", "num"}
  <2>1. DifferencesAt(p, v, w) = {} <=> v[p] = w[p]
    BY <1>4 DEF DifferencesAt
  <2> QED
    BY <1>0, <1>4, <2>1
<1> QED
  BY <1>1, <1>2, <1>3, <1>4

\* Without a difference the two have the same members at a place they share.
LEMMA SameMembers ==
  ASSUME NEW v, NEW w, NEW p \in DOMAIN v \cap DOMAIN w,
         DifferencesAt(p, v, w) = {}, v[p][1] \in {"obj", "arr"}
  PROVE  v[p][1] = w[p][1] /\ Members(v, p) = Members(w, p)
<1>1. v[p][1] = w[p][1]
  BY DEF DifferencesAt
<1>2. CASE v[p][1] = "obj"
  <2> DEFINE exp == Members(v, p)
             act == Members(w, p)
  <2>1. /\ {<<"json", p, "missing", k>> : k \in exp \ act} = {}
        /\ {<<"json", p, "unexpected", k>> : k \in act \ exp} = {}
    BY <1>1, <1>2 DEF DifferencesAt
  <2> HIDE DEF exp, act
  <2>2. exp \ act = {} /\ act \ exp = {}
    BY <2>1
  <2>3. exp = act
    BY <2>2
  <2> QED
    BY <1>1, <2>3 DEF exp, act
<1>3. CASE v[p][1] = "arr"
  BY <1>1, <1>3 DEF DifferencesAt
<1> QED
  BY <1>1, <1>2, <1>3

LEMMA MemberOf ==
  ASSUME NEW v, IsJSON(v), NEW q \in Seq(STRING), NEW k
  PROVE  k \in Members(v, q) /\ Append(q, k) \in Seq(STRING) <=> k \in STRING /\ Append(q, k) \in DOMAIN v
<1>1. ASSUME k \in STRING, Append(q, k) \in DOMAIN v PROVE k \in Members(v, q)
  <2>1. /\ Append(q, k) # <<>> /\ Len(Append(q, k)) = Len(q) + 1
        /\ Append(q, k)[Len(q) + 1] = k
    BY <1>1, AppendProperties
  <2> QED
    BY <1>1, <2>1 DEF Members
<1>2. ASSUME k \in Members(v, q) PROVE k \in STRING /\ Append(q, k) \in DOMAIN v
  <2>1. PICK r \in DOMAIN v \ {<<>>} : k = r[Len(r)] /\ Append(q, k) \in DOMAIN v
    BY <1>2 DEF Members
  <2>2. r \in Seq(STRING) /\ r # <<>>
    BY DEF IsJSON
  <2> QED
    BY <2>1, <2>2
<1> QED
  BY <1>1, <1>2, AppendProperties

LEMMA NoDifference ==
  ASSUME NEW v, IsJSON(v), NEW w, IsJSON(w), CompareJSON(v, w) = {},
         NEW p \in DOMAIN v \cup DOMAIN w
  PROVE  p \in DOMAIN v \cap DOMAIN w /\ p \in Compared(v, w)
<1> DEFINE Both  == Compared(v, w)
           Places == DOMAIN v \cup DOMAIN w
           Bad    == {Len(q) : q \in Places \ Both}
<1>1. \A q \in Places : q \in Seq(STRING) /\ Len(q) \in Nat
  BY DEF IsJSON
<1>2. \A q \in Compared(v, w) : q \in DOMAIN v \cap DOMAIN w /\ DifferencesAt(q, v, w) = {}
  BY DEF Compared, CompareJSON
<1>3. SUFFICES ASSUME p \notin Both PROVE FALSE
  BY <1>2
<1>4. PICK d \in Places \ Both : \A q \in Places \ Both : Len(d) <= Len(q)
  <2>1. Bad \in SUBSET Nat /\ Bad # {}
    BY <1>1, <1>3
  <2>2. PICK n \in Bad : \A m \in Bad : n <= m
    <3> HIDE DEF Bad
    <3> QED
      BY <2>1, LeastNat
  <2> QED
    BY <2>2
<1>5. CASE Len(d) = 0
  <2>1. d = <<>> /\ Enclosing(d) = {}
    BY <1>1, <1>4, <1>5, Outermost
  <2> QED
    BY <1>4, <2>1 DEF IsJSON, Compared
<1>6. CASE Len(d) # 0
  <2> DEFINE q == SubSeq(d, 1, Len(d) - 1)
             k == d[Len(d)]
  <2>1. d \in Seq(STRING) /\ d # <<>> /\ k \in STRING
    BY <1>1, <1>4, <1>6
  <2>2. /\ q \in Seq(STRING) /\ Len(q) = Len(d) - 1 /\ d = Append(q, k)
        /\ Enclosing(d) = Enclosing(q) \cup {q}
    BY <2>1, DirectlyAround
  <2> HIDE DEF q, k
  <2>3. q \in Places /\ ((q \in DOMAIN v /\ v[q][1] \in {"obj", "arr"}) \/ (q \in DOMAIN w /\ w[q][1] \in {"obj", "arr"}))
    <3>1. q \in Enclosing(d)
      BY <2>2
    <3>2. CASE d \in DOMAIN v
      <4>1. q \in DOMAIN v /\ v[q][1] \in {"obj", "arr"}
        BY <3>1, <3>2 DEF IsJSON
      <4> QED
        BY <4>1
    <3>3. CASE d \in DOMAIN w
      <4>1. q \in DOMAIN w /\ w[q][1] \in {"obj", "arr"}
        BY <3>1, <3>3 DEF IsJSON
      <4> QED
        BY <4>1
    <3> QED
      BY <1>4, <3>2, <3>3
  <2>4. q \in Both
    BY <1>1, <1>4, <2>2, <2>3
  <2>5. q \in DOMAIN v \cap DOMAIN w /\ DifferencesAt(q, v, w) = {} /\ v[q][1] = w[q][1]
    <3>1. q \in DOMAIN v \cap DOMAIN w /\ DifferencesAt(q, v, w) = {}
      BY <1>2, <2>4
    <3> QED
      BY <3>1 DEF DifferencesAt
  <2>6. Members(v, q) = Members(w, q)
    BY <2>3, <2>5, SameMembers
  <2>7. d \in DOMAIN v \cap DOMAIN w
    BY <1>4, <2>1, <2>2, <2>6, MemberOf
  <2>8. \A e \in Enclosing(d) : v[e][1] = w[e][1]
    BY <2>2, <2>4, <2>5 DEF Compared
  <2> QED
    BY <1>4, <2>7, <2>8 DEF Compared
<1> QED
  BY <1>5, <1>6

\* compareJSON reports nothing exactly if the two documents denote the same value,
\* whatever they hold and however deep, as long as big.Rat reads their numbers:
\* a member or element that only one of them has is found from where the two
\* paths part.
THEOREM ComparisonIsEquality ==
  ASSUME NEW v, IsJSON(v), Comparable(v), NEW w, IsJSON(w), Comparable(w)
  PROVE  CompareJSON(v, w) = {} <=> Denotes(v) = Denotes(w)
<1>1. DOMAIN Denotes(v) = DOMAIN v /\ DOMAIN Denotes(w) = DOMAIN w
  BY DEF Denotes
<1>2. ASSUME DOMAIN v = DOMAIN w PROVE \A p : Members(v, p) = Members(w, p)
  BY <1>2 DEF Members
<1>3. ASSUME CompareJSON(v, w) = {} PROVE Denotes(v) = Denotes(w)
  <2>1. DOMAIN v = DOMAIN w
    BY <1>3, NoDifference
  <2>2. ASSUME NEW p \in DOMAIN v PROVE Denotes(v)[p] = Denotes(w)[p]
    <3>1. p \in Compared(v, w)
      BY <1>3, NoDifference
    <3>2. DifferencesAt(p, v, w) = {}
      BY <1>3, <3>1 DEF CompareJSON
    <3> QED
      BY <1>2, <2>1, <3>2, SameNodes
  <2>3. Denotes(v) = [p \in DOMAIN v |-> Denotes(v)[p]] /\ Denotes(w) = [p \in DOMAIN w |-> Denotes(w)[p]]
    BY DEF Denotes
  <2> QED
    BY <2>1, <2>2, <2>3
<1>4. ASSUME Denotes(v) = Denotes(w) PROVE CompareJSON(v, w) = {}
  <2>1. DOMAIN v = DOMAIN w
    BY <1>1, <1>4
  <2>2. \A p \in Compared(v, w) : DifferencesAt(p, v, w) = {}
    BY <1>2, <1>4, <2>1, SameNodes DEF Compared
  <2> QED
    BY <2>2 DEF CompareJSON
<1> QED
  BY <1>3, <1>4

-----------------------------------------------------------------------------
(***************************************************************************)
(* What a disk has after something was written, moved, pushed or pulled.   *)
(***************************************************************************)
\* Path q is, or is not, on both disks, and has the same content.
SameAt(d, e, q) == (q \in DOMAIN e <=> q \in DOMAIN d) /\ (q \in DOMAIN d => e[q] = d[q])

LEMMA Paths ==
  ASSUME NEW m, NEW dir, NEW area, NEW name
  PROVE  /\ At(m, dir, area, name).m = m /\ At(m, dir, area, name).dir = dir
         /\ At(m, dir, area, name).area = area /\ At(m, dir, area, name).name = name
         /\ \A to : [At(m, dir, area, name) EXCEPT !.m = to] = At(to, dir, area, name)
BY DEF At

LEMMA OverPaths ==
  ASSUME NEW w, NEW d
  PROVE  /\ DOMAIN Over(w, d) = DOMAIN w \cup DOMAIN d
         /\ \A q \in DOMAIN w : Over(w, d)[q] = w[q]
         /\ \A q : q \notin DOMAIN w => SameAt(d, Over(w, d), q)
BY DEF Over, SameAt

\* Paths of one machine keep apart when they are moved to another.
LEMMA MovedPaths ==
  ASSUME NEW d, NEW from, NEW to, NEW paths,
         \A p \in paths : IsPath(p) /\ p.m = from
  PROVE  /\ \A q \in DOMAIN Moved(d, paths, to) :
              /\ q = At(to, q.dir, q.area, q.name)
              /\ At(from, q.dir, q.area, q.name) \in paths
              /\ Moved(d, paths, to)[q] = d[At(from, q.dir, q.area, q.name)]
         /\ \A p \in paths : At(to, p.dir, p.area, p.name) \in DOMAIN Moved(d, paths, to)
<1> DEFINE target(p) == [p EXCEPT !.m = to]
<1>1. \A p \in paths : target(p) = At(to, p.dir, p.area, p.name) /\ p = At(from, p.dir, p.area, p.name)
  BY Paths DEF IsPath
<1>2. /\ DOMAIN Moved(d, paths, to) = {target(p) : p \in paths}
      /\ \A q \in {target(p) : p \in paths} : Moved(d, paths, to)[q] = d[CHOOSE p \in paths : target(p) = q]
  BY DEF Moved
<1> HIDE DEF target
<1>3. ASSUME NEW p \in paths PROVE (CHOOSE r \in paths : target(r) = target(p)) = p
  <2> DEFINE r == CHOOSE r \in paths : target(r) = target(p)
  <2>1. r \in paths /\ target(r) = target(p)
    OBVIOUS
  <2> HIDE DEF r
  <2>2. r.dir = p.dir /\ r.area = p.area /\ r.name = p.name
    BY <1>1, <2>1, Paths
  <2>3. r = p
    BY <1>1, <2>1, <2>2
  <2> QED
    BY <2>3 DEF r
<1>4. ASSUME NEW q \in DOMAIN Moved(d, paths, to)
      PROVE  /\ q = At(to, q.dir, q.area, q.name)
             /\ At(from, q.dir, q.area, q.name) \in paths
             /\ Moved(d, paths, to)[q] = d[At(from, q.dir, q.area, q.name)]
  <2>1. PICK p \in paths : q = target(p)
    BY <1>2, <1>4
  <2>2. Moved(d, paths, to)[q] = d[p]
    BY <1>2, <1>3, <2>1
  <2>3. q.dir = p.dir /\ q.area = p.area /\ q.name = p.name
    BY <1>1, <2>1, Paths
  <2> QED
    BY <1>1, <2>1, <2>2, <2>3
<1> QED
  BY <1>1, <1>2, <1>4

\* Paths of disk d, all of one machine.
AllOn(d, m, paths) == \A p \in paths : p \in DOMAIN d /\ p.m = m

\* Writing what was moved to machine m over a disk.
LEMMA MovedOver ==
  ASSUME NEW d, IsDisk(d), NEW from, NEW to, NEW paths, AllOn(d, from, paths),
         NEW e, e = Over(Moved(d, paths, to), d)
  PROVE  /\ IsDisk(e)
         /\ \A p \in paths : /\ At(to, p.dir, p.area, p.name) \in DOMAIN e
                             /\ e[At(to, p.dir, p.area, p.name)] = d[p]
         /\ \A q : q.m # to \/ At(from, q.dir, q.area, q.name) \notin paths => SameAt(d, e, q)
         /\ \A q \in DOMAIN e : q \in DOMAIN d \/ (q.m = to /\ At(from, q.dir, q.area, q.name) \in paths)
<1> DEFINE moved == Moved(d, paths, to)
<1>1. /\ \A q \in DOMAIN moved : /\ q = At(to, q.dir, q.area, q.name)
                                 /\ At(from, q.dir, q.area, q.name) \in paths
                                 /\ moved[q] = d[At(from, q.dir, q.area, q.name)]
      /\ \A p \in paths : At(to, p.dir, p.area, p.name) \in DOMAIN moved
  <2>1. \A p \in paths : IsPath(p) /\ p.m = from
    BY DEF AllOn, IsDisk
  <2> QED
    BY <2>1, MovedPaths
<1>2. \A p \in paths : p = At(from, p.dir, p.area, p.name)
  BY DEF IsPath, AllOn, IsDisk
<1>3. /\ DOMAIN e = DOMAIN moved \cup DOMAIN d
      /\ \A q \in DOMAIN moved : e[q] = moved[q]
      /\ \A q : q \notin DOMAIN moved => SameAt(d, e, q)
  BY OverPaths
<1> HIDE DEF moved
<1>4. \A q \in DOMAIN moved : q.m = to
  BY <1>1, Paths
<1>5. ASSUME NEW p \in paths
      PROVE  At(to, p.dir, p.area, p.name) \in DOMAIN e /\ e[At(to, p.dir, p.area, p.name)] = d[p]
  <2> DEFINE q == At(to, p.dir, p.area, p.name)
  <2>1. q \in DOMAIN moved /\ q.dir = p.dir /\ q.area = p.area /\ q.name = p.name
    BY <1>1, Paths
  <2> HIDE DEF q
  <2>2. moved[q] = d[p]
    BY <1>1, <1>2, <2>1
  <2> QED
    BY <1>3, <2>1, <2>2 DEF q
<1>6. ASSUME NEW q \in DOMAIN e PROVE IsPath(q)
  <2>1. CASE q \in DOMAIN moved
    <3> DEFINE p == At(from, q.dir, q.area, q.name)
    <3>1. IsPath(p) /\ p.dir = q.dir /\ p.area = q.area
      BY <1>1, <2>1, Paths DEF AllOn, IsDisk
    <3> QED
      BY <1>1, <1>4, <2>1, <3>1 DEF IsPath
  <2>2. CASE q \notin DOMAIN moved
    BY <1>3, <1>6, <2>2 DEF IsDisk
  <2> QED
    BY <2>1, <2>2
<1> QED
  BY <1>1, <1>3, <1>4, <1>5, <1>6 DEF moved, IsDisk

\* What is in a written block.
Content(block, expanded, n) ==
  IF n \in DOMAIN block.files
    THEN File({block.files[n]}, {expanded[r] : r \in RefsOf(block.files[n])})
    ELSE SourceOf(block.copy[n])

LEMMA WrittenPaths ==
  ASSUME NEW dir, NEW area, NEW block, NEW expanded
  PROVE  LET w == Written(dir, area, block, expanded) IN
         /\ \A q \in DOMAIN w : q = At(Here, dir, area, q.name) /\ q.name \in NamesOf(block)
         /\ \A n \in NamesOf(block) :
              /\ At(Here, dir, area, n) \in DOMAIN w
              /\ w[At(Here, dir, area, n)] = Content(block, expanded, n)
<1> DEFINE paths      == {At(Here, dir, area, n) : n \in NamesOf(block)}
           content(n) == Content(block, expanded, n)
           w          == Written(dir, area, block, expanded)
<1>1. w = [p \in paths |-> content(p.name)]
  BY DEF Written, NamesOf, Content
<1> HIDE DEF content, w
<1>2. DOMAIN w = paths /\ \A q \in paths : w[q] = content(q.name)
  BY <1>1
<1>3. \A q \in paths : q = At(Here, dir, area, q.name) /\ q.name \in NamesOf(block)
  BY Paths
<1>4. \A n \in NamesOf(block) : At(Here, dir, area, n) \in paths /\ At(Here, dir, area, n).name = n
  BY Paths
<1> HIDE DEF paths
<1>5. \A n \in NamesOf(block) : At(Here, dir, area, n) \in DOMAIN w /\ w[At(Here, dir, area, n)] = content(n)
  BY <1>2, <1>4
<1> QED
  BY <1>2, <1>3, <1>5 DEF content, w

IsFixtureDir(dir, area) == area \in {"inputs", "shared"} /\ (dir = SharedDir <=> area = "shared")

\* Writing a block into a directory here.
LEMMA WrittenOver ==
  ASSUME NEW d, IsDisk(d), NEW dir, NEW area, IsFixtureDir(dir, area),
         NEW block, NEW expanded, NEW w, w = Written(dir, area, block, expanded),
         NEW e, e = Over(w, d)
  PROVE  /\ IsDisk(e)
         /\ \A n \in NamesOf(block) : /\ At(Here, dir, area, n) \in DOMAIN e
                                      /\ e[At(Here, dir, area, n)] = w[At(Here, dir, area, n)]
         /\ \A q : q.m # Here \/ q.dir # dir \/ q.area # area => SameAt(d, e, q)
<1>1. /\ \A q \in DOMAIN w : q = At(Here, dir, area, q.name) /\ q.name \in NamesOf(block)
      /\ \A n \in NamesOf(block) : At(Here, dir, area, n) \in DOMAIN w
  BY WrittenPaths
<1>2. /\ DOMAIN e = DOMAIN w \cup DOMAIN d
      /\ \A q \in DOMAIN w : e[q] = w[q]
      /\ \A q : q \notin DOMAIN w => SameAt(d, e, q)
  BY OverPaths
<1>3. \A q \in DOMAIN w : q.m = Here /\ q.dir = dir /\ q.area = area
  BY <1>1, Paths
<1>4. \A q \in DOMAIN w : IsPath(q)
  BY <1>1, <1>3 DEF IsPath, IsFixtureDir
<1> QED
  BY <1>1, <1>2, <1>3, <1>4 DEF IsDisk

-----------------------------------------------------------------------------
(***************************************************************************)
(* What the invariant says of an instance and the test it is of.           *)
(***************************************************************************)
LEMMA DeclaredTest ==
  ASSUME FileInv, NEW i \in Ids
  PROVE  /\ Parsed /\ WellFormed(doc)
         /\ i \in Nat /\ TestDir(i) = i /\ TestDir(i) # SharedDir
         /\ Declared(i) \in ToSet(doc.tests)
         /\ IsInstance(tests[i], Declared(i))
         /\ ValidTest(Declared(i), doc)
<1>1. Parsed
  BY DEF FileInv, Ids
<1>2. doc \in Documents /\ Valid(doc) /\ tests = Tests(doc)
  BY <1>1 DEF FileInv
<1>3. WellFormed(doc)
  BY <1>2, ConstantsAssumption
<1>4. i \in Nat \ {0} /\ \E test \in ToSet(doc.tests) : IsInstance(tests[i], test)
  BY <1>2, TestsOfDocument DEF Ids
<1>5. PICK test \in ToSet(doc.tests) : IsInstance(tests[i], test)
  BY <1>4
<1>6. \A other \in ToSet(doc.tests) : other.cmd = tests[i].cmd => other = test
  <2>1. \A s, t \in DOMAIN doc.tests : doc.tests[s].cmd = doc.tests[t].cmd => s = t
    BY <1>3 DEF WellFormed
  <2> QED
    BY <1>5, <2>1 DEF IsInstance, ToSet
<1>7. Declared(i) = test
  <2>1. test.cmd = tests[i].cmd
    BY <1>5 DEF IsInstance
  <2> QED
    BY <1>5, <1>6, <2>1 DEF Declared
<1>8. ValidTest(test, doc)
  BY <1>2 DEF Valid
<1> QED
  BY <1>1, <1>3, <1>4, <1>5, <1>7, <1>8 DEF TestDir, SharedDir

\* A command of a file without a target runs here, and no other does.
LEMMA HostHere ==
  ASSUME FileInv, NEW i \in Ids
  PROVE  Host(i) = Here <=> home = Here
<1>1. tests[i].ssh = TargetName(Declared(i).ssh) /\ TargetName(Declared(i).ssh) # Here
  BY DeclaredTest DEF IsInstance, WellFormed
<1> QED
  BY <1>1 DEF Host

LEMMA SharedIsLocal ==
  ASSUME FileInv, Parsed
  PROVE  NamesOf(Shared) \cap Escaping = {}
<1>1. Valid(doc) /\ WellFormed(doc)
  BY ConstantsAssumption DEF FileInv
<1>2. CASE doc.shared = <<>>
  <2>1. NamesOf(Shared) = {}
    BY <1>2 DEF Shared, NamesOf
  <2> QED
    BY <2>1
<1>3. CASE doc.shared # <<>>
  <2>1. doc.shared = <<Shared>>
    BY <1>1, <1>3 DEF WellFormed, Shared
  <2>2. Shared \in ToSet(doc.shared)
    BY <2>1 DEF ToSet
  <2>3. ValidShared(Shared)
    BY <1>1, <2>2 DEF Valid
  <2> QED
    BY <2>3 DEF ValidShared, ValidCopyBlock, NamesOf
<1> QED
  BY <1>2, <1>3

LEMMA NoPathIsAReference ==
  ASSUME NEW q
  PROVE  /\ IsPath(q) => q \notin References /\ "m" \in DOMAIN q
         /\ q \in References => "m" \notin DOMAIN q
BY DEF IsPath, At, References

\* What a placeholder becomes.
LEMMA Expansions ==
  ASSUME NEW r, NEW c
  PROVE  \/ Expand(r, c) = r
         \/ /\ r.ns = "inputs" /\ r.name \in c.inputs
            /\ Expand(r, c) = At(c.base, TestDir(c.index), "inputs", r.name)
         \/ /\ r.ns = "outputs"
            /\ Expand(r, c) = At(c.base, TestDir(c.index), "outputs", r.name)
         \/ /\ r.ns = "shared"
            /\ Expand(r, c) = At(c.base, SharedDir, "shared", r.name)
BY DEF Expand, ExpandShared

LEMMA PlaceholdersAreReferences ==
  ASSUME NEW s
  PROVE  RefsOf(s) \subseteq References
BY ConstantsAssumption DEF RefsOf

LEMMA FixturesAreThere ==
  ASSUME IInv, NEW i \in Ids, at[i] = "running", NEW r \in DOMAIN args[i], Promised(i, r) # {}
  PROVE  LET p == args[i][r] IN
         /\ p \in DOMAIN disk /\ p.m = Host(i)
         /\ disk[p].text = Promised(i, r)
         /\ Host(i) = Here => \A q \in disk[p].refs : "m" \in DOMAIN q =>
              q.m = Here /\ q.dir \in {p.dir, SharedDir} /\ (q.area = "inputs" => q \in DOMAIN disk)
<1> DEFINE test == tests[i]
<1>1. FileInv /\ SharedInv /\ FlowInv(i) /\ PlacesInv(i)
  BY DEF IInv, InstanceInv
<1>2. /\ i \in Nat /\ TestDir(i) = i /\ TestDir(i) # SharedDir
      /\ phase = "tests"
  BY <1>1, DeclaredTest DEF FlowInv
<1>3. /\ ctx[i] = ContextOf(i) /\ Host(i) \in mirrored \cup {home} /\ HasInputs(Host(i), i)
      /\ r \in Placeholders(i) /\ args[i][r] = Expand(r, ctx[i])
  BY <1>1 DEF FlowInv, PlacesInv
<1>4. r \in References
  BY <1>3, PlaceholdersAreReferences DEF Placeholders
<1>5. ctx[i].index = i /\ ctx[i].base = Host(i) /\ ctx[i].inputs = NamesOf(test.inputs)
  BY <1>3 DEF ContextOf
<1>6. CASE r.ns = "inputs" /\ r.name \in NamesOf(test.inputs)
  <2> DEFINE p == At(Host(i), i, "inputs", r.name)
             h == At(Here, i, "inputs", r.name)
             expanded == [s \in Mentioned(test.inputs) |-> Expand(s, NewContext(i, test))]
  <2>1. args[i][r] = p
    BY <1>2, <1>3, <1>5, <1>6 DEF Expand
  <2>2. p \in DOMAIN disk /\ disk[p] = Inputs(i)[h]
    BY <1>2, <1>3, <1>6 DEF HasInputs, Has
  <2>3. Inputs(i)[h] = Content(test.inputs, expanded, r.name)
    <3>1. Inputs(i) = Written(i, "inputs", test.inputs, expanded)
      BY <1>2 DEF Inputs
    <3> HIDE DEF expanded, test
    <3> QED
      BY <1>6, <3>1, WrittenPaths
  <2>4. Promised(i, r) = IF r.name \in DOMAIN test.inputs.files THEN {test.inputs.files[r.name]}
                         ELSE SourceOf(test.inputs.copy[r.name]).text
    BY <1>6 DEF Promised, NamesOf
  <2>5. p.m = Host(i) /\ p.dir = i
    BY Paths
  <2>6. CASE r.name \in DOMAIN test.inputs.files
    <3> DEFINE text == test.inputs.files[r.name]
    <3>1. disk[p].text = {text} /\ disk[p].refs = {expanded[s] : s \in RefsOf(text)}
      BY <2>2, <2>3, <2>6 DEF Content, File
    <3>2. ASSUME NEW s \in RefsOf(text), "m" \in DOMAIN expanded[s], Host(i) = Here
          PROVE  /\ expanded[s].m = Here /\ expanded[s].dir \in {i, SharedDir}
                 /\ expanded[s].area = "inputs" => expanded[s] \in DOMAIN disk
      <4>1. s \in Mentioned(test.inputs)
        BY <2>6, <3>2 DEF Mentioned, ToSet
      <4> DEFINE c == NewContext(i, test)
      <4>2. /\ expanded[s] = Expand(s, c)
            /\ c.base = Here /\ c.index = i /\ c.inputs = NamesOf(test.inputs)
        BY <4>1 DEF NewContext, NamesOf
      <4>3. s \in References
        BY <3>2, PlaceholdersAreReferences
      <4> HIDE DEF c, expanded
      <4>4. Expand(s, c) # s
        BY <3>2, <4>2, <4>3, NoPathIsAReference
      <4>5. CASE Expand(s, c) = At(Here, i, "inputs", s.name) /\ s.name \in NamesOf(test.inputs)
        BY <1>2, <1>3, <3>2, <4>2, <4>5, Paths DEF HasInputs, Has
      <4>6. CASE Expand(s, c) = At(Here, i, "outputs", s.name)
        BY <4>2, <4>6, Paths
      <4>7. CASE Expand(s, c) = At(Here, SharedDir, "shared", s.name)
        BY <4>2, <4>7, Paths
      <4> QED
        BY <1>2, <4>2, <4>4, <4>5, <4>6, <4>7, Expansions
    <3> HIDE DEF expanded, p
    <3> QED
      BY <2>1, <2>2, <2>4, <2>5, <2>6, <3>1, <3>2
  <2>7. CASE r.name \notin DOMAIN test.inputs.files
    <3>1. disk[p] = SourceOf(test.inputs.copy[r.name])
      BY <2>2, <2>3, <2>7 DEF Content
    <3>2. \A q \in disk[p].refs : "m" \notin DOMAIN q
      <4>1. disk[p].refs \subseteq References
        BY <3>1, ConstantsAssumption DEF SourceOf, Absent, IsContent
      <4> QED
        BY <4>1, NoPathIsAReference
    <3> HIDE DEF p
    <3> QED
      BY <2>1, <2>2, <2>4, <2>5, <2>7, <3>1, <3>2
  <2> QED
    BY <2>6, <2>7
<1>7. CASE r.ns = "shared" /\ r.name \in FromSetup /\ Host(i) = home
  <2> DEFINE p == At(home, SharedDir, "shared", r.name)
  <2>1. r.name \notin Escaping
    BY <1>7, ConstantsAssumption DEF FromSetup
  <2>2. args[i][r] = p
    BY <1>3, <1>5, <1>7, <2>1 DEF Expand, ExpandShared
  <2>3. p \in DOMAIN disk /\ disk[p] = File({r.name}, {})
    BY <1>1, <1>2, <1>7 DEF SharedInv, FromSetupNow
  <2>4. Promised(i, r) = {r.name}
    BY <1>7 DEF Promised
  <2>5. p.m = home
    BY Paths
  <2> HIDE DEF p
  <2> QED
    BY <1>7, <2>2, <2>3, <2>4, <2>5 DEF File
<1>8. CASE r.ns = "shared" /\ ~(r.name \in FromSetup /\ Host(i) = home) /\ r.name \in NamesOf(Shared)
  <2> DEFINE p == At(Host(i), SharedDir, "shared", r.name)
             h == At(Here, SharedDir, "shared", r.name)
             expanded == [s \in Mentioned(Shared) |-> ExpandShared(s, Here)]
  <2>1. r.name \notin Escaping
    BY <1>1, <1>2, <1>8, SharedIsLocal DEF Parsed
  <2>2. args[i][r] = p
    BY <1>3, <1>5, <1>8, <2>1 DEF Expand, ExpandShared
  <2>3. p \in DOMAIN disk /\ disk[p] = SharedFiles[h]
    <3>1. CASE Host(i) = home
      BY <1>1, <1>2, <1>8, <3>1 DEF SharedInv, HasShared, Has, FromSetupNow
    <3>2. CASE Host(i) # home
      BY <1>1, <1>3, <1>8, <3>2 DEF SharedInv, HasShared, Has
    <3> QED
      BY <3>1, <3>2
  <2>4. SharedFiles[h] = Content(Shared, expanded, r.name)
    <3>1. SharedFiles = Written(SharedDir, "shared", Shared, expanded)
      BY DEF SharedFiles
    <3> HIDE DEF expanded
    <3> QED
      BY <1>8, <3>1, WrittenPaths
  <2>5. Promised(i, r) = IF r.name \in DOMAIN Shared.files THEN {Shared.files[r.name]}
                         ELSE SourceOf(Shared.copy[r.name]).text
    BY <1>8 DEF Promised, NamesOf
  <2>6. p.m = Host(i) /\ p.dir = SharedDir
    BY Paths
  <2>7. CASE r.name \in DOMAIN Shared.files
    <3> DEFINE text == Shared.files[r.name]
    <3>1. disk[p].text = {text} /\ disk[p].refs = {expanded[s] : s \in RefsOf(text)}
      BY <2>3, <2>4, <2>7 DEF Content, File
    <3>2. ASSUME NEW s \in RefsOf(text), "m" \in DOMAIN expanded[s]
          PROVE  expanded[s].m = Here /\ expanded[s].dir = SharedDir /\ expanded[s].area = "shared"
      <4>1. s \in Mentioned(Shared) /\ s \in References
        BY <2>7, <3>2, PlaceholdersAreReferences DEF Mentioned, ToSet
      <4>2. expanded[s] = ExpandShared(s, Here) /\ expanded[s] # s
        BY <3>2, <4>1, NoPathIsAReference
      <4> QED
        BY <4>2, Paths DEF ExpandShared
    <3> HIDE DEF expanded, p
    <3> QED
      BY <2>2, <2>3, <2>5, <2>6, <2>7, <3>1, <3>2
  <2>8. CASE r.name \notin DOMAIN Shared.files
    <3>1. disk[p] = SourceOf(Shared.copy[r.name])
      BY <2>3, <2>4, <2>8 DEF Content
    <3>2. \A q \in disk[p].refs : "m" \notin DOMAIN q
      <4>1. disk[p].refs \subseteq References
        BY <3>1, ConstantsAssumption DEF SourceOf, Absent, IsContent
      <4> QED
        BY <4>1, NoPathIsAReference
    <3> HIDE DEF p
    <3> QED
      BY <2>2, <2>3, <2>5, <2>6, <2>8, <3>1, <3>2
  <2> QED
    BY <2>7, <2>8
<1> QED
  BY <1>6, <1>7, <1>8 DEF Promised, NamesOf

\* No placeholder leads out of the instance's own directory and shared/.
LEMMA NobodyElsesPath ==
  ASSUME IInv, NEW i \in Ids, at[i] = "running", NEW r \in DOMAIN args[i], args[i][r] # r
  PROVE  LET p == args[i][r] IN
         p.m = Host(i) /\ \A j \in Ids \ {i} : at[j] = "running" =>
           p.area = "shared" \/ \A s \in DOMAIN args[j] : args[j][s] # p
<1> DEFINE c(j) == ContextOf(j)
<1>1. ASSUME NEW j \in Ids, at[j] = "running", NEW s \in DOMAIN args[j]
      PROVE  /\ s \in References /\ j \in Nat \ {0}
             /\ \/ args[j][s] = s
                \/ args[j][s] = At(Host(j), j, "inputs", s.name)
                \/ args[j][s] = At(Host(j), j, "outputs", s.name)
                \/ args[j][s] = At(Host(j), SharedDir, "shared", s.name)
  <2>1. FileInv /\ FlowInv(j)
    BY DEF IInv, InstanceInv
  <2>2. s \in Placeholders(j) /\ args[j][s] = Expand(s, c(j))
    BY <1>1, <2>1 DEF FlowInv
  <2>3. s \in References
    BY <2>2, PlaceholdersAreReferences DEF Placeholders
  <2>4. c(j).index = j /\ c(j).base = Host(j) /\ TestDir(j) = j /\ j \in Nat \ {0}
    BY <2>1, DeclaredTest DEF ContextOf, SharedDir
  <2> QED
    BY <2>2, <2>3, <2>4, Expansions
<1>2. \/ args[i][r] = At(Host(i), i, "inputs", r.name)
      \/ args[i][r] = At(Host(i), i, "outputs", r.name)
      \/ args[i][r] = At(Host(i), SharedDir, "shared", r.name)
  BY <1>1
<1>3. \A m, dir, area, name : At(m, dir, area, name) \notin References
  BY DEF At, References
<1>4. args[i][r].m = Host(i)
  BY <1>2, Paths
<1>5. ASSUME NEW j \in Ids \ {i}, at[j] = "running", NEW s \in DOMAIN args[j], args[j][s] = args[i][r]
      PROVE  args[i][r].area = "shared"
  <2>1. args[j][s] # s
    BY <1>1, <1>2, <1>3, <1>5
  <2>2. args[j][s].dir \in {j, SharedDir}
    BY <1>1, <1>5, <2>1, Paths
  <2>3. i \in Nat \ {0}
    BY <1>1
  <2>4. args[i][r].dir # i
    BY <1>5, <2>2, <2>3 DEF SharedDir
  <2> QED
    BY <1>2, <2>4, Paths
<1> QED
  BY <1>4, <1>5

LEMMA FixturesFollow == IInv => FixturesReachTheCommand
<1> SUFFICES ASSUME IInv, NEW i \in Ids, at[i] = "running", NEW r \in DOMAIN args[i]
             PROVE  LET p == args[i][r] IN
                    /\ Promised(i, r) # {} =>
                         /\ p \in DOMAIN disk
                         /\ p.m = Host(i)
                         /\ disk[p].text = Promised(i, r)
                         /\ Host(i) = Here => \A q \in disk[p].refs : "m" \in DOMAIN q =>
                              q.m = Here /\ q.dir \in {p.dir, SharedDir} /\ (q.area = "inputs" => q \in DOMAIN disk)
                    /\ p = r \/ (p.m = Host(i) /\ \A j \in Ids \ {i} : at[j] = "running" =>
                                   p.area = "shared" \/ \A s \in DOMAIN args[j] : args[j][s] # p)
  BY DEF FixturesReachTheCommand
<1> QED
  BY FixturesAreThere, NobodyElsesPath

-----------------------------------------------------------------------------
(***************************************************************************)
(* The verdict: what Check looks at says the same as the document does of  *)
(* what the command left.                                                  *)
(***************************************************************************)
\* What is known of the ending of a command that ran.
LEMMA EndingKnown ==
  ASSUME FileInv, NEW i \in Ids, NEW e \in Endings[tests[i].cmd]
  PROVE  /\ IsText(e.stdout) /\ IsText(e.stderr)
         /\ e.json[1] = "value" => IsJSON(e.json[2])
         /\ \A n \in DOMAIN e.files : IsContent(e.files[n])
<1>1. tests[i].cmd \in DOMAIN Endings
  BY DeclaredTest DEF IsInstance, WellFormed
<1> QED
  BY <1>1, ConstantsAssumption DEF IsText

LEMMA OutputsPaths ==
  ASSUME NEW i, NEW e, \A n \in DOMAIN e.files : IsContent(e.files[n]),
         ctx[i] = ContextOf(i)
  PROVE  /\ \A q : q \in DOMAIN Outputs(i, e) <=> \E n \in DOMAIN e.files : q = At(Host(i), TestDir(i), "outputs", n)
         /\ \A n \in DOMAIN e.files :
              /\ Outputs(i, e)[At(Host(i), TestDir(i), "outputs", n)].kind = e.files[n].kind
              /\ \A t \in Outputs(i, e)[At(Host(i), TestDir(i), "outputs", n)].refs :
                   \E r \in References : t = Expand(r, ContextOf(i))
<1> DEFINE paths == {At(Host(i), TestDir(i), "outputs", n) : n \in DOMAIN e.files}
<1>1. Outputs(i, e) = [p \in paths |-> [e.files[p.name] EXCEPT !.refs = {Expand(r, ContextOf(i)) : r \in @}]]
  BY DEF Outputs, ContextOf
<1>2. ASSUME NEW n \in DOMAIN e.files
      PROVE  /\ Outputs(i, e)[At(Host(i), TestDir(i), "outputs", n)].kind = e.files[n].kind
             /\ \A t \in Outputs(i, e)[At(Host(i), TestDir(i), "outputs", n)].refs :
                  \E r \in References : t = Expand(r, ContextOf(i))
  <2> DEFINE p == At(Host(i), TestDir(i), "outputs", n)
             c == e.files[n]
  <2>1. p \in paths /\ p.name = n
    BY Paths
  <2>2. Outputs(i, e)[p] = [c EXCEPT !.refs = {Expand(r, ContextOf(i)) : r \in @}]
    BY <1>1, <2>1
  <2>3. DOMAIN c = {"kind", "text", "refs"} /\ c.refs \subseteq References
    BY DEF IsContent
  <2> HIDE DEF p, c
  <2>4. Outputs(i, e)[p].kind = c.kind /\ Outputs(i, e)[p].refs = {Expand(r, ContextOf(i)) : r \in c.refs}
    BY <2>2, <2>3
  <2> QED
    BY <2>3, <2>4 DEF p, c
<1> QED
  BY <1>1, <1>2

\* The copy of an output that can come home is the output.
LEMMA SeenHere ==
  ASSUME IInv, NEW i \in Ids, at[i] = "check", failures[i] = {}, ~LostOnTheWay(i),
         NEW n \in OutputNames(tests[i])
  PROVE  Stat(disk, At(Here, TestDir(i), "outputs", n)) = LeftBehind(i, n)
<1>1. CASE Host(i) = Here
  BY <1>1 DEF LeftBehind
<1>2. CASE Host(i) # Here
  <2> DEFINE p == At(Here, TestDir(i), "outputs", n)
             q == At(Host(i), TestDir(i), "outputs", n)
             files == ending[i].files
  <2>1. FileInv /\ RanInv(i) /\ CopiesInv(i) /\ Ran(i)
    BY DEF IInv, InstanceInv, Ran
  <2>2. /\ ctx[i] = ContextOf(i) /\ \A o \in DOMAIN files : IsContent(files[o])
        /\ OutputsOn(Host(i), i) = DOMAIN Outputs(i, ending[i])
        /\ \A r \in DOMAIN Outputs(i, ending[i]) : disk[r] = Outputs(i, ending[i])[r]
    BY <2>1, EndingKnown DEF RanInv
  <2>3. /\ OutputsOn(Here, i) = {At(Here, TestDir(i), "outputs", o) : o \in {o \in DOMAIN files : files[o].kind # "link"}}
        /\ \A r \in OutputsOn(Here, i) : disk[r] = disk[[r EXCEPT !.m = Host(i)]]
    BY <1>2, <2>1 DEF CopiesInv
  <2>4. /\ p.m = Here /\ p.dir = TestDir(i) /\ p.area = "outputs" /\ p.name = n
        /\ q.m = Host(i) /\ q.dir = TestDir(i) /\ q.area = "outputs" /\ q.name = n
        /\ [p EXCEPT !.m = Host(i)] = q
    BY Paths
  <2> DEFINE left == Outputs(i, ending[i])
  <2>8. /\ \A r : r \in DOMAIN left <=> \E o \in DOMAIN files : r = At(Host(i), TestDir(i), "outputs", o)
        /\ \A o \in DOMAIN files : left[At(Host(i), TestDir(i), "outputs", o)].kind = files[o].kind
    BY <2>2, OutputsPaths
  <2> HIDE DEF files
  <2>5. q \in DOMAIN disk <=> n \in DOMAIN files
    <3>1. q \in DOMAIN disk <=> \E o \in DOMAIN files : q = At(Host(i), TestDir(i), "outputs", o)
      BY <2>2, <2>4, <2>8 DEF OutputsOn
    <3> QED
      BY <3>1, Paths
  <2>6. CASE n \in DOMAIN files
    <3>1. files[n].kind # "link" /\ files[n].kind # "symlink"
      BY <1>2, <2>6 DEF LostOnTheWay, files
    <3>2. p \in OutputsOn(Here, i) /\ disk[p] = disk[q]
      BY <2>3, <2>4, <2>6, <3>1
    <3>3. disk[q].kind = files[n].kind
      <4>1. q \in DOMAIN Outputs(i, ending[i]) /\ Outputs(i, ending[i])[q].kind = files[n].kind
        BY <2>6, <2>8
      <4> QED
        BY <2>2, <4>1
    <3>4. p \in DOMAIN disk
      BY <3>2 DEF OutputsOn
    <3> HIDE DEF p, q
    <3>5. Stat(disk, p) = disk[p] /\ Stat(disk, q) = disk[q]
      BY <2>5, <2>6, <3>1, <3>2, <3>3, <3>4 DEF Stat
    <3> QED
      BY <3>2, <3>5 DEF p, q, LeftBehind
  <2>7. CASE n \notin DOMAIN files
    <3>1. p \notin OutputsOn(Here, i)
      BY <2>3, <2>4, <2>7, Paths
    <3>2. p \notin DOMAIN disk
      BY <2>4, <3>1 DEF OutputsOn
    <3> HIDE DEF p, q
    <3>3. Stat(disk, p) = Absent /\ Stat(disk, q) = Absent
      BY <2>5, <2>7, <3>2 DEF Stat
    <3> QED
      BY <3>3 DEF p, q, LeftBehind
  <2> QED
    BY <2>6, <2>7
<1> QED
  BY <1>1, <1>2

\* A document whose numbers their float64 holds denotes the same when it is written
\* anew as JSON.
HeldExactly(v) ==
  \A p \in DOMAIN v : v[p][1] = "num" =>
    {v[p][2], AsJSON(v[p][2])} \subseteq DOMAIN Exact /\ Exact[AsJSON(v[p][2])] = Exact[v[p][2]]

LEMMA CanonicalIsTheSame ==
  ASSUME NEW v, IsJSON(v), HeldExactly(v)
  PROVE  /\ IsJSON(CanonicalizeJSON(v)) /\ Comparable(CanonicalizeJSON(v))
         /\ Denotes(CanonicalizeJSON(v)) = Denotes(v)
<1> DEFINE w == CanonicalizeJSON(v)
<1>1. DOMAIN w = DOMAIN v
  BY DEF CanonicalizeJSON
<1>2. ASSUME NEW p \in DOMAIN v
      PROVE  /\ w[p][1] = v[p][1]
             /\ v[p][1] = "num" => w[p] = <<"num", AsJSON(v[p][2])>>
             /\ v[p][1] # "num" => w[p] = v[p]
  BY DEF CanonicalizeJSON
<1> HIDE DEF w
<1>3. IsJSON(w)
  <2>1. ASSUME NEW p \in DOMAIN v, w[p][1] \in {"obj", "arr"} PROVE w[p] = <<w[p][1]>>
    <3>1. v[p][1] # "num" /\ v[p][1] \in {"obj", "arr"}
      BY <1>2, <2>1
    <3> QED
      BY <1>2, <3>1 DEF IsJSON
  <2>2. ASSUME NEW p \in DOMAIN v, NEW q \in Enclosing(p)
        PROVE  q \in DOMAIN v /\ w[q][1] \in {"obj", "arr"}
    BY <1>2, <2>2 DEF IsJSON
  <2> QED
    BY <1>1, <2>1, <2>2 DEF IsJSON
<1>4. Comparable(w)
  BY <1>1, <1>2 DEF Comparable, HeldExactly
<1>5. ASSUME NEW p \in DOMAIN v PROVE Denotes(w)[p] = Denotes(v)[p]
  BY <1>1, <1>2, <1>5 DEF Denotes, HeldExactly
<1>6. Denotes(w) = Denotes(v)
  BY <1>1, <1>5 DEF Denotes
<1> QED
  BY <1>3, <1>4, <1>6 DEF w

LEMMA JSONMeans ==
  ASSUME FileInv, NEW i \in Ids, ending[i] \in Endings[tests[i].cmd], ~NumbersInexact(i)
  PROVE  (IF tests[i].json = <<"unset">> THEN {} ELSE AssertJSONOutput(ending[i].json, tests[i].json)) = {}
           <=> JSONHolds(ending[i].json, Declared(i).json)
<1> DEFINE printed  == ending[i].json
           expected == Declared(i).json
<1>1. tests[i].json = expected
  BY DeclaredTest DEF IsInstance
<1>2. /\ printed[1] = "value" => IsJSON(printed[2]) /\ Comparable(printed[2])
      /\ expected[1] = "value" => IsJSON(expected[2]) /\ HeldExactly(expected[2])
  <2>1. printed[1] = "value" => IsJSON(printed[2])
    BY EndingKnown
  <2>2. expected[1] = "value" => IsJSON(expected[2])
    BY DeclaredTest DEF WellFormed
  <2>3. printed[1] = "value" => Comparable(printed[2])
    BY DEF NumbersInexact, Numbers, Comparable
  <2>4. expected[1] = "value" => HeldExactly(expected[2])
    BY DEF NumbersInexact, Numbers, HeldExactly
  <2> QED
    BY <2>1, <2>2, <2>3, <2>4
<1> HIDE DEF printed, expected
<1>3. CASE expected = <<"unset">>
  BY <1>1, <1>3 DEF JSONHolds, printed, expected
<1>4. CASE expected # <<"unset">> /\ ~(printed[1] = "value" /\ expected[1] = "value")
  <2>1. AssertJSONOutput(printed, expected) # {}
    BY <1>4 DEF AssertJSONOutput
  <2> QED
    BY <1>1, <1>4, <2>1 DEF JSONHolds, printed, expected
<1>5. CASE expected # <<"unset">> /\ printed[1] = "value" /\ expected[1] = "value"
  <2> DEFINE canonical == CanonicalizeJSON(expected[2])
  <2>1. AssertJSONOutput(printed, expected) = CompareJSON(canonical, printed[2])
    BY <1>5 DEF AssertJSONOutput
  <2>2. IsJSON(canonical) /\ Comparable(canonical) /\ Denotes(canonical) = Denotes(expected[2])
    BY <1>2, <1>5, CanonicalIsTheSame
  <2>3. CompareJSON(canonical, printed[2]) = {} <=> Denotes(canonical) = Denotes(printed[2])
    <3> HIDE DEF canonical
    <3> QED
      BY <1>2, <1>5, <2>2, ComparisonIsEquality
  <2> QED
    BY <1>1, <1>5, <2>1, <2>2, <2>3 DEF JSONHolds, printed, expected
<1> QED
  BY <1>3, <1>4, <1>5

\* Nothing is broken exactly if no part of the test is.
LEMMA BrokenParts ==
  ASSUME NEW i
  PROVE  LET test    == tests[i]
             e       == ending[i]
             file(n) == Stat(disk, At(Here, TestDir(i), "outputs", n))
         IN Broken(i) = {} <=>
              /\ AssertExitCode(e.exit, test.exit) = {}
              /\ CheckStream(e.stdout, test.stdout) \cup RefuteStream(e.stdout, test.notStdout) = {}
              /\ CheckStream(e.stderr, test.stderr) \cup RefuteStream(e.stderr, test.notStderr) = {}
              /\ (IF test.json = <<"unset">> THEN {} ELSE AssertJSONOutput(e.json, test.json)) = {}
              /\ \A n \in DOMAIN test.files : CheckFile(file(n), test.files[n], FALSE) = {}
              /\ \A n \in DOMAIN test.notFiles : CheckFile(file(n), test.notFiles[n], TRUE) = {}
<1> DEFINE test     == tests[i]
           e        == ending[i]
           file(n)  == Stat(disk, At(Here, TestDir(i), "outputs", n))
           exit     == AssertExitCode(e.exit, test.exit)
           stdout   == CheckStream(e.stdout, test.stdout) \cup RefuteStream(e.stdout, test.notStdout)
           stderr   == CheckStream(e.stderr, test.stderr) \cup RefuteStream(e.stderr, test.notStderr)
           json     == IF test.json = <<"unset">> THEN {} ELSE AssertJSONOutput(e.json, test.json)
           is(n)    == CheckFile(file(n), test.files[n], FALSE)
           isNot(n) == CheckFile(file(n), test.notFiles[n], TRUE)
<1>1. Broken(i) = exit \cup stdout \cup stderr \cup json
                    \cup (UNION {is(n) : n \in DOMAIN test.files}) \cup (UNION {isNot(n) : n \in DOMAIN test.notFiles})
  BY DEF Broken
<1> HIDE DEF exit, stdout, stderr, json, is, isNot
<1>2. UNION {is(n) : n \in DOMAIN test.files} = {} <=> \A n \in DOMAIN test.files : is(n) = {}
  BY EmptyUnion
<1>3. UNION {isNot(n) : n \in DOMAIN test.notFiles} = {} <=> \A n \in DOMAIN test.notFiles : isNot(n) = {}
  BY EmptyUnion
<1> DEFINE allAre == UNION {is(n) : n \in DOMAIN test.files}
           noneAre == UNION {isNot(n) : n \in DOMAIN test.notFiles}
<1>4. Broken(i) = {} <=> exit = {} /\ stdout = {} /\ stderr = {} /\ json = {} /\ allAre = {} /\ noneAre = {}
  <2>1. Broken(i) = exit \cup stdout \cup stderr \cup json \cup allAre \cup noneAre
    BY <1>1
  <2> HIDE DEF allAre, noneAre
  <2> QED
    BY <2>1
<1>5. Broken(i) = {} <=> exit = {} /\ stdout = {} /\ stderr = {} /\ json = {}
                          /\ (\A n \in DOMAIN test.files : is(n) = {}) /\ (\A n \in DOMAIN test.notFiles : isNot(n) = {})
  BY <1>2, <1>3, <1>4
<1> QED
  BY <1>5 DEF exit, stdout, stderr, json, is, isNot

LEMMA VerdictReached ==
  ASSUME IInv, NEW i \in Ids, at[i] = "check", failures[i] = {},
         ~LostOnTheWay(i), ~NumbersInexact(i)
  PROVE  Broken(i) = {} <=> AssertionsHold(i)
<1> DEFINE x    == tests[i]
           test == Declared(i)
           e    == ending[i]
           file(n) == Stat(disk, At(Here, TestDir(i), "outputs", n))
<1>1. FileInv /\ RanInv(i) /\ Ran(i)
  BY DEF IInv, InstanceInv, Ran
<1>2. IsInstance(x, test) /\ ValidTest(test, doc) /\ WellFormed(doc) /\ test \in ToSet(doc.tests)
  BY <1>1, DeclaredTest
<1>3. e \in Endings[x.cmd] /\ IsText(e.stdout) /\ IsText(e.stderr)
  BY <1>1, EndingKnown DEF RanInv
<1>4. AssertExitCode(e.exit, x.exit) = {} <=> e.exit = CodeMeant(test.exit)
  BY <1>2, ExitCodesMean DEF IsInstance, ValidTest
<1>5. CheckStream(e.stdout, x.stdout) \cup RefuteStream(e.stdout, x.notStdout) = {}
        <=> StreamHolds(e.stdout, test.stdout, test.notStdout)
  BY <1>2, <1>3, StreamsMean DEF IsInstance, ValidTest
<1>6. CheckStream(e.stderr, x.stderr) \cup RefuteStream(e.stderr, x.notStderr) = {}
        <=> StreamHolds(e.stderr, test.stderr, test.notStderr)
  BY <1>2, <1>3, StreamsMean DEF IsInstance, ValidTest
<1>7. (IF x.json = <<"unset">> THEN {} ELSE AssertJSONOutput(e.json, x.json)) = {} <=> JSONHolds(e.json, test.json)
  BY <1>1, <1>3, JSONMeans
<1>8. \A n \in DOMAIN test.files :
        CheckFile(file(n), x.files[n], FALSE) = {} <=> FileHolds(LeftBehind(i, n), test.files[n])
  <2> TAKE n \in DOMAIN test.files
  <2>1. n \in OutputNames(x) /\ x.files[n] = test.files[n]
    BY <1>2 DEF IsInstance, OutputNames
  <2>2. IsCheck(test.files[n])
    BY <1>2 DEF WellFormed, IsCheck
  <2>3. file(n) = LeftBehind(i, n)
    BY <2>1, SeenHere
  <2> QED
    BY <2>1, <2>2, <2>3, FilesMean
<1>9. \A n \in DOMAIN test.notFiles :
        CheckFile(file(n), x.notFiles[n], TRUE) = {} <=> FileHolds(LeftBehind(i, n), Opposite(test.notFiles[n]))
  <2> TAKE n \in DOMAIN test.notFiles
  <2>1. n \in OutputNames(x) /\ x.notFiles[n] = test.notFiles[n]
    BY <1>2 DEF IsInstance, OutputNames
  <2>2. IsCheck(test.notFiles[n])
    BY <1>2 DEF WellFormed, IsCheck
  <2>3. file(n) = LeftBehind(i, n)
    BY <2>1, SeenHere
  <2> QED
    BY <2>1, <2>2, <2>3, OppositeFilesMean
<1>10. DOMAIN x.files = DOMAIN test.files /\ DOMAIN x.notFiles = DOMAIN test.notFiles
  BY <1>2 DEF IsInstance
<1>11. Broken(i) = {} <=>
         /\ AssertExitCode(e.exit, x.exit) = {}
         /\ CheckStream(e.stdout, x.stdout) \cup RefuteStream(e.stdout, x.notStdout) = {}
         /\ CheckStream(e.stderr, x.stderr) \cup RefuteStream(e.stderr, x.notStderr) = {}
         /\ (IF x.json = <<"unset">> THEN {} ELSE AssertJSONOutput(e.json, x.json)) = {}
         /\ \A n \in DOMAIN x.files : CheckFile(file(n), x.files[n], FALSE) = {}
         /\ \A n \in DOMAIN x.notFiles : CheckFile(file(n), x.notFiles[n], TRUE) = {}
  BY BrokenParts
<1>12. AssertionsHold(i) <=>
         /\ e.exit = CodeMeant(test.exit)
         /\ StreamHolds(e.stdout, test.stdout, test.notStdout)
         /\ StreamHolds(e.stderr, test.stderr, test.notStderr)
         /\ JSONHolds(e.json, test.json)
         /\ \A n \in DOMAIN test.files : FileHolds(LeftBehind(i, n), test.files[n])
         /\ \A n \in DOMAIN test.notFiles : FileHolds(LeftBehind(i, n), Opposite(test.notFiles[n]))
  BY DEF AssertionsHold
<1> HIDE DEF x, test, e, file
<1> QED
  BY <1>4, <1>5, <1>6, <1>7, <1>8, <1>9, <1>10, <1>11, <1>12

\* No assertion reports a timeout.
LEMMA BrokenIsNoTimeout ==
  ASSUME NEW i
  PROVE  <<"timed out">> \notin Broken(i)
<1> DEFINE t == <<"timed out">>
<1>1. \A code, expected : t \notin AssertExitCode(code, expected)
  BY DEF AssertExitCode
<1>2. ASSUME NEW lines, NEW check PROVE t \notin CheckStream(lines, check) /\ t \notin RefuteStream(lines, check)
  <2>1. \A p : t \notin AssertContains(lines, p) /\ t \notin RefuteContains(lines, p)
    BY DEF AssertContains, RefuteContains
  <2>2. \A n, p : t \notin AssertLineRegex(lines, n, p) /\ t \notin RefuteLineRegex(lines, n, p)
    BY DEF AssertLineRegex, RefuteLineRegex
  <2> HIDE DEF t
  <2> QED
    BY <2>1, <2>2 DEF CheckStream, RefuteStream
<1>3. ASSUME NEW stdout, NEW expected PROVE t \notin AssertJSONOutput(stdout, expected)
  <2>1. \A p, v, w : t \notin DifferencesAt(p, v, w)
    BY DEF DifferencesAt
  <2>2. \A v, w : t \notin CompareJSON(v, w)
    <3> HIDE DEF t
    <3> QED
      BY <2>1 DEF CompareJSON
  <2> QED
    BY <2>2 DEF AssertJSONOutput
<1>4. ASSUME NEW state, NEW check, NEW negate \in BOOLEAN PROVE t \notin CheckFile(state, check, negate)
  <2>1. t \notin AssertFileExists(state) /\ t \notin RefuteFileExists(state)
    BY DEF AssertFileExists, RefuteFileExists
  <2>2. \A patterns : t \notin AssertFileContains(state, patterns) /\ t \notin RefuteFileContains(state, patterns)
    BY DEF AssertFileContains, RefuteFileContains
  <2> HIDE DEF t
  <2> QED
    BY <2>1, <2>2 DEF CheckFile
<1> HIDE DEF t
<1>5. t \notin Broken(i)
  BY <1>1, <1>2, <1>3, <1>4 DEF Broken
<1> QED
  BY <1>5 DEF t

-----------------------------------------------------------------------------
(***************************************************************************)
(* The steps of the file, up to the instances.                             *)
(***************************************************************************)
LEMMA InitInv == Init => IInv
<1> SUFFICES ASSUME Init PROVE IInv
  OBVIOUS
<1> USE DEF Init
<1>1. Ids = {} /\ DOMAIN disk = {} /\ mirrored = {} /\ ~Parsed
  BY DEF Ids, Parsed
<1>2. FileInv
  BY <1>1 DEF FileInv, Ids, Parsed
<1>3. DiskInv /\ SharedInv
  BY <1>1 DEF DiskInv, IsDisk, SharedInv, FromSetupNow
<1> QED
  BY <1>1, <1>2, <1>3 DEF IInv

\* Before the instances run, nobody has outputs and nothing has happened to them.
LEMMA IdleStay ==
  ASSUME IInv, phase \in {"shared", "push", "setup"}, phase' \in {"push", "setup", "tests"},
         UNCHANGED <<tests, instVars>>,
         \A q \in DOMAIN disk' : q \in DOMAIN disk \/ q.area = "shared"
  PROVE  \A i \in Ids' : InstanceInv(i)'
<1> TAKE i \in Ids'
<1>1. i \in Ids /\ at' = at /\ failures' = failures
  BY DEF Ids, instVars
<1>2. FlowInv(i) /\ PlacesInv(i)
  BY <1>1 DEF IInv, InstanceInv
<1>3. at'[i] = "idle" /\ failures'[i] = {}
  BY <1>1, <1>2 DEF FlowInv
<1>4. FlowInv(i)'
  BY <1>3 DEF FlowInv
<1>5. PlacesInv(i)'
  BY <1>1, <1>2, <1>3 DEF PlacesInv, TestDir
<1>6. RanInv(i)' /\ CopiesInv(i)' /\ VerdictInv(i)'
  BY <1>3 DEF RanInv, CopiesInv, VerdictInv, Ran
<1> QED
  BY <1>4, <1>5, <1>6 DEF InstanceInv

LEMMA ParseFileInv == ASSUME IInv, ParseFile PROVE IInv'
<1>1. FileInv /\ phase = "parse" /\ phase' = "shared" /\ Parsed' /\ ~Parsed
  BY DEF ParseFile, IInv, Parsed
<1>2. disk = <<>> /\ disk' = disk /\ mirrored = {} /\ mirrored' = {} /\ doc' = doc /\ tests' = Tests(doc)
  BY <1>1 DEF ParseFile, FileInv, given
<1>0. DOMAIN disk' = {} /\ FromSetupNow' = {}
  <2>1. disk' = <<>>
    BY <1>2
  <2> QED
    BY <1>1, <2>1 DEF FromSetupNow
<1>3. \A i \in Ids' : at'[i] = "idle" /\ failures'[i] = {}
  BY DEF ParseFile, Ids
<1>4. FileInv'
  BY <1>1, <1>2 DEF ParseFile, FileInv, Ids, Parsed
<1>5. DiskInv' /\ SharedInv'
  BY <1>0, <1>1, <1>2 DEF DiskInv, IsDisk, SharedInv
<1>6. ASSUME NEW i \in Ids' PROVE InstanceInv(i)'
  <2>1. FlowInv(i)'
    BY <1>1, <1>3 DEF FlowInv
  <2>2. PlacesInv(i)'
    BY <1>0, <1>3 DEF PlacesInv
  <2>3. RanInv(i)' /\ CopiesInv(i)' /\ VerdictInv(i)'
    BY <1>3 DEF RanInv, CopiesInv, VerdictInv, Ran
  <2> QED
    BY <2>1, <2>2, <2>3 DEF InstanceInv
<1> QED
  BY <1>4, <1>5, <1>6 DEF IInv

LEMMA ParseFailsInv == ASSUME IInv, ParseFails PROVE IInv'
<1> USE DEF ParseFails
<1>1. FileInv /\ phase = "parse" /\ phase' = "refused" /\ ~Parsed' /\ ~Parsed
  BY DEF IInv, Parsed
<1>2. /\ disk = <<>> /\ disk' = <<>> /\ mirrored = {} /\ mirrored' = {} /\ doc' = doc
      /\ tests = <<>> /\ tests' = <<>> /\ UNCHANGED <<home, instVars>>
  BY <1>1 DEF FileInv, given
<1>3. FileInv'
  BY <1>1, <1>2 DEF FileInv, Ids, Parsed, instVars
<1>4. DiskInv' /\ SharedInv'
  BY <1>1, <1>2 DEF DiskInv, IsDisk, SharedInv, FromSetupNow
<1>5. Ids' = {}
  BY <1>2 DEF Ids
<1> QED
  BY <1>3, <1>4, <1>5 DEF IInv

LEMMA WriteSharedInv == ASSUME IInv, WriteShared PROVE IInv'
<1>1. FileInv /\ DiskInv /\ Parsed /\ Parsed' /\ phase = "shared" /\ phase' \in {"setup", "push"}
  BY DEF WriteShared, IInv, Parsed
<1>2. /\ UNCHANGED <<doc, tests, home, mirrored, instVars>> /\ mirrored = {}
      /\ Shared' = Shared /\ SharedFiles' = SharedFiles
  BY <1>1 DEF WriteShared, FileInv, given, Shared, SharedFiles
<1>3. disk' = Over(SharedFiles, disk)
  BY DEF WriteShared, SetupSharedFixtures, SharedFiles
<1>4. /\ IsDisk(disk')
      /\ \A n \in NamesOf(Shared) : /\ At(Here, SharedDir, "shared", n) \in DOMAIN disk'
                                    /\ disk'[At(Here, SharedDir, "shared", n)] = SharedFiles[At(Here, SharedDir, "shared", n)]
      /\ \A q : q.m # Here \/ q.dir # SharedDir \/ q.area # "shared" => SameAt(disk, disk', q)
  <2> DEFINE expanded == [r \in Mentioned(Shared) |-> ExpandShared(r, Here)]
  <2>1. SharedFiles = Written(SharedDir, "shared", Shared, expanded)
    BY DEF SharedFiles
  <2>2. IsDisk(disk) /\ IsFixtureDir(SharedDir, "shared")
    BY <1>1 DEF DiskInv, IsFixtureDir
  <2> HIDE DEF expanded
  <2> QED
    BY <1>3, <2>1, <2>2, WrittenOver
<1>5. FileInv'
  <2>1. phase' = "push" => home # Here
    BY DEF WriteShared
  <2> QED
    BY <1>1, <1>2, <2>1 DEF FileInv, Ids, Parsed, instVars
<1>6. DiskInv'
  BY <1>4 DEF DiskInv
<1>7. SharedInv'
  <2>1. phase' = "setup" => home = Here
    BY DEF WriteShared
  <2> QED
    BY <1>1, <1>2, <1>4, <2>1 DEF SharedInv, HasShared, Has, FromSetupNow
<1>8. \A q \in DOMAIN disk' : q \in DOMAIN disk \/ q.area = "shared"
  BY <1>4 DEF SameAt
<1>9. \A i \in Ids' : InstanceInv(i)'
  BY <1>1, <1>2, <1>8, IdleStay
<1> QED
  BY <1>5, <1>6, <1>7, <1>9 DEF IInv

LEMMA PushSharedInv == ASSUME IInv, PushShared PROVE IInv'
<1> DEFINE tree == Tree(disk, Here, SharedDir)
<1>1. FileInv /\ DiskInv /\ SharedInv /\ Parsed /\ Parsed' /\ phase = "push" /\ phase' = "setup" /\ home # Here
  BY DEF PushShared, IInv, Parsed, FileInv
<1>2. /\ UNCHANGED <<doc, tests, home, mirrored, instVars>> /\ mirrored = {}
      /\ Shared' = Shared /\ SharedFiles' = SharedFiles
  BY <1>1 DEF PushShared, FileInv, given, Shared, SharedFiles
<1>3. /\ disk' = Over(Moved(disk, tree, home), disk)
      /\ tree \in SUBSET DOMAIN disk /\ \A p \in tree : p.m = Here /\ p.dir = SharedDir
  BY DEF PushShared, Push, Tree
<1> HIDE DEF tree
<1>4. /\ IsDisk(disk')
      /\ \A p \in tree : /\ At(home, p.dir, p.area, p.name) \in DOMAIN disk'
                         /\ disk'[At(home, p.dir, p.area, p.name)] = disk[p]
      /\ \A q : q.m # home \/ At(Here, q.dir, q.area, q.name) \notin tree => SameAt(disk, disk', q)
      /\ \A q \in DOMAIN disk' : q \in DOMAIN disk \/ (q.m = home /\ At(Here, q.dir, q.area, q.name) \in tree)
  <2>1. IsDisk(disk) /\ AllOn(disk, Here, tree)
    BY <1>1, <1>3 DEF DiskInv, AllOn
  <2> QED
    BY <1>3, <2>1, MovedOver
<1>5. FileInv'
  BY <1>1, <1>2 DEF FileInv, Ids, Parsed, instVars
<1>6. DiskInv'
  BY <1>4 DEF DiskInv
<1>7. ASSUME NEW n \in NamesOf(Shared)
      PROVE  /\ At(Here, SharedDir, "shared", n) \in DOMAIN disk'
             /\ disk'[At(Here, SharedDir, "shared", n)] = SharedFiles[At(Here, SharedDir, "shared", n)]
             /\ At(home, SharedDir, "shared", n) \in DOMAIN disk'
             /\ disk'[At(home, SharedDir, "shared", n)] = SharedFiles[At(Here, SharedDir, "shared", n)]
  <2> DEFINE p == At(Here, SharedDir, "shared", n)
  <2>1. p \in DOMAIN disk /\ disk[p] = SharedFiles[p]
    BY <1>1, <1>7 DEF SharedInv, HasShared, Has
  <2>2. p.m = Here /\ p.dir = SharedDir /\ p.area = "shared" /\ p.name = n
    BY Paths
  <2>3. p \in tree
    BY <2>1, <2>2 DEF Tree, tree
  <2> HIDE DEF p
  <2>4. SameAt(disk, disk', p)
    BY <1>1, <1>4, <2>2
  <2>5. At(home, SharedDir, "shared", n) \in DOMAIN disk' /\ disk'[At(home, SharedDir, "shared", n)] = disk[p]
    BY <1>4, <2>2, <2>3
  <2> QED
    BY <2>1, <2>4, <2>5 DEF SameAt, p
<1>8. SharedInv'
  BY <1>1, <1>2, <1>7 DEF SharedInv, HasShared, Has, FromSetupNow
<1>9. \A q \in DOMAIN disk' : q \in DOMAIN disk \/ q.area = "shared"
  <2> SUFFICES ASSUME NEW q \in DOMAIN disk', At(Here, q.dir, q.area, q.name) \in tree PROVE q.area = "shared"
    BY <1>4
  <2>1. IsPath(At(Here, q.dir, q.area, q.name)) /\ q.dir = SharedDir
    BY <1>1, <1>3, Paths DEF DiskInv, IsDisk
  <2> QED
    BY <2>1, Paths DEF IsPath
<1>10. \A i \in Ids' : InstanceInv(i)'
  BY <1>1, <1>2, <1>9, IdleStay
<1> QED
  BY <1>5, <1>6, <1>8, <1>10 DEF IInv

LEMMA RunSetupInv == ASSUME IInv, RunSetup PROVE IInv'
<1> DEFINE paths == {At(home, SharedDir, "shared", n) : n \in FromSetup}
           made  == [p \in paths |-> File({p.name}, {})]
<1>1. FileInv /\ DiskInv /\ SharedInv /\ Parsed /\ Parsed' /\ phase = "setup" /\ phase' = "tests"
  BY DEF RunSetup, IInv, Parsed
<1>2. /\ UNCHANGED <<doc, tests, home, mirrored, instVars>> /\ mirrored = {}
      /\ Shared' = Shared /\ SharedFiles' = SharedFiles /\ FromSetup' = FromSetup
  BY <1>1 DEF RunSetup, FileInv, given, Shared, SharedFiles, FromSetup
<1>3. disk' = Over(made, disk)
  BY DEF RunSetup
<1>4. /\ \A q \in paths : q.m = home /\ q.dir = SharedDir /\ q.area = "shared" /\ q.name \in FromSetup /\ IsPath(q)
      /\ \A n \in FromSetup : At(home, SharedDir, "shared", n) \in paths /\ At(home, SharedDir, "shared", n).name = n
  BY Paths DEF IsPath
<1>5. DOMAIN made = paths /\ \A q \in paths : made[q] = File({q.name}, {})
  OBVIOUS
<1> HIDE DEF paths, made
<1>6. /\ DOMAIN disk' = DOMAIN made \cup DOMAIN disk
      /\ \A q \in DOMAIN made : disk'[q] = made[q]
      /\ \A q : q \notin DOMAIN made => SameAt(disk, disk', q)
  BY <1>3, OverPaths
<1>7. FileInv'
  BY <1>1, <1>2 DEF FileInv, Ids, Parsed, instVars
<1>8. DiskInv'
  BY <1>1, <1>4, <1>5, <1>6 DEF DiskInv, IsDisk
<1>9. ASSUME NEW m, NEW n, m # home \/ n \notin FromSetup
      PROVE  SameAt(disk, disk', At(m, SharedDir, "shared", n))
  <2>1. At(m, SharedDir, "shared", n) \notin paths
    BY <1>4, <1>9, Paths
  <2> QED
    BY <1>5, <1>6, <2>1
<1>10. SharedInv'
  <2>1. HasShared(Here, NamesOf(Shared) \ (IF home = Here THEN FromSetup ELSE {}))'
    BY <1>1, <1>2, <1>9 DEF SharedInv, HasShared, Has, FromSetupNow, SameAt
  <2>2. HasShared(home, NamesOf(Shared) \ FromSetup)'
    BY <1>1, <1>2, <1>9 DEF SharedInv, HasShared, Has, FromSetupNow, SameAt
  <2>3. \A n \in FromSetup : /\ At(home, SharedDir, "shared", n) \in DOMAIN disk'
                             /\ disk'[At(home, SharedDir, "shared", n)] = File({n}, {})
    BY <1>4, <1>5, <1>6
  <2> QED
    BY <1>1, <1>2, <2>1, <2>2, <2>3 DEF SharedInv, FromSetupNow
<1>11. \A q \in DOMAIN disk' : q \in DOMAIN disk \/ q.area = "shared"
  BY <1>4, <1>5, <1>6
<1>12. \A i \in Ids' : InstanceInv(i)'
  BY <1>1, <1>2, <1>11, IdleStay
<1> QED
  BY <1>7, <1>8, <1>10, <1>12 DEF IInv

LEMMA SetupFailsInv == ASSUME IInv, SetupFails PROVE IInv'
<1> USE DEF SetupFails
<1>1. FileInv /\ DiskInv /\ SharedInv /\ Parsed /\ Parsed' /\ phase \in {"shared", "push", "setup"} /\ phase' = "failed"
  BY DEF IInv, Parsed
<1>2. UNCHANGED <<doc, tests, home, mirrored, disk, ctx, args, ending>> /\ mirrored = {}
  BY <1>1 DEF FileInv, given
<1>3. FileInv'
  BY <1>1, <1>2 DEF FileInv, Ids, Parsed
<1>4. DiskInv' /\ SharedInv'
  BY <1>1, <1>2 DEF IInv, DiskInv, IsDisk, SharedInv, FromSetupNow
<1>5. ASSUME NEW i \in Ids' PROVE InstanceInv(i)'
  <2>1. i \in Ids /\ at'[i] = "done" /\ failures'[i] = {<<"file setup failed">>}
    BY <1>2 DEF Ids
  <2>2. failures'[i] \cap StepFailures # {} /\ <<"timed out">> \notin failures'[i]
    BY <2>1 DEF StepFailures
  <2>3. FlowInv(i)' /\ PlacesInv(i)'
    BY <1>1, <2>1 DEF FlowInv, PlacesInv
  <2>4. RanInv(i)' /\ CopiesInv(i)' /\ VerdictInv(i)'
    BY <2>1, <2>2 DEF RanInv, CopiesInv, VerdictInv, Ran
  <2> QED
    BY <2>3, <2>4 DEF InstanceInv
<1> QED
  BY <1>3, <1>4, <1>5 DEF IInv

-----------------------------------------------------------------------------
(***************************************************************************)
(* What a step of one instance leaves alone: the file, its siblings, and   *)
(* all of the disk but its own directory and a shared/ nobody has yet.     *)
(***************************************************************************)
OthersStay(j) ==
  /\ phase = "tests" /\ UNCHANGED <<given, fileVars>>
  /\ DOMAIN at' = Ids /\ DOMAIN ctx' = Ids /\ DOMAIN args' = Ids
  /\ DOMAIN ending' = Ids /\ DOMAIN failures' = Ids
  /\ \A i \in Ids \ {j} : /\ at'[i] = at[i] /\ ctx'[i] = ctx[i] /\ args'[i] = args[i]
                          /\ ending'[i] = ending[i] /\ failures'[i] = failures[i]

DiskStays(j) ==
  /\ IsDisk(disk')
  /\ \A q : q.dir # TestDir(j) /\ (q.dir = SharedDir => q.m \in mirrored \cup {home, Here}) => SameAt(disk, disk', q)
  /\ mirrored \subseteq mirrored' /\ Here \notin mirrored' /\ home \notin mirrored'
  /\ \A m \in mirrored' \ mirrored : \A n \in NamesOf(Shared) :
       /\ At(m, SharedDir, "shared", n) \in DOMAIN disk'
       /\ disk'[At(m, SharedDir, "shared", n)] = SharedFiles[At(Here, SharedDir, "shared", n)]

OnlyAt(j, f, g) == DOMAIN g = DOMAIN f /\ \A i \in DOMAIN f \ {j} : g[i] = f[i]

LEMMA SiblingsStay ==
  ASSUME IInv, NEW j \in Ids, Instance(j)
  PROVE  OthersStay(j)
<1>1. /\ FlowInv(j)
      /\ DOMAIN at = Ids /\ DOMAIN ctx = Ids /\ DOMAIN args = Ids
      /\ DOMAIN ending = Ids /\ DOMAIN failures = Ids
  BY DEF IInv, InstanceInv, FileInv
<1>2. phase = "tests"
  <2>1. at[j] # "done" /\ (at[j] = "idle" => phase = "tests")
    BY DEF Instance, BuildFixtures, FixturesFail, FindScope, ScopeFails, PushFixtures, PushFails, Start,
           ExecutionFails, EndCommand, PullOutputs, PullFails, Check
  <2> QED
    BY <1>1, <2>1 DEF FlowInv
<1>3. UNCHANGED <<given, fileVars>>
  BY DEF Instance, BuildFixtures, FixturesFail, FindScope, ScopeFails, PushFixtures, PushFails, Start,
         ExecutionFails, EndCommand, PullOutputs, PullFails, Check, FileUnchanged
<1>4. OnlyAt(j, at, at')
  BY DEF Instance, BuildFixtures, FixturesFail, FindScope, ScopeFails, PushFixtures, PushFails, Start,
         ExecutionFails, EndCommand, PullOutputs, PullFails, Check, Goes, OnlyAt
<1>5. OnlyAt(j, ctx, ctx')
  BY DEF Instance, BuildFixtures, FixturesFail, FindScope, ScopeFails, PushFixtures, PushFails, Start,
         ExecutionFails, EndCommand, PullOutputs, PullFails, Check, OnlyAt
<1>6. OnlyAt(j, args, args')
  BY DEF Instance, BuildFixtures, FixturesFail, FindScope, ScopeFails, PushFixtures, PushFails, Start,
         ExecutionFails, EndCommand, PullOutputs, PullFails, Check, OnlyAt
<1>7. OnlyAt(j, ending, ending')
  BY DEF Instance, BuildFixtures, FixturesFail, FindScope, ScopeFails, PushFixtures, PushFails, Start,
         ExecutionFails, EndCommand, PullOutputs, PullFails, Check, OnlyAt
<1>8. OnlyAt(j, failures, failures')
  BY DEF Instance, BuildFixtures, FixturesFail, FindScope, ScopeFails, PushFixtures, PushFails, Start,
         ExecutionFails, EndCommand, PullOutputs, PullFails, Check, Fails, OnlyAt
<1> QED
  BY <1>1, <1>2, <1>3, <1>4, <1>5, <1>6, <1>7, <1>8 DEF OthersStay, OnlyAt

\* The names the file and its tests go by do not change once it is parsed.
LEMMA NamesStay ==
  ASSUME UNCHANGED <<given, fileVars>>
  PROVE  /\ Ids' = Ids /\ doc' = doc /\ tests' = tests /\ home' = home /\ phase' = phase
         /\ Shared' = Shared /\ SharedFiles' = SharedFiles /\ FromSetupNow' = FromSetupNow
         /\ (Parsed <=> Parsed')
         /\ \A i : /\ Host(i)' = Host(i) /\ Inputs(i)' = Inputs(i) /\ Declared(i)' = Declared(i)
                   /\ ContextOf(i)' = ContextOf(i) /\ Placeholders(i)' = Placeholders(i)
<1>1. UNCHANGED <<doc, tests, home, phase>>
  BY DEF given, fileVars
<1>2. Shared' = Shared /\ FromSetup' = FromSetup
  BY <1>1 DEF Shared, FromSetup
<1>3. SharedFiles' = SharedFiles /\ FromSetupNow' = FromSetupNow /\ Ids' = Ids /\ (Parsed <=> Parsed')
  BY <1>1, <1>2 DEF SharedFiles, FromSetupNow, Ids, Parsed
<1>4. ASSUME NEW i
      PROVE  /\ Host(i)' = Host(i) /\ Inputs(i)' = Inputs(i) /\ Declared(i)' = Declared(i)
             /\ ContextOf(i)' = ContextOf(i) /\ Placeholders(i)' = Placeholders(i)
  <2>1. Host(i)' = Host(i)
    BY <1>1 DEF Host
  <2>2. Inputs(i)' = Inputs(i)
    BY <1>1 DEF Inputs
  <2>3. Declared(i)' = Declared(i)
    BY <1>1 DEF Declared
  <2>4. ContextOf(i)' = ContextOf(i)
    BY <1>1, <2>1 DEF ContextOf
  <2>5. Placeholders(i)' = Placeholders(i)
    BY <1>1 DEF Placeholders
  <2> QED
    BY <2>1, <2>2, <2>3, <2>4, <2>5
<1> QED
  BY <1>1, <1>2, <1>3, <1>4

\* Whatever is of the file keeps its invariant.
LEMMA FileStays ==
  ASSUME IInv, NEW j \in Ids, OthersStay(j), DiskStays(j)
  PROVE  FileInv' /\ DiskInv' /\ SharedInv'
<1>1. /\ FileInv /\ SharedInv /\ phase = "tests"
      /\ UNCHANGED <<doc, tests, home, phase, Ids, Shared, SharedFiles, FromSetupNow>> /\ (Parsed <=> Parsed')
  BY NamesStay DEF IInv, OthersStay
<1>2. FileInv'
  <2>1. /\ DOMAIN at' = Ids' /\ DOMAIN ctx' = Ids' /\ DOMAIN args' = Ids'
        /\ DOMAIN ending' = Ids' /\ DOMAIN failures' = Ids'
    BY <1>1 DEF OthersStay
  <2>2. Here \notin mirrored' /\ home' \notin mirrored'
    BY <1>1 DEF DiskStays
  <2>3. Parsed /\ Parsed'
    BY <1>1 DEF Parsed
  <2> QED
    BY <1>1, <2>1, <2>2, <2>3 DEF FileInv
<1>3. DiskInv'
  BY DEF DiskStays, DiskInv
<1>4. ASSUME NEW m \in mirrored \cup {home, Here}, NEW n
      PROVE  SameAt(disk, disk', At(m, SharedDir, "shared", n))
  <2>1. TestDir(j) # SharedDir
    BY <1>1, DeclaredTest
  <2>2. At(m, SharedDir, "shared", n).dir = SharedDir /\ At(m, SharedDir, "shared", n).m = m
    BY Paths
  <2> QED
    BY <2>1, <2>2 DEF DiskStays
<1>5. SharedInv'
  <2>1. HasShared(Here, NamesOf(Shared) \ (IF home = Here THEN FromSetupNow ELSE {}))'
    <3>1. HasShared(Here, NamesOf(Shared) \ (IF home = Here THEN FromSetupNow ELSE {}))
      BY <1>1 DEF SharedInv
    <3> QED
      BY <1>1, <1>4, <3>1 DEF HasShared, Has, SameAt
  <2>2. HasShared(home, NamesOf(Shared) \ FromSetupNow)'
    <3>1. HasShared(home, NamesOf(Shared) \ FromSetupNow)
      BY <1>1 DEF SharedInv
    <3> QED
      BY <1>1, <1>4, <3>1 DEF HasShared, Has, SameAt
  <2>3. ASSUME NEW m \in mirrored' PROVE HasShared(m, NamesOf(Shared))'
    <3>1. CASE m \in mirrored
      <4>1. HasShared(m, NamesOf(Shared))
        BY <1>1, <3>1 DEF SharedInv
      <4> QED
        BY <1>1, <1>4, <3>1, <4>1 DEF HasShared, Has, SameAt
    <3>2. CASE m \notin mirrored
      BY <1>1, <2>3, <3>2 DEF DiskStays, HasShared, Has
    <3> QED
      BY <3>1, <3>2
  <2>4. \A n \in FromSetupNow : /\ At(home, SharedDir, "shared", n) \in DOMAIN disk'
                                /\ disk'[At(home, SharedDir, "shared", n)] = File({n}, {})
    BY <1>1, <1>4 DEF SharedInv, SameAt
  <2> QED
    BY <1>1, <2>1, <2>2, <2>3, <2>4 DEF SharedInv
<1> QED
  BY <1>2, <1>3, <1>5

\* What an output of a sibling is does not change, even through a symlink: here
\* they lead to its own directory and to shared/, and those that lead out of
\* another machine do not come home.
LEMMA OutputsStay ==
  ASSUME IInv, NEW j \in Ids, OthersStay(j), DiskStays(j), NEW i \in Ids \ {j},
         Ran(i), ~LostOnTheWay(i), NEW n \in OutputNames(tests[i])
  PROVE  LeftBehind(i, n)' = LeftBehind(i, n)
<1> DEFINE p == At(Host(i), TestDir(i), "outputs", n)
           left == Outputs(i, ending[i])
<1>1. /\ FileInv /\ DiskInv /\ RanInv(i) /\ phase = "tests" /\ Host(i)' = Host(i)
      /\ i \in Nat /\ TestDir(i) = i /\ TestDir(i) # SharedDir /\ TestDir(j) = j
  BY DeclaredTest, NamesStay DEF IInv, InstanceInv, OthersStay
<1>2. p.m = Host(i) /\ p.dir = i /\ p.area = "outputs" /\ p.name = n
  BY <1>1, Paths
<1>3. SameAt(disk, disk', p)
  BY <1>1, <1>2 DEF DiskStays
<1>4. LeftBehind(i, n) = Stat(disk, p) /\ LeftBehind(i, n)' = Stat(disk', p)
  BY <1>1 DEF LeftBehind
<1>5. CASE p \notin DOMAIN disk \/ disk[p].kind # "symlink"
  <2> HIDE DEF p
  <2> QED
    BY <1>3, <1>4, <1>5 DEF Stat, SameAt
<1>6. CASE p \in DOMAIN disk /\ disk[p].kind = "symlink"
  <2>1. /\ ctx[i] = ContextOf(i) /\ \A o \in DOMAIN ending[i].files : IsContent(ending[i].files[o])
        /\ OutputsOn(Host(i), i) = DOMAIN left
        /\ \A r \in DOMAIN left : disk[r] = left[r]
    BY <1>1, EndingKnown DEF RanInv
  <2>2. /\ \A r : r \in DOMAIN left <=> \E o \in DOMAIN ending[i].files : r = At(Host(i), TestDir(i), "outputs", o)
        /\ \A o \in DOMAIN ending[i].files :
              /\ left[At(Host(i), TestDir(i), "outputs", o)].kind = ending[i].files[o].kind
              /\ \A t \in left[At(Host(i), TestDir(i), "outputs", o)].refs :
                   \E r \in References : t = Expand(r, ContextOf(i))
    BY <2>1, OutputsPaths
  <2> HIDE DEF left
  <2>3. p \in DOMAIN left
    BY <1>1, <1>2, <1>6, <2>1 DEF OutputsOn
  <2>4. n \in DOMAIN ending[i].files
    BY <2>2, <2>3, Paths
  <2>5. disk[p] = left[p]
    BY <2>1, <2>3
  <2>6. ending[i].files[n].kind = "symlink" /\ \A t \in disk[p].refs : \E r \in References : t = Expand(r, ContextOf(i))
    BY <1>6, <2>2, <2>4, <2>5
  <2>7. Host(i) = Here
    BY <2>4, <2>6 DEF LostOnTheWay
  <2>8. home = Here
    BY <1>1, <2>7, HostHere
  <2>9. ASSUME NEW t \in disk[p].refs
        PROVE  SameAt(disk, disk', t)
    <3>1. PICK r \in References : t = Expand(r, ContextOf(i))
      BY <2>6
    <3>2. ContextOf(i).index = i /\ ContextOf(i).base = Here
      BY <2>7 DEF ContextOf
    <3>3. CASE t = r
      <4>1. ~IsPath(t)
        BY <3>1, <3>3, NoPathIsAReference
      <4> QED
        BY <1>1, <4>1 DEF DiskInv, DiskStays, IsDisk, SameAt
    <3>4. CASE t = At(Here, i, "inputs", r.name) \/ t = At(Here, i, "outputs", r.name)
      <4>1. t.dir = i
        BY <3>4, Paths
      <4> QED
        BY <1>1, <4>1 DEF DiskStays
    <3>5. CASE t = At(Here, SharedDir, "shared", r.name)
      <4>1. t.dir = SharedDir /\ t.m = Here
        BY <3>5, Paths
      <4>2. TestDir(j) # SharedDir
        BY <1>1, DeclaredTest
      <4> QED
        BY <4>1, <4>2 DEF DiskStays
    <3> QED
      BY <1>1, <3>1, <3>2, <3>3, <3>4, <3>5, Expansions
  <2> HIDE DEF p
  <2> DEFINE targets(d) == {t \in disk[p].refs \cap DOMAIN d : t.m = p.m}
  <2>10. targets(disk') = targets(disk) /\ \A t \in targets(disk) : disk'[t] = disk[t]
    BY <2>9 DEF SameAt
  <2>11. p \in DOMAIN disk' /\ disk'[p] = disk[p]
    BY <1>3, <1>6 DEF SameAt
  <2>12. /\ Stat(disk, p) = IF targets(disk) = {} THEN Absent ELSE disk[CHOOSE t \in targets(disk) : TRUE]
         /\ Stat(disk', p) = IF targets(disk') = {} THEN Absent ELSE disk'[CHOOSE t \in targets(disk') : TRUE]
    BY <1>6, <2>11 DEF Stat
  <2> HIDE DEF targets
  <2>13. targets(disk) # {} => (CHOOSE t \in targets(disk) : TRUE) \in targets(disk)
    OBVIOUS
  <2> QED
    BY <1>4, <2>10, <2>12, <2>13
<1> QED
  BY <1>5, <1>6

LEMMA SiblingsKeep ==
  ASSUME IInv, NEW j \in Ids, OthersStay(j), DiskStays(j), NEW i \in Ids \ {j}
  PROVE  InstanceInv(i)'
<1>1. /\ FileInv /\ DiskInv /\ InstanceInv(i) /\ phase = "tests" /\ phase' = phase
      /\ i \in Nat /\ TestDir(i) = i /\ TestDir(i) # SharedDir /\ TestDir(j) = j
  BY DeclaredTest, NamesStay DEF IInv, OthersStay
<1>2. /\ at'[i] = at[i] /\ ctx'[i] = ctx[i] /\ args'[i] = args[i]
      /\ ending'[i] = ending[i] /\ failures'[i] = failures[i]
  BY DEF OthersStay
<1>3. /\ tests' = tests /\ home' = home /\ Host(i)' = Host(i) /\ Inputs(i)' = Inputs(i)
      /\ Declared(i)' = Declared(i) /\ ContextOf(i)' = ContextOf(i) /\ Placeholders(i)' = Placeholders(i)
  BY NamesStay DEF OthersStay
<1>4. \A q : q.dir = TestDir(i) => SameAt(disk, disk', q)
  BY <1>1 DEF DiskStays
<1>5. \A m, area, n : SameAt(disk, disk', At(m, TestDir(i), area, n))
  BY <1>4, Paths
<1>6. FlowInv(i)'
  <2>1. mirrored \subseteq mirrored'
    BY DEF DiskStays
  <2> QED
    BY <1>1, <1>2, <1>3, <2>1 DEF InstanceInv, FlowInv
<1>7. PlacesInv(i)'
  <2>1. HasInputs(Here, i) => HasInputs(Here, i)'
    BY <1>3, <1>5 DEF HasInputs, Has, SameAt
  <2>2. HasInputs(Host(i), i) => HasInputs(Host(i), i)'
    BY <1>3, <1>5 DEF HasInputs, Has, SameAt
  <2> QED
    BY <1>1, <1>2, <1>4, <2>1, <2>2 DEF InstanceInv, PlacesInv, SameAt
<1>8. \A m : OutputsOn(m, i)' = OutputsOn(m, i)
  BY <1>4 DEF OutputsOn, SameAt
<1>9. Ran(i)' <=> Ran(i)
  BY <1>2 DEF Ran
<1>10. \A e : Outputs(i, e)' = Outputs(i, e)
  BY <1>2 DEF Outputs
<1>11. RanInv(i)'
  <2> SUFFICES ASSUME Ran(i) PROVE RanInv(i)'
    BY <1>9 DEF RanInv
  <2>1. RanInv(i)
    BY <1>1 DEF InstanceInv
  <2>2. OutputsOn(Host(i), i)' = DOMAIN Outputs(i, ending[i])'
    BY <1>2, <1>3, <1>8, <1>10, <2>1 DEF RanInv
  <2>3. ASSUME NEW p \in DOMAIN Outputs(i, ending[i]) PROVE disk'[p] = Outputs(i, ending[i])[p]
    <3>1. p \in OutputsOn(Host(i), i)
      BY <2>1 DEF RanInv
    <3>2. SameAt(disk, disk', p) /\ p \in DOMAIN disk
      BY <1>4, <3>1 DEF OutputsOn
    <3> QED
      BY <2>1, <3>2 DEF RanInv, SameAt
  <2> QED
    BY <1>2, <1>3, <1>10, <2>1, <2>2, <2>3 DEF RanInv
<1>12. CopiesInv(i)'
  <2>1. CopiesInv(i)
    BY <1>1 DEF InstanceInv
  <2>2. ASSUME at[i] = "check", Host(i) # Here, failures[i] = {}, NEW p \in OutputsOn(Here, i)
        PROVE  disk'[p] = disk'[[p EXCEPT !.m = Host(i)]]
    <3>1. disk[p] = disk[[p EXCEPT !.m = Host(i)]]
      BY <2>1, <2>2 DEF CopiesInv
    <3>2. PICK o \in DOMAIN ending[i].files : p = At(Here, TestDir(i), "outputs", o)
      BY <2>1, <2>2 DEF CopiesInv
    <3> DEFINE q == At(Host(i), TestDir(i), "outputs", o)
    <3>3. [p EXCEPT !.m = Host(i)] = q
      BY <3>2, Paths
    <3>4. q \in DOMAIN disk
      <4>1. /\ ctx[i] = ContextOf(i) /\ \A x \in DOMAIN ending[i].files : IsContent(ending[i].files[x])
            /\ OutputsOn(Host(i), i) = DOMAIN Outputs(i, ending[i])
        BY <1>1, <2>2, EndingKnown DEF InstanceInv, RanInv, Ran
      <4>2. q \in DOMAIN Outputs(i, ending[i])
        BY <4>1, OutputsPaths
      <4> QED
        BY <4>1, <4>2 DEF OutputsOn
    <3>5. SameAt(disk, disk', p) /\ SameAt(disk, disk', q) /\ p \in DOMAIN disk
      BY <1>5, <2>2, <3>2 DEF OutputsOn
    <3> QED
      BY <3>1, <3>3, <3>4, <3>5 DEF SameAt
  <2> QED
    BY <1>2, <1>3, <1>8, <2>1, <2>2 DEF CopiesInv
<1>13. VerdictInv(i)'
  <2>1. VerdictInv(i)
    BY <1>1 DEF InstanceInv
  <2>2. LostOnTheWay(i)' <=> LostOnTheWay(i)
    BY <1>2, <1>3 DEF LostOnTheWay
  <2>3. NumbersInexact(i)' <=> NumbersInexact(i)
    BY <1>2, <1>3 DEF NumbersInexact
  <2>4. ASSUME at[i] = "done", failures[i] \cap StepFailures = {}, ~LostOnTheWay(i)
        PROVE  AssertionsHold(i)' = AssertionsHold(i)
    <3>1. Ran(i)
      BY <2>4 DEF Ran
    <3>2. \A n \in OutputNames(tests[i]) : LeftBehind(i, n)' = LeftBehind(i, n)
      BY <2>4, <3>1, OutputsStay
    <3>3. /\ DOMAIN Declared(i).files = DOMAIN tests[i].files
          /\ DOMAIN Declared(i).notFiles = DOMAIN tests[i].notFiles
      BY <1>1, DeclaredTest DEF IsInstance
    <3>4. \A n \in (DOMAIN Declared(i).files) \cup (DOMAIN Declared(i).notFiles) : LeftBehind(i, n)' = LeftBehind(i, n)
      BY <3>2, <3>3 DEF OutputNames
    <3>5. /\ \A n \in DOMAIN Declared(i).files :
               FileHolds(LeftBehind(i, n), Declared(i).files[n])' <=> FileHolds(LeftBehind(i, n), Declared(i).files[n])
          /\ \A n \in DOMAIN Declared(i).notFiles :
               FileHolds(LeftBehind(i, n), Opposite(Declared(i).notFiles[n]))'
                 <=> FileHolds(LeftBehind(i, n), Opposite(Declared(i).notFiles[n]))
      BY <1>3, <3>4 DEF FileHolds
    <3>6. AssertionsHold(i)' <=> AssertionsHold(i)
      BY <1>2, <1>3, <3>5 DEF AssertionsHold
    <3>7. AssertionsHold(i) \in BOOLEAN /\ AssertionsHold(i)' \in BOOLEAN
      BY DEF AssertionsHold
    <3> QED
      BY <3>6, <3>7
  <2> QED
    BY <1>2, <1>3, <2>1, <2>2, <2>3, <2>4 DEF VerdictInv
<1> QED
  BY <1>6, <1>7, <1>11, <1>12, <1>13 DEF InstanceInv

-----------------------------------------------------------------------------
(***************************************************************************)
(* The steps of an instance.                                               *)
(***************************************************************************)
LEMMA InstanceStep ==
  ASSUME IInv, NEW j \in Ids, OthersStay(j), DiskStays(j), InstanceInv(j)'
  PROVE  IInv'
<1>1. FileInv' /\ DiskInv' /\ SharedInv' /\ Ids' = Ids
  BY FileStays, NamesStay DEF OthersStay
<1>2. \A i \in Ids \ {j} : InstanceInv(i)'
  BY SiblingsKeep
<1> QED
  BY <1>1, <1>2 DEF IInv

LEMMA QuietStep ==
  ASSUME IInv, NEW j, UNCHANGED <<disk, mirrored>>
  PROVE  DiskStays(j)
BY DEF DiskStays, IInv, DiskInv, FileInv, IsDisk, SameAt

\* An instance that a step failed asserts nothing.
LEMMA FailedStep ==
  ASSUME IInv, NEW j \in Ids, OthersStay(j), at'[j] = "done",
         failures'[j] \cap StepFailures # {}, <<"timed out">> \notin failures'[j]
  PROVE  InstanceInv(j)'
<1>1. phase' = "tests"
  BY NamesStay DEF OthersStay
<1>2. FlowInv(j)' /\ PlacesInv(j)'
  BY <1>1 DEF FlowInv, PlacesInv
<1>3. RanInv(j)' /\ CopiesInv(j)' /\ VerdictInv(j)'
  BY DEF RanInv, CopiesInv, VerdictInv, Ran
<1> QED
  BY <1>2, <1>3 DEF InstanceInv

LEMMA FailsInv ==
  ASSUME IInv, NEW j \in Ids,
         FixturesFail(j) \/ ScopeFails(j) \/ PushFails(j) \/ ExecutionFails(j)
  PROVE  IInv'
<1>1. OthersStay(j)
  BY SiblingsStay DEF Instance
<1>2. DiskStays(j)
  BY QuietStep DEF FixturesFail, ScopeFails, PushFails, ExecutionFails
<1>3. failures[j] = {} /\ DOMAIN failures = Ids /\ DOMAIN at = Ids
  BY DEF IInv, InstanceInv, FlowInv, FileInv, FixturesFail, ScopeFails, PushFails, ExecutionFails
<1>4. at'[j] = "done" /\ \E what \in {"fixture setup", "ssh", "execution"} : failures'[j] = {<<what>>}
  BY <1>3 DEF FixturesFail, ScopeFails, PushFails, ExecutionFails, Goes, Fails
<1>5. InstanceInv(j)'
  BY <1>1, <1>4, FailedStep DEF StepFailures
<1> QED
  BY <1>1, <1>2, <1>5, InstanceStep

LEMMA BuildFixturesInv ==
  ASSUME IInv, NEW j \in Ids, BuildFixtures(j)
  PROVE  IInv'
<1>1. /\ FileInv /\ DiskInv /\ InstanceInv(j) /\ OthersStay(j) /\ TestDir(j) # SharedDir
      /\ at[j] = "idle" /\ at'[j] = "scope" /\ failures' = failures /\ mirrored' = mirrored
      /\ ctx'[j] = NewContext(j, tests[j])
  <2>1. FileInv /\ DiskInv /\ InstanceInv(j) /\ OthersStay(j) /\ DOMAIN at = Ids /\ DOMAIN ctx = Ids
    BY SiblingsStay DEF IInv, FileInv, Instance
  <2> QED
    BY <2>1, DeclaredTest DEF BuildFixtures, Goes
<1>2. tests' = tests /\ Inputs(j)' = Inputs(j) /\ phase' = "tests"
  BY <1>1, NamesStay DEF OthersStay
<1>3. disk' = Over(Inputs(j), disk)
  BY DEF BuildFixtures, SetupFixtures, Inputs
<1>4. /\ IsDisk(disk')
      /\ \A n \in NamesOf(tests[j].inputs) :
           /\ At(Here, TestDir(j), "inputs", n) \in DOMAIN disk'
           /\ disk'[At(Here, TestDir(j), "inputs", n)] = Inputs(j)[At(Here, TestDir(j), "inputs", n)]
      /\ \A q : q.m # Here \/ q.dir # TestDir(j) \/ q.area # "inputs" => SameAt(disk, disk', q)
  <2> DEFINE block == tests[j].inputs
             expanded == [r \in Mentioned(block) |-> Expand(r, NewContext(j, tests[j]))]
  <2>1. Inputs(j) = Written(TestDir(j), "inputs", block, expanded)
    BY DEF Inputs
  <2>2. IsDisk(disk) /\ IsFixtureDir(TestDir(j), "inputs")
    BY <1>1 DEF DiskInv, IsFixtureDir
  <2> HIDE DEF expanded, block
  <2>3. /\ IsDisk(disk')
        /\ \A n \in NamesOf(block) :
             /\ At(Here, TestDir(j), "inputs", n) \in DOMAIN disk'
             /\ disk'[At(Here, TestDir(j), "inputs", n)] = Inputs(j)[At(Here, TestDir(j), "inputs", n)]
        /\ \A q : q.m # Here \/ q.dir # TestDir(j) \/ q.area # "inputs" => SameAt(disk, disk', q)
    BY <1>3, <2>1, <2>2, WrittenOver
  <2> QED
    BY <2>3 DEF block
<1>5. DiskStays(j)
  BY <1>1, <1>4 DEF DiskStays, FileInv
<1>6. FlowInv(j)'
  BY <1>1, <1>2 DEF InstanceInv, FlowInv
<1>7. PlacesInv(j)'
  <2>1. HasInputs(Here, j)'
    BY <1>2, <1>4 DEF HasInputs, Has
  <2>2. \A q \in DOMAIN disk' : ~(q.dir = TestDir(j) /\ q.area = "outputs")
    BY <1>1, <1>4 DEF InstanceInv, PlacesInv, SameAt
  <2> QED
    BY <1>1, <2>1, <2>2 DEF PlacesInv
<1>8. RanInv(j)' /\ CopiesInv(j)' /\ VerdictInv(j)'
  BY <1>1 DEF RanInv, CopiesInv, VerdictInv, Ran
<1> QED
  BY <1>1, <1>5, <1>6, <1>7, <1>8, InstanceStep DEF InstanceInv

LEMMA FindScopeInv ==
  ASSUME IInv, NEW j \in Ids, FindScope(j)
  PROVE  IInv'
<1> DEFINE to   == Host(j)
           tree == Tree(disk, Here, SharedDir)
<1>1. /\ FileInv /\ DiskInv /\ SharedInv /\ InstanceInv(j) /\ OthersStay(j)
      /\ TestDir(j) # SharedDir /\ phase = "tests"
      /\ at[j] = "scope" /\ failures' = failures
      /\ at'[j] = IF to = Here THEN "start" ELSE "push"
      /\ ctx'[j] = [ctx[j] EXCEPT !.base = to]
  <2>1. FileInv /\ DiskInv /\ SharedInv /\ InstanceInv(j) /\ OthersStay(j) /\ DOMAIN at = Ids /\ DOMAIN ctx = Ids
    BY SiblingsStay DEF IInv, FileInv, Instance
  <2> QED
    BY <2>1, DeclaredTest DEF FindScope, Goes, OthersStay
<1>2. /\ tests' = tests /\ home' = home /\ Inputs(j)' = Inputs(j) /\ phase' = phase
      /\ Host(j)' = to /\ ContextOf(j)' = ContextOf(j)
  BY <1>1, NamesStay DEF OthersStay
<1>3. /\ DiskStays(j) /\ to \in mirrored' \cup {home}
      /\ \A q : q.dir = TestDir(j) => SameAt(disk, disk', q)
  <2>1. CASE to \in mirrored \cup {home}
    <3>1. UNCHANGED <<disk, mirrored>>
      BY <2>1 DEF FindScope
    <3> QED
      BY <2>1, <3>1, QuietStep DEF SameAt
  <2>2. CASE to \notin mirrored \cup {home}
    <3>1. /\ disk' = Over(Moved(disk, tree, to), disk) /\ mirrored' = mirrored \cup {to}
          /\ tree \in SUBSET DOMAIN disk /\ \A p \in tree : p.m = Here /\ p.dir = SharedDir
      BY <2>2 DEF FindScope, Push, Tree
    <3>2. home # Here /\ to # Here
      BY <1>1, <2>2, HostHere DEF Host
    <3>3. \A n \in NamesOf(Shared) :
            /\ At(Here, SharedDir, "shared", n) \in tree
            /\ disk[At(Here, SharedDir, "shared", n)] = SharedFiles[At(Here, SharedDir, "shared", n)]
      <4>1. HasShared(Here, NamesOf(Shared))
        BY <1>1, <3>2 DEF SharedInv
      <4> QED
        BY <4>1, Paths DEF HasShared, Has, Tree
    <3> HIDE DEF to, tree
    <3>4. /\ IsDisk(disk')
          /\ \A p \in tree : /\ At(to, p.dir, p.area, p.name) \in DOMAIN disk'
                             /\ disk'[At(to, p.dir, p.area, p.name)] = disk[p]
          /\ \A q : q.m # to \/ At(Here, q.dir, q.area, q.name) \notin tree => SameAt(disk, disk', q)
      <4>1. IsDisk(disk) /\ AllOn(disk, Here, tree)
        BY <1>1, <3>1 DEF DiskInv, AllOn
      <4> QED
        BY <3>1, <4>1, MovedOver
    <3>5. \A q : q.m # to \/ q.dir # SharedDir => SameAt(disk, disk', q)
      <4> SUFFICES ASSUME NEW q, q.dir # SharedDir PROVE At(Here, q.dir, q.area, q.name) \notin tree
        BY <3>4
      <4> QED
        BY <3>1, Paths
    <3>6. ASSUME NEW n \in NamesOf(Shared)
          PROVE  /\ At(to, SharedDir, "shared", n) \in DOMAIN disk'
                 /\ disk'[At(to, SharedDir, "shared", n)] = SharedFiles[At(Here, SharedDir, "shared", n)]
      <4> DEFINE p == At(Here, SharedDir, "shared", n)
      <4>1. p \in tree /\ disk[p] = SharedFiles[p]
        BY <3>3
      <4>2. p.dir = SharedDir /\ p.area = "shared" /\ p.name = n
        BY Paths
      <4> HIDE DEF p
      <4> QED
        BY <3>4, <4>1, <4>2 DEF p
    <3>7. DiskStays(j)
      BY <1>1, <2>2, <3>1, <3>2, <3>4, <3>5, <3>6 DEF DiskStays, FileInv
    <3> QED
      BY <1>1, <3>1, <3>5, <3>7
  <2> QED
    BY <2>1, <2>2
<1>4. FlowInv(j)'
  <2>1. ctx'[j] = ContextOf(j)
    <3>1. ctx[j] = NewContext(j, tests[j])
      BY <1>1 DEF InstanceInv, FlowInv
    <3>2. ctx[j] = [index |-> j, base |-> Here, inputs |-> NamesOf(tests[j].inputs)]
      BY <3>1 DEF NewContext, NamesOf
    <3> QED
      BY <1>1, <3>2 DEF ContextOf
  <2>2. failures[j] = {}
    BY <1>1 DEF InstanceInv, FlowInv
  <2> QED
    BY <1>1, <1>2, <1>3, <2>1, <2>2 DEF FlowInv
<1>5. PlacesInv(j)'
  <2>1. HasInputs(Here, j)
    BY <1>1 DEF InstanceInv, PlacesInv
  <2>2. \A n : SameAt(disk, disk', At(Here, TestDir(j), "inputs", n))
    BY <1>3, Paths
  <2>3. HasInputs(Here, j)'
    BY <1>2, <2>1, <2>2 DEF HasInputs, Has, SameAt
  <2>4. \A q \in DOMAIN disk' : ~(q.dir = TestDir(j) /\ q.area = "outputs")
    BY <1>1, <1>3 DEF InstanceInv, PlacesInv, SameAt
  <2>5. at'[j] = "start" => HasInputs(Host(j), j)'
    BY <1>1, <1>2, <2>3 DEF HasInputs
  <2> QED
    BY <1>1, <2>3, <2>4, <2>5 DEF PlacesInv
<1>6. RanInv(j)' /\ CopiesInv(j)' /\ VerdictInv(j)'
  BY <1>1 DEF RanInv, CopiesInv, VerdictInv, Ran
<1> QED
  BY <1>1, <1>3, <1>4, <1>5, <1>6, InstanceStep DEF InstanceInv

LEMMA PushFixturesInv ==
  ASSUME IInv, NEW j \in Ids, PushFixtures(j)
  PROVE  IInv'
<1> DEFINE to   == Host(j)
           tree == Tree(disk, Here, TestDir(j))
<1>1. /\ FileInv /\ DiskInv /\ InstanceInv(j) /\ OthersStay(j)
      /\ TestDir(j) # SharedDir /\ phase = "tests"
      /\ at[j] = "push" /\ at'[j] = "start" /\ UNCHANGED <<mirrored, ctx, args, ending, failures>>
      /\ ctx[j] = ContextOf(j)
  <2>1. FileInv /\ DiskInv /\ InstanceInv(j) /\ OthersStay(j) /\ DOMAIN at = Ids
    BY SiblingsStay DEF IInv, FileInv, Instance
  <2> QED
    BY <2>1, DeclaredTest DEF PushFixtures, Goes, OthersStay, InstanceInv, FlowInv
<1>2. /\ tests' = tests /\ home' = home /\ Inputs(j)' = Inputs(j) /\ phase' = phase
      /\ Host(j)' = to /\ ContextOf(j)' = ContextOf(j)
  BY <1>1, NamesStay DEF OthersStay
<1>3. /\ disk' = Over(Moved(disk, tree, to), disk)
      /\ tree \in SUBSET DOMAIN disk /\ \A p \in tree : p.m = Here /\ p.dir = TestDir(j)
  BY <1>1 DEF PushFixtures, Push, Tree, ContextOf
<1>4. ASSUME NEW n \in NamesOf(tests[j].inputs)
      PROVE  /\ At(Here, TestDir(j), "inputs", n) \in tree
             /\ disk[At(Here, TestDir(j), "inputs", n)] = Inputs(j)[At(Here, TestDir(j), "inputs", n)]
  BY <1>1, <1>4, Paths DEF InstanceInv, PlacesInv, HasInputs, Has, Tree
<1> HIDE DEF to, tree
<1>5. /\ IsDisk(disk')
      /\ \A p \in tree : /\ At(to, p.dir, p.area, p.name) \in DOMAIN disk'
                         /\ disk'[At(to, p.dir, p.area, p.name)] = disk[p]
      /\ \A q : q.m # to \/ At(Here, q.dir, q.area, q.name) \notin tree => SameAt(disk, disk', q)
      /\ \A q \in DOMAIN disk' : q \in DOMAIN disk \/ (q.m = to /\ At(Here, q.dir, q.area, q.name) \in tree)
  <2>1. IsDisk(disk) /\ AllOn(disk, Here, tree)
    BY <1>1, <1>3 DEF DiskInv, AllOn
  <2> QED
    BY <1>3, <2>1, MovedOver
<1>6. \A q : q.dir # TestDir(j) => SameAt(disk, disk', q)
  <2> SUFFICES ASSUME NEW q, q.dir # TestDir(j) PROVE At(Here, q.dir, q.area, q.name) \notin tree
    BY <1>5
  <2> QED
    BY <1>3, Paths
<1>7. DiskStays(j)
  BY <1>1, <1>5, <1>6 DEF DiskStays, FileInv
<1>8. FlowInv(j)'
  BY <1>1, <1>2 DEF InstanceInv, FlowInv, to
<1>9. PlacesInv(j)'
  <2>1. ASSUME NEW n \in NamesOf(tests[j].inputs)
        PROVE  /\ At(to, TestDir(j), "inputs", n) \in DOMAIN disk'
               /\ disk'[At(to, TestDir(j), "inputs", n)] = Inputs(j)[At(Here, TestDir(j), "inputs", n)]
    <3> DEFINE p == At(Here, TestDir(j), "inputs", n)
    <3>1. p \in tree /\ disk[p] = Inputs(j)[p]
      BY <1>4
    <3>2. p.dir = TestDir(j) /\ p.area = "inputs" /\ p.name = n
      BY Paths
    <3> HIDE DEF p
    <3> QED
      BY <1>5, <3>1, <3>2 DEF p
  <2>2. HasInputs(Host(j), j)'
    BY <1>2, <2>1 DEF HasInputs, Has
  <2>3. ASSUME NEW q \in DOMAIN disk', q.dir = TestDir(j), q.area = "outputs" PROVE FALSE
    <3>1. PICK p \in DOMAIN disk : p.dir = TestDir(j) /\ p.area = "outputs"
      <4>1. CASE q \in DOMAIN disk
        BY <2>3, <4>1
      <4>2. CASE At(Here, q.dir, q.area, q.name) \in tree
        <5>1. At(Here, q.dir, q.area, q.name) \in DOMAIN disk
          BY <1>3, <4>2
        <5> QED
          BY <2>3, <5>1, Paths
      <4> QED
        BY <1>5, <2>3, <4>1, <4>2
    <3> QED
      BY <1>1, <3>1 DEF InstanceInv, PlacesInv
  <2> QED
    BY <1>1, <2>2, <2>3 DEF PlacesInv
<1>10. RanInv(j)' /\ CopiesInv(j)' /\ VerdictInv(j)'
  BY <1>1 DEF RanInv, CopiesInv, VerdictInv, Ran
<1> QED
  BY <1>1, <1>7, <1>8, <1>9, <1>10, InstanceStep DEF InstanceInv

LEMMA StartInv ==
  ASSUME IInv, NEW j \in Ids, Start(j)
  PROVE  IInv'
<1>1. /\ FileInv /\ InstanceInv(j) /\ OthersStay(j)
      /\ at[j] = "start" /\ at'[j] = "running" /\ UNCHANGED <<disk, mirrored, ctx, ending, failures>>
      /\ args'[j] = [r \in Placeholders(j) |-> Expand(r, ctx[j])]
  <2>1. FileInv /\ InstanceInv(j) /\ OthersStay(j) /\ DOMAIN at = Ids /\ DOMAIN args = Ids
    BY SiblingsStay DEF IInv, FileInv, Instance
  <2> QED
    BY <2>1 DEF Start, Goes
<1>2. /\ tests' = tests /\ home' = home /\ Inputs(j)' = Inputs(j) /\ phase' = phase /\ phase = "tests"
      /\ Host(j)' = Host(j) /\ ContextOf(j)' = ContextOf(j) /\ Placeholders(j)' = Placeholders(j)
  BY <1>1, NamesStay DEF OthersStay
<1>3. FlowInv(j)'
  BY <1>1, <1>2 DEF InstanceInv, FlowInv
<1>4. PlacesInv(j)'
  BY <1>1, <1>2 DEF InstanceInv, PlacesInv, HasInputs, Has
<1>5. RanInv(j)' /\ CopiesInv(j)' /\ VerdictInv(j)'
  BY <1>1 DEF RanInv, CopiesInv, VerdictInv, Ran
<1>6. DiskStays(j)
  BY <1>1, QuietStep
<1> QED
  BY <1>1, <1>3, <1>4, <1>5, <1>6, InstanceStep DEF InstanceInv

LEMMA EndCommandInv ==
  ASSUME IInv, NEW j \in Ids, EndCommand(j)
  PROVE  IInv'
<1>1. PICK e \in Endings[tests[j].cmd] :
        /\ e.timedOut => tests[j].timeout > 0
        /\ ending' = [ending EXCEPT ![j] = e]
        /\ disk' = Over(Outputs(j, e), Over(Patches(j, e), disk))
  BY DEF EndCommand
<1>2. /\ FileInv /\ DiskInv /\ InstanceInv(j) /\ OthersStay(j)
      /\ TestDir(j) # SharedDir /\ phase = "tests"
      /\ at[j] = "running" /\ UNCHANGED <<mirrored, ctx, args, failures>> /\ failures[j] = {}
      /\ ctx[j] = ContextOf(j) /\ ending'[j] = e
      /\ at'[j] = IF Host(j) = Here THEN "check" ELSE "pull"
  <2>1. /\ FileInv /\ DiskInv /\ InstanceInv(j) /\ OthersStay(j) /\ at[j] = "running"
        /\ DOMAIN at = Ids /\ DOMAIN ending = Ids
    BY SiblingsStay DEF IInv, FileInv, Instance, EndCommand
  <2>2. ctx[j] = ContextOf(j) /\ ctx[j].base = Host(j) /\ failures[j] = {}
    BY <2>1 DEF InstanceInv, FlowInv, ContextOf
  <2> QED
    BY <1>1, <2>1, <2>2, DeclaredTest DEF EndCommand, Goes, OthersStay
<1>3. /\ tests' = tests /\ home' = home /\ Inputs(j)' = Inputs(j) /\ phase' = phase
      /\ Host(j)' = Host(j) /\ ContextOf(j)' = ContextOf(j)
  BY <1>2, NamesStay DEF OthersStay
<1> DEFINE left    == Outputs(j, e)
           patches == Patches(j, e)
           before  == Over(patches, disk)
<1>4. \A n \in DOMAIN e.files : IsContent(e.files[n])
  BY <1>2, EndingKnown
<1>5. \A q : q \in DOMAIN left <=> \E n \in DOMAIN e.files : q = At(Host(j), TestDir(j), "outputs", n)
  BY <1>2, <1>4, OutputsPaths
<1>6. \A q \in DOMAIN left : q.m = Host(j) /\ q.dir = TestDir(j) /\ q.area = "outputs" /\ IsPath(q)
  BY <1>2, <1>5, Paths DEF IsPath
<1>7. \A q \in DOMAIN patches : q.dir = TestDir(j) /\ q.area = "inputs" /\ IsPath(q)
  <2>1. ctx[j].base = Host(j)
    BY <1>2 DEF ContextOf
  <2>2. \A q \in DOMAIN patches : \E n \in e.patches : q = At(Host(j), TestDir(j), "inputs", n)
    BY <2>1 DEF Patches
  <2> HIDE DEF patches
  <2> QED
    BY <1>2, <2>2, Paths DEF IsPath
<1>8. disk' = Over(left, before)
  BY <1>1
<1> HIDE DEF left
<1>9. /\ DOMAIN before = DOMAIN patches \cup DOMAIN disk
      /\ \A q : q \notin DOMAIN patches => SameAt(disk, before, q)
  BY OverPaths
<1> HIDE DEF patches, before
<1>10. /\ DOMAIN disk' = DOMAIN left \cup DOMAIN before
       /\ \A q \in DOMAIN left : disk'[q] = left[q]
       /\ \A q : q \notin DOMAIN left => SameAt(before, disk', q)
  BY <1>8, OverPaths
<1>11. DiskStays(j)
  <2>1. IsDisk(disk')
    BY <1>2, <1>6, <1>7, <1>9, <1>10 DEF DiskInv, IsDisk
  <2>2. \A q : q.dir # TestDir(j) => SameAt(disk, disk', q)
    BY <1>6, <1>7, <1>9, <1>10 DEF SameAt
  <2> QED
    BY <1>2, <2>1, <2>2 DEF DiskStays, FileInv
<1>12. FlowInv(j)'
  BY <1>2, <1>3 DEF FlowInv
<1>13. PlacesInv(j)'
  BY <1>2 DEF PlacesInv
<1>14. \A q \in DOMAIN disk' : q.dir = TestDir(j) /\ q.area = "outputs" => q \in DOMAIN left
  <2>1. \A q \in DOMAIN disk : ~(q.dir = TestDir(j) /\ q.area = "outputs")
    BY <1>2 DEF InstanceInv, PlacesInv
  <2> QED
    BY <1>7, <1>9, <1>10, <2>1
<1>15. RanInv(j)'
  <2>1. Outputs(j, e)' = left
    BY <1>2 DEF Outputs, left
  <2>2. OutputsOn(Host(j), j)' = DOMAIN left
    BY <1>3, <1>6, <1>10, <1>14 DEF OutputsOn
  <2> QED
    BY <1>1, <1>2, <1>3, <1>10, <2>1, <2>2 DEF RanInv
<1>16. CopiesInv(j)'
  <2>1. at'[j] = "pull" => OutputsOn(Here, j)' = {}
    BY <1>2, <1>6, <1>14 DEF OutputsOn
  <2> QED
    BY <1>2, <1>3, <2>1 DEF CopiesInv
<1>17. VerdictInv(j)'
  BY <1>2 DEF VerdictInv
<1> QED
  BY <1>2, <1>11, <1>12, <1>13, <1>15, <1>16, <1>17, InstanceStep DEF InstanceInv

\* Whatever came home of the outputs, they are still as they were where the
\* command ran.
LEMMA PulledInv ==
  ASSUME IInv, NEW j \in Ids, OthersStay(j), at[j] = "pull", at'[j] = "check",
         failures'[j] \subseteq {<<"ssh">>}, UNCHANGED <<mirrored, ctx, args, ending>>,
         NEW paths, paths \subseteq Extracted(disk, Host(j), TestDir(j)), disk' = Pull(disk, paths),
         failures'[j] = {} => paths = Extracted(disk, Host(j), TestDir(j))
  PROVE  IInv'
<1> DEFINE from == Host(j)
<1>1. /\ FileInv /\ DiskInv /\ InstanceInv(j)
      /\ TestDir(j) # SharedDir /\ phase = "tests"
      /\ ctx[j] = ContextOf(j) /\ from # Here /\ Ran(j)
  <2>1. FileInv /\ DiskInv /\ InstanceInv(j)
    BY DEF IInv
  <2> QED
    BY <2>1, DeclaredTest DEF InstanceInv, FlowInv, Ran, OthersStay
<1>2. /\ tests' = tests /\ home' = home /\ phase' = phase
      /\ Host(j)' = from /\ ContextOf(j)' = ContextOf(j)
  BY NamesStay DEF OthersStay
<1>3. /\ \A p \in paths : p \in DOMAIN disk /\ p.m = from /\ p.dir = TestDir(j) /\ p.area = "outputs"
      /\ disk' = Over(Moved(disk, paths, Here), disk)
  BY DEF Extracted, Tree, Pull
<1> HIDE DEF from
<1>4. /\ IsDisk(disk')
      /\ \A p \in paths : /\ At(Here, p.dir, p.area, p.name) \in DOMAIN disk'
                          /\ disk'[At(Here, p.dir, p.area, p.name)] = disk[p]
      /\ \A q : q.m # Here \/ At(from, q.dir, q.area, q.name) \notin paths => SameAt(disk, disk', q)
      /\ \A q \in DOMAIN disk' : q \in DOMAIN disk \/ (q.m = Here /\ At(from, q.dir, q.area, q.name) \in paths)
  <2>1. IsDisk(disk) /\ AllOn(disk, from, paths)
    BY <1>1, <1>3 DEF DiskInv, AllOn
  <2> QED
    BY <1>3, <2>1, MovedOver
<1>5. DiskStays(j)
  <2>1. \A q : q.dir # TestDir(j) => SameAt(disk, disk', q)
    <3> SUFFICES ASSUME NEW q, q.dir # TestDir(j) PROVE At(from, q.dir, q.area, q.name) \notin paths
      BY <1>4
    <3> QED
      BY <1>3, Paths
  <2> QED
    BY <1>1, <1>4, <2>1 DEF DiskStays, FileInv
<1>6. FlowInv(j)'
  BY <1>1, <1>2 DEF FlowInv
<1>7. PlacesInv(j)'
  BY DEF PlacesInv
<1>8. \A q : q.m = from => SameAt(disk, disk', q)
  BY <1>1, <1>4
<1> DEFINE files == ending[j].files
           left  == Outputs(j, ending[j])
<1>9. /\ ending[j] \in Endings[tests[j].cmd]
      /\ ending[j].timedOut => tests[j].timeout > 0
      /\ OutputsOn(from, j) = DOMAIN left
      /\ \A p \in DOMAIN left : disk[p] = left[p]
      /\ \A n \in DOMAIN files : IsContent(files[n])
  BY <1>1, EndingKnown DEF InstanceInv, RanInv, from
<1>10. /\ \A q : q \in DOMAIN left <=> \E n \in DOMAIN files : q = At(from, TestDir(j), "outputs", n)
       /\ \A n \in DOMAIN files : left[At(from, TestDir(j), "outputs", n)].kind = files[n].kind
  BY <1>1, <1>9, OutputsPaths DEF from
<1>11. RanInv(j)'
  <2>1. Outputs(j, ending[j])' = left
    BY DEF Outputs
  <2>2. OutputsOn(Host(j), j)' = OutputsOn(from, j)
    BY <1>2, <1>8 DEF OutputsOn, SameAt
  <2>3. ASSUME NEW p \in DOMAIN left PROVE disk'[p] = left[p]
    <3>1. p \in DOMAIN disk /\ p.m = from
      BY <1>9 DEF OutputsOn
    <3> QED
      BY <1>8, <1>9, <3>1 DEF SameAt
  <2> HIDE DEF left
  <2> QED
    BY <1>1, <1>2, <1>9, <2>1, <2>2, <2>3 DEF RanInv
<1> HIDE DEF files, left
<1>12. ASSUME failures'[j] = {}
       PROVE  /\ OutputsOn(Here, j)' = {At(Here, TestDir(j), "outputs", n) : n \in {o \in DOMAIN files : files[o].kind # "link"}}
              /\ \A p \in OutputsOn(Here, j)' : disk'[p] = disk'[[p EXCEPT !.m = from]]
  <2> DEFINE copy(n) == At(Here, TestDir(j), "outputs", n)
             there(n) == At(from, TestDir(j), "outputs", n)
  <2>1. \A n : /\ copy(n).m = Here /\ copy(n).dir = TestDir(j) /\ copy(n).area = "outputs" /\ copy(n).name = n
               /\ there(n).m = from /\ there(n).dir = TestDir(j) /\ there(n).area = "outputs" /\ there(n).name = n
               /\ [copy(n) EXCEPT !.m = from] = there(n)
    BY Paths
  <2>2. \A n : there(n) \in paths <=> n \in DOMAIN files /\ files[n].kind # "link"
    <3> TAKE n
    <3>1. there(n) \in paths <=> there(n) \in OutputsOn(from, j) /\ disk[there(n)].kind # "link"
      <4> HIDE DEF there
      <4> QED
        BY <1>12, <2>1 DEF Extracted, Tree, OutputsOn, from
    <3>2. there(n) \in DOMAIN left <=> n \in DOMAIN files
      BY <1>10, Paths
    <3>3. n \in DOMAIN files => disk[there(n)].kind = files[n].kind
      BY <1>9, <1>10, <3>2
    <3> HIDE DEF there
    <3> QED
      BY <1>9, <3>1, <3>2, <3>3
  <2>3. OutputsOn(Here, j) = {}
    BY <1>1 DEF InstanceInv, CopiesInv
  <2>4. \A n : there(n) \in paths => /\ copy(n) \in OutputsOn(Here, j)'
                                     /\ disk'[copy(n)] = disk'[there(n)]
    <3> SUFFICES ASSUME NEW n, there(n) \in paths
                 PROVE  copy(n) \in OutputsOn(Here, j)' /\ disk'[copy(n)] = disk'[there(n)]
      OBVIOUS
    <3>1. copy(n) \in DOMAIN disk' /\ disk'[copy(n)] = disk[there(n)]
      BY <1>4, <2>1
    <3>2. disk'[there(n)] = disk[there(n)]
      BY <1>3, <1>8, <2>1 DEF SameAt
    <3> QED
      BY <2>1, <3>1, <3>2 DEF OutputsOn
  <2>5. ASSUME NEW p \in OutputsOn(Here, j)' PROVE p = copy(p.name) /\ there(p.name) \in paths
    <3>1. p \in DOMAIN disk' /\ p.m = Here /\ p.dir = TestDir(j) /\ p.area = "outputs"
      BY <2>5 DEF OutputsOn
    <3>2. p \notin DOMAIN disk
      BY <2>3, <3>1 DEF OutputsOn
    <3>3. there(p.name) \in paths
      BY <1>4, <3>1, <3>2
    <3>4. p = copy(p.name)
      BY <1>4, <3>1 DEF IsDisk, IsPath
    <3> QED
      BY <3>3, <3>4
  <2> HIDE DEF there
  <2>6. OutputsOn(Here, j)' = {copy(n) : n \in {o \in DOMAIN files : files[o].kind # "link"}}
    <3> HIDE DEF copy
    <3> QED
      BY <2>2, <2>4, <2>5
  <2>7. \A p \in OutputsOn(Here, j)' : disk'[p] = disk'[[p EXCEPT !.m = from]]
    BY <2>1, <2>4, <2>5
  <2> QED
    BY <2>6, <2>7
<1>13. CopiesInv(j)'
  BY <1>2, <1>12 DEF CopiesInv, files
<1>14. VerdictInv(j)'
  BY DEF VerdictInv
<1> QED
  BY <1>5, <1>6, <1>7, <1>11, <1>13, <1>14, InstanceStep DEF InstanceInv

LEMMA PullOutputsInv ==
  ASSUME IInv, NEW j \in Ids, PullOutputs(j)
  PROVE  IInv'
<1>1. OthersStay(j) /\ at[j] = "pull" /\ ctx[j].base = Host(j) /\ failures[j] = {} /\ at'[j] = "check"
  <2>1. OthersStay(j) /\ InstanceInv(j) /\ DOMAIN at = Ids /\ at[j] = "pull"
    BY SiblingsStay DEF Instance, PullOutputs, IInv, FileInv
  <2> QED
    BY <2>1 DEF PullOutputs, Goes, InstanceInv, FlowInv, ContextOf
<1>2. disk' = Pull(disk, Extracted(disk, Host(j), TestDir(j)))
  BY <1>1 DEF PullOutputs
<1> QED
  BY <1>1, <1>2, PulledInv DEF PullOutputs

LEMMA PullFailsInv ==
  ASSUME IInv, NEW j \in Ids, PullFails(j)
  PROVE  IInv'
<1>1. OthersStay(j) /\ at[j] = "pull" /\ ctx[j].base = Host(j) /\ at'[j] = "check" /\ failures'[j] = {<<"ssh">>}
  <2>1. OthersStay(j) /\ InstanceInv(j) /\ DOMAIN at = Ids /\ DOMAIN failures = Ids /\ at[j] = "pull"
    BY SiblingsStay DEF Instance, PullFails, IInv, FileInv
  <2> QED
    BY <2>1 DEF PullFails, Goes, Fails, InstanceInv, FlowInv, ContextOf
<1>2. PICK paths \in SUBSET Extracted(disk, Host(j), TestDir(j)) : disk' = Pull(disk, paths)
  BY <1>1 DEF PullFails
<1> QED
  BY <1>1, <1>2, PulledInv DEF PullFails

LEMMA CheckInv ==
  ASSUME IInv, NEW j \in Ids, Check(j)
  PROVE  IInv'
<1>1. /\ FileInv /\ InstanceInv(j) /\ OthersStay(j)
      /\ at[j] = "check" /\ at'[j] = "done" /\ UNCHANGED <<disk, mirrored, ctx, args, ending>>
      /\ failures'[j] = failures[j] \cup (IF ending[j].timedOut THEN {<<"timed out">>} ELSE Broken(j))
      /\ failures[j] \subseteq {<<"ssh">>} /\ Ran(j)
  <2>1. FileInv /\ InstanceInv(j) /\ OthersStay(j) /\ DOMAIN at = Ids /\ DOMAIN failures = Ids
    BY SiblingsStay DEF IInv, FileInv, Instance
  <2> QED
    BY <2>1 DEF Check, Goes, Fails, InstanceInv, FlowInv, Ran
<1>2. /\ tests' = tests /\ home' = home /\ phase' = phase /\ phase = "tests"
      /\ Host(j)' = Host(j) /\ ContextOf(j)' = ContextOf(j) /\ Declared(j)' = Declared(j)
  BY <1>1, NamesStay DEF OthersStay
<1>3. DiskStays(j)
  BY <1>1, QuietStep
<1>4. FlowInv(j)' /\ PlacesInv(j)' /\ CopiesInv(j)'
  BY <1>1, <1>2 DEF FlowInv, PlacesInv, CopiesInv
<1>5. RanInv(j)'
  <2>1. Outputs(j, ending[j])' = Outputs(j, ending[j])
    BY <1>1 DEF Outputs
  <2>2. \A m : OutputsOn(m, j)' = OutputsOn(m, j)
    BY <1>1 DEF OutputsOn
  <2> QED
    BY <1>1, <1>2, <2>1, <2>2 DEF InstanceInv, RanInv
<1>6. AssertionsHold(j)' = AssertionsHold(j)
  <2>1. \A n : LeftBehind(j, n)' = LeftBehind(j, n)
    BY <1>1, <1>2 DEF LeftBehind
  <2>2. /\ \A n \in DOMAIN Declared(j).files :
             FileHolds(LeftBehind(j, n), Declared(j).files[n])' <=> FileHolds(LeftBehind(j, n), Declared(j).files[n])
        /\ \A n \in DOMAIN Declared(j).notFiles :
             FileHolds(LeftBehind(j, n), Opposite(Declared(j).notFiles[n]))'
               <=> FileHolds(LeftBehind(j, n), Opposite(Declared(j).notFiles[n]))
    BY <1>2, <2>1 DEF FileHolds
  <2>3. AssertionsHold(j)' <=> AssertionsHold(j)
    BY <1>1, <1>2, <2>2 DEF AssertionsHold
  <2>4. AssertionsHold(j) \in BOOLEAN /\ AssertionsHold(j)' \in BOOLEAN
    BY DEF AssertionsHold
  <2> QED
    BY <2>3, <2>4
<1>7. /\ LostOnTheWay(j)' <=> LostOnTheWay(j)
      /\ NumbersInexact(j)' <=> NumbersInexact(j)
  BY <1>1, <1>2 DEF LostOnTheWay, NumbersInexact
<1>8. CASE ending[j].timedOut
  <2>1. <<"timed out">> \in failures'[j] \cap StepFailures
    BY <1>1, <1>8 DEF StepFailures
  <2>2. tests[j].timeout > 0
    BY <1>1, <1>8 DEF InstanceInv, RanInv
  <2>3. ~Unbounded(Declared(j).timeout)
    BY <1>1, <2>2, DeclaredTest, NoBoundNoTimeout DEF IsInstance
  <2>4. VerdictInv(j)'
    BY <1>2, <2>1, <2>3 DEF VerdictInv
  <2> QED
    BY <1>1, <1>3, <1>4, <1>5, <2>4, InstanceStep DEF InstanceInv
<1>9. CASE ~ending[j].timedOut
  <2>1. <<"timed out">> \notin failures'[j]
    BY <1>1, <1>9, BrokenIsNoTimeout
  <2>2. ASSUME <<"ssh">> \in failures[j] PROVE VerdictInv(j)'
    <3>1. <<"ssh">> \in failures'[j] \cap StepFailures
      BY <1>1, <2>2 DEF StepFailures
    <3> QED
      BY <2>1, <3>1 DEF VerdictInv
  <2>3. ASSUME <<"ssh">> \notin failures[j] PROVE VerdictInv(j)'
    <3>1. failures[j] = {} /\ failures'[j] = Broken(j)
      BY <1>1, <1>9, <2>3
    <3>2. ~LostOnTheWay(j) /\ ~NumbersInexact(j) => (Broken(j) = {} <=> AssertionsHold(j))
      BY <1>1, <3>1, VerdictReached
    <3>3. AssertionsHold(j) \in BOOLEAN
      BY DEF AssertionsHold
    <3>4. LostOnTheWay(j)' \/ NumbersInexact(j)' \/ (failures'[j] = {}) = AssertionsHold(j)'
      BY <1>6, <1>7, <3>1, <3>2, <3>3
    <3> QED
      BY <2>1, <3>4 DEF VerdictInv
  <2>4. VerdictInv(j)'
    BY <2>2, <2>3
  <2> QED
    BY <1>1, <1>3, <1>4, <1>5, <2>4, InstanceStep DEF InstanceInv
<1> QED
  BY <1>8, <1>9

\* The system at rest.
LEMMA RestInv == ASSUME IInv, UNCHANGED vars PROVE IInv'
<1>1. UNCHANGED <<doc, typed, phase, tests, home, disk, mirrored, at, ctx, args, ending, failures>>
  BY DEF vars, given, fileVars, instVars
<1>2. /\ Ids' = Ids /\ Shared' = Shared /\ SharedFiles' = SharedFiles /\ FromSetupNow' = FromSetupNow /\ (Parsed <=> Parsed')
      /\ \A i : /\ Host(i)' = Host(i) /\ Inputs(i)' = Inputs(i) /\ Declared(i)' = Declared(i)
                /\ ContextOf(i)' = ContextOf(i) /\ Placeholders(i)' = Placeholders(i)
  <2>1. UNCHANGED <<given, fileVars>>
    BY DEF vars
  <2> QED
    BY <2>1, NamesStay
<1>3. FileInv' /\ DiskInv' /\ SharedInv'
  <2>1. \A m, names : HasShared(m, names)' <=> HasShared(m, names)
    BY <1>1, <1>2 DEF HasShared, Has
  <2>2. FileInv' /\ DiskInv'
    BY <1>1, <1>2 DEF IInv, FileInv, DiskInv
  <2>3. SharedInv'
    BY <1>1, <1>2 DEF IInv, SharedInv, HasShared, Has
  <2> QED
    BY <2>2, <2>3
<1>4. ASSUME NEW i \in Ids PROVE InstanceInv(i)'
  <2>1. InstanceInv(i)
    BY DEF IInv
  <2>2. FlowInv(i)' /\ PlacesInv(i)'
    BY <1>1, <1>2, <2>1 DEF InstanceInv, FlowInv, PlacesInv, HasInputs, Has
  <2>3. /\ Ran(i)' <=> Ran(i)
        /\ Outputs(i, ending[i])' = Outputs(i, ending[i])
        /\ \A m : OutputsOn(m, i)' = OutputsOn(m, i)
    BY <1>1 DEF Ran, Outputs, OutputsOn
  <2>4. RanInv(i)' /\ CopiesInv(i)'
    BY <1>1, <1>2, <2>1, <2>3 DEF InstanceInv, RanInv, CopiesInv
  <2>5. VerdictInv(i)'
    BY <1>1, <1>2, <2>1 DEF InstanceInv, VerdictInv, LostOnTheWay, NumbersInexact, AssertionsHold, LeftBehind
  <2> QED
    BY <2>2, <2>4, <2>5 DEF InstanceInv
<1> QED
  BY <1>2, <1>3, <1>4 DEF IInv

-----------------------------------------------------------------------------
(***************************************************************************)
(* The theorems.                                                           *)
(***************************************************************************)
LEMMA NextInv == IInv /\ [Next]_vars => IInv'
<1> SUFFICES ASSUME IInv, [Next]_vars PROVE IInv'
  OBVIOUS
<1>1. CASE ParseFile \/ ParseFails \/ WriteShared \/ PushShared \/ RunSetup \/ SetupFails
  BY <1>1, ParseFileInv, ParseFailsInv, WriteSharedInv, PushSharedInv, RunSetupInv, SetupFailsInv
<1>2. ASSUME NEW j \in Ids, Instance(j) PROVE IInv'
  <2>1. CASE FixturesFail(j) \/ ScopeFails(j) \/ PushFails(j) \/ ExecutionFails(j)
    BY <2>1, FailsInv
  <2>2. CASE BuildFixtures(j)
    BY <2>2, BuildFixturesInv
  <2>3. CASE FindScope(j)
    BY <2>3, FindScopeInv
  <2>4. CASE PushFixtures(j)
    BY <2>4, PushFixturesInv
  <2>5. CASE Start(j)
    BY <2>5, StartInv
  <2>6. CASE EndCommand(j)
    BY <2>6, EndCommandInv
  <2>7. CASE PullOutputs(j)
    BY <2>7, PullOutputsInv
  <2>8. CASE PullFails(j)
    BY <2>8, PullFailsInv
  <2>9. CASE Check(j)
    BY <2>9, CheckInv
  <2> QED
    BY <1>2, <2>1, <2>2, <2>3, <2>4, <2>5, <2>6, <2>7, <2>8, <2>9 DEF Instance
<1>3. CASE Terminated \/ UNCHANGED vars
  BY <1>3, RestInv DEF Terminated
<1> QED
  BY <1>1, <1>2, <1>3 DEF Next

\* What RunTest keeps to at every step, whatever the documents, endings and
\* faults: shared/ is on every machine that has one as SetupSharedFixtures wrote
\* it but for what setup wrote at home; an instance's inputs are where its
\* command will look for them; what its command left is as it left it until the
\* verdict and after, and what PullOutputs brought home is a copy of it.
THEOREM Invariance == Spec => []IInv
BY InitInv, NextInv, PTL DEF Spec

\* While a command runs, the paths dats replaced its placeholders with
\* (expandPlaceholders, commandPath) are those of files on its own machine with
\* the content the suite declares, in no other instance's directory.
THEOREM FixturesReach == Spec => []FixturesReachTheCommand
BY Invariance, FixturesFollow, PTL

\* The list of failures RunTest returns is empty exactly if every step worked
\* and all the document asserts holds of what the command left where it ran, for
\* every document and every ending; a timeout is reported only of a test with one.
THEOREM VerdictsAreTrue == Spec => []VerdictIsTheTruth
<1>1. IInv => VerdictIsTheTruth
  BY DEF IInv, InstanceInv, VerdictInv, VerdictIsTheTruth
<1> QED
  BY <1>1, Invariance, PTL
=============================================================================
