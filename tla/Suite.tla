-------------------------------- MODULE Suite --------------------------------
(***************************************************************************)
(* What a .dats file says and what of it dats accepts: the decoders of     *)
(* schema/types.go, schema/ssh.go and schema/sandbox.go, and the rules of  *)
(* ParseFile.                                                              *)
(*                                                                         *)
(* A node is a tagged tuple: <<"null">>, <<"int", n>>, <<"float">>,        *)
(* <<"bool", b>>, <<"str", s>>, <<"seq", nodes>>, <<"map", pairs>> with    *)
(* the pairs <<key, node>> in order; <<"omitted">> stands for a key that   *)
(* is not there.  Strings are atoms, and the constants say what Go's       *)
(* string functions find in them.  A document has a node wherever dats has *)
(* a decoder of its own and a plain value where the YAML library decodes.  *)
(***************************************************************************)
EXTENDS Integers, SequencesExt

CONSTANTS
  Escaping,   (* names filepath.IsLocal refuses: absolute, or leaving by .. *)
  Atoi,       (* Atoi[s]: the integer strconv.Atoi reads                    *)
  Durations,  (* Durations[s]: what time.ParseDuration reads, in ms         *)
  Blank,      (* strings of white space only                                *)
  Redirects,  (* texts with a heredoc or a herestring                       *)
  BadTargets, (* no [user@]host, or one ssh reads as an option              *)
  Refs,       (* Refs[s]: the placeholders in s, where it has any           *)
  Filled      (* Filled[s]: what s becomes in the instances of its test,    *)
              (* where it has a placeholder of the test's matrix            *)

Omitted == <<"omitted">>

IsString(node) == node[1] = "str"
Keys(node)     == {node[2][k][1] : k \in DOMAIN node[2]}
RefsOf(s)      == IF s \in DOMAIN Refs THEN Refs[s] ELSE {}
HasMatrix(s)   == \E r \in RefsOf(s) : r.ns = "matrix"

\* The integer a scalar is, quoted or not; none, or one.
IntegerOf(node) ==
  IF node[1] = "int" THEN {node[2]}
  ELSE IF IsString(node) /\ node[2] \in DOMAIN Atoi THEN {Atoi[node[2]]}
  ELSE {}

-----------------------------------------------------------------------------
(***************************************************************************)
(* ExitCode, Duration.                                                     *)
(***************************************************************************)
ExitCodeNames == {"EXIT_SUCCESS", "EXIT_FAILURE"}

ValidExit(node) ==
  \/ node = Omitted
  \/ IntegerOf(node) # {} /\ IntegerOf(node) \subseteq 0 .. 255
  \/ IsString(node) /\ node[2] \in ExitCodeNames

ExitCode(node) ==
  IF IntegerOf(node) # {} THEN [value |-> CHOOSE n \in IntegerOf(node) : TRUE, variable |-> ""]
  ELSE [value |-> 0, variable |-> IF IsString(node) THEN node[2] ELSE ""]

\* A bare integer means seconds.
ValueOf(node) ==
  {1000 * n : n \in IntegerOf(node)}
    \cup (IF IsString(node) /\ node[2] \in DOMAIN Durations THEN {Durations[node[2]]} ELSE {})

ValidTimeout(node) == node = Omitted \/ \E d \in ValueOf(node) : d >= 0
Duration(node)     == IF node = Omitted THEN 0 ELSE CHOOSE d \in ValueOf(node) : TRUE

(***************************************************************************)
(* OutputCheck: patterns, or patterns by line.                             *)
(***************************************************************************)
LineKeys(node) == [k \in DOMAIN node[2] |-> Atoi[node[2][k][1]]]

\* "0" and "00" are two keys and one line.
LinesNamedOnce(node) ==
  /\ Keys(node) \subseteq DOMAIN Atoi
  /\ \A k \in DOMAIN node[2] : LineKeys(node)[k] >= 0
  /\ IsInjective(LineKeys(node))

ValidOutputCheck(node) ==
  \/ node[1] \in {"omitted", "null"}
  \/ node[1] = "seq" /\ \A k \in DOMAIN node[2] : IsString(node[2][k])
  \/ node[1] = "map" /\ LinesNamedOnce(node) /\ \A k \in DOMAIN node[2] : IsString(node[2][k][2])

OutputCheck(node) ==
  [patterns |-> IF node[1] = "seq" THEN {p[2] : p \in ToSet(node[2])} ELSE {},
   lines    |-> IF node[1] # "map" THEN <<>>
                ELSE [n \in ToSet(LineKeys(node)) |->
                        node[2][CHOOSE k \in DOMAIN node[2] : LineKeys(node)[k] = n][2][2]]]

ValidSnapshot(node) ==
  \/ node[1] \in {"omitted", "null", "bool"}
  \/ /\ node[1] = "map"
     /\ Keys(node) \subseteq {"stdout", "stderr"}
     /\ \A pair \in ToSet(node[2]) : pair[2][1] = "bool"
     /\ \E pair \in ToSet(node[2]) : pair[2][2]

(***************************************************************************)
(* Setup and teardown: a command, or a list of commands.                   *)
(***************************************************************************)
ValidCommand(node) == IsString(node) /\ node[2] \notin {""} \cup Blank \cup Redirects

ValidHookKey(key, node) ==
  CASE key = "cmd"        -> ValidCommand(node)
    [] key = "env"        -> node[1] = "map" /\ \A pair \in ToSet(node[2]) : IsString(pair[2])
    [] key = "stdin_file" -> IsString(node) /\ node[2] # ""
    [] key = "timeout"    -> node # Omitted /\ ValidTimeout(node) /\ Duration(node) > 0
    [] OTHER              -> FALSE

ValidHook(node) ==
  \/ ValidCommand(node)
  \/ /\ node[1] = "map"
     /\ "cmd" \in Keys(node)
     /\ \A pair \in ToSet(node[2]) : ValidHookKey(pair[1], pair[2])

ValidHooks(node) ==
  \/ node[1] \in {"omitted", "null"}
  \/ ValidCommand(node)
  \/ node[1] = "seq" /\ node[2] # <<>> /\ \A k \in DOMAIN node[2] : ValidHook(node[2][k])

Hooks(node) ==
  CASE node[1] = "seq" -> node[2] [] node[1] = "str" -> <<node>> [] OTHER -> <<>>

\* Every string of a hook in which ParseFile looks for a matrix placeholder.
HookTexts(hook) ==
  IF IsString(hook) THEN {hook[2]}
  ELSE UNION {IF pair[1] = "env" THEN {v[2][2] : v \in ToSet(pair[2][2])} ELSE {pair[2][2]} :
                pair \in {p \in ToSet(hook[2]) : p[1] # "timeout"}}

(***************************************************************************)
(* The machine and the sandbox.                                            *)
(***************************************************************************)
ValidTarget(node) == node = Omitted \/ (IsString(node) /\ node[2] \notin BadTargets)
TargetName(node)  == IF node = Omitted THEN "" ELSE node[2]

ValidSandbox(node) ==
  \/ node = Omitted
  \/ /\ node[1] = "map" /\ node[2] # <<>>
     /\ Keys(node) \subseteq {"network", "image"}
     /\ \A pair \in ToSet(node[2]) :
          IF pair[1] = "network" THEN pair[2][1] = "bool" ELSE IsString(pair[2]) /\ pair[2][2] # ""

Image(node) ==
  IF node = Omitted THEN {} ELSE {pair[2][2] : pair \in {p \in ToSet(node[2]) : p[1] = "image"}}

-----------------------------------------------------------------------------
(***************************************************************************)
(* ParseFile.                                                              *)
(***************************************************************************)
ValidCopyBlock(copy, files) ==
  /\ (DOMAIN copy \cup DOMAIN files) \cap Escaping = {}
  /\ \A name \in DOMAIN copy : copy[name] \notin {""} \cup Blank
  /\ DOMAIN copy \cap DOMAIN files = {}

Texts(block) == ToSet(block.files) \cup ToSet(block.copy)

ValidShared(block) ==
  DOMAIN block.files \cup DOMAIN block.copy # {} /\ ValidCopyBlock(block.copy, block.files)

\* Everything decided once for the file, where no instance's values exist.
OutsideTests(doc) ==
  (UNION {HookTexts(h) : h \in ToSet(Hooks(doc.setup) \o Hooks(doc.teardown))})
    \cup (UNION {Texts(block) : block \in ToSet(doc.shared)})
    \cup Image(doc.sandbox) \cup {TargetName(doc.ssh)}

ValidTest(test, doc) ==
  /\ test.cmd \notin {""} \cup Redirects
  /\ ValidExit(test.exit) /\ ValidTimeout(test.timeout) /\ ValidSnapshot(test.snapshot)
  /\ \A check \in {test.stdout, test.notStdout, test.stderr, test.notStderr} : ValidOutputCheck(check)
  /\ ValidTarget(test.ssh) /\ (test.ssh # Omitted => doc.ssh # Omitted)
  /\ ValidCopyBlock(test.inputs.copy, test.inputs.files)
  /\ (DOMAIN test.files \cup DOMAIN test.notFiles) \cap Escaping = {}

\* A matrix and the references to it are Matrix's.
Valid(doc) ==
  /\ ValidHooks(doc.setup) /\ ValidHooks(doc.teardown)
  /\ ValidTarget(doc.ssh) /\ ValidSandbox(doc.sandbox)
  /\ \A block \in ToSet(doc.shared) : ValidShared(block)
  /\ \A text \in OutsideTests(doc) : ~HasMatrix(text)
  /\ doc.tests # <<>>
  /\ \A test \in ToSet(doc.tests) : ValidTest(test, doc)

Decoded(test) ==
  [test EXCEPT !.exit = ExitCode(@), !.timeout = Duration(@), !.ssh = TargetName(@),
               !.stdout = OutputCheck(@), !.notStdout = OutputCheck(@),
               !.stderr = OutputCheck(@), !.notStderr = OutputCheck(@)]

\* The instances of a test, as far as they differ in what they copy.
InstancesOf(test) ==
  LET copy    == test.inputs.copy
      sources == ToSet(copy) \cap DOMAIN Filled
  IN IF sources = {} THEN <<test>>
     ELSE [k \in DOMAIN Filled[CHOOSE s \in sources : TRUE] |->
             [test EXCEPT !.inputs.copy =
                [n \in DOMAIN copy |-> IF copy[n] \in sources THEN Filled[copy[n]][k] ELSE copy[n]]]]

Tests(doc) == FlattenSeq([t \in DOMAIN doc.tests |-> InstancesOf(Decoded(doc.tests[t]))])
=============================================================================
