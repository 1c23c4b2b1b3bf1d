----------------------------- MODULE Assertions -----------------------------
(***************************************************************************)
(* What a test asserts of its command: runner/assert.go, the comparison of *)
(* runner/jsonoutput.go, checkFile and the block of RunTest that calls     *)
(* them.  Every operator returns the set of failures it reports; a test    *)
(* passes when the union is empty.                                         *)
(*                                                                         *)
(* A text is a sequence of lines and a line, like a file's content, is the *)
(* set of patterns found in it, so that a substring and a regex are both   *)
(* membership.  A JSON value is a function from the places in it to what   *)
(* stands there, <<"null">>, <<"bool", b>>, <<"num", lexeme>>, <<"str",    *)
(* s>>, <<"arr">> or <<"obj">>: the value is at <<>>, its member or        *)
(* element k at <<k>>, and so on, an index written as a string.            *)
(***************************************************************************)
EXTENDS Naturals, Sequences

CONSTANTS
  BadRegexes,  (* patterns that regexp.Compile refuses                      *)
  Exact,       (* Exact[lexeme]: the number a JSON lexeme denotes, where    *)
               (* big.Rat accepts its exponent                              *)
  Rounded,     (* Rounded[lexeme]: the nearest float64, where it is finite  *)
  Marshalled   (* Marshalled[lexeme]: what json.Marshal makes of a number   *)
               (* the YAML of the suite holds as a float64                  *)

\* A declared file of the outputs directory, as os.Stat and os.ReadFile see
\* it: absent, a regular file, a directory, a symlink loop, or a file with a
\* second name (a hard link), which reads like any other.
Absent == [kind |-> "absent", text |-> {}, refs |-> {}]
Exists(state)   == state.kind \in {"file", "dir", "link"}
Readable(state) == state.kind \in {"file", "link"}

-----------------------------------------------------------------------------
(***************************************************************************)
(* Exit code and streams.                                                  *)
(***************************************************************************)
\* An expected code is a number or a symbolic name, never both.
ExitCodeOf(expected) ==
  IF expected.variable = "EXIT_SUCCESS" THEN 0
  ELSE IF expected.variable = "EXIT_FAILURE" THEN 1
  ELSE expected.value

AssertExitCode(actual, expected) ==
  IF actual = ExitCodeOf(expected) THEN {} ELSE {<<"exit", actual>>}

Found(lines, pattern) == \E n \in DOMAIN lines : pattern \in lines[n]

AssertContains(lines, pattern) == IF Found(lines, pattern) THEN {} ELSE {<<"contain", pattern>>}
RefuteContains(lines, pattern) == IF Found(lines, pattern) THEN {<<"not contain", pattern>>} ELSE {}

\* Line checks are keyed from 0.
Line(lines, n)    == lines[n + 1]
HasLine(lines, n) == n < Len(lines)

AssertLineRegex(lines, n, pattern) ==
  IF HasLine(lines, n) /\ pattern \notin BadRegexes /\ pattern \in Line(lines, n)
    THEN {} ELSE {<<"line", n>>}

RefuteLineRegex(lines, n, pattern) ==
  IF pattern \in BadRegexes \/ (HasLine(lines, n) /\ pattern \in Line(lines, n))
    THEN {<<"not line", n>>} ELSE {}

\* A stream is checked by patterns or by lines, never by both.
CheckStream(lines, check) ==
  (UNION {AssertContains(lines, p) : p \in check.patterns})
    \cup (UNION {AssertLineRegex(lines, n, check.lines[n]) : n \in DOMAIN check.lines})

RefuteStream(lines, check) ==
  (UNION {RefuteContains(lines, p) : p \in check.patterns})
    \cup (UNION {RefuteLineRegex(lines, n, check.lines[n]) : n \in DOMAIN check.lines})

-----------------------------------------------------------------------------
(***************************************************************************)
(* Output files.                                                           *)
(***************************************************************************)
AssertFileExists(state) == IF Exists(state) THEN {} ELSE {<<"exist">>}
RefuteFileExists(state) == IF state.kind = "absent" THEN {} ELSE {<<"not exist">>}

AssertFileContains(state, patterns) ==
  IF ~Readable(state) THEN {<<"read">>}
  ELSE {<<"match", p>> : p \in {q \in patterns : q \in BadRegexes \/ q \notin state.text}}

\* Defect: whatever cannot be read contains nothing.
RefuteFileContainsUnread(state, patterns) ==
  IF ~Readable(state) THEN {}
  ELSE {<<"not match", p>> : p \in {q \in patterns : q \in BadRegexes \/ q \in state.text}}

\* Only a file that does not exist refutes every pattern.
RefuteFileContains(state, patterns) ==
  IF state.kind = "absent" THEN {}
  ELSE IF ~Readable(state) THEN {<<"read">>}
  ELSE {<<"not match", p>> : p \in {q \in patterns : q \in BadRegexes \/ q \in state.text}}

IsEmpty(check) == check.exists = "unset" /\ check.match = {} /\ check.notMatch = {}

\* An empty check is about existence; !files swaps each assertion for its
\* opposite.  Without patterns a file is not read.
CheckFile(state, check, negate) ==
  LET exists == IF IsEmpty(check) THEN "true" ELSE check.exists
      wanted == (exists = "true") # negate
      assertContains(ps) == IF ps = {} THEN {} ELSE AssertFileContains(state, ps)
      refuteContains(ps) == IF ps = {} THEN {} ELSE RefuteFileContains(state, ps)
  IN (IF exists = "unset" THEN {}
      ELSE IF wanted THEN AssertFileExists(state) ELSE RefuteFileExists(state))
     \cup (IF negate THEN refuteContains(check.match) \cup assertContains(check.notMatch)
           ELSE assertContains(check.match) \cup refuteContains(check.notMatch))

-----------------------------------------------------------------------------
(***************************************************************************)
(* json_output.                                                            *)
(***************************************************************************)
\* Exactly, unless an exponent is out of big.Rat's range.
NumbersEqual(a, b) ==
  \/ a = b
  \/ IF {a, b} \subseteq DOMAIN Exact THEN Exact[a] = Exact[b]
     ELSE {a, b} \subseteq DOMAIN Rounded /\ Rounded[a] = Rounded[b]

\* The value itself, and all that a place is inside of.
Enclosing(p) == {SubSeq(p, 1, n) : n \in 0 .. (Len(p) - 1)}

\* What a decoder may return: only objects and arrays have something inside.
IsJSON(v) ==
  /\ <<>> \in DOMAIN v
  /\ DOMAIN v \subseteq Seq(STRING)
  /\ \A p \in DOMAIN v : v[p][1] \in {"obj", "arr"} => v[p] = <<v[p][1]>>
  /\ \A p \in DOMAIN v : \A q \in Enclosing(p) : q \in DOMAIN v /\ v[q][1] \in {"obj", "arr"}

\* The keys of an object's members, the indices of an array's elements.
Members(v, p) == {k \in {q[Len(q)] : q \in DOMAIN v \ {<<>>}} : Append(p, k) \in DOMAIN v}

\* compareJSON descends into two values of one type, to what both have.
Compared(expected, actual) ==
  {p \in DOMAIN expected \cap DOMAIN actual :
     \A q \in Enclosing(p) : expected[q][1] = actual[q][1]}

DifferencesAt(p, expected, actual) ==
  LET exp == Members(expected, p)  act == Members(actual, p) IN
  IF expected[p][1] # actual[p][1] THEN {<<"json", p, "type">>}
  ELSE CASE expected[p][1] = "obj" ->
              {<<"json", p, "missing", k>> : k \in exp \ act}
                \cup {<<"json", p, "unexpected", k>> : k \in act \ exp}
         [] expected[p][1] = "arr" ->
              IF exp = act THEN {} ELSE {<<"json", p, "length">>}
         [] expected[p][1] = "num" ->
              IF NumbersEqual(expected[p][2], actual[p][2]) THEN {} ELSE {<<"json", p, "value">>}
         [] OTHER -> IF expected[p] = actual[p] THEN {} ELSE {<<"json", p, "value">>}

\* Every difference, with the path to it.
CompareJSON(expected, actual) ==
  UNION {DifferencesAt(p, expected, actual) : p \in Compared(expected, actual)}

\* The expected value becomes JSON: a number YAML reads as a float64 is written
\* anew, any other keeps its digits.
AsJSON(lexeme) == IF lexeme \in DOMAIN Marshalled THEN Marshalled[lexeme] ELSE lexeme
CanonicalizeJSON(v) ==
  [p \in DOMAIN v |-> IF v[p][1] = "num" THEN <<"num", AsJSON(v[p][2])>> ELSE v[p]]

\* What was printed is <<"value", v>>, or no JSON, or JSON with something behind
\* it; what is expected is <<"value", v>> or cannot be written as JSON (.nan).
AssertJSONOutput(stdout, expected) ==
  IF expected[1] # "value" THEN {<<"json", expected[1]>>}
  ELSE IF stdout[1] # "value" THEN {<<"json", stdout[1]>>}
  ELSE CompareJSON(CanonicalizeJSON(expected[2]), stdout[2])
=============================================================================
