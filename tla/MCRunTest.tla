----------------------------- MODULE MCRunTest ------------------------------
(***************************************************************************)
(* A suite for "alpha" of four instances that declare an input of the same *)
(* name: one that checks files, one on "beta" that expects a JSON          *)
(* document, and the instances of a copy source a matrix fills in, once    *)
(* with nothing, on "beta" too; the same without targets; a suite whose     *)
(* shared fixtures fail; and suites that break one rule of the parser.     *)
(***************************************************************************)
EXTENDS RunTest, TLC

MCSource == "conf.json" :> File({"conf"}, {})

MCExact == [lexeme \in {"1", "1.0", "1e0"} |-> "1"]
             @@ ("9007199254740992" :> "9007199254740992") @@ ("9007199254740993" :> "9007199254740993")
MCRounded == [lexeme \in {"1", "1.0", "1e0"} |-> "1"]
             @@ [lexeme \in {"9007199254740992", "9007199254740993"} |-> "9007199254740992"]

MCMarshalled == "1.0" :> "1"

MCAtoi      == ("0" :> 0) @@ ("00" :> 0) @@ ("1" :> 1) @@ ("-1" :> 0 - 1) @@ ("256" :> 256)
MCDurations == ("900ms" :> 900) @@ ("-5s" :> 0 - 5000)

Ref(ns, name) == [ns |-> ns, name |-> name]
MCRefs ==
  ("compare" :> {Ref("inputs", "in"), Ref("inputs", "conf"), Ref("inputs", "other"), Ref("outputs", "out"),
                 Ref("outputs", "../out"), Ref("shared", "base"), Ref("shared", "gen"), Ref("shared", "/etc")})
    @@ ("render" :> {Ref("inputs", "in"), Ref("outputs", "out"), Ref("shared", "conf"), Ref("shared", "gen")})
    @@ ("convert" :> {Ref("inputs", "in")})
    @@ ("one" :> {Ref("inputs", "in"), Ref("outputs", "out"), Ref("shared", "base")})
    @@ ("two" :> {Ref("shared", "conf")})
    @@ ("base" :> {Ref("shared", "conf"), Ref("inputs", "in")})
    @@ ("{matrix.src}" :> {Ref("matrix", "src")})
MCFilled == "{matrix.src}" :> <<"conf.json", "">>

Str(s)  == <<"str", s>>
Num(n)  == <<"int", n>>
Seq1(s) == <<"seq", <<Str(s)>>>>
Entries(pairs) == <<"map", pairs>>
Nothing == [kind \in {} |-> {}]
Checks(exists, match, notMatch) == [exists |-> exists, match |-> match, notMatch |-> notMatch]

BlankTest ==
  [cmd |-> "true", inputs |-> [files |-> Nothing, copy |-> Nothing, env |-> Nothing],
   ssh |-> Omitted, exit |-> Omitted, timeout |-> Omitted, snapshot |-> Omitted,
   stdout |-> Omitted, notStdout |-> Omitted, stderr |-> Omitted, notStderr |-> Omitted,
   json |-> <<"unset">>, files |-> Nothing, notFiles |-> Nothing]
BlankDoc ==
  [ssh |-> Omitted, sandbox |-> Omitted, setup |-> Omitted, teardown |-> Omitted,
   shared |-> <<>>, tests |-> <<BlankTest>>]

\* {"n": [n1, n2], rest}
Printed(n1, n2, rest) ==
  <<"value", (<<>> :> <<"obj">>) @@ (<<"n">> :> <<"arr">>)
               @@ (<<"n", "0">> :> <<"num", n1>>) @@ (<<"n", "1">> :> <<"num", n2>>) @@ rest>>
Null == <<"z">> :> <<"null">>

Compare ==
  [BlankTest EXCEPT
     !.cmd = "compare",
     !.inputs = [files |-> "in" :> "one", copy |-> "conf" :> "conf.json", env |-> "CONF" :> "two"],
     !.exit = Str("EXIT_FAILURE"), !.timeout = Str("900ms"),
     !.stdout = Entries(<<<<"00", Str("hello")>>>>),
     !.notStdout = Seq1("panic"),
     !.notStderr = Entries(<<<<"1", Str("warn")>>>>),
     !.files = "out" :> Checks("unset", {"done"}, {"err"}),
     !.notFiles = ("out" :> Checks("unset", {"panic"}, {})) @@ ("log" :> Checks("unset", {"err"}, {}))]

Render ==
  [BlankTest EXCEPT
     !.cmd = "render", !.inputs.files = "in" :> "two", !.ssh = Str("beta"), !.timeout = Str("0"),
     !.json = Printed("1.0", "9007199254740993", Null),
     !.notFiles = "core" :> Checks("unset", {}, {})]

Convert ==
  [BlankTest EXCEPT !.cmd = "convert", !.inputs.copy = "in" :> "{matrix.src}", !.ssh = Str("beta"),
                    !.exit = Str("0"), !.notFiles = "bin" :> Checks("unset", {"("}, {})]

Block == [files |-> "base" :> "base", copy |-> "conf" :> "conf.json"]
Remote ==
  [BlankDoc EXCEPT
     !.ssh = Str("alpha"), !.shared = <<Block>>,
     !.setup = <<"seq", <<Str("make gen"), Entries(<<<<"cmd", Str("seed")>>, <<"env", Entries(<<<<"A", Str("x")>>>>)>>,
                                                    <<"stdin_file", Str("conf.json")>>, <<"timeout", Num(5)>>>>)>>>>,
     !.teardown = Str("rm gen"), !.tests = <<Compare, Render, Convert>>]
Local ==
  [Remote EXCEPT !.ssh = Omitted, !.setup = Omitted, !.sandbox = Entries(<<<<"network", <<"bool", FALSE>>>>>>),
                 !.tests = <<Compare, [Render EXCEPT !.ssh = Omitted], [Convert EXCEPT !.ssh = Omitted]>>]

\* Two patterns for the first line, which one key each names: a suite no
\* decoder may reduce to one of them.
TwiceNamed ==
  [BlankDoc EXCEPT !.tests[1].cmd = "greet",
                   !.tests[1].stdout = Entries(<<<<"0", Str("hello")>>, <<"00", Str("world")>>>>)]

Test1(test) == [BlankDoc EXCEPT !.tests = <<test>>]
Malformed ==
  {TwiceNamed,
   [BlankDoc EXCEPT !.tests = <<>>],
   [BlankDoc EXCEPT !.shared = <<[files |-> <<>>, copy |-> <<>>]>>],
   [BlankDoc EXCEPT !.shared = <<[Block EXCEPT !.copy = "base" :> "conf.json"]>>],
   [BlankDoc EXCEPT !.shared = <<[Block EXCEPT !.copy = "conf" :> "{matrix.src}"]>>],
   [BlankDoc EXCEPT !.setup = <<"seq", <<>>>>],
   [BlankDoc EXCEPT !.setup = Entries(<<<<"cmd", Str("a")>>>>)],
   [BlankDoc EXCEPT !.setup = <<"seq", <<Entries(<<<<"cmd", Str("a")>>, <<"timeout", Num(0)>>>>)>>>>],
   [BlankDoc EXCEPT !.teardown = <<"seq", <<Entries(<<<<"env", Entries(<<>>)>>>>)>>>>],
   [BlankDoc EXCEPT !.teardown = <<"seq", <<Entries(<<<<"cmd", Str("a")>>, <<"cwd", Str("b")>>>>)>>>>],
   [BlankDoc EXCEPT !.ssh = <<"bool", FALSE>>],
   [BlankDoc EXCEPT !.ssh = Str("-oProxyCommand")],
   [BlankDoc EXCEPT !.sandbox = Entries(<<<<"enabled", <<"bool", FALSE>>>>>>)],
   [BlankDoc EXCEPT !.sandbox = Entries(<<<<"image", Str("{matrix.src}")>>>>)]}
  \cup {Test1(t) : t \in
     {[BlankTest EXCEPT !.cmd = "cat <<EOF"],
      [BlankTest EXCEPT !.exit = Str("256")], [BlankTest EXCEPT !.exit = <<"float">>],
      [BlankTest EXCEPT !.timeout = Str("-5s")],
      [BlankTest EXCEPT !.ssh = Str("beta")],
      [BlankTest EXCEPT !.inputs.copy = "in" :> " "],
      [BlankTest EXCEPT !.inputs.files = "../out" :> "one"],
      [BlankTest EXCEPT !.files = "/etc" :> Checks("true", {}, {})],
      [BlankTest EXCEPT !.stdout = Entries(<<<<"-1", Str("hello")>>>>)],
      [BlankTest EXCEPT !.stderr = <<"seq", <<Num(1)>>>>],
      [BlankTest EXCEPT !.snapshot = Entries(<<<<"stdout", <<"bool", FALSE>>>>>>)]}}

\* Accepted, but what it shares cannot be copied.
Gone == [BlankDoc EXCEPT !.shared = <<[files |-> Nothing, copy |-> "conf" :> "gone.txt"]>>]

MCDocuments == {Remote, Local, Gone} \cup Malformed

Ended == [timedOut |-> FALSE, exit |-> 0, stdout |-> <<>>, stderr |-> <<>>,
          json |-> <<"invalid">>, files |-> Nothing, patches |-> {}]

Out(kind, text) == [kind |-> kind, text |-> text, refs |-> {}]
Good == [Ended EXCEPT !.exit = 1, !.stdout = <<{"hello"}, {}>>, !.stderr = <<{"warn"}, {}>>,
                      !.files = "out" :> Out("file", {"done"}), !.patches = {"in"}]
MCEndings ==
  ("compare" :>
    {Good,
     [Good EXCEPT !.exit = 0],
     [Good EXCEPT !.stderr = <<{}, {"warn"}>>],
     [Good EXCEPT !.files = "out" :> Out("file", {"done", "err"})],
     [Good EXCEPT !.files = @ @@ ("log" :> Out("dir", {}))],
     [Good EXCEPT !.files = ("log" :> Out("file", {})) @@ ("out" :> [Out("symlink", {}) EXCEPT !.refs = {Ref("inputs", "conf")}])],
     [Good EXCEPT !.files = ("data" :> Out("file", {"done"})) @@ ("out" :> Out("link", {"done"}))],
     [Good EXCEPT !.timedOut = TRUE]})
  @@ ("render" :>
    {[Ended EXCEPT !.json = j] : j \in
       {Printed("1e0", "9007199254740993", Null), Printed("1.0", "9007199254740992", Null),
        Printed("1.0", "9007199254740993", Nothing), <<"trailing">>}}
      \cup {[Ended EXCEPT !.json = Printed("1.0", "9007199254740993", Null), !.files = "core" :> Out(k, {})] : k \in {"file", "loop"}}
      \cup {[Ended EXCEPT !.timedOut = TRUE]})
  @@ ("convert" :> {Ended, [Ended EXCEPT !.patches = {"in"}, !.files = "bin" :> Out("file", {})]})
  @@ ("greet" :> {[Ended EXCEPT !.stdout = <<{"hello"}>>], [Ended EXCEPT !.stdout = <<{"world"}>>],
                  [Ended EXCEPT !.stdout = <<{"hello", "world"}>>]})
  @@ ("true" :> {Ended})
=============================================================================
