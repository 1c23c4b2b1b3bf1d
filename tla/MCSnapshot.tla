------------------------------ MODULE MCSnapshot ------------------------------
(***************************************************************************)
(* A suite whose two instances share a slug, one with a number and one     *)
(* with its spelling in quotes; the same with a test before it; one with   *)
(* both streams; one with two variables of which a value looks like the    *)
(* other; and two that do not parse, one naming a variable it has not, one *)
(* with a number beside the text it becomes.                               *)
(***************************************************************************)
EXTENDS Snapshot

Var(name, values) == [name |-> name, values |-> values]
Test(desc, matrix, text, streams) ==
  [desc |-> desc, matrix |-> matrix, text |-> text, streams |-> streams]

Version == Var("version", <<<<"number", "1.50">>, <<"text", "1.50">>>>)
Twice   == Var("version", <<<<"number", "1.50">>, <<"text", "1.5">>>>)
Flag    == Var("flag", <<<<"text", "old">>, <<"matrix", "version">>>>)

Builds  == Test("builds some version", <<Version>>, <<<<"text", "make">>, <<"matrix", "version">>>>, <<"stdout">>)
Renders == Test("renders", <<>>, <<<<"text", "report">>>>, <<"stdout", "stderr">>)
Fleet   == Test("builds every version", <<Flag, Version>>,
                <<<<"matrix", "flag">>, <<"matrix", "version">>>>, <<>>)
Plain   == Test("renders", <<>>, <<<<"text", "report">>>>, <<>>)
Broken  == Test("renders", <<>>, <<<<"matrix", "version">>>>, <<"stdout">>)
Doubled == Test("builds some version", <<Twice>>, <<<<"matrix", "version">>>>, <<"stdout">>)

MCWritten   == {<<Builds>>, <<Plain, Builds>>, <<Renders>>, <<Fleet>>, <<Broken>>, <<Doubled>>}
MCText      == [spelling \in {"1.50"} |-> "1.5"]
MCSlug      == [d \in Descs |-> IF d = "renders" THEN "renders" ELSE "builds"]
MCTruncated == {"builds some version"}
=============================================================================
