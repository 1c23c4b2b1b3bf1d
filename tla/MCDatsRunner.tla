---------------------------- MODULE MCDatsRunner ----------------------------
(***************************************************************************)
(* Two files: the first has two setup commands and more tests than there   *)
(* are slots, so its instances queue; the second, a test without hooks,    *)
(* competes for the slots.                                                 *)
(***************************************************************************)
EXTENDS Reports

MCSetup    == <<2, 0>>
MCTests    == <<3, 1>>
MCTeardown == <<2, 0>>

\* A test whose fixtures may fail, and a teardown command whose stdin_file may
\* be gone.
MCMayNotStart == {<<1, "tests", 2>>, <<1, "teardown", 1>>}

\* A test without a timeout that may never exit.
MCMayHang == {<<1, "tests", 1>>}
=============================================================================
