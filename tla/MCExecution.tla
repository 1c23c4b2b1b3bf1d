----------------------------- MODULE MCExecution -----------------------------
(***************************************************************************)
(* One command in each place a command can run.                            *)
(***************************************************************************)
EXTENDS Execution

MCBoundaries == {"host", "bwrap", "container", "remote"}
MCContainer  == {"container"}
=============================================================================
