------------------------------- MODULE MCWatch -------------------------------
(***************************************************************************)
(* One subdirectory beside the root: enough for a directory to appear      *)
(* while the watcher is being rebuilt, and for the last suite in scope to  *)
(* go away while another place is still watched.                           *)
(***************************************************************************)
EXTENDS Watch

MCSubDirs == {"sub"}

Environment(n, endless, faults) ==
  [changes |-> n, endless |-> endless, faults |-> faults]
MCCalm == {Environment(2, FALSE, {})}
MCEnvironments ==
  {Environment(2, FALSE, {"NewWatcher"}), Environment(0, FALSE, {"Add"}), Environment(0, TRUE, {})}
=============================================================================
