----------------------------- MODULE MCSshRemote -----------------------------
(***************************************************************************)
(* A file with one test at home and two that override to the same other    *)
(* host, which is home to a second file.                                   *)
(***************************************************************************)
EXTENDS SshRemote

MCHosts      == {"box", "arm"}
MCFileTarget == <<"box", "arm">>
MCOverride   == <<<<NoHost, "arm", "arm">>, <<NoHost>>>>
=============================================================================
