------------------------------ MODULE MCSshTrust ------------------------------
(***************************************************************************)
(* Two files, one of them reached by two paths, two hosts, and two         *)
(* operations at once.                                                     *)
(***************************************************************************)
EXTENDS SshTrust

MCFiles   == {"/a.dats", "/b.dats"}
MCSpellings == {"a.dats", "./a.dats", "b.dats"}
MCKey == [s \in MCSpellings |-> IF s = "b.dats" THEN "/b.dats" ELSE "/a.dats"]
MCTargets == {"home", "arm"}
MCActors  == {"first", "second"}
=============================================================================
