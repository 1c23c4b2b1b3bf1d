------------------------------ MODULE MCSandbox ------------------------------
(***************************************************************************)
(* Two local files and a remote one between them, of which each narrows    *)
(* its sandbox or moves its tests in another way; a file that is refused;  *)
(* every machine; every mode, with and without a target and an image.      *)
(***************************************************************************)
EXTENDS Sandbox

File(ssh, tests, network, image) ==
  [ssh |-> ssh, tests |-> tests, network |-> network, image |-> image]

MCCorpora == {<<File("", {}, TRUE, "alpine"),
                File("build@box", {"arm@box", "build@box"}, TRUE, ""),
                File("", {}, FALSE, "")>>,
              <<File("", {"arm@box"}, TRUE, "")>>}
MCMachines == SUBSET Features
MCTyped == [mode : Modes, ssh : {"", "typed@box"}, image : {"", "pinned"}]
=============================================================================
