------------------------------ MODULE Fixtures ------------------------------
(***************************************************************************)
(* The files a command is given and the ones it leaves: runner/fixtures.go *)
(* and the tar streams of runner/ssh_transport.go.                         *)
(*                                                                         *)
(* A disk is a function from the paths that exist, of all machines, to     *)
(* their contents.  A path is where it is and what it is called: the temp  *)
(* directory of the file, here or the one made for an ssh target, then the *)
(* number of the instance (0 for shared/), directory and name: below the   *)
(* temp directory every machine has the same layout.  A content has the    *)
(* patterns found in it and, separately, the paths written in it; a        *)
(* placeholder that is not replaced stays in it as it is.                  *)
(***************************************************************************)
EXTENDS Suite, Assertions

CONSTANTS
  Here,    (* the machine dats runs on                                      *)
  Source   (* Source[s]: what a copy source is, where there is one          *)

SharedDir == 0

\* Defect: the instance's number left out of the directory's name.
TestDirShared(i) == 1

TestDir(i) == i

At(m, dir, area, name) == [m |-> m, dir |-> dir, area |-> area, name |-> name]
File(text, refs) == [kind |-> "file", text |-> text, refs |-> refs]

\* A placeholder, and a file of the suite or of a command: what is written in it
\* are placeholders.
References   == [ns : STRING, name : STRING]
IsContent(c) == DOMAIN c = {"kind", "text", "refs"} /\ c.refs \subseteq References

\* The disk after some paths have been written, over what was there.
Over(written, disk) ==
  [p \in DOMAIN written \cup DOMAIN disk |->
     IF p \in DOMAIN written THEN written[p] ELSE disk[p]]

\* Following a symlink, on the machine the path is on.
Stat(disk, p) ==
  IF p \notin DOMAIN disk THEN Absent
  ELSE IF disk[p].kind # "symlink" THEN disk[p]
  ELSE LET targets == {t \in disk[p].refs \cap DOMAIN disk : t.m = p.m} IN
       IF targets = {} THEN Absent ELSE disk[CHOOSE t \in targets : TRUE]

-----------------------------------------------------------------------------
(***************************************************************************)
(* Placeholders.  ctx is the TestContext: the instance's number, the names *)
(* of its inputs, and the machine commandPath maps onto.                   *)
(***************************************************************************)
\* {shared.X}, as hooks and shared files see it: the only name space there.
ExpandShared(ref, base) ==
  IF ref.ns = "shared" /\ ref.name \notin Escaping
    THEN At(base, SharedDir, "shared", ref.name) ELSE ref

Expand(ref, ctx) ==
  CASE ref.ns = "inputs" /\ ref.name \in ctx.inputs ->
         At(ctx.base, TestDir(ctx.index), "inputs", ref.name)
    [] ref.ns = "outputs" /\ ref.name \notin Escaping ->
         At(ctx.base, TestDir(ctx.index), "outputs", ref.name)
    [] OTHER -> ExpandShared(ref, ctx.base)

-----------------------------------------------------------------------------
(***************************************************************************)
(* Building fixtures.  What a refused or failed setup leaves behind is not *)
(* looked at by anybody.                                                   *)
(***************************************************************************)
Refused(files, copy, outputs) ==
  \/ (DOMAIN files \cup DOMAIN copy \cup outputs) \cap Escaping # {}
  \/ DOMAIN files \cap DOMAIN copy # {}
  \/ \E name \in DOMAIN copy : copy[name] = ""

SourceOf(s) == IF s \in DOMAIN Source THEN Source[s] ELSE Absent

CopyFails(copy) == \E name \in DOMAIN copy : SourceOf(copy[name]).kind # "file"

\* Files have their placeholders replaced, copies are taken byte for byte.
Mentioned(block) == UNION {RefsOf(text) : text \in ToSet(block.files)}

Written(dir, area, block, expanded) ==
  [p \in {At(Here, dir, area, n) : n \in DOMAIN block.files \cup DOMAIN block.copy} |->
     IF p.name \in DOMAIN block.files
       THEN File({block.files[p.name]}, {expanded[r] : r \in RefsOf(block.files[p.name])})
       ELSE SourceOf(block.copy[p.name])]

NewContext(i, test) ==
  [index |-> i, base |-> Here,
   inputs |-> DOMAIN test.inputs.files \cup DOMAIN test.inputs.copy]

\* The context has no remote base yet: contents get paths of this machine.
SetupFixtures(disk, i, test) ==
  Over(Written(TestDir(i), "inputs", test.inputs,
               [r \in Mentioned(test.inputs) |-> Expand(r, NewContext(i, test))]), disk)

SetupSharedFixtures(disk, shared) ==
  Over(Written(SharedDir, "shared", shared,
               [r \in Mentioned(shared) |-> ExpandShared(r, Here)]), disk)

-----------------------------------------------------------------------------
(***************************************************************************)
(* Tar over ssh.                                                           *)
(***************************************************************************)
Tree(disk, m, dir) == {p \in DOMAIN disk : p.m = m /\ p.dir = dir}

Moved(disk, paths, m) ==
  [q \in {[p EXCEPT !.m = m] : p \in paths} |->
     disk[CHOOSE p \in paths : [p EXCEPT !.m = m] = q]]

\* The directory as it is here, links and modes included.
Push(disk, dir, m) == Over(Moved(disk, Tree(disk, Here, dir), m), disk)

\* extractTar knows directories, symlinks and regular files; a second name for
\* a file already in the stream is a hard link to it, which it passes over.
Extracted(disk, m, dir) ==
  {p \in Tree(disk, m, dir) : p.area = "outputs" /\ disk[p].kind # "link"}

\* Only the outputs come home, over whatever is there.
Pull(disk, paths) == Over(Moved(disk, paths, Here), disk)
=============================================================================
