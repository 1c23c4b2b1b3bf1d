------------------------------- MODULE SshTrust -------------------------------
(***************************************************************************)
(* The approval list of the file-level ssh key: internal/sshtrust and its  *)
(* callers in cmd/trust.go.  Every operation loads the whole list, decides *)
(* and perhaps asks, changes its copy, and replaces the file by a rename;  *)
(* nothing is locked in between.  The operations of one run belong to its  *)
(* files' goroutines (SSHManager.Resolve, and altScope for overrides),     *)
(* others are dats trust commands in processes of their own.               *)
(*                                                                         *)
(* A pair is the normalized path of a .dats file and an ssh target; the    *)
(* operations are given a path as it was typed or discovered.              *)
(***************************************************************************)
CONSTANTS
  Files, Targets,
  Spellings,    (* paths that lead to the files                             *)
  Key,          (* Key[s]: the absolute, symlink-resolved path of s         *)
  Actors,       (* operations under way at once                             *)
  Overlap       (* whether an operation may begin while another is under way *)

Pairs == Files \X Targets

ASSUME ConstantsAssumption ==
  /\ Key \in [Spellings -> Files]
  /\ Overlap \in BOOLEAN

\* An operation: who asks for what.  A run asks before it connects.
Operations == {"run", "add", "remove"} \X Spellings \X Targets

None == <<>>

VARIABLES
  disk,         (* the approvals in ssh-trust.json                          *)
  at,           (* where each actor is                                      *)
  op,           (* its operation                                            *)
  store,        (* the Store it loaded                                      *)
  told,         (* how its last operation ended                             *)
  recorded,     (* history: pairs reported approved and not withdrawn since *)
  consented     (* history: pairs somebody ever approved                    *)

vars == <<disk, at, op, store, told, recorded, consented>>

Init ==
  /\ disk \in SUBSET Pairs
  /\ at = [a \in Actors |-> "idle"]
  /\ op = [a \in Actors |-> None]
  /\ store = [a \in Actors |-> {}]
  /\ told = [a \in Actors |-> "nothing"]
  /\ recorded = disk
  /\ consented = disk

PairOf(a) == <<Key[op[a][2]], op[a][3]>>

-----------------------------------------------------------------------------
MayBegin(a) ==
  /\ at[a] = "idle"
  /\ ~Overlap => \A b \in Actors : at[b] = "idle"

\* Load; a missing file is an empty list.
Load(a) ==
  /\ MayBegin(a)
  /\ \E o \in Operations : op' = [op EXCEPT ![a] = o]
  /\ store' = [store EXCEPT ![a] = disk]
  /\ at' = [at EXCEPT ![a] = "loaded"]
  /\ told' = [told EXCEPT ![a] = "nothing"]
  /\ UNCHANGED <<disk, recorded, consented>>

\* The operation returns: "done" without an error, "refused" with one.
Finish(a, answer) ==
  /\ at' = [at EXCEPT ![a] = "idle"]
  /\ op' = [op EXCEPT ![a] = None]
  /\ store' = [store EXCEPT ![a] = {}]
  /\ told' = [told EXCEPT ![a] = answer]
  /\ UNCHANGED consented

\* The list cannot be read or parsed: the operation is refused, and the file is
\* left for its owner to repair.
LoadFails(a) ==
  /\ MayBegin(a)
  /\ Finish(a, "refused")
  /\ UNCHANGED <<disk, recorded>>

\* Defect: the host alone identifies an approval.
MatchesHost(entry, pair) == entry[2] = pair[2]

\* entry.File == key && entry.Target == target
Matches(entry, pair) == entry = pair

InStore(a) == \E e \in store[a] : Matches(e, PairOf(a))

\* approveSSHTarget for an approved pair and Approve for a recorded one write
\* nothing.
NothingToDo(a) ==
  /\ at[a] = "loaded"
  /\ op[a][1] \in {"run", "add"}
  /\ InStore(a)
  /\ Finish(a, "done")
  /\ UNCHANGED <<disk, recorded>>

\* trust remove of a pair that is not there is an error.
NothingToRemove(a) ==
  /\ at[a] = "loaded"
  /\ op[a][1] = "remove"
  /\ ~InStore(a)
  /\ Finish(a, "refused")
  /\ UNCHANGED <<disk, recorded>>

\* Nobody is at a terminal to ask.
NotApproved(a) ==
  /\ at[a] = "loaded"
  /\ op[a][1] = "run"
  /\ ~InStore(a)
  /\ Finish(a, "refused")
  /\ UNCHANGED <<disk, recorded>>

\* The prompt; the store stays as it was loaded while the user thinks.
Ask(a) ==
  /\ at[a] = "loaded"
  /\ op[a][1] = "run"
  /\ ~InStore(a)
  /\ at' = [at EXCEPT ![a] = "asking"]
  /\ UNCHANGED <<disk, op, store, told, recorded, consented>>

\* Approve appends to the copy, and goes on to save it.
Grant(a) ==
  /\ store' = [store EXCEPT ![a] = @ \cup {PairOf(a)}]
  /\ at' = [at EXCEPT ![a] = "saving"]
  /\ consented' = consented \cup {PairOf(a)}
  /\ UNCHANGED <<disk, op, told, recorded>>

AnswerYes(a) == at[a] = "asking" /\ Grant(a)

\* Anything else, and an answer that cannot be read.
AnswerNo(a) ==
  /\ at[a] = "asking"
  /\ Finish(a, "refused")
  /\ UNCHANGED <<disk, recorded>>

Add(a) ==
  /\ at[a] = "loaded"
  /\ op[a][1] = "add"
  /\ ~InStore(a)
  /\ Grant(a)

Remove(a) ==
  /\ at[a] = "loaded"
  /\ op[a][1] = "remove"
  /\ InStore(a)
  /\ store' = [store EXCEPT ![a] = {e \in @ : ~Matches(e, PairOf(a))}]
  /\ at' = [at EXCEPT ![a] = "saving"]
  /\ UNCHANGED <<disk, op, told, recorded, consented>>

\* save: the temp file is written in full and renamed over the list.
Save(a) ==
  /\ at[a] = "saving"
  /\ disk' = store[a]
  /\ recorded' = IF op[a][1] = "remove" THEN recorded \ {PairOf(a)}
                                        ELSE recorded \cup {PairOf(a)}
  /\ Finish(a, "done")

\* Any step of save before the rename fails: the list is as it was.
SaveFails(a) ==
  /\ at[a] = "saving"
  /\ Finish(a, "refused")
  /\ UNCHANGED <<disk, recorded>>

Next ==
  \E a \in Actors :
    \/ Load(a) \/ LoadFails(a) \/ NothingToDo(a) \/ NothingToRemove(a) \/ NotApproved(a)
    \/ Ask(a) \/ AnswerYes(a) \/ AnswerNo(a) \/ Add(a) \/ Remove(a) \/ Save(a) \/ SaveFails(a)

Spec == Init /\ [][Next]_vars

-----------------------------------------------------------------------------
(***************************************************************************)
(* Properties.                                                             *)
(***************************************************************************)

\* Every variable ranges over what the code can store in it, and an actor has an
\* operation exactly while one is under way.
TypeOK ==
  /\ disk \subseteq Pairs
  /\ at \in [Actors -> {"idle", "loaded", "asking", "saving"}]
  /\ op \in [Actors -> Operations \cup {None}]
  /\ \A a \in Actors : op[a] = None <=> at[a] = "idle"
  /\ store \in [Actors -> SUBSET Pairs]
  /\ told \in [Actors -> {"nothing", "done", "refused"}]
  /\ recorded \subseteq Pairs
  /\ consented \subseteq Pairs

\* docs/file-format.md:131, a pair "has to be approved once": a pair reported as
\* approved, and not withdrawn since, is on the list, so that no run asks for it
\* again.
ApprovedOnce == recorded \subseteq disk

\* However operations overlap, and whatever they overwrite of one another, a run
\* is let through to a host only if somebody approved that file for that host at
\* some time: no lost, repeated or resurrected write invents a pair.
ConsentComesFirst ==
  [][\A a \in Actors :
       op[a] # None /\ op[a][1] = "run" /\ told[a] = "nothing" /\ told'[a] = "done"
         => PairOf(a) \in consented']_vars

\* What the user of an operation has asked for: after the answer "y" a run is a
\* request to add its pair.
Asked(a) ==
  IF at[a] = "idle" THEN None
  ELSE IF at[a] = "saving" /\ op[a][1] = "run" THEN <<"add", PairOf(a)>>
  ELSE <<op[a][1], PairOf(a)>>

\* The list is the set of pairs its users approved: it changes by the pair of the
\* operation under way and as that operation asked, a run is let through where its
\* own pair is on the list, and a refused operation has changed nothing.
Trust == INSTANCE TrustStore WITH Users <- Actors, approvals <- disk,
                                  asked <- [a \in Actors |-> Asked(a)], told <- told
StoreSpec == Trust!Spec
=============================================================================
