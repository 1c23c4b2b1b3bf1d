---------------------------- MODULE SshTrust_proofs ----------------------------
(***************************************************************************)
(* Theorems about SshTrust, for every set of files, hosts, spellings and   *)
(* actors.  However operations overlap, no run is let through without an   *)
(* approval.  As long as no operation begins while another is under way,   *)
(* the list implements TrustStore and an approval is recorded for good.    *)
(* The run SshTrustOverlap shows that the condition is needed: what is     *)
(* proved here is that it is the only one.                                 *)
(***************************************************************************)
EXTENDS SshTrust, TLAPS

-----------------------------------------------------------------------------
(***************************************************************************)
(* Types, and the source of every pair: whether or not operations overlap. *)
(***************************************************************************)

\* Whatever is on the list, in a copy of it, or about to be written was approved by
\* somebody.
ConsentInv ==
  /\ disk \subseteq consented
  /\ \A a \in Actors : store[a] \subseteq consented
  /\ \A a \in Actors : at[a] = "saving" /\ op[a][1] = "run" => PairOf(a) \in consented

CInv == TypeOK /\ ConsentInv

\* The paths of a pair are normalized: what an operation names is a pair.
LEMMA PairType ==
  ASSUME TypeOK, NEW a \in Actors, at[a] # "idle"
  PROVE  PairOf(a) \in Pairs /\ op[a] \in Operations
<1>1. op[a] \in Operations
  BY DEF TypeOK
<1> QED
  BY <1>1, ConstantsAssumption DEF Operations, PairOf, Pairs

\* What the end of an operation leaves behind.
LEMMA FinishEffect ==
  ASSUME TypeOK, NEW a \in Actors, NEW answer \in {"done", "refused"}, Finish(a, answer),
         disk' \subseteq Pairs, recorded' \subseteq Pairs
  PROVE  /\ TypeOK'
         /\ at'[a] = "idle" /\ op'[a] = None /\ store'[a] = {} /\ told'[a] = answer
         /\ \A b \in Actors \ {a} : /\ at'[b] = at[b] /\ op'[b] = op[b]
                                    /\ store'[b] = store[b] /\ told'[b] = told[b]
                                    /\ PairOf(b)' = PairOf(b)
         /\ UNCHANGED consented
<1>1. /\ at'[a] = "idle" /\ op'[a] = None /\ store'[a] = {} /\ told'[a] = answer
      /\ \A b \in Actors \ {a} : /\ at'[b] = at[b] /\ op'[b] = op[b]
                                 /\ store'[b] = store[b] /\ told'[b] = told[b]
      /\ UNCHANGED consented
  BY DEF Finish, TypeOK
<1>2. /\ at' \in [Actors -> {"idle", "loaded", "asking", "saving"}]
      /\ op' \in [Actors -> Operations \cup {None}]
      /\ store' \in [Actors -> SUBSET Pairs]
      /\ told' \in [Actors -> {"nothing", "done", "refused"}]
  BY DEF Finish, TypeOK
<1>3. \A b \in Actors : op'[b] = None <=> at'[b] = "idle"
  BY <1>1 DEF TypeOK
<1>4. TypeOK'
  BY <1>1, <1>2, <1>3 DEF TypeOK
<1>5. \A b \in Actors \ {a} : PairOf(b)' = PairOf(b)
  BY <1>1 DEF PairOf
<1> QED
  BY <1>1, <1>4, <1>5

\* What loading the list does.
LEMMA LoadEffect ==
  ASSUME TypeOK, NEW a \in Actors, Load(a)
  PROVE  /\ TypeOK'
         /\ at'[a] = "loaded" /\ op'[a] \in Operations /\ store'[a] = disk /\ told'[a] = "nothing"
         /\ \A b \in Actors \ {a} : /\ at'[b] = at[b] /\ op'[b] = op[b]
                                    /\ store'[b] = store[b] /\ told'[b] = told[b]
                                    /\ PairOf(b)' = PairOf(b)
         /\ UNCHANGED <<disk, recorded, consented>>
<1>1. PICK o \in Operations : op' = [op EXCEPT ![a] = o]
  BY DEF Load
<1>2. /\ at'[a] = "loaded" /\ op'[a] = o /\ store'[a] = disk /\ told'[a] = "nothing"
      /\ \A b \in Actors \ {a} : /\ at'[b] = at[b] /\ op'[b] = op[b]
                                 /\ store'[b] = store[b] /\ told'[b] = told[b]
      /\ UNCHANGED <<disk, recorded, consented>>
  BY <1>1 DEF Load, TypeOK
<1>3. /\ at' \in [Actors -> {"idle", "loaded", "asking", "saving"}]
      /\ op' \in [Actors -> Operations \cup {None}]
      /\ store' \in [Actors -> SUBSET Pairs]
      /\ told' \in [Actors -> {"nothing", "done", "refused"}]
  BY <1>1 DEF Load, TypeOK
<1>4. o # None
  BY DEF Operations, None
<1>5. \A b \in Actors : op'[b] = None <=> at'[b] = "idle"
  BY <1>2, <1>4 DEF TypeOK
<1>6. TypeOK'
  BY <1>2, <1>3, <1>5 DEF TypeOK
<1>7. \A b \in Actors \ {a} : PairOf(b)' = PairOf(b)
  BY <1>2 DEF PairOf
<1> QED
  BY <1>2, <1>6, <1>7

\* An operation that goes on has changed its copy at most.
GoesOn(a, place, copy) ==
  /\ at[a] # "idle"
  /\ at' = [at EXCEPT ![a] = place]
  /\ store' = [store EXCEPT ![a] = copy]
  /\ UNCHANGED <<disk, op, told, recorded>>

LEMMA GoesOnEffect ==
  ASSUME TypeOK, NEW a \in Actors, NEW place \in {"asking", "saving"}, NEW copy \in SUBSET Pairs,
         GoesOn(a, place, copy), consented' \subseteq Pairs
  PROVE  /\ TypeOK'
         /\ at'[a] = place /\ store'[a] = copy
         /\ \A b \in Actors \ {a} : at'[b] = at[b] /\ store'[b] = store[b]
         /\ \A b \in Actors : op'[b] = op[b] /\ told'[b] = told[b] /\ PairOf(b)' = PairOf(b)
         /\ UNCHANGED <<disk, recorded>>
<1>1. /\ at'[a] = place /\ store'[a] = copy
      /\ \A b \in Actors \ {a} : at'[b] = at[b] /\ store'[b] = store[b]
      /\ UNCHANGED <<disk, op, told, recorded>>
  BY DEF GoesOn, TypeOK
<1>2. /\ at' \in [Actors -> {"idle", "loaded", "asking", "saving"}]
      /\ store' \in [Actors -> SUBSET Pairs]
  BY DEF GoesOn, TypeOK
<1>3. \A b \in Actors : op'[b] = None <=> at'[b] = "idle"
  BY <1>1 DEF TypeOK, GoesOn
<1>4. TypeOK'
  BY <1>1, <1>2, <1>3 DEF TypeOK
<1> QED
  BY <1>1, <1>4 DEF PairOf

\* The steps between Load and the end go on in this sense.
LEMMA StepsGoOn ==
  ASSUME TypeOK, NEW a \in Actors
  PROVE  /\ Ask(a) => GoesOn(a, "asking", store[a])
         /\ Grant(a) /\ at[a] # "idle" => GoesOn(a, "saving", store[a] \cup {PairOf(a)})
         /\ Remove(a) => GoesOn(a, "saving", store[a] \ {PairOf(a)})
<1>1. Ask(a) => GoesOn(a, "asking", store[a])
  BY DEF Ask, GoesOn, TypeOK
<1>2. Grant(a) /\ at[a] # "idle" => GoesOn(a, "saving", store[a] \cup {PairOf(a)})
  BY DEF Grant, GoesOn, TypeOK
<1>3. {e \in store[a] : ~Matches(e, PairOf(a))} = store[a] \ {PairOf(a)}
  BY DEF Matches
<1>4. Remove(a) => GoesOn(a, "saving", store[a] \ {PairOf(a)})
  BY <1>3 DEF Remove, GoesOn, TypeOK
<1> QED
  BY <1>1, <1>2, <1>4

\* The ends that write nothing.
Ends(a) ==
  \/ LoadFails(a) \/ NothingToDo(a) \/ NothingToRemove(a) \/ NotApproved(a)
  \/ AnswerNo(a) \/ SaveFails(a)

LEMMA EndsFinish ==
  ASSUME NEW a \in Actors, Ends(a)
  PROVE  /\ \E answer \in {"done", "refused"} : Finish(a, answer)
         /\ UNCHANGED <<disk, recorded>>
BY DEF Ends, LoadFails, NothingToDo, NothingToRemove, NotApproved, AnswerNo, SaveFails

\* Next, sorted by what its steps do.
LEMMA NextCases ==
  ASSUME Next
  PROVE  \E a \in Actors :
           \/ Load(a) \/ Ends(a) \/ Ask(a) \/ Remove(a) \/ Save(a)
           \/ (Grant(a) /\ at[a] \in {"loaded", "asking"} /\ (at[a] = "loaded" => op[a][1] = "add"))
BY DEF Next, Ends, AnswerYes, Add

LEMMA ConsentKeeps ==
  ASSUME CInv, [Next]_vars
  PROVE  CInv'
<1> USE DEF CInv
<1>1. ASSUME NEW a \in Actors, Load(a) PROVE CInv'
  BY <1>1, LoadEffect DEF ConsentInv
<1>2. ASSUME NEW a \in Actors, Ends(a) PROVE CInv'
  <2>1. PICK answer \in {"done", "refused"} : Finish(a, answer)
    BY <1>2, EndsFinish
  <2>2. UNCHANGED <<disk, recorded>>
    BY <1>2, EndsFinish
  <2> QED
    BY <2>1, <2>2, FinishEffect DEF ConsentInv, TypeOK
<1>3. ASSUME NEW a \in Actors, Ask(a) PROVE CInv'
  <2>1. GoesOn(a, "asking", store[a]) /\ UNCHANGED consented
    BY <1>3, StepsGoOn DEF Ask
  <2>2. consented \subseteq Pairs /\ store[a] \in SUBSET Pairs
    BY DEF TypeOK
  <2> QED
    BY <2>1, <2>2, GoesOnEffect DEF ConsentInv
<1>4. ASSUME NEW a \in Actors, Grant(a), at[a] # "idle" PROVE CInv'
  <2>1. GoesOn(a, "saving", store[a] \cup {PairOf(a)}) /\ consented' = consented \cup {PairOf(a)}
    BY <1>4, StepsGoOn DEF Grant
  <2>2. consented' \subseteq Pairs /\ store[a] \cup {PairOf(a)} \in SUBSET Pairs
    BY <1>4, <2>1, PairType DEF TypeOK
  <2> QED
    BY <2>1, <2>2, GoesOnEffect DEF ConsentInv
<1>5. ASSUME NEW a \in Actors, Remove(a) PROVE CInv'
  <2>1. GoesOn(a, "saving", store[a] \ {PairOf(a)}) /\ UNCHANGED consented /\ op[a][1] = "remove"
    BY <1>5, StepsGoOn DEF Remove
  <2>2. consented \subseteq Pairs /\ store[a] \ {PairOf(a)} \in SUBSET Pairs
    BY DEF TypeOK
  <2> QED
    BY <2>1, <2>2, GoesOnEffect DEF ConsentInv
<1>6. ASSUME NEW a \in Actors, Save(a) PROVE CInv'
  <2>1. disk' = store[a] /\ Finish(a, "done") /\ recorded' \subseteq recorded \cup {PairOf(a)}
    BY <1>6 DEF Save
  <2>2. disk' \subseteq Pairs /\ recorded' \subseteq Pairs
    BY <1>6, <2>1, PairType DEF TypeOK, Save
  <2> QED
    BY <2>1, <2>2, FinishEffect DEF ConsentInv
<1>7. CASE UNCHANGED vars
  BY <1>7 DEF vars, TypeOK, ConsentInv, PairOf
<1> QED
  BY <1>1, <1>2, <1>3, <1>4, <1>5, <1>6, <1>7, NextCases

LEMMA ConsentInvariance == Spec => []CInv
<1>1. Init => CInv
  BY DEF Init, CInv, TypeOK, ConsentInv
<1> QED
  BY <1>1, ConsentKeeps, PTL DEF Spec

\* Every variable keeps its type, however operations overlap.
THEOREM TypeCorrect == Spec => []TypeOK
BY ConsentInvariance, PTL DEF CInv

\* A run that is let through, by the list or by its own answer, goes to a host for
\* which somebody approved its file: with any number of operations under way, and
\* whatever they overwrite.
THEOREM NoRunWithoutConsent == Spec => ConsentComesFirst
<1> DEFINE LetThrough ==
      \A a \in Actors :
        op[a] # None /\ op[a][1] = "run" /\ told[a] = "nothing" /\ told'[a] = "done"
          => PairOf(a) \in consented'
<1>1. ASSUME CInv, [Next]_vars PROVE [LetThrough]_vars
  <2> SUFFICES ASSUME Next, NEW a \in Actors,
                      op[a] # None, op[a][1] = "run", told[a] = "nothing", told'[a] = "done"
               PROVE  PairOf(a) \in consented'
    BY <1>1
  <2>1. PICK b \in Actors :
          \/ Load(b) \/ Ends(b) \/ Ask(b) \/ Remove(b) \/ Save(b)
          \/ (Grant(b) /\ at[b] \in {"loaded", "asking"} /\ (at[b] = "loaded" => op[b][1] = "add"))
    BY NextCases
  <2>2. at[a] # "idle"
    BY <1>1 DEF CInv, TypeOK
  <2>3. b = a /\ (Ends(a) \/ Save(a))
    BY <1>1, <2>1 DEF CInv, TypeOK, Load, MayBegin, Ask, Remove, Grant, Ends, LoadFails, NothingToDo,
                      NothingToRemove, NotApproved, AnswerNo, Save, SaveFails, Finish
  <2>4. CASE Save(a)
    BY <1>1, <2>4 DEF CInv, ConsentInv, Save, Finish
  <2>5. CASE Ends(a)
    <3>1. NothingToDo(a)
      BY <1>1, <2>5 DEF CInv, TypeOK, Ends, LoadFails, NothingToRemove, NotApproved, AnswerNo,
                        SaveFails, Finish
    <3>2. PairOf(a) \in store[a] /\ UNCHANGED consented
      BY <3>1 DEF NothingToDo, InStore, Matches, Finish
    <3> QED
      BY <1>1, <3>2 DEF CInv, ConsentInv
  <2> QED
    BY <2>3, <2>4, <2>5
<1> QED
  BY <1>1, ConsentInvariance, PTL DEF Spec, ConsentComesFirst

-----------------------------------------------------------------------------
(***************************************************************************)
(* The inductive invariant of operations that do not overlap.              *)
(***************************************************************************)

\* At most one operation is under way.
Alone == \A a, b \in Actors : at[a] # "idle" /\ at[b] # "idle" => a = b

\* The list as the operation of a will leave it.
Edited(a) == IF op[a][1] = "remove" THEN disk \ {PairOf(a)} ELSE disk \cup {PairOf(a)}

\* The copy an operation decides on is the list, and the one it writes differs
\* from it by its own pair.
FreshInv ==
  \A a \in Actors :
    /\ at[a] \in {"loaded", "asking"} => store[a] = disk
    /\ at[a] = "asking" => op[a][1] = "run" /\ PairOf(a) \notin disk
    /\ at[a] = "saving" => store[a] = Edited(a)
    /\ at[a] = "saving" /\ op[a][1] = "remove" => PairOf(a) \in disk

IInv == CInv /\ Alone /\ FreshInv /\ ApprovedOnce

\* An operation that proceeds, the only one under way, decides on the list as it
\* is.
LEMMA StepKeeps ==
  ASSUME ~Overlap, IInv, [Next]_vars
  PROVE  IInv'
<1> USE DEF IInv
<1>0. CInv' /\ TypeOK
  BY ConsentKeeps DEF CInv
<1>1. ASSUME NEW a \in Actors, Load(a) PROVE IInv'
  <2>1. \A b \in Actors : at[b] = "idle"
    BY <1>1 DEF Load, MayBegin
  <2>2. \A b \in Actors : at'[b] # "idle" => b = a /\ at'[b] = "loaded" /\ store'[b] = disk'
    BY <1>0, <1>1, <2>1, LoadEffect
  <2>3. Alone' /\ FreshInv'
    BY <2>2 DEF Alone, FreshInv
  <2> QED
    BY <1>0, <1>1, <2>3 DEF ApprovedOnce, Load
<1>2. ASSUME NEW a \in Actors, Ends(a) PROVE IInv'
  <2>1. PICK answer \in {"done", "refused"} : Finish(a, answer)
    BY <1>2, EndsFinish
  <2>2. UNCHANGED <<disk, recorded>>
    BY <1>2, EndsFinish
  <2>3. /\ at'[a] = "idle"
        /\ \A b \in Actors \ {a} : /\ at'[b] = at[b] /\ op'[b] = op[b] /\ store'[b] = store[b]
                                   /\ PairOf(b)' = PairOf(b)
    BY <1>0, <2>1, <2>2, FinishEffect DEF TypeOK
  <2>4. \A b \in Actors \ {a} : Edited(b)' = Edited(b)
    BY <2>2, <2>3 DEF Edited
  <2> QED
    BY <1>0, <2>2, <2>3, <2>4 DEF Alone, FreshInv, ApprovedOnce
<1>3. ASSUME NEW a \in Actors, Ask(a) PROVE IInv'
  <2>1. at[a] = "loaded" /\ op[a][1] = "run" /\ PairOf(a) \notin store[a] /\ UNCHANGED consented
    BY <1>3 DEF Ask, InStore, Matches
  <2>2. GoesOn(a, "asking", store[a]) /\ store[a] \in SUBSET Pairs /\ consented' \subseteq Pairs
    BY <1>0, <1>3, <2>1, StepsGoOn DEF TypeOK
  <2>3. /\ at'[a] = "asking" /\ UNCHANGED <<disk, recorded>>
        /\ \A b \in Actors : op'[b] = op[b] /\ PairOf(b)' = PairOf(b) /\ store'[b] = store[b]
        /\ \A b \in Actors \ {a} : at'[b] = at[b]
    BY <1>0, <2>2, GoesOnEffect
  <2>4. \A b \in Actors : Edited(b)' = Edited(b)
    BY <2>3 DEF Edited
  <2> QED
    BY <1>0, <2>1, <2>3, <2>4 DEF Alone, FreshInv, ApprovedOnce
<1>4. ASSUME NEW a \in Actors, at[a] # "idle", GoesOn(a, "saving", Edited(a)),
             op[a][1] = "remove" => PairOf(a) \in disk
      PROVE  IInv'
  <2>1. Edited(a) \in SUBSET Pairs /\ consented' \subseteq Pairs
    BY <1>0, <1>4, PairType DEF Edited, TypeOK, CInv
  <2>2. /\ at'[a] = "saving" /\ store'[a] = Edited(a) /\ UNCHANGED <<disk, recorded>>
        /\ \A b \in Actors : op'[b] = op[b] /\ PairOf(b)' = PairOf(b)
        /\ \A b \in Actors \ {a} : at'[b] = at[b] /\ store'[b] = store[b]
    BY <1>0, <1>4, <2>1, GoesOnEffect
  <2>3. \A b \in Actors : Edited(b)' = Edited(b)
    BY <2>2 DEF Edited
  <2> QED
    BY <1>0, <1>4, <2>2, <2>3 DEF Alone, FreshInv, ApprovedOnce
<1>5. ASSUME NEW a \in Actors, Grant(a), at[a] \in {"loaded", "asking"},
             at[a] = "loaded" => op[a][1] = "add"
      PROVE  IInv'
  <2>1. store[a] = disk /\ op[a][1] # "remove"
    BY <1>5 DEF FreshInv
  <2>2. GoesOn(a, "saving", Edited(a))
    BY <1>0, <1>5, <2>1, StepsGoOn DEF Edited
  <2> QED
    BY <1>4, <1>5, <2>1, <2>2
<1>6. ASSUME NEW a \in Actors, Remove(a) PROVE IInv'
  <2>1. at[a] = "loaded" /\ store[a] = disk /\ op[a][1] = "remove" /\ PairOf(a) \in disk
    BY <1>6 DEF Remove, FreshInv, InStore, Matches
  <2>2. GoesOn(a, "saving", Edited(a))
    BY <1>0, <1>6, <2>1, StepsGoOn DEF Edited
  <2> QED
    BY <1>4, <2>1, <2>2
<1>7. ASSUME NEW a \in Actors, Save(a) PROVE IInv'
  <2>1. /\ at[a] = "saving" /\ disk' = Edited(a) /\ Finish(a, "done")
        /\ recorded' = IF op[a][1] = "remove" THEN recorded \ {PairOf(a)}
                                              ELSE recorded \cup {PairOf(a)}
    BY <1>7 DEF Save, FreshInv
  <2>2. \A b \in Actors : at'[b] = "idle"
    BY <1>0, <2>1 DEF Alone, TypeOK, Finish
  <2>3. Alone' /\ FreshInv'
    BY <2>2 DEF Alone, FreshInv
  <2>4. ApprovedOnce'
    BY <2>1 DEF ApprovedOnce, Edited
  <2> QED
    BY <1>0, <2>3, <2>4
<1>8. CASE UNCHANGED vars
  BY <1>0, <1>8 DEF vars, Alone, FreshInv, Edited, PairOf, ApprovedOnce
<1> QED
  BY <1>1, <1>2, <1>3, <1>5, <1>6, <1>7, <1>8, NextCases

-----------------------------------------------------------------------------
(***************************************************************************)
(* The theorems.                                                           *)
(***************************************************************************)

\* Every reachable state of operations that do not overlap satisfies IInv.
THEOREM Invariance == ~Overlap => (Spec => []IInv)
<1>1. Init => IInv
  BY DEF Init, IInv, CInv, TypeOK, ConsentInv, Alone, FreshInv, ApprovedOnce
<1>2. ~Overlap /\ IInv /\ [Next]_vars => IInv'
  BY StepKeeps
<1>3. ~Overlap => []~Overlap
  OBVIOUS
<1> QED
  BY <1>1, <1>2, <1>3, PTL DEF Spec

\* A pair reported as approved is on the list until it is withdrawn, so that no
\* run asks for it again: the promise of docs/file-format.md, under the condition
\* whose absence breaks it.
THEOREM ApprovalsLast == ~Overlap => (Spec => []ApprovedOnce)
<1>1. IInv => ApprovedOnce
  BY DEF IInv
<1> QED
  BY <1>1, Invariance, PTL

\* The requests of all actors, as SshTrust maps them.
Requested == [a \in Actors |-> Asked(a)]

\* How the requests change with the steps of one actor, from the facts about it
\* alone.
LEMMA OneAsks ==
  ASSUME NEW a \in Actors, NEW r,
         \A b \in Actors \ {a} : at'[b] = at[b] /\ op'[b] = op[b] /\ PairOf(b)' = PairOf(b),
         Asked(a)' = r
  PROVE  Requested' = [Requested EXCEPT ![a] = r]
<1>1. \A b \in Actors \ {a} : Asked(b)' = Asked(b)
  BY DEF Asked
<1> QED
  BY <1>1 DEF Requested

\* The end of an operation is the answer to its request.
LEMMA EndAnswers ==
  ASSUME TypeOK, NEW a \in Actors, NEW answer \in {"done", "refused"}, Finish(a, answer),
         disk' \subseteq Pairs, recorded' \subseteq Pairs
  PROVE  Trust!Answered(a, answer)
<1>1. Asked(a)' = None
  BY FinishEffect DEF Asked
<1>2. Requested' = [Requested EXCEPT ![a] = None]
  BY <1>1, FinishEffect, OneAsks
<1> QED
  BY <1>2 DEF Requested, Trust!Answered, Trust!None, None, Finish

\* The load, the prompt and the rename of one operation add up to one edit by its own
\* request: every step of SshTrust is a step of TrustStore, or none.
LEMMA Simulation ==
  ASSUME ~Overlap, IInv, [Next]_vars
  PROVE  [Trust!Next]_(Trust!vars)
<1>0. /\ TypeOK /\ TypeOK' /\ FreshInv
      /\ disk' \subseteq Pairs /\ recorded' \subseteq Pairs /\ consented' \subseteq Pairs
  BY ConsentKeeps DEF IInv, CInv, TypeOK
<1>1. ASSUME NEW a \in Actors, Load(a) PROVE Trust!Next
  <2>1. /\ Asked(a) = None
        /\ Asked(a)' = <<op'[a][1], PairOf(a)'>>
    BY <1>0, <1>1, LoadEffect DEF Asked, Load, MayBegin
  <2>2. PairOf(a)' \in Pairs /\ op'[a] \in Operations
    BY <1>0, <1>1, LoadEffect, ConstantsAssumption DEF PairOf, Pairs, Operations
  <2>3. Asked(a)' \in Trust!Requests
    BY <2>1, <2>2 DEF Trust!Requests, Operations
  <2>4. Requested' = [Requested EXCEPT ![a] = Asked(a)']
    BY <1>0, <1>1, LoadEffect, OneAsks
  <2>5. Trust!Request(a)
    BY <1>1, <2>1, <2>3, <2>4 DEF Load, Requested, Trust!Request, Trust!None, None
  <2> QED
    BY <2>5 DEF Trust!Next
<1>2. ASSUME NEW a \in Actors, LoadFails(a) PROVE Trust!Next
  <2>1. Trust!Answered(a, "refused") /\ Asked(a) = None /\ UNCHANGED disk
    BY <1>0, <1>2, EndAnswers DEF LoadFails, MayBegin, Asked
  <2>2. Trust!TurnAway(a)
    BY <2>1 DEF Trust!TurnAway, Trust!None, None
  <2> QED
    BY <2>2 DEF Trust!Next
<1>3. ASSUME NEW a \in Actors, NothingToDo(a) PROVE Trust!Next
  <2>1. /\ Trust!Answered(a, "done") /\ UNCHANGED disk
        /\ PairOf(a) \in disk /\ op[a][1] \in {"run", "add"} /\ Asked(a) = <<op[a][1], PairOf(a)>>
    BY <1>0, <1>3, EndAnswers DEF NothingToDo, FreshInv, InStore, Matches, Asked
  <2>2. disk' = disk \cup {PairOf(a)} /\ PairOf(a) \in Pairs
    BY <1>0, <2>1 DEF TypeOK
  <2>3. Trust!Permit(a) \/ Trust!Approve(a)
    BY <2>1, <2>2 DEF Trust!Permit, Trust!Approve
  <2> QED
    BY <2>3 DEF Trust!Next
<1>4. ASSUME NEW a \in Actors,
             NothingToRemove(a) \/ NotApproved(a) \/ AnswerNo(a) \/ SaveFails(a)
      PROVE  Trust!Next
  <2>1. /\ Trust!Answered(a, "refused") /\ UNCHANGED disk /\ at[a] # "idle"
    BY <1>0, <1>4, EndAnswers DEF NothingToRemove, NotApproved, AnswerNo, SaveFails
  <2>2. Asked(a) # None /\ Asked(a)[2] = PairOf(a)
    BY <2>1 DEF Asked, None
  <2>3. Asked(a)[1] = "run" => PairOf(a) \notin disk
    BY <1>0, <1>4 DEF NothingToRemove, NotApproved, AnswerNo, SaveFails, Asked, FreshInv, InStore,
                      Matches
  <2>4. \A p \in disk : Asked(a) # <<"run", p>>
    BY <2>2, <2>3
  <2>5. Trust!Refuse(a)
    BY <2>1, <2>2, <2>4 DEF Trust!Refuse, Trust!None, None
  <2> QED
    BY <2>5 DEF Trust!Next
<1>5. ASSUME NEW a \in Actors, Ask(a) PROVE UNCHANGED Trust!vars
  <2>1. GoesOn(a, "asking", store[a]) /\ store[a] \in SUBSET Pairs /\ at[a] = "loaded"
    BY <1>0, <1>5, StepsGoOn DEF TypeOK, Ask
  <2>2. \A b \in Actors : Asked(b)' = Asked(b)
    BY <1>0, <1>5, <2>1, GoesOnEffect DEF Asked
  <2> QED
    BY <1>5, <2>2 DEF Ask, Trust!vars
<1>6. ASSUME NEW a \in Actors, Grant(a), at[a] \in {"loaded", "asking"},
             at[a] = "loaded" => op[a][1] = "add"
      PROVE  Trust!Next \/ UNCHANGED Trust!vars
  <2>1. GoesOn(a, "saving", store[a] \cup {PairOf(a)})
    BY <1>0, <1>6, StepsGoOn
  <2>2. store[a] \cup {PairOf(a)} \in SUBSET Pairs /\ PairOf(a) \in Pairs
    BY <1>0, <1>6, PairType DEF TypeOK
  <2>3. /\ at'[a] = "saving" /\ UNCHANGED <<disk, told>>
        /\ \A b \in Actors : op'[b] = op[b] /\ PairOf(b)' = PairOf(b)
        /\ \A b \in Actors \ {a} : at'[b] = at[b]
    BY <1>0, <1>6, <2>1, <2>2, GoesOnEffect DEF Grant
  <2>4. CASE at[a] = "loaded"
    <3>1. \A b \in Actors : Asked(b)' = Asked(b)
      BY <1>6, <2>3, <2>4 DEF Asked
    <3> QED
      BY <2>3, <3>1 DEF Trust!vars
  <2>5. CASE at[a] = "asking"
    <3>1. op[a][1] = "run" /\ PairOf(a) \notin disk
      BY <1>0, <2>5 DEF FreshInv
    <3>2. Asked(a) = <<"run", PairOf(a)>> /\ Asked(a)' = <<"add", PairOf(a)>>
      BY <2>3, <2>5, <3>1 DEF Asked
    <3>3. Requested' = [Requested EXCEPT ![a] = <<"add", PairOf(a)>>]
      BY <2>3, <3>2, OneAsks
    <3>4. Trust!Consent(a)
      BY <2>2, <2>3, <3>1, <3>2, <3>3 DEF Requested, Trust!Consent
    <3> QED
      BY <3>4 DEF Trust!Next
  <2> QED
    BY <1>6, <2>4, <2>5
<1>7. ASSUME NEW a \in Actors, Remove(a) PROVE UNCHANGED Trust!vars
  <2>1. /\ GoesOn(a, "saving", store[a] \ {PairOf(a)}) /\ store[a] \ {PairOf(a)} \in SUBSET Pairs
        /\ at[a] = "loaded" /\ op[a][1] = "remove"
    BY <1>0, <1>7, StepsGoOn DEF TypeOK, Remove
  <2>2. /\ at'[a] = "saving"
        /\ \A b \in Actors : op'[b] = op[b] /\ PairOf(b)' = PairOf(b)
        /\ \A b \in Actors \ {a} : at'[b] = at[b]
    BY <1>0, <2>1, GoesOnEffect
  <2>3. \A b \in Actors : Asked(b)' = Asked(b)
    BY <2>1, <2>2 DEF Asked
  <2> QED
    BY <1>7, <2>3 DEF Remove, Trust!vars
<1>8. ASSUME NEW a \in Actors, Save(a) PROVE Trust!Next
  <2>1. at[a] = "saving" /\ disk' = Edited(a) /\ Trust!Answered(a, "done")
    BY <1>0, <1>8, EndAnswers DEF Save, FreshInv
  <2>2. PairOf(a) \in Pairs /\ op[a] \in Operations
    BY <1>0, <2>1, PairType
  <2>3. op[a][1] \in {"run", "add", "remove"}
    BY <2>2 DEF Operations
  <2>4. CASE op[a][1] = "remove"
    <3>1. Asked(a) = <<"remove", PairOf(a)>> /\ PairOf(a) \in disk /\ disk' = disk \ {PairOf(a)}
      BY <1>0, <2>1, <2>4 DEF Asked, Edited, FreshInv
    <3>2. Trust!Withdraw(a)
      BY <2>1, <3>1 DEF Trust!Withdraw
    <3> QED
      BY <3>2 DEF Trust!Next
  <2>5. CASE op[a][1] \in {"run", "add"}
    <3>1. Asked(a) = <<"add", PairOf(a)>> /\ disk' = disk \cup {PairOf(a)}
      BY <2>1, <2>5 DEF Asked, Edited
    <3>2. Trust!Approve(a)
      BY <2>1, <2>2, <3>1 DEF Trust!Approve
    <3> QED
      BY <3>2 DEF Trust!Next
  <2> QED
    BY <2>3, <2>4, <2>5
<1>9. CASE UNCHANGED vars
  BY <1>9 DEF vars, Trust!vars, Asked, PairOf
<1> QED
  BY <1>1, <1>2, <1>3, <1>4, <1>5, <1>6, <1>7, <1>8, <1>9, NextCases DEF Ends

\* The list of approvals implements the set its users take it for: it changes by what
\* they ask and consent to, pair by pair, and lets a run through where its own pair is
\* on it.
THEOREM Implementation == ~Overlap => (Spec => StoreSpec)
<1>1. Init => Trust!Init
  BY DEF Init, Trust!Init, Asked, Trust!None, None
<1>2. ~Overlap /\ IInv /\ [Next]_vars => [Trust!Next]_(Trust!vars)
  BY Simulation
<1>3. ~Overlap => []~Overlap
  OBVIOUS
<1> QED
  BY <1>1, <1>2, <1>3, Invariance, PTL DEF Spec, StoreSpec, Trust!Spec
=============================================================================
