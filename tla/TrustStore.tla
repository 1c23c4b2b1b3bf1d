------------------------------ MODULE TrustStore ------------------------------
(***************************************************************************)
(* What the list of ssh approvals is to its users (docs/file-format.md,    *)
(* "SSH"): the set of pairs they approved.  A user asks for one thing at a *)
(* time, and the list changes by the pair of a request only: added because *)
(* somebody asked for that, or said yes to a run, and withdrawn because    *)
(* somebody asked for that.  SshTrust implements it while its operations   *)
(* do not overlap.                                                         *)
(***************************************************************************)
CONSTANTS Users, Pairs

VARIABLES
  approvals,    (* the pairs approved                                       *)
  asked,        (* what each user asks for                                  *)
  told          (* what each was answered last                              *)

vars == <<approvals, asked, told>>

Requests == {"run", "add", "remove"} \X Pairs
None == <<>>

Init ==
  /\ approvals \in SUBSET Pairs
  /\ asked = [u \in Users |-> None]
  /\ told = [u \in Users |-> "nothing"]

Request(u) ==
  /\ asked[u] = None
  /\ \E r \in Requests : asked' = [asked EXCEPT ![u] = r]
  /\ told' = [told EXCEPT ![u] = "nothing"]
  /\ UNCHANGED approvals

Answered(u, answer) ==
  /\ asked' = [asked EXCEPT ![u] = None]
  /\ told' = [told EXCEPT ![u] = answer]

\* A run may go where its pair is approved.
Permit(u) ==
  /\ \E p \in approvals : asked[u] = <<"run", p>>
  /\ Answered(u, "done")
  /\ UNCHANGED approvals

\* Where it is not, its user may approve the pair.
Consent(u) ==
  /\ \E p \in Pairs \ approvals :
       /\ asked[u] = <<"run", p>>
       /\ asked' = [asked EXCEPT ![u] = <<"add", p>>]
  /\ UNCHANGED <<approvals, told>>

Approve(u) ==
  /\ \E p \in Pairs :
       /\ asked[u] = <<"add", p>>
       /\ approvals' = approvals \cup {p}
  /\ Answered(u, "done")

Withdraw(u) ==
  /\ \E p \in approvals :
       /\ asked[u] = <<"remove", p>>
       /\ approvals' = approvals \ {p}
  /\ Answered(u, "done")

\* Anything but a run of an approved pair may be refused, and changes nothing then.
Refuse(u) ==
  /\ asked[u] # None
  /\ \A p \in approvals : asked[u] # <<"run", p>>
  /\ Answered(u, "refused")
  /\ UNCHANGED approvals

\* Nothing is done for anybody while the list cannot be read.
TurnAway(u) ==
  /\ asked[u] = None
  /\ Answered(u, "refused")
  /\ UNCHANGED approvals

Next ==
  \E u \in Users :
    \/ Request(u) \/ Permit(u) \/ Consent(u) \/ Approve(u) \/ Withdraw(u)
    \/ Refuse(u) \/ TurnAway(u)

Spec == Init /\ [][Next]_vars
=============================================================================
