--------------------------- MODULE CommitContract ---------------------------
(***************************************************************************)
(* What the two-phase commit example promises, without messages, phases or *)
(* timers: every participant votes at most once, one decision is taken at  *)
(* most once and for good, it is "commit" only after unanimous consent,    *)
(* and a participant that has voted either learns it or gives up.          *)
(***************************************************************************)
CONSTANTS Participants

VARIABLES votes, decision, outcome

vars == <<votes, decision, outcome>>

Init ==
    /\ votes = [p \in Participants |-> "none"]
    /\ decision = "none"
    /\ outcome = [p \in Participants |-> "none"]

CastVote(p) ==
    /\ votes[p] = "none"
    /\ \E v \in {"yes", "no"} : votes' = [votes EXCEPT ![p] = v]
    /\ UNCHANGED <<decision, outcome>>

(* Nothing but a unanimous vote allows a commit; an abort needs no reason. *)
Decide ==
    /\ decision = "none"
    /\ \/ decision' = "commit" /\ \A p \in Participants : votes[p] = "yes"
       \/ decision' = "abort"
    /\ UNCHANGED <<votes, outcome>>

Settle(p, d) ==
    /\ votes[p] # "none"
    /\ outcome[p] = "none"
    /\ outcome' = [outcome EXCEPT ![p] = d]
    /\ UNCHANGED <<votes, decision>>

Learn(p)  == decision # "none" /\ Settle(p, decision)
GiveUp(p) == Settle(p, "abort")

Next ==
    \/ Decide
    \/ \E p \in Participants : CastVote(p) \/ Learn(p) \/ GiveUp(p)

Spec == Init /\ [][Next]_vars
=============================================================================
