---------------------------- MODULE GraphHistory ----------------------------
(***************************************************************************)
(* What a worker is promised about the graph it explores with: a value     *)
(* that grows by one event, rebinds one receive, can be replaced by a      *)
(* rewritten copy when nothing is outstanding, and goes back, exactly, to  *)
(* the value it had at any checkpoint that is still held.  The search of   *)
(* DepthFirstExplorer uses graphs as such values.                          *)
(***************************************************************************)
EXTENDS ExecutionGraph

CONSTANT Script            \* per thread: the labels its n-th event may have

VARIABLES
    value,      \* the graph
    saved       \* its values at the checkpoints held, oldest first

history == <<value, saved>>

Grow == \E t \in Thread : \E l \in UNION Range(Script[t]) :
            value' = AddEvent(value, t, l) /\ UNCHANGED saved

Bind == \E r \in Receives(value), s \in Sends(value) \cup {Bottom} :
            value' = SetReadsFrom(value, r, s) /\ UNCHANGED saved

Save == saved' = Append(saved, value) /\ UNCHANGED value

(* Going back to a checkpoint drops the ones taken after it.               *)
Restore == \E k \in DOMAIN saved :
              /\ value' = saved[k]
              /\ saved' = SubSeq(saved, 1, k)

Forget == saved # <<>> /\ saved' = Front(saved) /\ UNCHANGED value

(* The copies: rewritten, restricted, or with another ND value.            *)
Rewrites == {SetReadsFrom(value, r, s) :
                r \in Receives(value), s \in Sends(value) \cup {Bottom}}
Restrictions == {RestrictTo(value, keep) : keep \in SUBSET Ids(value)}
Revaluations ==
    {[value EXCEPT !.events[e].label.val = v] :
        e \in {d \in Ids(value) : IsOp(value, d, "nd")}, v \in Value}

Replace == /\ saved' = <<>>
           /\ value' \in {value} \cup Rewrites \cup Restrictions \cup Revaluations

HInit == value = EmptyGraph /\ saved = <<>>
HNext == Grow \/ Bind \/ Save \/ Restore \/ Forget \/ Replace
HSpec == HInit /\ [][HNext]_history
=============================================================================
