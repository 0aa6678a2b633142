---------------------------- MODULE Consistency ----------------------------
(***************************************************************************)
(* The consistency checker (model/consistency.hpp) under the Async and the *)
(* FifoP2P communication models.                                           *)
(***************************************************************************)
EXTENDS ExecutionGraph

CONSTANT Model       \* CommunicationModel: "Async" or "FifoP2P"

ASSUME ModelAssumption == Model \in {"Async", "FifoP2P"}

(* validate_graph(): what each reads-from edge must satisfy.               *)
ValidEdge(g, r) ==
    /\ r \in Receives(g)
    /\ IF g.rf[r] = Bottom
       THEN IsNonblocking(g, r)
       ELSE /\ g.rf[r] \in Sends(g)
            /\ Readers(g, g.rf[r]) = {r}
            /\ Matches(g, g.rf[r], ThreadOf(g, r), LabelOf(g, r))

(* tolerated: receives that may lack a source.                             *)
ValidGraph(g, tolerated) ==
    /\ \A r \in DOMAIN g.rf : ValidEdge(g, r)
    /\ Receives(g) \ DOMAIN g.rf \subseteq tolerated

(* Two sends of one thread to one destination, the first one earlier.      *)
Channel(g) == {p \in Sends(g) \X Sends(g) :
                 /\ ThreadOf(g, p[1]) = ThreadOf(g, p[2])
                 /\ LabelOf(g, p[1]).dst = LabelOf(g, p[2]).dst
                 /\ p[1] < p[2]}

(* Clause (b): nobody reads a later send past an unread earlier one that   *)
(* it would have accepted.                                                 *)
FifoClauseB(g) ==
    \A p \in Channel(g) : \A r \in Readers(g, p[2]) :
        Readers(g, p[1]) = {} => LabelOf(g, p[1]).val \notin LabelOf(g, r).accepts

(* Clause (c): two receives of one thread do not take a channel's messages *)
(* in the opposite order, unless the first could not accept the earlier.   *)
FifoClauseC(g) ==
    \A p \in Channel(g) : \A r \in Readers(g, p[2]), q \in Readers(g, p[1]) :
        ThreadOf(g, q) = ThreadOf(g, r) /\ r < q
            => LabelOf(g, p[1]).val \notin LabelOf(g, r).accepts

FifoConsistent(g) == FifoClauseB(g) /\ FifoClauseC(g)

(* check_exploration_graph().                                              *)
ConsistentExcept(g, tolerated) ==
    /\ ValidGraph(g, tolerated)
    /\ ~HasCausalCycle(g)
    /\ Model = "FifoP2P" => FifoConsistent(g)

Consistent(g) == ConsistentExcept(g, {})
=============================================================================
