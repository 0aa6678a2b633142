----------------------------- MODULE DporOracle -----------------------------
(***************************************************************************)
(* The explorer beside the exhaustive oracle of                            *)
(* tests/support/oracle_core.hpp.  The oracle takes any enabled transition *)
(* of any thread; here it first grows one witness, in every possible way,  *)
(* and then the explorer runs: in each behaviour the explorer must publish *)
(* the witness of that behaviour.                                          *)
(***************************************************************************)
EXTENDS DepthFirstExplorer

VARIABLES
    phase,       \* "oracle", then "explore"
    witness,     \* the graph the oracle is at
    expected     \* signature of the execution it ended with

ovars == <<phase, witness, expected>>
vars  == <<evars, ovars>>

OracleInit ==
    /\ Init
    /\ phase = "oracle"
    /\ witness = EmptyGraph
    /\ expected = {}

(* enumerate_enabled_transitions(): one thread's ways to extend the graph. *)
ReceiveSources(g, t, label) ==
    CompatibleUnreadSends(g, t, label) \cup (IF label.nonblocking THEN {Bottom} ELSE {})

Extensions(g, t) ==
    LET label == AskThread(prog, g, t)
        Added(l) == AddEvent(g, t, l)
    IN  CASE label.op = "recv" ->
               IF ReceiveSources(g, t, label) = {}
               THEN {Added(BlockLabel)}
               ELSE {SetReadsFrom(Added(label), EventCount(g) + 1, s) :
                       s \in ReceiveSources(g, t, label)}
          [] label.op = "nd" /\ label.choices # <<>> ->
               {Added([label EXCEPT !.val = v]) : v \in ToSet(label.choices)}
          [] OTHER -> {Added(label)}

Transitions(g) == UNION {Extensions(g, t) : t \in Runnable(prog, g)}

(* enumerate_reschedulable_graphs().                                       *)
Rescheduled(g) == {WithoutBlock(g, t) : t \in Reschedulable(prog, g)}

(* The same graph with its events inserted thread by thread: the oracle    *)
(* compares signatures, which forget the order.                            *)
Canonical(g) ==
    LET Pos(e) == IF e = Bottom THEN Bottom
                  ELSE Cardinality({d \in Ids(g) : d = e \/ TieLess(g, d, e)})
        At(i) == CHOOSE e \in Ids(g) : Pos(e) = i
    IN  [events |-> [i \in Ids(g) |-> g.events[At(i)]],
         rf |-> [i \in {Pos(r) : r \in DOMAIN g.rf} |-> Pos(g.rf[At(i)])]]

(* enumerate_consistent_executions(), one call per step.                   *)
OracleStep ==
    /\ phase = "oracle"
    /\ \E g \in IF Transitions(witness) # {} THEN Transitions(witness)
                ELSE Rescheduled(witness) :
          /\ Transitions(witness) # {} => Consistent(g)
          /\ witness' = Canonical(g)
    /\ UNCHANGED <<evars, phase, expected>>

OracleDone ==
    /\ phase = "oracle"
    /\ Transitions(witness) = {}
    /\ Rescheduled(witness) = {}
    /\ phase' = "explore"
    /\ expected' = Signature(witness)
    /\ witness' = EmptyGraph
    /\ UNCHANGED evars

ExplorerStep == phase = "explore" /\ Next /\ UNCHANGED ovars

AllDone == phase = "explore" /\ Finished /\ UNCHANGED vars

OracleNext == OracleStep \/ OracleDone \/ ExplorerStep \/ AllDone

OracleSpec == OracleInit /\ [][OracleNext]_vars

(* No step changes the state: the exploration is over, or a graph is       *)
(* rescheduled to itself for ever.                                         *)
Stuck ==
    /\ phase = "explore"
    /\ \/ Finished
       \/ /\ Visiting /\ Maximal
          /\ Reschedulable(prog, Graph) # {}
          /\ RescheduleChild(prog, Graph) = Graph

(* The explorer is one thread that runs until it is done: weak fairness of *)
(* OracleNext, with Stuck for the states where it is not enabled, because  *)
(* ENABLED is too costly to evaluate here.  Every step that changes vars   *)
(* is a step of OracleNext.                                                *)
KeepsRunning == <>[]Stuck \/ []<><<TRUE>>_vars

FairOracleSpec == OracleSpec /\ KeepsRunning

-----------------------------------------------------------------------------
Ended == phase = "explore" /\ Finished /\ ~stop

Published(sig) == \E i \in DOMAIN terminals : terminals[i].signature = sig
PublishedKind(kinds) == \E i \in DOMAIN terminals : terminals[i].kind \in kinds
ErrorFree(sig) == \A e \in sig : e[2].op # "error"

(* compare_dpor_with_oracle(): once the exploration ends by itself, it has *)
(* published the oracle's execution, whichever that is.                    *)
Complete == Ended /\ ErrorFree(expected) => Published(expected)

(* With limits and errors: an execution that was not published was cut     *)
(* off, and a terminal of one of the cutting kinds says so.                *)
CompleteUnlessCut ==
    Ended => Published(expected) \/ PublishedKind({"DepthLimit", "Error"})

(* The exploration ends: no cycle of revisits and reschedulings, and after *)
(* a stop, at whatever depth and with whatever tasks queued, every frame   *)
(* of every context is unwound and no task is left.                        *)
Terminates == <>(phase = "explore" /\ Finished)
=============================================================================
