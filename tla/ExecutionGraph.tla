--------------------------- MODULE ExecutionGraph ---------------------------
(***************************************************************************)
(* Execution graphs (model/event.hpp, model/execution_graph.hpp and the    *)
(* queries of model/exploration_graph.hpp).  A graph is a value: its       *)
(* events in insertion order, which is also the order of their ids, and    *)
(* the reads-from function on the receives that have a source.             *)
(***************************************************************************)
EXTENDS Integers, Sequences, FiniteSets, FiniteSetsExt, SequencesExt

CONSTANTS
    Thread,      \* thread ids: numbers, because ties are broken by them
    Value        \* message values: numbers, because ND choices are ordered

ASSUME GraphAssumption == Thread \subseteq Nat /\ Value \subseteq Nat \ {0}

Bottom == 0      \* the reads-from source and the value of "no message"

(***************************************************************************)
(* Labels.  accepts is the matcher of a receive, as the set of values it   *)
(* returns true for; choices is the vector of an ND label.                 *)
(***************************************************************************)
SendLabel(dst, v)       == [op |-> "send", dst |-> dst, val |-> v]
ReceiveLabel(nb, acc)   == [op |-> "recv", nonblocking |-> nb, accepts |-> acc]
NdLabel(choices, v)     == [op |-> "nd", choices |-> choices, val |-> v]
BlockLabel              == [op |-> "block"]
ErrorLabel              == [op |-> "error"]

EmptyGraph == [events |-> <<>>, rf |-> <<>>]

Ids(g)          == DOMAIN g.events
EventCount(g)   == Len(g.events)
ThreadOf(g, e)  == g.events[e].thread
LabelOf(g, e)   == g.events[e].label
IsOp(g, e, op)  == LabelOf(g, e).op = op
IsSend(g, e)    == IsOp(g, e, "send")
IsReceive(g, e) == IsOp(g, e, "recv")
IsNonblocking(g, e) == IsReceive(g, e) /\ LabelOf(g, e).nonblocking
Receives(g)     == {e \in Ids(g) : IsReceive(g, e)}
Sends(g)        == {e \in Ids(g) : IsSend(g, e)}

AddEvent(g, t, label) ==
    [g EXCEPT !.events = Append(@, [thread |-> t, label |-> label])]

(* set_reads_from_source(): binds or rebinds the source of a receive.      *)
SetReadsFrom(g, recv, source) ==
    [g EXCEPT !.rf = [r \in DOMAIN g.rf \cup {recv} |->
                        IF r = recv THEN source ELSE g.rf[r]]]

HasSource(g, r)   == r \in DOMAIN g.rf
ReadsBottom(g, r) == HasSource(g, r) /\ g.rf[r] = Bottom
ReadsSend(g, r)   == HasSource(g, r) /\ g.rf[r] # Bottom
Readers(g, s)     == {r \in DOMAIN g.rf : g.rf[r] = s}

-----------------------------------------------------------------------------
(* Threads.                                                                *)

ThreadEvents(g, t) == {e \in Ids(g) : ThreadOf(g, e) = t}
ThreadEventCount(g, t) == Cardinality(ThreadEvents(g, t))
LastEvent(g, t) == Max(ThreadEvents(g, t))
EventIndex(g, e) == Cardinality({d \in ThreadEvents(g, ThreadOf(g, e)) : d < e})

LastIs(g, t, ops) ==
    ThreadEvents(g, t) # {} /\ LabelOf(g, LastEvent(g, t)).op \in ops
ThreadIsTerminated(g, t) == LastIs(g, t, {"block", "error"})
HasBlockedThread(g) == \E t \in Thread : LastIs(g, t, {"block"})

(* The ids of a set in ascending order.                                    *)
Ascending(S) ==
    [i \in 1 .. Cardinality(S) |->
        CHOOSE x \in S : Cardinality({y \in S : y <= x}) = i]

(* thread_trace(): what the thread has observed, in program order.         *)
Observes(g, e)  == IsOp(g, e, "nd") \/ (IsReceive(g, e) /\ HasSource(g, e))
Observed(g, e)  ==
    IF IsOp(g, e, "nd") THEN LabelOf(g, e).val
    ELSE IF ReadsBottom(g, e) THEN Bottom ELSE LabelOf(g, g.rf[e]).val
ThreadTrace(g, t) ==
    LET seen == Ascending({e \in ThreadEvents(g, t) : Observes(g, e)})
    IN  [i \in DOMAIN seen |-> Observed(g, seen[i])]

-----------------------------------------------------------------------------
(* Messages.                                                               *)

UnreadSends(g) == {s \in Sends(g) : Readers(g, s) = {}}

(* The send goes to thread t and the receive label accepts its value.      *)
Matches(g, s, t, recv) ==
    LabelOf(g, s).dst = t /\ LabelOf(g, s).val \in recv.accepts

CompatibleUnreadSends(g, t, recv) ==
    {s \in UnreadSends(g) : Matches(g, s, t, recv)}

ReceivesInDestination(g, s) ==
    Ascending({r \in Receives(g) : ThreadOf(g, r) = LabelOf(g, s).dst})

-----------------------------------------------------------------------------
(* Program order, reads-from and their transitive closure, as pairs.       *)

PoEdges(g) == {p \in Ids(g) \X Ids(g) :
                 ThreadOf(g, p[1]) = ThreadOf(g, p[2]) /\ p[1] < p[2]}
RfEdges(g) == {<<g.rf[r], r>> : r \in {q \in DOMAIN g.rf : ReadsSend(g, q)}}

Closure(R, S) ==
    FoldSet(LAMBDA k, acc :
                acc \cup {<<a, b>> : a \in {d \in S : <<d, k>> \in acc},
                                    b \in {d \in S : <<k, d>> \in acc}},
            R, S)

Porf(g) == Closure(PoEdges(g) \cup RfEdges(g), Ids(g))

HasCausalCycle(g) == \E e \in Ids(g) : <<e, e>> \in Porf(g)

-----------------------------------------------------------------------------
(* restrict(): the kept events, renumbered densely in the same order.  A   *)
(* receive whose source is dropped is left without one.                    *)
NewId(keep, e) == Cardinality({k \in keep : k <= e})

RestrictTo(g, keep) ==
    LET old  == Ascending(keep)
        kept == {r \in DOMAIN g.rf \cap keep :
                   g.rf[r] = Bottom \/ g.rf[r] \in keep}
        Source(r) == IF g.rf[r] = Bottom THEN Bottom ELSE NewId(keep, g.rf[r])
    IN  [events |-> [i \in DOMAIN old |-> g.events[old[i]]],
         rf |-> [n \in {NewId(keep, r) : r \in kept} |-> Source(old[n])]]

(***************************************************************************)
(* graph_signature() of tests/support/oracle_core.hpp: a graph up to the   *)
(* order in which its events were inserted.                                *)
(***************************************************************************)
Signature(g) ==
    LET Where(e) == <<ThreadOf(g, e), EventIndex(g, e)>>
        Label(e) == IF IsOp(g, e, "nd") THEN [op |-> "nd", val |-> LabelOf(g, e).val]
                    ELSE LabelOf(g, e)
        Source(e) == IF ~HasSource(g, e) THEN <<>>
                     ELSE IF ReadsBottom(g, e) THEN <<<<>>>>
                     ELSE <<Where(g.rf[e])>>
    IN  {<<Where(e), Label(e), Source(e)>> : e \in Ids(g)}
=============================================================================
