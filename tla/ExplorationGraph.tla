-------------------------- MODULE ExplorationGraph --------------------------
(***************************************************************************)
(* One ExplorationGraphT object (model/exploration_graph.hpp) and the      *)
(* calls its owner makes.  The owner is a worker that grows the graph,     *)
(* takes checkpoints and rolls back to one it still holds, and that goes   *)
(* on with a copy when it materialises a revisit.  An import fills the     *)
(* ExecutionGraphT inside through add_event_with_index() instead, with     *)
(* none of the rest.                                                       *)
(*                                                                         *)
(* rollback() is its two loops: every undone record is a step, and no      *)
(* other call happens in between.                                          *)
(***************************************************************************)
EXTENDS GraphCaches

CONSTANTS
    Script,           \* per thread: the labels its n-th event may have
    MaxEvents,        \* bound on the events of a graph
    MaxAssignments,   \* bound on the reads-from undo log
    MaxCheckpoints    \* bound on the checkpoints held at once

VARIABLES
    kind,          \* "exploring" or "importing"
    graph,         \* events_ and reads_from_
    indices,       \* event indices, next_event_index_by_thread_, used indices
    caches,        \* the incremental caches
    known,         \* known_acyclic_ and pending_fresh_receive_id_
    porf,          \* porf_cache_
    undo,          \* event_undo_log_ and rf_undo_log_
    checkpoints,   \* the checkpoints held; each remembers (a ghost) the graph
    rolling,       \* the position of the checkpoint rollback() goes to, or 0
    failed         \* an internal_error was thrown

content == <<graph, indices, caches>>
vars == <<kind, graph, indices, caches, known, porf, undo, checkpoints, rolling, failed>>

EmptyLogs == [events |-> <<>>, rf |-> <<>>]
Acyclic     == [acyclic |-> TRUE, pending |-> NoSource]    \* mark_known_acyclic()
Unknown     == [acyclic |-> FALSE, pending |-> NoSource]   \* invalidate_known_acyclicity()

Init == /\ kind \in {"exploring", "importing"}
        /\ graph = EmptyGraph /\ indices = NoIndices /\ caches = NoCaches
        /\ known = Acyclic /\ porf = NoCache
        /\ undo = EmptyLogs /\ checkpoints = <<>>
        /\ rolling = 0 /\ failed = FALSE

Exploring == kind = "exploring" /\ rolling = 0 /\ ~failed
-----------------------------------------------------------------------------
(* Growing.  With no index left add_event() throws and changes nothing.    *)

KnownAfterEvent(label, e) ==
    [known EXCEPT !.pending =
        IF known.acyclic /\ label.op = "recv" THEN e ELSE NoSource]

add_event(t, label) ==
    LET e == Len(graph.events) + 1
        i == next_event_index(indices, t)
    IN  /\ Exploring
        /\ Len(graph.events) < MaxEvents
        /\ HasNextIndex(indices, t)
        /\ undo' = [undo EXCEPT !.events =
                Append(@, [event |-> e, thread |-> t, index |-> i,
                           state |-> caches.state[t], next |-> indices.next[t]])]
        /\ graph' = AddEvent(graph, t, label)
        /\ indices' = TakeIndex(indices, t, i)
        /\ caches' = CacheEvent(caches, e, t, label)
        /\ known' = KnownAfterEvent(label, e)
        /\ porf' = NoCache
        /\ UNCHANGED <<kind, checkpoints, rolling, failed>>

(* Mutant: binding any receive keeps the flag.                             *)
KnownAfterBindingAny(r) == IF known.acyclic THEN Acyclic ELSE Unknown

(* A fresh receive has no successor, so no edge into it closes a cycle.    *)
KnownAfterBinding(r) ==
    IF known.acyclic /\ known.pending = r THEN Acyclic ELSE Unknown

(* The part of set_reads_from_source() that rebind_rf() shares.            *)
Bind(r, s) ==
    /\ graph' = SetReadsFrom(graph, r, s)
    /\ caches' = update_send_reader_state(caches, graph, SourceOf(graph, r), s)
    /\ failed' = Underflows(caches, graph, SourceOf(graph, r))
    /\ UNCHANGED <<kind, indices, rolling>>

(* Mutant: the cache outlives the binding.                                 *)
set_reads_from_sourceCached(r, s) ==
    /\ Exploring
    /\ Len(undo.rf) < MaxAssignments
    /\ Bind(r, s)
    /\ undo' = [undo EXCEPT !.rf =
            Append(@, [receive |-> r, previous |-> SourceOf(graph, r)])]
    /\ known' = KnownAfterBinding(r)
    /\ UNCHANGED <<porf, checkpoints>>

set_reads_from_source(r, s) ==
    /\ Exploring
    /\ Len(undo.rf) < MaxAssignments
    /\ Bind(r, s)
    /\ undo' = [undo EXCEPT !.rf =
            Append(@, [receive |-> r, previous |-> SourceOf(graph, r)])]
    /\ porf' = NoCache
    /\ known' = KnownAfterBinding(r)
    /\ UNCHANGED checkpoints
-----------------------------------------------------------------------------
(* Checkpoints.                                                            *)

checkpoint ==
    /\ Exploring
    /\ Len(checkpoints) < MaxCheckpoints
    /\ checkpoints' = Append(checkpoints,
            [events |-> Len(undo.events), rf |-> Len(undo.rf), known |-> known,
             graph |-> graph])
    /\ UNCHANGED <<kind, content, known, porf, undo, rolling, failed>>

(* The owner returns from the frame that holds the newest checkpoint.      *)
ForgetCheckpoint ==
    /\ Exploring
    /\ checkpoints # <<>>
    /\ checkpoints' = Front(checkpoints)
    /\ UNCHANGED <<kind, content, known, porf, undo, rolling, failed>>

(* rollback() to the k-th checkpoint; the ones taken later are void.       *)
rollback(k) ==
    /\ Exploring
    /\ rolling' = k
    /\ checkpoints' = SubSeq(checkpoints, 1, k)
    /\ UNCHANGED <<kind, content, known, porf, undo, failed>>

Rolling == rolling # 0 /\ ~failed
Target  == checkpoints[rolling]

(* Mutant: the source is cleared instead of put back.                      *)
undo_last_rf_assignmentClears ==
    LET u == Last(undo.rf)
        current == SourceOf(graph, u.receive)
    IN  /\ Rolling
        /\ Len(undo.rf) > Target.rf
        /\ undo' = [undo EXCEPT !.rf = Front(@)]
        /\ graph' = [graph EXCEPT !.rf = [r \in DOMAIN graph.rf \ {u.receive} |-> graph.rf[r]]]
        /\ caches' = update_send_reader_state(caches, graph, current, NoSource)
        /\ failed' = Underflows(caches, graph, current)
        /\ porf' = NoCache
        /\ UNCHANGED <<kind, indices, known, checkpoints, rolling>>

undo_last_rf_assignment ==
    LET u == Last(undo.rf)
        restored == IF u.previous = NoSource
                    THEN [graph EXCEPT !.rf = [r \in DOMAIN graph.rf \ {u.receive} |-> graph.rf[r]]]
                    ELSE SetReadsFrom(graph, u.receive, u.previous)
        current == SourceOf(graph, u.receive)
    IN  /\ Rolling
        /\ Len(undo.rf) > Target.rf
        /\ undo' = [undo EXCEPT !.rf = Front(@)]
        /\ graph' = restored
        /\ caches' = update_send_reader_state(caches, graph, current, u.previous)
        /\ failed' = Underflows(caches, graph, current)
        /\ porf' = NoCache
        /\ UNCHANGED <<kind, indices, known, checkpoints, rolling>>

undo_last_event_append ==
    LET u == Last(undo.events)
    IN  /\ Rolling
        /\ Len(undo.rf) = Target.rf /\ Len(undo.events) > Target.events
        /\ IF UndoMismatch(graph, indices, caches, u)
           THEN failed' = TRUE /\ UNCHANGED <<content, undo, porf>>
           ELSE /\ undo' = [undo EXCEPT !.events = Front(@)]
                /\ graph' = [graph EXCEPT !.events = Front(@)]
                /\ indices' = GiveBackIndex(indices, u.thread, u.index, u.next)
                /\ caches' = UncacheEvent(caches, u, LabelOf(graph, u.event))
                /\ porf' = NoCache
                /\ UNCHANGED failed
        /\ UNCHANGED <<kind, known, checkpoints, rolling>>

FinishRollback ==
    /\ Rolling
    /\ Len(undo.rf) = Target.rf /\ Len(undo.events) = Target.events
    /\ known' = Target.known
    /\ porf' = NoCache
    /\ rolling' = 0
    /\ UNCHANGED <<kind, content, undo, checkpoints, failed>>
-----------------------------------------------------------------------------
(* Queries.  The consistency checker sets the flag when its own check      *)
(* finds no cycle; has_causal_cycle() and porf_contains() build the cache. *)

mark_known_acyclic ==
    /\ Exploring
    /\ known' = IF Orderable(Ids(graph), PorfEdges(graph, caches)) THEN Acyclic ELSE known
    /\ UNCHANGED <<kind, content, porf, undo, checkpoints, rolling, failed>>

ensure_porf_cache ==
    /\ Exploring
    /\ porf' = IF porf.built THEN porf ELSE BuildCache(graph, caches)
    /\ UNCHANGED <<kind, content, known, undo, checkpoints, rolling, failed>>
-----------------------------------------------------------------------------
(* Copies.  A copy has no history whatever its original has, so a rewrite  *)
(* of a graph with history is Copy and then the rewrite: the other actions *)
(* start from a graph without history, and the owner goes on with theirs.  *)

NoHistory == undo = EmptyLogs /\ checkpoints = <<>>
Materialises == Exploring /\ NoHistory /\ UNCHANGED <<undo, checkpoints>>

(* The copy constructor, as in a task handed to another worker.            *)
Copy == /\ Exploring
        /\ ~NoHistory
        /\ undo' = EmptyLogs /\ checkpoints' = <<>>
        /\ UNCHANGED <<kind, content, known, porf, rolling, failed>>

(* A caller that asks to keep the flag has shown that the edge closes no   *)
(* cycle.                                                                  *)
ClosesNoCycle(r, s) ==
    Orderable(Ids(graph), PorfEdges(SetReadsFrom(graph, r, s), caches))
MayPreserve(r, s) == {b \in BOOLEAN : b => ClosesNoCycle(r, s)}

with_rf(r, s, preserve) ==
    /\ Materialises
    /\ preserve \in MayPreserve(r, s)
    /\ Bind(r, s)
    /\ porf' = NoCache
    /\ known' = IF preserve /\ known.acyclic THEN Acyclic ELSE Unknown

with_bottom_rf(r) ==
    /\ Materialises
    /\ Bind(r, Bottom)
    /\ porf' = NoCache
    /\ known' = IF known.acyclic THEN Acyclic ELSE Unknown

(* rebind_rf() works in place, and throws on a graph with history.         *)
rebind_rf(r, s, preserve) ==
    /\ Materialises
    /\ preserve \in MayPreserve(r, s)
    /\ Bind(r, s)
    /\ porf' = NoCache
    /\ known' = IF preserve THEN Acyclic ELSE Unknown

with_nd_value(e, v) ==
    /\ Materialises
    /\ graph' = [graph EXCEPT !.events[e].label.val = v]
    /\ UNCHANGED <<kind, indices, caches, known, porf, rolling, failed>>

(* restrict_from_keep_mask(): ids are the kept ids in ascending order.     *)
id_map(ids, e) == CHOOSE n \in DOMAIN ids : ids[n] = e

Kept(ids) == {ids[n] : n \in DOMAIN ids}

KeptSource(ids, r) ==
    IF graph.rf[r] = Bottom THEN Bottom ELSE id_map(ids, graph.rf[r])

RestrictedGraph(ids) ==
    LET Keeps(n) == /\ HasSource(graph, ids[n])
                    /\ graph.rf[ids[n]] \in Kept(ids) \cup {Bottom}
    IN  [events |-> [n \in DOMAIN ids |-> graph.events[ids[n]]],
         rf |-> [n \in {m \in DOMAIN ids : Keeps(m)} |-> KeptSource(ids, ids[n])]]

RestrictedIndices(ids) ==
    LET Add(ix, e) == TakeIndex(ix, ThreadOf(graph, e),
                                next_event_index(ix, ThreadOf(graph, e)))
    IN  FoldLeft(Add, NoIndices, ids)

RestrictedCaches(ids) ==
    LET g == RestrictedGraph(ids)
        Add(c, e) == CacheEvent(c, id_map(ids, e), ThreadOf(graph, e), LabelOf(graph, e))
        Read(r, c) == update_send_reader_state(c, g, NoSource, g.rf[r])
    IN  FoldSet(Read, FoldLeft(Add, NoCaches, ids), DOMAIN g.rf)

restrict(ids) ==
    /\ Materialises
    /\ \A m, n \in DOMAIN ids : m < n => ids[m] < ids[n]
    /\ graph' = RestrictedGraph(ids)
    /\ indices' = RestrictedIndices(ids)
    /\ caches' = RestrictedCaches(ids)
    /\ known' = IF known.acyclic THEN Acyclic ELSE Unknown
    /\ porf' = NoCache
    /\ UNCHANGED <<kind, rolling, failed>>
-----------------------------------------------------------------------------
(* Imports (ExecutionGraphT): append_event_unchecked() after the checks on *)
(* the index, or after taking the next free one.                           *)

Import(t, label, i) ==
    /\ kind = "importing"
    /\ Len(graph.events) < MaxEvents
    /\ graph' = AddEvent(graph, t, label)
    /\ indices' = TakeIndex(indices, t, i)
    /\ UNCHANGED <<kind, caches, known, porf, undo, checkpoints, rolling, failed>>

add_event_with_index(t, label, i) == MayImport(indices, t, i) /\ Import(t, label, i)

ImportNext(t, label) ==
    HasNextIndex(indices, t) /\ Import(t, label, next_event_index(indices, t))
-----------------------------------------------------------------------------
NextLabels(t) == LET n == ThreadEventCount(graph, t) + 1
                 IN  IF n \in DOMAIN Script[t] THEN Script[t][n] ELSE {}

Grows == \E t \in Thread :
            \/ \E l \in NextLabels(t) : add_event(t, l)
            \/ \E l \in Script[t][1] :
                  ImportNext(t, l) \/ \E i \in 0 .. MaxIndex : add_event_with_index(t, l, i)

Binds == \E r \in Receives(graph) :
            \/ \E s \in Sends(graph) \cup {Bottom} : set_reads_from_source(r, s)
            \/ \E s \in Sends(graph), preserve \in BOOLEAN :
                  with_rf(r, s, preserve) \/ rebind_rf(r, s, preserve)
            \/ with_bottom_rf(r)

RollsBack == (\E k \in DOMAIN checkpoints : rollback(k))
             \/ undo_last_rf_assignment \/ undo_last_event_append \/ FinishRollback

Revalues == \E e \in Ids(graph), v \in Value :
               IsOp(graph, e, "nd") /\ with_nd_value(e, v)

Restricts == \E keep \in SUBSET Ids(graph) : restrict(Ascending(keep))

Next == Grows \/ Binds \/ RollsBack \/ Revalues \/ Restricts
        \/ checkpoint \/ ForgetCheckpoint
        \/ mark_known_acyclic \/ ensure_porf_cache \/ Copy

Spec == Init /\ [][Next]_vars
-----------------------------------------------------------------------------
(* The trace the engine asks for is the one the graph defines, whatever    *)
(* the reused buffer still holds.                                          *)
Buffers == UNION {[1 .. n -> Value \cup {Bottom}] : n \in 0 .. 2}

(* CachesExact: after every call, and after every undone record, each      *)
(* cache is what a scan of the events and of the reads-from entries gives: *)
(* thread tails and counts, receives per thread, sends, reader counts and  *)
(* the unread mask (add_event, set_reads_from_source, the undo functions   *)
(* and the bulk build of restrict); so none of the checks by which the     *)
(* undo functions and the reader counts raise internal_error ever fails.   *)
CachesExact ==
    /\ ~failed
    /\ kind = "exploring" =>
        /\ \A t \in Thread :
             /\ caches.events[t] = Ascending(ThreadEvents(graph, t))
             /\ caches.receives[t] = Ascending(ThreadEvents(graph, t) \cap Receives(graph))
             /\ caches.state[t] = IF ThreadEvents(graph, t) = {} THEN NoThreadState
                                  ELSE [count |-> ThreadEventCount(graph, t),
                                        last |-> LastEvent(graph, t)]
        /\ caches.sends = Ascending(Sends(graph))
        /\ caches.readers = [e \in Ids(graph) |-> Cardinality(Readers(graph, e))]
        /\ caches.unread = [e \in Ids(graph) |-> e \in UnreadSends(graph)]

(* KnownAcyclicSound: whenever known_acyclic_ is set and no rollback is    *)
(* under way, the graph has no causal cycle, so the consistency checker    *)
(* may skip its cycle query (consistency.hpp); and the receive the fast    *)
(* path waits for has no successor.                                        *)
KnownAcyclicSound ==
    rolling = 0 /\ ~failed =>
        /\ known.acyclic => Orderable(Ids(graph), PorfEdges(graph, caches))
        /\ known.pending # NoSource =>
              \A e \in Ids(graph) : <<known.pending, e>> \notin PorfEdges(graph, caches)

(* PorfCacheExact: a cache that is still there answers has_causal_cycle()  *)
(* and porf_contains() for the graph as it is now, through every mutation, *)
(* rollback and copy since it was built.                                   *)
PorfCacheExact ==
    porf.built /\ ~failed =>
        /\ porf.cycle <=> HasCausalCycle(graph)
        /\ ~porf.cycle =>
              \A a, b \in Ids(graph) :
                  porf_contains(porf, graph, a, b) <=> <<a, b>> \in Porf(graph)

(* ProgramOrderIsTotal: the indices of a thread increase strictly with the *)
(* event ids, up to the saturated last index, imports with gaps and        *)
(* rollbacks included (what derive_thread_event_sequences() demands), and  *)
(* the set of used indices is the set of indices that occur.               *)
ProgramOrderIsTotal ==
    \A t \in Thread :
        /\ \A d, e \in ThreadEvents(graph, t) : d < e => indices.of[d] < indices.of[e]
        /\ \A i \in 0 .. MaxIndex :
              contains(indices.used[t], i)
                 <=> \E e \in ThreadEvents(graph, t) : indices.of[e] = i

(* TraceBufferExact: thread_trace_into() leaves exactly the thread's trace *)
(* in the buffer, whatever an earlier call, for any graph, left there:     *)
(* longer, shorter, or equal in some entries, which are not written again. *)
TraceBufferExact ==
    kind = "exploring" /\ rolling = 0 /\ ~failed =>
        \A t \in Thread, b \in Buffers :
            thread_trace_into(graph, caches, t, b) = ThreadTrace(graph, t)

(* ImplementsHistory: undo logs, checkpoints, in-place edits and copies    *)
(* together behave as the plain values of GraphHistory: in particular a    *)
(* rollback ends in exactly the graph of its checkpoint, and a restriction *)
(* is RestrictTo.                                                          *)
History == INSTANCE GraphHistory WITH
    value <- IF rolling = 0 THEN graph ELSE checkpoints[rolling].graph,
    saved <- [k \in DOMAIN checkpoints |-> checkpoints[k].graph]
ImplementsHistory == History!HSpec
=============================================================================
