----------------------------- MODULE GraphCaches -----------------------------
(***************************************************************************)
(* The bookkeeping an ExplorationGraphT keeps beside its events and its    *)
(* reads-from entries: event indices (execution_graph.hpp), the caches     *)
(* that add_event() and set_reads_from_source() maintain, the vector       *)
(* clocks built on demand and the trace written into a caller's buffer     *)
(* (exploration_graph.hpp).  Ids start at 1 here, positions and indices    *)
(* at 0 as in the code.                                                    *)
(***************************************************************************)
EXTENDS ExecutionGraph

CONSTANT MaxIndex     \* the largest EventIndex

ASSUME IndexAssumption == MaxIndex \in Nat

NoSource == -1        \* kNoSource, and the absent optional

-----------------------------------------------------------------------------
(* UsedEventIndexSet: every index below dense, and those of sparse.        *)
NoIndexUsed == [dense |-> 0, sparse |-> {}]

contains(u, i) == i < u.dense \/ i \in u.sparse

absorb_sparse(u) ==
    LET end == CHOOSE e \in u.dense .. MaxIndex :
                  /\ u.dense .. e - 1 \subseteq u.sparse
                  /\ e \notin u.sparse \/ e = MaxIndex
    IN  [dense |-> end, sparse |-> u.sparse \ (u.dense .. end - 1)]

insert(u, i) ==
    IF i = u.dense /\ i # MaxIndex
    THEN absorb_sparse([u EXCEPT !.dense = @ + 1])
    ELSE [u EXCEPT !.sparse = @ \cup {i}]

erase(u, i) ==
    IF i \in u.sparse THEN [u EXCEPT !.sparse = @ \ {i}]
    ELSE IF i >= u.dense THEN u
    ELSE [dense |-> i, sparse |-> u.sparse \cup (i + 1 .. u.dense - 1)]

(* The index of every event, and per thread the next index to try and the  *)
(* set of indices in use.                                                  *)
NoIndices == [of   |-> <<>>,
              next |-> [t \in Thread |-> 0],
              used |-> [t \in Thread |-> NoIndexUsed]]

FreeFrom(ix, t) == {i \in ix.next[t] .. MaxIndex : ~contains(ix.used[t], i)}

(* next_event_index() throws when there is none.                           *)
HasNextIndex(ix, t) == FreeFrom(ix, t) # {}
next_event_index(ix, t) == Min(FreeFrom(ix, t))

(* The bookkeeping half of append_event_unchecked().                       *)
TakeIndex(ix, t, i) ==
    [of   |-> Append(ix.of, i),
     next |-> [ix.next EXCEPT ![t] = IF i = MaxIndex THEN i ELSE i + 1],
     used |-> [ix.used EXCEPT ![t] = insert(@, i)]]

(* The bookkeeping half of rollback_last_event().                          *)
GiveBackIndex(ix, t, i, previous) ==
    [of   |-> Front(ix.of),
     next |-> [ix.next EXCEPT ![t] = previous],
     used |-> [ix.used EXCEPT ![t] = erase(@, i)]]

(* Mutant: only the order is checked, not whether the index is used.       *)
MayImportInOrder(ix, t, i) == i >= ix.next[t]

(* The checks of add_event_with_index().                                   *)
MayImport(ix, t, i) == ~contains(ix.used[t], i) /\ i >= ix.next[t]

-----------------------------------------------------------------------------
(* The incremental caches.  state is thread_state_; readers and unread are *)
(* send_reader_counts_ and unread_send_mask_, one entry per event.         *)
NoThreadState == [count |-> 0, last |-> NoSource]

NoCaches == [state    |-> [t \in Thread |-> NoThreadState],
             events   |-> [t \in Thread |-> <<>>],
             receives |-> [t \in Thread |-> <<>>],
             sends    |-> <<>>, readers |-> <<>>, unread |-> <<>>]

(* What add_event() and append_event_for_bulk_build() do to them.          *)
CacheEvent(c, e, t, label) ==
    [state    |-> [c.state EXCEPT ![t] = [count |-> @.count + 1, last |-> e]],
     events   |-> [c.events EXCEPT ![t] = Append(@, e)],
     receives |-> IF label.op = "recv"
                  THEN [c.receives EXCEPT ![t] = Append(@, e)] ELSE c.receives,
     sends    |-> IF label.op = "send" THEN Append(c.sends, e) ELSE c.sends,
     readers  |-> Append(c.readers, 0),
     unread   |-> Append(c.unread, label.op = "send")]

(* current_reads_from_source()                                             *)
SourceOf(g, r) == IF HasSource(g, r) THEN g.rf[r] ELSE NoSource

CountsReaders(g, s) == s \in Ids(g) /\ IsSend(g, s)

adjust_send_reader_count(c, g, s, delta) ==
    IF ~CountsReaders(g, s) THEN c
    ELSE [c EXCEPT !.readers[s] = @ + delta,
                   !.unread[s] = (c.readers[s] + delta = 0)]

update_send_reader_state(c, g, previous, next) ==
    adjust_send_reader_count(adjust_send_reader_count(c, g, previous, -1), g, next, 1)

Underflows(c, g, previous) == CountsReaders(g, previous) /\ c.readers[previous] = 0

(* Mutant: the tail of the thread is not restored.                         *)
UncacheEventKeepsTail(c, u, label) ==
    [state    |-> [c.state EXCEPT ![u.thread].count = @ - 1],
     events   |-> [c.events EXCEPT ![u.thread] = Front(@)],
     receives |-> IF label.op = "recv"
                  THEN [c.receives EXCEPT ![u.thread] = Front(@)] ELSE c.receives,
     sends    |-> IF label.op = "send" THEN Front(c.sends) ELSE c.sends,
     readers  |-> Front(c.readers),
     unread   |-> Front(c.unread)]

(* What undo_last_event_append() does to them, u being the undo record.    *)
UncacheEvent(c, u, label) ==
    [state    |-> [c.state EXCEPT ![u.thread] = u.state],
     events   |-> [c.events EXCEPT ![u.thread] = Front(@)],
     receives |-> IF label.op = "recv"
                  THEN [c.receives EXCEPT ![u.thread] = Front(@)] ELSE c.receives,
     sends    |-> IF label.op = "send" THEN Front(c.sends) ELSE c.sends,
     readers  |-> Front(c.readers),
     unread   |-> Front(c.unread)]

(* The internal_error checks of undo_last_event_append() and of            *)
(* rollback_last_event().                                                  *)
UndoMismatch(g, ix, c, u) ==
    LET tail == g.events[Len(g.events)]
        EndsWith(s) == s # <<>> /\ Last(s) = u.event
    IN  \/ g.events = <<>> \/ u.event # Len(g.events)
        \/ tail.thread # u.thread \/ Last(ix.of) # u.index
        \/ ~contains(ix.used[u.thread], u.index)
        \/ ~EndsWith(c.events[u.thread])
        \/ tail.label.op = "recv" /\ ~EndsWith(c.receives[u.thread])
        \/ tail.label.op = "send" /\ (~EndsWith(c.sends) \/ Last(c.readers) # 0)

-----------------------------------------------------------------------------
(* The vector clocks.  Edges of (po U rf): consecutive events of a thread, *)
(* and a send to each of its readers.                                      *)
ThreadEdges(c) ==
    UNION {{<<c.events[t][i - 1], c.events[t][i]>> : i \in 2 .. Len(c.events[t])}
              : t \in Thread}

PorfEdges(g, c) == ThreadEdges(c) \cup RfEdges(g)

(* Kahn's algorithm orders every event unless some events all wait for a   *)
(* predecessor among themselves.                                           *)
Orderable(ids, edges) ==
    \A S \in (SUBSET ids) \ {{}} : \E e \in S : \A d \in S : <<d, e>> \notin edges

TopoOrder(ids, edges) ==
    CHOOSE order \in [1 .. Cardinality(ids) -> ids] :
        \A i, j \in DOMAIN order :
            i # j => order[i] # order[j] /\ (<<order[i], order[j]>> \in edges => i < j)

NoCache == [built |-> FALSE]

(* ensure_porf_cache(), when there is no cache yet.                        *)
BuildCache(g, c) ==
    LET edges == PorfEdges(g, c)
        position == [e \in Ids(g) |-> CHOOSE p \in 0 .. Len(g.events) - 1 :
                        p + 1 \in DOMAIN c.events[ThreadOf(g, e)]
                        /\ c.events[ThreadOf(g, e)][p + 1] = e]
        zero == [t \in Thread |-> 0]
        Join(a, b) == [t \in Thread |-> IF a[t] > b[t] THEN a[t] ELSE b[t]]
        FromPo(clocks, e) ==
            IF position[e] = 0 THEN zero
            ELSE clocks[c.events[ThreadOf(g, e)][position[e]]]
        FromRf(clocks, e) == IF ReadsSend(g, e) THEN clocks[g.rf[e]] ELSE zero
        Clock(clocks, e) ==
            [Join(FromPo(clocks, e), FromRf(clocks, e))
                EXCEPT ![ThreadOf(g, e)] = position[e] + 1]
        Step(clocks, e) == [clocks EXCEPT ![e] = Clock(clocks, e)]
        none == [e \in Ids(g) |-> zero]
    IN  IF ~Orderable(Ids(g), edges)
        THEN [built |-> TRUE, cycle |-> TRUE, position |-> position, clocks |-> none]
        ELSE [built |-> TRUE, cycle |-> FALSE, position |-> position,
              clocks |-> FoldLeft(Step, none, TopoOrder(Ids(g), edges))]

(* porf_contains(), on a cache without a cycle.                            *)
porf_contains(cache, g, from, to) ==
    from # to /\ cache.clocks[to][ThreadOf(g, from)] >= cache.position[from] + 1

-----------------------------------------------------------------------------
(* thread_trace_into(): the trace of thread t written over a buffer that   *)
(* still holds an earlier trace; an entry that compares equal is kept.     *)
Write(w, kept, v) ==
    [written |-> w.written + 1,
     buf |-> IF kept THEN w.buf
             ELSE IF w.written < Len(w.buf) THEN [w.buf EXCEPT ![w.written + 1] = v]
             ELSE Append(w.buf, v)]

(* Mutant: an entry is kept when both are values or both are bottom.       *)
EmitComparesKind(w, v) ==
    Write(w, /\ w.written < Len(w.buf)
             /\ w.buf[w.written + 1] = Bottom <=> v = Bottom, v)

Emit(w, v) == Write(w, w.written < Len(w.buf) /\ w.buf[w.written + 1] = v, v)

thread_trace_into(g, c, t, buffer) ==
    LET Visit(w, e) == IF Observes(g, e) THEN Emit(w, Observed(g, e)) ELSE w
        w == FoldLeft(Visit, [written |-> 0, buf |-> buffer], c.events[t])
    IN  SubSeq(w.buf, 1, w.written)
=============================================================================
