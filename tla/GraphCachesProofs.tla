-------------------------- MODULE GraphCachesProofs --------------------------
(***************************************************************************)
(* Why known_acyclic_ may stay set (update_acyclicity_after_add_event(),   *)
(* update_acyclicity_after_rf_assignment() and with_bottom_rf() of         *)
(* exploration_graph.hpp), for graphs of any size: edges into an event     *)
(* that nothing follows close no cycle, and taking edges away opens none.  *)
(* Acyclic is Orderable: what Kahn's algorithm decides.                    *)
(***************************************************************************)
EXTENDS GraphCaches, TLAPS

(* Adding a last event r, or edges into it, to edges E that order the      *)
(* other events.                                                           *)
LEMMA EdgesIntoTheLast ==
    ASSUME NEW ids, NEW E, NEW F, NEW r,
           Orderable(ids \ {r}, E),
           \A d \in ids, e \in ids : <<d, e>> \in F /\ e # r => <<d, e>> \in E,
           \A e \in ids : <<r, e>> \notin F
    PROVE  Orderable(ids, F)
<1> SUFFICES ASSUME NEW S \in SUBSET ids, S # {}
             PROVE  \E e \in S : \A d \in S : <<d, e>> \notin F
  BY Zenon DEF Orderable
<1>1. CASE S \ {r} = {}
  <2>1. S = {r}
    BY <1>1
  <2> QED
    BY <2>1
<1>2. CASE S \ {r} # {}
  <2>1. S \ {r} \in SUBSET (ids \ {r})
    OBVIOUS
  <2>2. PICK e \in S \ {r} : \A d \in S \ {r} : <<d, e>> \notin E
    BY Zenon, <1>2, <2>1 DEF Orderable
  <2>3. \A d \in S : <<d, e>> \notin F
    BY <2>2
  <2> QED
    BY <2>3
<1> QED
  BY <1>1, <1>2

(* Fewer events and fewer edges.                                           *)
LEMMA FewerEdges ==
    ASSUME NEW ids, NEW kept \in SUBSET ids, NEW E, NEW F,
           Orderable(ids, E), \A d \in kept, e \in kept : <<d, e>> \in F => <<d, e>> \in E
    PROVE  Orderable(kept, F)
BY DEF Orderable

(* The edges of a graph in which receive r reads from s.                   *)
LEMMA EdgesOfBinding ==
    ASSUME NEW g, NEW c, NEW r, NEW s, NEW d, NEW e,
           <<d, e>> \in PorfEdges(SetReadsFrom(g, r, s), c),
           g = [events |-> g.events, rf |-> g.rf]
    PROVE  <<d, e>> \in PorfEdges(g, c) \/ (e = r /\ d = s /\ s # Bottom)
<1> DEFINE h == SetReadsFrom(g, r, s)
<1>1. h.rf = [q \in DOMAIN g.rf \cup {r} |-> IF q = r THEN s ELSE g.rf[q]]
  BY DEF SetReadsFrom
<1>2. CASE <<d, e>> \in RfEdges(h)
  <2>1. PICK q \in DOMAIN h.rf : h.rf[q] # Bottom /\ <<d, e>> = <<h.rf[q], q>>
    BY <1>2 DEF RfEdges, ReadsSend, HasSource
  <2>2. d = h.rf[q] /\ e = q
    BY <2>1
  <2>3. CASE q = r
    BY Zenon, <1>1, <2>1, <2>2, <2>3
  <2>4. CASE q # r
    <3>1. q \in DOMAIN g.rf /\ h.rf[q] = g.rf[q]
      BY Zenon, <1>1, <2>1, <2>4
    <3>2. <<d, e>> \in RfEdges(g)
      BY Zenon, <2>1, <2>2, <3>1 DEF RfEdges, ReadsSend, HasSource
    <3> QED
      BY Zenon, <3>2 DEF PorfEdges
  <2> QED
    BY Zenon, <2>3, <2>4
<1>3. CASE <<d, e>> \notin RfEdges(h)
  BY <1>3 DEF PorfEdges
<1> QED
  BY Zenon, <1>2, <1>3
-----------------------------------------------------------------------------
(* A receive that nothing follows may be bound to any other event without  *)
(* closing a cycle: the fast path of                                       *)
(* update_acyclicity_after_rf_assignment().                                *)
THEOREM FreshBindingClosesNoCycle ==
    ASSUME NEW g, NEW c, NEW r, NEW s,
           g = [events |-> g.events, rf |-> g.rf], s # r,
           Orderable(Ids(g), PorfEdges(g, c)),
           \A e \in Ids(g) : <<r, e>> \notin PorfEdges(g, c)
    PROVE  Orderable(Ids(g), PorfEdges(SetReadsFrom(g, r, s), c))
<1> DEFINE E == PorfEdges(g, c)
           F == PorfEdges(SetReadsFrom(g, r, s), c)
<1>1. \A d, e : <<d, e>> \in F => <<d, e>> \in E \/ (e = r /\ d = s)
  BY EdgesOfBinding
<1>2. \A e \in Ids(g) : <<r, e>> \notin F
  BY Zenon, <1>1
<1>3. Orderable(Ids(g) \ {r}, E)
  BY Zenon, FewerEdges
<1> HIDE DEF E, F
<1>4. Orderable(Ids(g), F)
  BY ZenonT(40), <1>1, <1>2, <1>3, EdgesIntoTheLast
<1> QED
  BY Zenon, <1>4 DEF F

(* Binding a receive to "no message" adds no edge: with_bottom_rf() keeps  *)
(* the flag.                                                               *)
THEOREM BottomClosesNoCycle ==
    ASSUME NEW g, NEW c, NEW r,
           g = [events |-> g.events, rf |-> g.rf],
           Orderable(Ids(g), PorfEdges(g, c))
    PROVE  Orderable(Ids(g), PorfEdges(SetReadsFrom(g, r, Bottom), c))
<1> DEFINE E == PorfEdges(g, c)
           F == PorfEdges(SetReadsFrom(g, r, Bottom), c)
<1>1. \A d, e : <<d, e>> \in F => <<d, e>> \in E
  BY EdgesOfBinding
<1> HIDE DEF E, F
<1>2. Orderable(Ids(g), E)
  BY DEF E
<1>3. Orderable(Ids(g), F)
  BY <1>1, <1>2, FewerEdges
<1> QED
  BY <1>3 DEF F

(* An appended event comes last: add_event() keeps the flag, and a receive *)
(* just appended is followed by nothing, which is what the theorem on      *)
(* fresh bindings asks of it.                                              *)
THEOREM AppendedEventComesLast ==
    ASSUME NEW Event, NEW g, g.events \in Seq(Event), g = [events |-> g.events, rf |-> g.rf],
           \A q \in DOMAIN g.rf : g.rf[q] \in Ids(g) \cup {Bottom},
           NEW c, c.events \in [Thread -> Seq(Ids(g))],
           Orderable(Ids(g), PorfEdges(g, c)),
           NEW t \in Thread, NEW label
    PROVE  LET n == Len(g.events) + 1
               h == AddEvent(g, t, label)
               F == PorfEdges(h, CacheEvent(c, n, t, label))
           IN  Orderable(Ids(h), F) /\ \A e \in Ids(h) : <<n, e>> \notin F
<1> DEFINE n == Len(g.events) + 1
           h == AddEvent(g, t, label)
           k == CacheEvent(c, n, t, label)
           E == PorfEdges(g, c)
           F == PorfEdges(h, k)
<1>1. /\ h.rf = g.rf /\ Ids(g) = 1 .. Len(g.events) /\ Ids(h) = 1 .. n
      /\ Len(g.events) \in Nat
  BY DEF AddEvent, Ids
<1>2. Ids(h) \ {n} = Ids(g) /\ n \notin Ids(g)
  BY <1>1
<1>3. RfEdges(h) = RfEdges(g)
  BY Zenon, <1>1 DEF RfEdges, ReadsSend, HasSource
<1>4. k.events = [c.events EXCEPT ![t] = Append(@, n)]
  BY Zenon DEF CacheEvent
<1>5. \A u \in Thread : /\ c.events[u] \in Seq(Ids(g))
                       /\ \/ k.events[u] = c.events[u]
                          \/ k.events[u] = Append(c.events[u], n)
  BY Zenon, <1>4
<1> HIDE DEF k, n
<1>6. ASSUME NEW d, NEW e, <<d, e>> \in ThreadEdges(k)
      PROVE  d \in Ids(g) /\ (<<d, e>> \in ThreadEdges(c) \/ e = n)
  <2>1. PICK u \in Thread : \E i \in 2 .. Len(k.events[u]) :
          d = k.events[u][i - 1] /\ e = k.events[u][i]
    BY <1>6 DEF ThreadEdges
  <2>2. PICK i \in 2 .. Len(k.events[u]) : d = k.events[u][i - 1] /\ e = k.events[u][i]
    BY Zenon, <2>1
  <2> DEFINE x == c.events[u]
             y == k.events[u]
  <2>3. \A j \in 2 .. Len(x) : <<x[j - 1], x[j]>> \in ThreadEdges(c)
    BY SMTT(30) DEF ThreadEdges
  <2>4. i - 1 \in 1 .. Len(x) /\ d = x[i - 1] /\ (e = n \/ (i \in 2 .. Len(x) /\ e = x[i]))
    <3>1. x \in Seq(Ids(g)) /\ (y = x \/ y = Append(x, n))
      BY Zenon, <1>5
    <3>2. i \in 2 .. Len(y) /\ d = y[i - 1] /\ e = y[i]
      BY Zenon, <2>2
    <3> HIDE DEF x, y
    <3>3. /\ i - 1 \in 1 .. Len(x) /\ y[i - 1] = x[i - 1]
          /\ y[i] = n \/ (i \in 2 .. Len(x) /\ y[i] = x[i])
      <4>1. CASE y = x
        BY <3>1, <3>2, <4>1
      <4>2. CASE y = Append(x, n)
        <5>1. Len(x) \in Nat /\ Len(y) = Len(x) + 1 /\ y[Len(x) + 1] = n
          BY <3>1, <4>2
        <5>2. \A j \in 1 .. Len(x) : y[j] = x[j]
          BY <3>1, <4>2
        <5>3. i \in 2 .. Len(x) + 1
          BY Zenon, <3>2, <5>1
        <5> QED
          BY <5>1, <5>2, <5>3
      <4> QED
        BY Zenon, <3>1, <4>1, <4>2
    <3> QED
      BY <3>2, <3>3
  <2>5. x[i - 1] \in Ids(g)
    BY <1>5, <2>4
  <2> QED
    BY Zenon, <2>3, <2>4, <2>5
<1>7. \A e : <<n, e>> \notin RfEdges(h)
  BY Zenon, <1>1, <1>2, <1>3 DEF RfEdges, ReadsSend, HasSource, Bottom
<1>8. \A e \in Ids(h) : <<n, e>> \notin F
  BY Zenon, <1>2, <1>6, <1>7 DEF PorfEdges
<1>9. \A d, e : <<d, e>> \in F /\ e # n => <<d, e>> \in E
  BY <1>3, <1>6 DEF PorfEdges
<1>10. Orderable(Ids(h) \ {n}, E)
  BY Zenon, <1>2
<1> HIDE DEF h, E, F
<1>11. Orderable(Ids(h), F)
  BY Zenon, <1>8, <1>9, <1>10, EdgesIntoTheLast
<1> QED
  BY Zenon, <1>8, <1>11 DEF n, h, k, F
=============================================================================
