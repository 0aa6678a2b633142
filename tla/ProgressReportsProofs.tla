----------------------- MODULE ProgressReportsProofs ------------------------
(***************************************************************************)
(* The theorems about ProgressReports, for any number of workers and any   *)
(* intervals.  Live reports are throttled: a report that is due is claimed by *)
(* an exchange that moves next_progress_report_tick_ at least one interval on *)
(* and never further than one interval ahead of the clock, so the tick counts *)
(* the claims.  Reports are exact where they say so and never go back: each *)
(* terminal that was counted is in the shared counter, in a worker's own or *)
(* on its way between them (CountsAddUp), so a snapshot misses none of them. *)
(***************************************************************************)
EXTENDS ProgressReportsSteps, FiniteSetTheorems

(* Workers that have claimed a live report and not yet made it.            *)
Reporting ==
    {w \in Workers :
        /\ ~joined
        /\ \/ pc[w] \in {"acquire", "snapshot", "queue", "callback"}
           \/ pc[w] \in {"flush", "fold"} /\ back[w] = "snapshot"}

Claims == live + Cardinality(Reporting)

ThrottleInvariant ==
    /\ ThrottleTypes
    /\ \A w \in Workers : now[w] <= clock
    /\ \A w \in Workers : pc[w] = "exchange" => seen[w] <= now[w]
    /\ due <= clock + interval
    /\ (Claims + 1) * interval <= due

(* Arithmetic of whole intervals.                                          *)
LEMMA WholeIntervals ==
    ASSUME NEW i \in Nat, NEW a \in Nat, NEW b \in Nat
    PROVE  /\ a <= b => a * i <= b * i
           /\ (a + 1) * i = a * i + i
           /\ a * i \in Nat
OBVIOUS

(* The workers inside a report are finitely many, so they can be counted.  *)
LEMMA ReportingIsFinite == IsFiniteSet(Reporting) /\ Cardinality(Reporting) \in Nat
<1>1. Reporting \in SUBSET Workers
  BY DEF Reporting
<1> QED
  BY <1>1, FS_Subset, FS_CardinalityType, ProgressAssumption

(* A step that claims nothing and reports nothing.                         *)
LEMMA NoClaim ==
    ASSUME ThrottleInvariant, ThrottleTypes',
           interval' = interval, live' = live, due' = due, clock <= clock',
           Reporting' \in SUBSET Reporting
    PROVE  (due <= clock + interval)' /\ ((Claims + 1) * interval <= due)'
<1>1. Cardinality(Reporting') \in Nat /\ Cardinality(Reporting') <= Cardinality(Reporting)
  BY ReportingIsFinite, FS_Subset, FS_CardinalityType
<1>2. Cardinality(Reporting) \in Nat
  BY ReportingIsFinite
<1>3. live + Cardinality(Reporting') + 1 <= Claims + 1
      /\ live + Cardinality(Reporting') + 1 \in Nat /\ Claims + 1 \in Nat
  BY <1>1, <1>2 DEF Claims, ThrottleInvariant, ThrottleTypes
<1> DEFINE a == live + Cardinality(Reporting') + 1
           b == Claims + 1
<1>4. interval \in Nat /\ due \in Nat /\ b * interval <= due
  BY DEF ThrottleInvariant, ThrottleTypes
<1> HIDE DEF a, b
<1>5. a * interval <= b * interval /\ a * interval \in Nat /\ b * interval \in Nat
  BY <1>3, <1>4, WholeIntervals DEF a, b
<1>6. a * interval <= due
  BY <1>4, <1>5
<1>7. (Claims + 1)' = a
  BY DEF Claims, a
<1>8. due <= clock' + interval
  <2>1. /\ clock \in Nat /\ clock' \in Nat /\ clock <= clock'
        /\ interval \in Nat /\ due \in Nat /\ due <= clock + interval
    BY DEF ThrottleInvariant, ThrottleTypes
  <2>2. \A k, l, i, d \in Nat : k <= l /\ d <= k + i => d <= l + i
    OBVIOUS
  <2> QED
    BY Zenon, <2>1, <2>2
<1> QED
  BY <1>6, <1>7, <1>8

(* The exchange: worker w moves the tick to an interval after its own      *)
(* reading of the clock, which the old tick had not passed.                *)
LEMMA OneClaim ==
    ASSUME ThrottleInvariant, ThrottleTypes', NEW w \in Workers,
           interval' = interval, live' = live, clock' = clock,
           due + interval <= due', due' <= clock + interval,
           Reporting' \in SUBSET (Reporting \cup {w})
    PROVE  ((Claims + 1) * interval <= due)'
<1>1. /\ IsFiniteSet(Reporting \cup {w})
      /\ Cardinality(Reporting \cup {w}) <= Cardinality(Reporting) + 1
      /\ Cardinality(Reporting) \in Nat
  <2>1. IsFiniteSet(Reporting)
    BY Zenon, ReportingIsFinite
  <2>2. /\ IsFiniteSet(Reporting \cup {w}) /\ Cardinality(Reporting) \in Nat
        /\ \/ Cardinality(Reporting \cup {w}) = Cardinality(Reporting)
           \/ Cardinality(Reporting \cup {w}) = Cardinality(Reporting) + 1
    BY Zenon, <2>1, FS_AddElement, FS_CardinalityType
  <2> QED BY <2>2
<1>2. Cardinality(Reporting') \in Nat /\ Cardinality(Reporting') <= Cardinality(Reporting) + 1
  BY <1>1, FS_Subset, FS_CardinalityType
<1> DEFINE a == live + Cardinality(Reporting') + 1
           b == Claims + 1
<1>3. a \in Nat /\ b \in Nat /\ a <= b + 1
  BY <1>1, <1>2 DEF Claims, ThrottleInvariant, ThrottleTypes
<1>4. interval \in Nat /\ due \in Nat /\ due' \in Nat /\ b * interval <= due
  BY DEF ThrottleInvariant, ThrottleTypes
<1> HIDE DEF a, b
<1>5. /\ a * interval <= (b + 1) * interval /\ (b + 1) * interval = b * interval + interval
      /\ a * interval \in Nat /\ b * interval \in Nat
  BY <1>3, <1>4, WholeIntervals
<1>6. a * interval <= due'
  BY <1>4, <1>5
<1>7. (Claims + 1)' = a
  BY DEF Claims, a
<1> QED
  BY <1>6, <1>7

(* The callback: a claim becomes a live report.                            *)
LEMMA ClaimReported ==
    ASSUME ThrottleInvariant, ThrottleTypes', NEW w \in Reporting,
           interval' = interval, live' = live + 1, due' = due,
           Reporting' \in SUBSET (Reporting \ {w})
    PROVE  ((Claims + 1) * interval <= due)'
<1>1. /\ IsFiniteSet(Reporting \ {w})
      /\ Cardinality(Reporting \ {w}) = Cardinality(Reporting) - 1
      /\ Cardinality(Reporting) \in Nat
  BY ReportingIsFinite, FS_RemoveElement
<1>2. Cardinality(Reporting') \in Nat /\ Cardinality(Reporting') <= Cardinality(Reporting) - 1
  BY <1>1, FS_Subset, FS_CardinalityType
<1> DEFINE a == (live + 1) + Cardinality(Reporting') + 1
           b == Claims + 1
<1>3. a \in Nat /\ b \in Nat /\ a <= b
  BY <1>1, <1>2 DEF Claims, ThrottleInvariant, ThrottleTypes
<1>4. interval \in Nat /\ due \in Nat /\ b * interval <= due
  BY DEF ThrottleInvariant, ThrottleTypes
<1> HIDE DEF a, b
<1>5. a * interval <= b * interval /\ a * interval \in Nat /\ b * interval \in Nat
  BY <1>3, <1>4, WholeIntervals
<1>6. a * interval <= due
  BY <1>4, <1>5
<1>7. (Claims + 1)' = a
  BY DEF Claims, a
<1> QED
  BY <1>6, <1>7

-----------------------------------------------------------------------------
(* Steps that leave the clock, the tick and the readings of it alone, and  *)
(* move worker w without making it claim a report.                         *)
LEMMA WorkerMoves ==
    ASSUME ThrottleInvariant, NEW w \in Workers,
           NEW l \in {"run", "flush", "fold", "published", "snapshot", "queue", "callback",
                      "leave", "left", "load"},
           NEW b \in ReturnLabel,
           pc' = [pc EXCEPT ![w] = l], back' = [back EXCEPT ![w] = b],
           (l \in {"snapshot", "queue", "callback"} \/ (l \in {"flush", "fold"} /\ b = "snapshot"))
              => w \in Reporting \/ joined,
           interval' = interval, live' = live, due' = due, clock' = clock, joined' = joined,
           now' = now \/ now' = [now EXCEPT ![w] = 0] \/ now' = [now EXCEPT ![w] = clock],
           seen' = seen \/ seen' = [seen EXCEPT ![w] = 0]
    PROVE  ThrottleInvariant'
<1>1. ThrottleTypes'
  BY DEF ThrottleInvariant, ThrottleTypes, Label, ReturnLabel
<1>2. Reporting' \in SUBSET Reporting
  <2> SUFFICES ASSUME NEW v \in Reporting' PROVE v \in Reporting
    OBVIOUS
  <2>1. v \in Workers /\ ~joined
    BY DEF Reporting
  <2>2. CASE v = w
    <3>1. pc'[w] = l /\ back'[w] = b
      BY DEF ThrottleInvariant, ThrottleTypes
    <3> QED
      BY <2>1, <2>2, <3>1 DEF Reporting
  <2>3. CASE v # w
    <3>1. pc'[v] = pc[v] /\ back'[v] = back[v]
      BY <2>1, <2>3 DEF ThrottleInvariant, ThrottleTypes
    <3> QED
      BY <2>1, <3>1 DEF Reporting
  <2> QED
    BY <2>2, <2>3
<1>3. \A v \in Workers : now'[v] <= clock'
  BY DEF ThrottleInvariant, ThrottleTypes
<1>4. \A v \in Workers : pc'[v] = "exchange" => seen'[v] <= now'[v]
  BY Zenon DEF ThrottleInvariant, ThrottleTypes
<1>5. (due <= clock + interval)' /\ ((Claims + 1) * interval <= due)'
  BY <1>1, <1>2, NoClaim DEF ThrottleInvariant, ThrottleTypes
<1> QED
  BY Zenon, <1>1, <1>3, <1>4, <1>5 DEF ThrottleInvariant

(* Steps that none of this sees.                                           *)
LEMMA NothingMoves ==
    ASSUME ThrottleInvariant,
           UNCHANGED <<interval, clock, due, live, joined, pc, back, now, seen>>
    PROVE  ThrottleInvariant'
BY DEF ThrottleInvariant, ThrottleTypes, Claims, Reporting

(* Counting and flushing.                                                  *)
LEMMA CountingKeepsPace ==
    ASSUME ThrottleInvariant, NEW w \in Workers,
           \/ \E k \in Kind, d \in Depths : CountTerminal(w, k, d)
           \/ Published(w) \/ FlushCount(w) \/ FlushLoadMax(w) \/ FoldMax(w)
    PROVE  ThrottleInvariant'
<1>0. pc \in [Workers -> Label] /\ back \in [Workers -> ReturnLabel] /\ joined \in BOOLEAN
  BY Zenon DEF ThrottleInvariant, ThrottleTypes
<1>1. ASSUME NEW k \in Kind, NEW d \in Depths, CountTerminal(w, k, d)
      PROVE  ThrottleInvariant'
  <2>1. CASE CallFlush(w, "published")
    BY Zenon, <1>1, <2>1, WorkerMoves DEF CountTerminal, CallFlush, Goto, options,
       pollVars, ReturnLabel
  <2>2. CASE UNCHANGED <<pc, back, at, kind>>
    <3>1. UNCHANGED <<interval, clock, due, live, joined, pc, back, now, seen>>
      BY Zenon, <1>1, <2>2 DEF CountTerminal, options, pollVars
    <3> QED
      BY Zenon, <3>1, NothingMoves
  <2> QED
    BY Zenon, <1>1, <2>1, <2>2 DEF CountTerminal
<1>2. CASE Published(w)
  <2>1. back' = [back EXCEPT ![w] = back[w]]
    BY Zenon, <1>0, <1>2 DEF Published
  <2> QED
    BY Zenon, <1>0, <1>2, <2>1, WorkerMoves DEF Published, Goto, options, pollVars
<1>3. CASE FlushCount(w)
  <2>1. UNCHANGED <<interval, clock, due, live, joined, pc, back, now, seen>>
    BY Zenon, <1>3 DEF FlushCount, options, pollVars
  <2> QED
    BY Zenon, <2>1, NothingMoves
<1>4. CASE FlushLoadMax(w)
  <2>1. back' = [back EXCEPT ![w] = back[w]] /\ back[w] \in ReturnLabel
    BY Zenon, <1>0, <1>4 DEF FlushLoadMax
  <2>2. back[w] = "snapshot" => w \in Reporting \/ joined
    BY Zenon, <1>0, <1>4 DEF FlushLoadMax, Reporting
  <2> QED
    BY Zenon, <1>4, <2>1, <2>2, WorkerMoves DEF FlushLoadMax, Goto, options, pollVars
<1>5. CASE FoldMax(w)
  <2>1. CASE EndFlush(w)
    <3>1. back' = [back EXCEPT ![w] = back[w]] /\ back[w] \in ReturnLabel
      BY Zenon, <1>0, <1>5 DEF FoldMax
    <3>2. back[w] = "snapshot" => w \in Reporting \/ joined
      BY Zenon, <1>0, <1>5 DEF FoldMax, Reporting
    <3> QED
      BY Zenon, <1>5, <2>1, <3>1, <3>2, WorkerMoves DEF FoldMax, EndFlush, Goto,
         options, pollVars, ReturnLabel
  <2>2. CASE UNCHANGED <<pc, at, local, localMax, pending, sharedMax>>
    <3>1. UNCHANGED <<interval, clock, due, live, joined, pc, back, now, seen>>
      BY Zenon, <1>5, <2>2 DEF FoldMax, options, pollVars
    <3> QED
      BY Zenon, <3>1, NothingMoves
  <2> QED
    BY Zenon, <1>5, <2>1, <2>2 DEF FoldMax
<1> QED
  BY Zenon, <1>1, <1>2, <1>3, <1>4, <1>5

(* maybe_report_progress() up to the exchange.                             *)
LEMMA PollingKeepsPace ==
    ASSUME ThrottleInvariant, NEW w \in Workers,
           PollLater(w) \/ Poll(w) \/ LoadDue(w) \/ ClaimReport(w) \/ LoseClaim(w)
    PROVE  ThrottleInvariant'
<1>0. /\ pc \in [Workers -> Label] /\ back \in [Workers -> ReturnLabel] /\ joined \in BOOLEAN
      /\ now \in [Workers -> Nat] /\ seen \in [Workers -> Nat]
      /\ interval \in Nat /\ clock \in Nat /\ due \in Nat /\ live \in Nat
      /\ back = [back EXCEPT ![w] = back[w]] /\ back[w] \in ReturnLabel
      /\ \A v \in Workers : now[v] <= clock
  BY DEF ThrottleInvariant, ThrottleTypes
<1>1. CASE PollLater(w)
  BY Zenon, <1>1, NothingMoves DEF PollLater, options
<1>2. CASE Poll(w) /\ interval > 0
  BY <1>0, <1>2, WorkerMoves DEF Poll, Goto, options
<1>3. ASSUME pc' = [pc EXCEPT ![w] = "acquire"], interval = 0 \/ pc[w] = "exchange",
             now' = now \/ now' = [now EXCEPT ![w] = 0],
             seen' = seen \/ seen' = [seen EXCEPT ![w] = 0],
             UNCHANGED <<interval, clock, live, joined, back>>,
             due' \in Nat, due + interval <= due', due' <= clock + interval
      PROVE  ThrottleInvariant'
  <2>1. ThrottleTypes'
    BY <1>0, <1>3 DEF ThrottleTypes, Label
  <2>2. Reporting' \in SUBSET (Reporting \cup {w})
    BY Zenon, <1>0, <1>3 DEF Reporting
  <2>3. ((Claims + 1) * interval <= due)'
    BY Zenon, <1>3, <2>1, <2>2, OneClaim
  <2>4. \A v \in Workers : now'[v] <= clock'
    BY <1>0, <1>3
  <2>5. \A v \in Workers : pc'[v] = "exchange" => seen'[v] <= now'[v]
    BY Zenon, <1>0, <1>3 DEF ThrottleInvariant
  <2> QED
    BY Zenon, <1>3, <2>1, <2>3, <2>4, <2>5 DEF ThrottleInvariant
<1>4. CASE Poll(w) /\ interval = 0
  <2>1. due <= clock + interval
    BY Zenon DEF ThrottleInvariant
  <2> QED
    BY <1>0, <1>3, <1>4, <2>1 DEF Poll, Goto, options
<1>5. CASE ClaimReport(w)
  <2>1. seen[w] <= now[w] /\ due = seen[w] /\ due' = now[w] + interval
    BY Zenon, <1>5 DEF ClaimReport, ThrottleInvariant
  <2>2. due + interval <= due' /\ due' <= clock + interval /\ due' \in Nat
    BY <1>0, <2>1
  <2> QED
    BY Zenon, <1>3, <1>5, <2>2 DEF ClaimReport, Goto, Forget, options
<1>6. ASSUME Compare(w), pc[w] \in {"load", "exchange"},
             UNCHANGED <<interval, clock, due, live, joined, back>>
      PROVE  ThrottleInvariant'
  <2>1. CASE Forget(w) /\ Goto(w, "run")
    BY Zenon, <1>0, <1>6, <2>1, WorkerMoves DEF Forget, Goto
  <2>2. CASE now[w] >= due /\ seen' = [seen EXCEPT ![w] = due] /\ Goto(w, "exchange")
             /\ UNCHANGED now
    <3>1. ThrottleTypes'
      BY <1>0, <1>6, <2>2 DEF ThrottleTypes, Goto, Label
    <3>2. Reporting' \in SUBSET Reporting
      BY Zenon, <1>0, <1>6, <2>2 DEF Reporting, Goto
    <3>3. \A v \in Workers : now'[v] <= clock'
      BY <1>0, <1>6, <2>2
    <3>4. \A v \in Workers : pc'[v] = "exchange" => seen'[v] <= now'[v]
      BY <1>0, <2>2 DEF ThrottleInvariant, Goto
    <3>5. (due <= clock + interval)' /\ ((Claims + 1) * interval <= due)'
      BY <1>0, <1>6, <3>1, <3>2, NoClaim
    <3> QED
      BY <3>1, <3>3, <3>4, <3>5 DEF ThrottleInvariant
  <2> QED
    BY Zenon, <1>6, <2>1, <2>2 DEF Compare
<1>7. CASE LoadDue(w) \/ LoseClaim(w)
  BY Zenon, <1>6, <1>7 DEF LoadDue, LoseClaim, options
<1>8. interval = 0 \/ interval > 0
  BY <1>0
<1> QED
  BY <1>1, <1>2, <1>4, <1>5, <1>7, <1>8

(* The report, under progress_callback_mutex_, and the way out.            *)
LEMMA ReportingKeepsPace ==
    ASSUME ThrottleInvariant, NEW w \in Workers,
           \/ LockCallback(w) \/ ReadCount(w) \/ ReadMax(w) \/ LockQueue(w) \/ Callback(w)
           \/ Leave(w) \/ Left(w)
    PROVE  ThrottleInvariant'
<1>0. /\ pc \in [Workers -> Label] /\ back \in [Workers -> ReturnLabel] /\ joined \in BOOLEAN
      /\ back = [back EXCEPT ![w] = back[w]] /\ back[w] \in ReturnLabel
  BY DEF ThrottleInvariant, ThrottleTypes
<1>1. pc[w] \in {"acquire", "snapshot", "queue", "callback"} => w \in Reporting \/ joined
  BY Zenon, <1>0 DEF Reporting
<1>2. CASE LockCallback(w)
  BY Zenon, <1>1, <1>2, WorkerMoves DEF LockCallback, CallFlush, Goto, options,
     pollVars, ReturnLabel
<1>3. CASE ReadCount(w)
  BY Zenon, <1>3, NothingMoves DEF ReadCount, options, pollVars
<1>4. CASE ReadMax(w)
  BY Zenon, <1>0, <1>1, <1>4, WorkerMoves DEF ReadMax, Goto, options, pollVars
<1>5. CASE LockQueue(w)
  BY Zenon, <1>0, <1>1, <1>5, WorkerMoves DEF LockQueue, Goto, options, pollVars
<1>6. CASE Callback(w)
  <2>1. /\ UNCHANGED <<interval, clock, due, back, now, seen, joined>>
        /\ pc' = [pc EXCEPT ![w] = IF joined THEN "end" ELSE "run"]
        /\ live' = IF joined THEN live ELSE live + 1
        /\ pc[w] = "callback"
    BY Zenon, <1>6 DEF Callback, Goto, options, pollVars
  <2>2. ThrottleTypes'
    BY <2>1 DEF ThrottleInvariant, ThrottleTypes, Label, ReturnLabel
  <2>3. \A v \in Workers : now'[v] <= clock'
    BY Zenon, <2>1 DEF ThrottleInvariant
  <2>4. \A v \in Workers : pc'[v] = "exchange" => seen'[v] <= now'[v]
    BY Zenon, <1>0, <2>1 DEF ThrottleInvariant
  <2>5. (due <= clock + interval)'
    BY <2>1 DEF ThrottleInvariant
  <2>6. ((Claims + 1) * interval <= due)'
    <3>1. CASE joined
      <4>1. Reporting' \in SUBSET Reporting
        BY <2>1, <3>1 DEF Reporting
      <4>2. clock <= clock'
        BY <2>1 DEF ThrottleInvariant, ThrottleTypes
      <4> QED
        BY <2>1, <2>2, <3>1, <4>1, <4>2, NoClaim
    <3>2. CASE ~joined
      <4>1. w \in Reporting /\ Reporting' \in SUBSET (Reporting \ {w})
        BY <1>0, <2>1, <3>2 DEF Reporting
      <4> QED
        BY <2>1, <2>2, <3>2, <4>1, ClaimReported
    <3> QED
      BY Zenon, <3>1, <3>2
  <2> QED
    BY <2>2, <2>3, <2>4, <2>5, <2>6 DEF ThrottleInvariant
<1>7. CASE Leave(w)
  BY ZenonT(40), <1>7, WorkerMoves DEF Leave, CallFlush, Goto, options, pollVars, ReturnLabel
<1>8. CASE Left(w)
  BY Zenon, <1>0, <1>8, WorkerMoves DEF Left, Goto, options
<1> QED
  BY <1>2, <1>3, <1>4, <1>5, <1>6, <1>7, <1>8

(* The tick of the next report is ahead of every claim made so far, and at *)
(* most one interval ahead of the clock.                                   *)
THEOREM TickCountsClaims == Spec => []ThrottleInvariant
<1>1. Init => ThrottleInvariant
  <2> SUFFICES ASSUME Init PROVE ThrottleInvariant
    OBVIOUS
  <2>1. ThrottleTypes
    BY Zenon, ProgressAssumption DEF Init, ThrottleTypes, Label, ReturnLabel
  <2>2. Reporting = {}
    BY DEF Init, Reporting
  <2>3. Claims + 1 = 1
    BY <2>2, FS_EmptySet DEF Claims, Init
  <2>4. (Claims + 1) * interval <= due /\ due <= clock + interval
    BY <2>1, <2>3 DEF Init, ThrottleTypes
  <2> QED
    BY <2>1, <2>4 DEF Init, ThrottleInvariant
<1>2. ThrottleInvariant /\ [Next]_vars => ThrottleInvariant'
  <2> SUFFICES ASSUME ThrottleInvariant, [Next]_vars PROVE ThrottleInvariant'
    OBVIOUS
  <2>1. CASE Tick
    <3>0. clock' = clock + 1
          /\ UNCHANGED <<interval, due, live, joined, pc, back, now, seen>>
      BY <2>1 DEF Tick, options, pollVars
    <3>1. ThrottleTypes' /\ Reporting' \in SUBSET Reporting
      <4>1. ThrottleTypes'
        BY <3>0 DEF ThrottleInvariant, ThrottleTypes
      <4>2. Reporting' = Reporting
        BY <3>0 DEF Reporting
      <4> QED
        BY Zenon, <4>1, <4>2
    <3>2. clock <= clock'
      BY <2>1 DEF Tick, ThrottleInvariant, ThrottleTypes
    <3>3. (due <= clock + interval)' /\ ((Claims + 1) * interval <= due)'
      BY <2>1, <3>1, <3>2, NoClaim DEF Tick, options
    <3>4. \A v \in Workers : now'[v] <= clock' /\ (pc'[v] = "exchange" => seen'[v] <= now'[v])
      BY <2>1 DEF Tick, pollVars, ThrottleInvariant, ThrottleTypes
    <3> QED
      BY <3>1, <3>3, <3>4 DEF ThrottleInvariant
  <2>2. CASE Join
    <3>1. /\ UNCHANGED <<interval, clock, due, live, back, now, seen>> /\ joined' = TRUE
          /\ pc' = [pc EXCEPT ![Main] = "acquire"]
      BY <2>2 DEF Join, Goto, options, pollVars
    <3>2. ThrottleTypes' /\ Reporting' \in SUBSET Reporting /\ clock <= clock'
      <4>0. clock <= clock' /\ "acquire" \in Label /\ joined' \in BOOLEAN
        BY <3>1 DEF ThrottleInvariant, ThrottleTypes, Label
      <4>1. ThrottleTypes' /\ clock <= clock'
        BY Zenon, <3>1, <4>0 DEF ThrottleInvariant, ThrottleTypes
      <4>2. Reporting' = {}
        BY <3>1 DEF Reporting
      <4> QED
        BY Zenon, <4>1, <4>2
    <3>3. (due <= clock + interval)' /\ ((Claims + 1) * interval <= due)'
      BY <3>1, <3>2, NoClaim
    <3>4. \A v \in Workers : now'[v] <= clock' /\ (pc'[v] = "exchange" => seen'[v] <= now'[v])
      BY <3>1 DEF ThrottleInvariant, ThrottleTypes
    <3> QED
      BY <3>2, <3>3, <3>4 DEF ThrottleInvariant
  <2>3. CASE Returned \/ UNCHANGED vars
    BY Zenon, <2>3, NothingMoves DEF Returned, vars, options, pollVars
  <2>4. ASSUME NEW w \in Workers,
               \/ \E k \in Kind, d \in Depths : CountTerminal(w, k, d)
               \/ Published(w) \/ FlushCount(w) \/ FlushLoadMax(w) \/ FoldMax(w)
        PROVE  ThrottleInvariant'
    BY Zenon, <2>4, CountingKeepsPace
  <2>5. ASSUME NEW w \in Workers,
               PollLater(w) \/ Poll(w) \/ LoadDue(w) \/ ClaimReport(w) \/ LoseClaim(w)
        PROVE  ThrottleInvariant'
    BY <2>5, PollingKeepsPace
  <2>6. ASSUME NEW w \in Workers,
               \/ LockCallback(w) \/ ReadCount(w) \/ ReadMax(w) \/ LockQueue(w) \/ Callback(w)
               \/ Leave(w) \/ Left(w)
        PROVE  ThrottleInvariant'
    BY <2>6, ReportingKeepsPace
  <2> QED
    BY <2>1, <2>2, <2>3, <2>4, <2>5, <2>6 DEF Next
<1> QED
  BY <1>1, <1>2, PTL DEF Spec

(* maybe_report_progress() throttles live reports for any number of        *)
(* workers, however they race for the exchange.                            *)
THEOREM ReportsAreThrottled == Spec => []ReportsThrottled
<1>1. ThrottleInvariant => ReportsThrottled
  <2> SUFFICES ASSUME ThrottleInvariant PROVE live * interval <= clock
    BY Zenon DEF ReportsThrottled
  <2>1. /\ live \in Nat /\ interval \in Nat /\ clock \in Nat /\ due \in Nat
        /\ due <= clock + interval /\ (Claims + 1) * interval <= due
    BY DEF ThrottleInvariant, ThrottleTypes
  <2>2. Claims \in Nat /\ live <= Claims
    BY <2>1, ReportingIsFinite DEF Claims
  <2> HIDE DEF Claims
  <2>3. /\ live * interval <= Claims * interval
        /\ (Claims + 1) * interval = Claims * interval + interval
        /\ live * interval \in Nat /\ Claims * interval \in Nat
    BY Zenon, <2>1, <2>2, WholeIntervals
  <2> QED
    BY <2>1, <2>3
<1> QED
  BY <1>1, TickCountsClaims, PTL

-----------------------------------------------------------------------------
(* The terminals of one worker, as pairs.                                  *)
LEMMA PairsOfOne ==
    ASSUME NEW w, NEW n \in Nat
    PROVE  Cardinality({w} \X (1 .. n)) = n
<1> DEFINE S == {w}
           T == 1 .. n
<1>1. IsFiniteSet(S) /\ Cardinality(S) = 1
  BY Zenon, FS_Singleton
<1>2. IsFiniteSet(T) /\ Cardinality(T) = IF 1 > n THEN 0 ELSE n - 1 + 1
  BY FS_Interval
<1>3. Cardinality(T) = n
  BY <1>2
<1> HIDE DEF S, T
<1>4. Cardinality(S \X T) = Cardinality(S) * Cardinality(T)
  BY <1>1, <1>2, FS_Product
<1>5. Cardinality(S \X T) = n
  BY <1>1, <1>3, <1>4
<1> QED BY Zenon, <1>5 DEF S, T

(* What is waiting, as a number of terminals: a set that grows by one pair  *)
(* and shrinks by the pairs of one worker.                                 *)
LEMMA WaitingMoves ==
    ASSUME ReportTypes, ReportTypes', NEW w \in Workers, NEW k \in Kind,
           IsFiniteSet(Waiting(k)), started[k] = shared[k] + Cardinality(Waiting(k)),
           Untouched(k) \/ Counted(w, k) \/ Added(w, k)
    PROVE  /\ IsFiniteSet(Waiting(k))'
           /\ (started[k] = shared[k] + Cardinality(Waiting(k)))'
<1> DEFINE W == Waiting(k)
           n == Unflushed(w, k)
<1>0. /\ n \in Nat /\ shared[k] \in Nat /\ started[k] \in Nat
      /\ Cardinality(W) \in Nat
  BY FS_CardinalityType DEF ReportTypes, Counts, Unflushed
<1>1. CASE Untouched(k)
  <2>1. Waiting(k)' = W
    BY Zenon, <1>1 DEF Waiting, Untouched
  <2> QED BY Zenon, <1>1, <2>1 DEF Untouched
<1>2. CASE Counted(w, k)
  <2>1. Waiting(k)' = W \cup {<<w, n + 1>>}
    <3>1. ASSUME NEW p \in Workers \X Nat
          PROVE  p \in Waiting(k)' <=> p \in W \/ p = <<w, n + 1>>
      <4>1. p = <<p[1], p[2]>> /\ p[1] \in Workers /\ p[2] \in Nat
        BY <3>1
      <4>2. p[1] = w => (1 <= p[2] /\ p[2] <= n + 1 <=> (1 <= p[2] /\ p[2] <= n) \/ p[2] = n + 1)
        BY <1>0, <4>1
      <4>3. p \in Waiting(k)' <=> 1 <= p[2] /\ p[2] <= Unflushed(p[1], k)'
        BY Zenon, <3>1 DEF Waiting
      <4>4. p \in W <=> 1 <= p[2] /\ p[2] <= Unflushed(p[1], k)
        BY Zenon, <3>1 DEF Waiting
      <4>5. CASE p[1] = w
        <5>1. Unflushed(p[1], k)' = n + 1 /\ Unflushed(p[1], k) = n
          BY Zenon, <1>2, <4>5 DEF Counted
        <5>2. p = <<w, n + 1>> <=> p[2] = n + 1
          BY <4>1, <4>5
        <5> QED BY <4>2, <4>3, <4>4, <4>5, <5>1, <5>2
      <4>6. CASE p[1] # w
        <5>1. Unflushed(p[1], k)' = Unflushed(p[1], k)
          BY Zenon, <1>2, <4>1, <4>6 DEF Counted
        <5>2. p # <<w, n + 1>>
          BY <4>1, <4>6
        <5> QED BY Zenon, <4>3, <4>4, <5>1, <5>2
      <4> QED BY Zenon, <4>5, <4>6
    <3>2. <<w, n + 1>> \in Workers \X Nat
      BY <1>0
    <3>3. W \subseteq Workers \X Nat /\ Waiting(k)' \subseteq Workers \X Nat
      BY Zenon DEF Waiting
    <3> HIDE DEF W, n
    <3> QED BY Zenon, <3>1, <3>2, <3>3
  <2>2. <<w, n + 1>> \notin W
    BY <1>0 DEF Waiting
  <2> HIDE DEF W, n
  <2>3. IsFiniteSet(Waiting(k)') /\ Cardinality(Waiting(k)') = Cardinality(W) + 1
    BY Zenon, <2>1, <2>2, FS_AddElement DEF W
  <2>4. shared'[k] = shared[k] /\ started'[k] = started[k] + 1
    BY <1>2 DEF Counted
  <2>5. started'[k] = shared'[k] + Cardinality(Waiting(k)')
    BY <1>0, <2>3, <2>4 DEF W
  <2> QED BY Zenon, <2>3, <2>5
<1>3. CASE Added(w, k)
  <2> DEFINE R == {w} \X (1 .. n)
  <2>1. R \subseteq W
    BY <1>0 DEF Waiting
  <2>2. Waiting(k)' = W \ R
    <3>1. ASSUME NEW p \in Workers \X Nat
          PROVE  p \in Waiting(k)' <=> p \in W /\ p \notin R
      <4>1. p = <<p[1], p[2]>> /\ p[1] \in Workers /\ p[2] \in Nat
        BY <3>1
      <4>3. p \in Waiting(k)' <=> 1 <= p[2] /\ p[2] <= Unflushed(p[1], k)'
        BY <3>1 DEF Waiting
      <4>4. p \in W <=> 1 <= p[2] /\ p[2] <= Unflushed(p[1], k)
        BY <3>1 DEF Waiting
      <4>5. CASE p[1] = w
        <5>1. Unflushed(p[1], k)' = 0 /\ Unflushed(p[1], k) = n
          BY Zenon, <1>3, <4>5 DEF Added
        <5>2. p \in R <=> p[2] \in 1 .. n
          BY Zenon, <4>1, <4>5
        <5>3. p[2] \in 1 .. n <=> 1 <= p[2] /\ p[2] <= n
          BY <1>0, <4>1
        <5>4. ~(1 <= p[2] /\ p[2] <= 0)
          BY <4>1
        <5> QED BY Zenon, <4>3, <4>4, <5>1, <5>2, <5>3, <5>4
      <4>6. CASE p[1] # w
        <5>1. Unflushed(p[1], k)' = Unflushed(p[1], k)
          BY Zenon, <1>3, <4>1, <4>6 DEF Added
        <5>2. p \notin R
          BY <4>1, <4>6
        <5> QED BY Zenon, <4>3, <4>4, <5>1, <5>2
      <4> QED BY Zenon, <4>5, <4>6
    <3>3. W \subseteq Workers \X Nat /\ Waiting(k)' \subseteq Workers \X Nat
      BY Zenon DEF Waiting
    <3> HIDE DEF W, R
    <3> QED BY Zenon, <3>1, <3>3
  <2>3. Cardinality(R) = n
    BY Zenon, <1>0, PairsOfOne
  <2> HIDE DEF W, n, R
  <2>4. W \cap R = R
    BY <2>1
  <2>5. IsFiniteSet(W \ R) /\ Cardinality(W \ R) = Cardinality(W) - Cardinality(W \cap R)
    BY Zenon, FS_Difference DEF W
  <2>6. Cardinality(Waiting(k)') = Cardinality(W) - n
    BY <2>2, <2>3, <2>4, <2>5
  <2>7. Unflushed(w, k) = n /\ shared'[k] = shared[k] + n /\ started'[k] = started[k]
    BY Zenon, <1>3 DEF Added, n
  <2>8. started'[k] = shared'[k] + Cardinality(Waiting(k)')
    BY <1>0, <2>6, <2>7 DEF W
  <2>9. IsFiniteSet(Waiting(k)')
    BY Zenon, <2>2, <2>5
  <2> QED BY Zenon, <2>8, <2>9
<1> QED BY Zenon, <1>1, <1>2, <1>3

(* No terminal is lost or counted twice.                                   *)
LEMMA StepCountsAddUp ==
    ASSUME ThrottleTypes, ReportTypes, ReportTypes', Resting, KindsKnown, CountsAddUp,
           NEW w \in Workers, WorkerStep(w)
    PROVE  CountsAddUp'
<1> SUFFICES ASSUME NEW k \in Kind
             PROVE  /\ IsFiniteSet(Waiting(k))'
                    /\ (started[k] = shared[k] + Cardinality(Waiting(k)))'
                    /\ (started[k] = published[k] + Cardinality(Publishing(k)))'
  BY Zenon DEF CountsAddUp
<1>1. /\ IsFiniteSet(Waiting(k))'
      /\ (started[k] = shared[k] + Cardinality(Waiting(k)))'
  <2>1. IsFiniteSet(Waiting(k)) /\ started[k] = shared[k] + Cardinality(Waiting(k))
    BY DEF CountsAddUp
  <2>2. Untouched(k) \/ Counted(w, k) \/ Added(w, k)
    BY Zenon, CounterMoves
  <2> QED BY Zenon, <2>1, <2>2, WaitingMoves
<1>2. (started[k] = published[k] + Cardinality(Publishing(k)))'
  <2> DEFINE P == Publishing(k)
  <2>1. IsFiniteSet(P) /\ Cardinality(P) \in Nat
    <3>1. P \in SUBSET Workers
      BY Zenon DEF Publishing
    <3> QED BY Zenon, <3>1, ProgressAssumption, FS_Subset, FS_CardinalityType
  <2>2. /\ started[k] = published[k] + Cardinality(P)
        /\ started[k] \in Nat /\ published[k] \in Nat
        /\ started'[k] \in Nat /\ published'[k] \in Nat
    BY Zenon DEF CountsAddUp, ReportTypes, Counts
  <2>3. \A v \in Workers \ {w} : kind'[v] = kind[v]
    BY Zenon, OthersKept DEF Kept
  <2>4. CASE kind[w] # k /\ kind'[w] = k
    <3>1. Publishing(k)' = P \cup {w} /\ w \notin P
      BY Zenon, <2>3, <2>4 DEF Publishing
    <3> HIDE DEF P
    <3>2. Cardinality(P \cup {w}) = Cardinality(P) + 1
      BY Zenon, <2>1, <3>1, FS_AddElement
    <3>3. started'[k] = started[k] + 1 /\ published'[k] = published[k]
      BY <2>4, PublishingMoves
    <3>4. Cardinality(Publishing(k)') = Cardinality(P) + 1
      BY Zenon, <3>1, <3>2
    <3> QED BY <2>1, <2>2, <3>3, <3>4
  <2>5. CASE kind[w] = k /\ kind'[w] # k
    <3>1. Publishing(k)' = P \ {w} /\ w \in P
      BY <2>3, <2>5 DEF Publishing
    <3> HIDE DEF P
    <3>2. Cardinality(P \ {w}) = Cardinality(P) - 1
      BY Zenon, <2>1, <3>1, FS_RemoveElement
    <3>3. started'[k] = started[k] /\ published'[k] = published[k] + 1
      BY <2>5, PublishingMoves
    <3>4. Cardinality(Publishing(k)') = Cardinality(P) - 1
      BY <3>1, <3>2
    <3> QED BY <2>1, <2>2, <3>3, <3>4
  <2>6. CASE kind'[w] = k <=> kind[w] = k
    <3>1. Publishing(k)' = P
      BY Zenon, <2>3, <2>6 DEF Publishing
    <3>2. started'[k] - published'[k] = started[k] - published[k]
      BY <2>6, PublishingMoves
    <3> HIDE DEF P
    <3>3. Cardinality(Publishing(k)') = Cardinality(P)
      BY Zenon, <3>1
    <3> QED BY <2>1, <2>2, <3>2, <3>3
  <2> QED BY Zenon, <2>4, <2>5, <2>6
<1> QED BY Zenon, <1>1, <1>2

-----------------------------------------------------------------------------
(* After the join everything is in the shared counters.                    *)
LEMMA JoinedIsShared ==
    ASSUME ReportTypes, Resting, CountsAddUp, MaxAddsUp, joined
    PROVE  shared = started /\ sharedMax = deepest
<1>1. ASSUME NEW k \in Kind PROVE shared[k] = started[k]
  <2>1. \A w \in Workers : Unflushed(w, k) = 0
    BY DEF Resting, Unflushed, NoCounts
  <2>2. Waiting(k) = {}
    <3> SUFFICES ASSUME NEW p \in Waiting(k) PROVE FALSE
      OBVIOUS
    <3>1. p[1] \in Workers /\ p[2] \in Nat /\ 1 <= p[2] /\ p[2] <= Unflushed(p[1], k)
      BY Zenon DEF Waiting
    <3>2. Unflushed(p[1], k) = 0
      BY Zenon, <2>1, <3>1
    <3> QED BY <3>1, <3>2
  <2>3. Cardinality(Waiting(k)) = 0
    BY Zenon, <2>2, FS_EmptySet
  <2>4. shared[k] \in Nat /\ started[k] = shared[k] + Cardinality(Waiting(k))
    BY Zenon DEF CountsAddUp, ReportTypes, Counts
  <2> QED BY <2>3, <2>4
<1>2. shared \in [Kind -> Nat] /\ started \in [Kind -> Nat] /\ sharedMax \in Nat /\ deepest \in Nat
  BY Zenon DEF ReportTypes, Counts
<1>3. \A w \in Workers : localMax[w] = 0
  BY Zenon DEF Resting
<1>4. sharedMax = deepest
  BY <1>2, <1>3 DEF MaxAddsUp
<1>5. shared = started
  BY <1>1, <1>2
<1> QED BY Zenon, <1>4, <1>5

(* A publication that has ended is in the shared counters, when every      *)
(* terminal is flushed; and it began.                                      *)
LEMMA PublishedIsCounted ==
    ASSUME ReportTypes, KindsKnown, CountsAddUp, NEW k \in Kind
    PROVE  /\ published[k] <= started[k] /\ shared[k] <= started[k]
           /\ flushEvery <= 1 => published[k] <= shared[k]
<1>1. /\ published[k] \in Nat /\ shared[k] \in Nat /\ started[k] \in Nat
      /\ local \in [Workers -> Counts]
  BY Zenon DEF ReportTypes, Counts
<1>2. /\ started[k] = shared[k] + Cardinality(Waiting(k))
      /\ started[k] = published[k] + Cardinality(Publishing(k))
      /\ IsFiniteSet(Waiting(k))
  BY Zenon DEF CountsAddUp
<1>3. IsFiniteSet(Publishing(k))
  <2>1. Publishing(k) \in SUBSET Workers
    BY Zenon DEF Publishing
  <2> QED BY Zenon, <2>1, ProgressAssumption, FS_Subset
<1>4. Cardinality(Waiting(k)) \in Nat /\ Cardinality(Publishing(k)) \in Nat
  BY Zenon, <1>2, <1>3, FS_CardinalityType
<1>5. ASSUME flushEvery <= 1 PROVE published[k] <= shared[k]
  <2> DEFINE P == Publishing(k)
             Q == P \X {1}
  <2>1. IsFiniteSet({1}) /\ Cardinality({1}) = 1
    BY Zenon, FS_Singleton
  <2>2. Waiting(k) \in SUBSET Q
    <3> SUFFICES ASSUME NEW p \in Waiting(k) PROVE p \in Q
      OBVIOUS
    <3>1. /\ p = <<p[1], p[2]>> /\ p[1] \in Workers /\ p[2] \in Nat
          /\ 1 <= p[2] /\ p[2] <= Unflushed(p[1], k)
      BY DEF Waiting
    <3>2. Unflushed(p[1], k) = local[p[1]][k]
      BY <3>1 DEF Unflushed
    <3>3. local[p[1]][k] = 1 /\ kind[p[1]] = k
      <4>1. local[p[1]][k] = 0 \/ (local[p[1]][k] = 1 /\ kind[p[1]] = k)
        BY Zenon, <1>5, <3>1 DEF KindsKnown
      <4>2. local[p[1]][k] # 0
        BY <3>1, <3>2
      <4> QED BY Zenon, <4>1, <4>2
    <3>4. p[2] = 1
      BY <3>1, <3>2, <3>3
    <3>5. p[1] \in P
      BY Zenon, <3>1, <3>3 DEF Publishing
    <3> QED BY Zenon, <3>1, <3>4, <3>5
  <2> HIDE DEF P
  <2>3. IsFiniteSet(Q) /\ Cardinality(Q) = Cardinality(P) * 1
    BY <1>3, <2>1, FS_Product DEF P
  <2>4. Cardinality(Waiting(k)) <= Cardinality(Q)
    BY Zenon, <2>2, <2>3, FS_Subset
  <2>5. Cardinality(Waiting(k)) <= Cardinality(P)
    BY <1>4, <2>3, <2>4 DEF P
  <2> QED BY <1>1, <1>2, <1>4, <2>5 DEF P
<1>6. published[k] <= started[k] /\ shared[k] <= started[k]
  BY <1>1, <1>2, <1>4
<1> QED BY Zenon, <1>5, <1>6

LEMMA StepSnapshotFits ==
    ASSUME ThrottleTypes, ReportTypes, ReportTypes', Holding, Resting, Alone, KindsKnown,
           CountsAddUp, MaxAddsUp, SnapshotFits, NEW w \in Workers, WorkerStep(w)
    PROVE  SnapshotFits'
<1>1. /\ \A v \in Workers, k \in Kind : CountRead(v, k)' => CountFrom(v, k)
      /\ \A v \in Workers : MaxRead(v)' => MaxFrom(v)
      /\ \A k \in Kind : snapshot'.floor[k] \in {snapshot.floor[k], published[k], 0}
      /\ report' = report \/ Given(w)
  BY Zenon, SnapshotSources
<1>2. /\ \A k \in Kind : shared[k] <= shared'[k] /\ started[k] <= started'[k]
      /\ joined => started' = started /\ deepest' = deepest
  BY Zenon, CountersGrow
<1>3. sharedMax <= sharedMax'
  BY Zenon, StepMaxAddsUp
<1>4. \A k \in Kind : /\ published[k] <= started[k] /\ shared[k] <= started[k]
                      /\ flushEvery <= 1 => published[k] <= shared[k]
  BY PublishedIsCounted
<1>5. joined => shared = started /\ sharedMax = deepest
  BY Zenon, JoinedIsShared
<1>6. joined' = joined /\ flushEvery' = flushEvery
  BY Zenon, StepOwn DEF OwnMoves
<1>7. /\ \A k \in Kind : /\ shared[k] \in Nat /\ started[k] \in Nat /\ published[k] \in Nat
                         /\ shared'[k] \in Nat /\ started'[k] \in Nat
                         /\ report.counts[k] \in Nat /\ report'.counts[k] \in Nat
                         /\ snapshot.counts[k] \in Nat /\ snapshot'.counts[k] \in Nat
                         /\ snapshot.floor[k] \in Nat /\ snapshot'.floor[k] \in Nat
      /\ sharedMax \in Nat /\ sharedMax' \in Nat /\ report.max \in Nat
      /\ snapshot.max \in Nat /\ snapshot'.max \in Nat
  BY DEF ReportTypes, Counts
<1>8. ASSUME NEW k \in Kind
      PROVE  /\ report'.counts[k] <= shared'[k]
             /\ snapshot'.floor[k] <= started'[k]
             /\ flushEvery' <= 1 => snapshot'.floor[k] <= shared'[k]
  <2>1. report.counts[k] <= shared[k]
    BY Zenon DEF SnapshotFits
  <2>2. snapshot.floor[k] <= started[k] /\ (flushEvery <= 1 => snapshot.floor[k] <= shared[k])
    BY Zenon DEF SnapshotFits
  <2>3. Given(w) => report'.counts[k] = snapshot.counts[k] /\ snapshot.counts[k] <= shared[k]
    BY Zenon DEF Given, SnapshotFits
  <2>4. report'.counts[k] <= shared[k]
    BY Zenon, <1>1, <2>1, <2>3
  <2>a. /\ shared[k] \in Nat /\ shared'[k] \in Nat /\ started[k] \in Nat /\ started'[k] \in Nat
        /\ report'.counts[k] \in Nat /\ snapshot'.floor[k] \in Nat
        /\ shared[k] <= shared'[k] /\ started[k] <= started'[k]
    BY Zenon, <1>2, <1>7
  <2>5. report'.counts[k] <= shared'[k]
    BY <2>4, <2>a
  <2>b. 0 <= started[k] /\ 0 <= shared[k]
    BY <2>a
  <2>c. snapshot'.floor[k] = snapshot.floor[k] \/ snapshot'.floor[k] = published[k]
        \/ snapshot'.floor[k] = 0
    BY Zenon, <1>1
  <2>6. snapshot'.floor[k] <= started[k] /\ (flushEvery <= 1 => snapshot'.floor[k] <= shared[k])
    BY Zenon, <1>4, <2>2, <2>b, <2>c
  <2>7. snapshot'.floor[k] <= started'[k] /\ (flushEvery <= 1 => snapshot'.floor[k] <= shared'[k])
    BY <2>6, <2>a
  <2> QED BY Zenon, <1>6, <2>5, <2>7
<1>9. report'.max <= sharedMax'
  <2>1. Given(w) => report'.max <= sharedMax
    BY Zenon DEF Given, SnapshotFits
  <2>2. report'.max <= sharedMax /\ report'.max \in Nat
    BY Zenon, <1>1, <2>1 DEF SnapshotFits, ReportTypes
  <2> QED BY <1>3, <1>7, <2>2
<1>10. ASSUME NEW v \in Workers, NEW k \in Kind, CountRead(v, k)'
       PROVE  /\ report'.counts[k] <= snapshot'.counts[k] /\ snapshot'.counts[k] <= shared'[k]
              /\ flushEvery' <= 1 => snapshot'.floor[k] <= snapshot'.counts[k]
              /\ joined' => snapshot'.counts[k] = started'[k]
  <2>1. CountFrom(v, k)
    BY Zenon, <1>1, <1>10
  <2>2. report' = report /\ snapshot'.floor = snapshot.floor
    BY Zenon, <2>1 DEF CountFrom
  <2>3. CASE CountRead(v, k) /\ snapshot'.counts[k] = snapshot.counts[k]
    <3>1. /\ report.counts[k] <= snapshot.counts[k] /\ snapshot.counts[k] <= shared[k]
          /\ flushEvery <= 1 => snapshot.floor[k] <= snapshot.counts[k]
          /\ joined => snapshot.counts[k] = started[k]
      BY Zenon, <2>3 DEF SnapshotFits
    <3>2. snapshot'.counts[k] <= shared'[k]
      BY <1>2, <1>7, <2>3, <3>1
    <3> QED BY Zenon, <1>2, <1>6, <2>2, <2>3, <3>1, <3>2
  <2>4. CASE snapshot'.counts[k] = shared[k]
    <3>1. /\ report.counts[k] <= shared[k]
          /\ flushEvery <= 1 => snapshot.floor[k] <= shared[k]
      BY Zenon DEF SnapshotFits
    <3>2. joined => shared[k] = started'[k]
      BY Zenon, <1>2, <1>5
    <3> QED BY Zenon, <1>2, <1>6, <2>2, <2>4, <3>1, <3>2
  <2> QED BY Zenon, <2>1, <2>3, <2>4 DEF CountFrom
<1>11. ASSUME NEW v \in Workers, MaxRead(v)'
       PROVE  /\ report'.max <= snapshot'.max /\ snapshot'.max <= sharedMax'
              /\ joined' => snapshot'.max = deepest'
  <2>1. MaxFrom(v)
    BY Zenon, <1>1, <1>11
  <2>2. report' = report
    BY Zenon, <2>1 DEF MaxFrom
  <2>3. CASE MaxRead(v) /\ snapshot'.max = snapshot.max
    <3>1. /\ report.max <= snapshot.max /\ snapshot.max <= sharedMax
          /\ joined => snapshot.max = deepest
      BY Zenon, <2>3 DEF SnapshotFits
    <3>2. snapshot'.max <= sharedMax'
      BY <1>3, <1>7, <2>3, <3>1
    <3> QED BY <1>2, <1>6, <2>2, <2>3, <3>1, <3>2
  <2>4. CASE snapshot'.max = sharedMax
    <3>1. report.max <= sharedMax
      BY Zenon DEF SnapshotFits
    <3> QED BY Zenon, <1>2, <1>3, <1>5, <1>6, <2>2, <2>4, <3>1
  <2> QED BY Zenon, <2>1, <2>3, <2>4 DEF MaxFrom
<1> QED BY Zenon, <1>8, <1>9, <1>10, <1>11 DEF SnapshotFits

(* What a callback is given does not go back, and is exact where it says   *)
(* so.                                                                     *)
LEMMA StepReport ==
    ASSUME ThrottleTypes, ReportTypes, ReportTypes', Holding, Resting, Alone, KindsKnown,
           CountsAddUp, MaxAddsUp, SnapshotFits, ExactMeansExact,
           NEW w \in Workers, WorkerStep(w)
    PROVE  /\ ExactMeansExact'
           /\ \A k \in Kind : report'.counts[k] >= report.counts[k]
           /\ report'.max >= report.max
           /\ report.state = "final" => UNCHANGED report
<1>1. report' = report \/ Given(w)
  BY Zenon, SnapshotSources
<1>2. joined => started' = started /\ deepest' = deepest
  BY Zenon, CountersGrow
<1>3. joined' = joined
  BY Zenon, StepOwn DEF OwnMoves
<1>4. CASE report' = report
  <2>1. report'.state = "final" => joined
    BY Zenon, <1>4 DEF Alone
  <2>2. ExactMeansExact'
    BY Zenon, <1>2, <1>4, <2>1 DEF ExactMeansExact
  <2>3. (\A k \in Kind : report.counts[k] \in Nat) /\ report.max \in Nat
    BY Zenon DEF ReportTypes, Counts
  <2> QED BY <1>4, <2>2, <2>3
<1>5. CASE Given(w)
  <2>1. \A k \in Kind :
           /\ report.counts[k] <= snapshot.counts[k] /\ snapshot.counts[k] <= shared[k]
           /\ flushEvery <= 1 => snapshot.floor[k] <= snapshot.counts[k]
           /\ joined => snapshot.counts[k] = started[k]
           /\ snapshot.floor[k] <= started[k]
    BY Zenon, <1>5 DEF Given, SnapshotFits
  <2>2. report.max <= snapshot.max /\ (joined => snapshot.max = deepest)
    BY Zenon, <1>5 DEF Given, SnapshotFits
  <2>3. /\ snapshot.counts \in [Kind -> Nat] /\ started \in [Kind -> Nat]
        /\ shared \in [Kind -> Nat] /\ report.counts \in [Kind -> Nat]
        /\ report.max \in Nat /\ snapshot.max \in Nat
    BY Zenon DEF ReportTypes, Counts
  <2>4. \A k \in Kind : shared[k] <= started[k]
    BY Zenon, PublishedIsCounted
  <2>5. ASSUME joined \/ flushEvery <= 1, NEW k \in Kind
        PROVE  snapshot.floor[k] <= snapshot.counts[k] /\ snapshot.counts[k] <= started[k]
    BY <2>1, <2>3, <2>4, <2>5
  <2>6. report'.exact => report'.honest
    BY Zenon, <1>5, <2>5 DEF Given
  <2>7. joined => snapshot.counts = started
    BY <2>1, <2>3
  <2>8. report'.state = "final" => report'.counts = started' /\ report'.max = deepest'
    BY Zenon, <1>2, <1>5, <2>2, <2>7 DEF Given
  <2>9. ExactMeansExact'
    BY Zenon, <2>6, <2>8 DEF ExactMeansExact
  <2>10. report'.counts = snapshot.counts /\ report'.max = snapshot.max
    BY Zenon, <1>5 DEF Given
  <2>11. (\A k \in Kind : report'.counts[k] >= report.counts[k]) /\ report'.max >= report.max
    BY Zenon, <2>1, <2>2, <2>3, <2>10
  <2>12. report.state # "final"
    <3>1. pc[w] \in {"queue", "callback"}
      BY Zenon, <1>5 DEF Given, MaxRead
    <3> QED BY Zenon, <3>1 DEF Alone
  <2> QED BY Zenon, <2>9, <2>11, <2>12
<1> QED BY Zenon, <1>1, <1>4, <1>5

-----------------------------------------------------------------------------
LEMMA InitReports == Init => ReportInvariant
<1> SUFFICES ASSUME Init PROVE ReportInvariant
  OBVIOUS
<1>0. /\ NumKinds \in Nat \ {0} /\ Kind = 1 .. NumKinds /\ NoCounts \in Counts
      /\ 1 \in 1 .. NumKinds + 1 /\ 0 \in 0 .. NumKinds /\ FlushIntervals \subseteq Nat \ {0}
  BY ProgressAssumption DEF Kind, NoCounts, Counts
<1>1. ReportTypes
  <2>1. snapshot \in [counts : Counts, max : Nat, floor : Counts]
    BY Zenon, <1>0 DEF Init, NoSnapshot
  <2>2. report \in [state : {"none", "running", "final"}, counts : Counts, max : Nat,
                    exact : BOOLEAN, honest : BOOLEAN]
    BY Zenon, <1>0 DEF Init
  <2> QED BY Zenon, <1>0, <2>1, <2>2 DEF Init, ReportTypes
<1>2. \A v \in Workers : /\ pc[v] = "run" /\ local[v] = NoCounts /\ localMax[v] = 0 /\ kind[v] = 0
  BY Zenon DEF Init
<1>3. \A v \in Workers : ~Inside(v) /\ ~InPublication(v) /\ ~MaxRead(v)
                         /\ \A k \in Kind : ~CountRead(v, k)
  BY Zenon, <1>2 DEF Inside, InPublication, MaxRead, CountRead
<1>4. Holding /\ Resting /\ Alone /\ KindsKnown
  BY Zenon, <1>2, <1>3, ProgressAssumption DEF Init, Holding, Resting, Alone,
     KindsKnown, NoCounts
<1>5. CountsAddUp
  <2> SUFFICES ASSUME NEW k \in Kind
               PROVE  /\ IsFiniteSet(Waiting(k))
                      /\ started[k] = shared[k] + Cardinality(Waiting(k))
                      /\ started[k] = published[k] + Cardinality(Publishing(k))
    BY Zenon DEF CountsAddUp
  <2>1. \A v \in Workers : Unflushed(v, k) = 0
    BY Zenon, <1>2 DEF Unflushed, NoCounts
  <2>2. Waiting(k) = {}
    <3> SUFFICES ASSUME NEW p \in Waiting(k) PROVE FALSE
      OBVIOUS
    <3>1. p[1] \in Workers /\ p[2] \in Nat /\ 1 <= p[2] /\ p[2] <= Unflushed(p[1], k)
      BY Zenon DEF Waiting
    <3>2. Unflushed(p[1], k) = 0
      BY Zenon, <2>1, <3>1
    <3> QED BY <3>1, <3>2
  <2>3. Publishing(k) = {}
    BY <1>0, <1>2 DEF Publishing
  <2>4. started[k] = 0 /\ shared[k] = 0 /\ published[k] = 0
    BY Zenon DEF Init, NoCounts
  <2>5. IsFiniteSet({}) /\ Cardinality({}) = 0
    BY Zenon, FS_EmptySet
  <2>6. /\ IsFiniteSet(Waiting(k)) /\ Cardinality(Waiting(k)) = 0
        /\ Cardinality(Publishing(k)) = 0
    BY Zenon, <2>2, <2>3, <2>5
  <2> QED BY <2>4, <2>6
<1>6. MaxAddsUp
  BY <1>2 DEF Init, MaxAddsUp
<1>7. SnapshotFits
  BY <1>3 DEF Init, SnapshotFits, NoSnapshot, NoCounts
<1>8. ExactMeansExact
  BY Zenon DEF Init, ExactMeansExact
<1> QED BY Zenon, <1>1, <1>4, <1>5, <1>6, <1>7, <1>8 DEF ReportInvariant

(* What one step does to the reports.                                      *)
ReportMoves ==
    /\ \A k \in Kind : report'.counts[k] >= report.counts[k]
    /\ report'.max >= report.max
    /\ report.state = "final" => UNCHANGED report

LEMMA StepReports ==
    ASSUME ThrottleTypes, ReportInvariant, [Next]_vars
    PROVE  ReportInvariant' /\ ReportMoves
<1>1. CASE \E w \in Workers : WorkerStep(w)
  <2>1. PICK w \in Workers : WorkerStep(w)
    BY <1>1
  <2>2. /\ ReportTypes /\ Holding /\ Resting /\ Alone /\ KindsKnown
        /\ CountsAddUp /\ MaxAddsUp /\ SnapshotFits /\ ExactMeansExact
    BY DEF ReportInvariant
  <2>3. ReportTypes'
    BY Zenon, <2>1, <2>2, ReportStepTypes
  <2>4. Holding' /\ Resting' /\ Alone' /\ KindsKnown'
    BY Zenon, <2>1, <2>2, StepPlaces
  <2>5. CountsAddUp'
    BY Zenon, <2>1, <2>2, <2>3, StepCountsAddUp
  <2>6. MaxAddsUp'
    BY Zenon, <2>1, <2>2, <2>3, StepMaxAddsUp
  <2>7. SnapshotFits'
    BY Zenon, <2>1, <2>2, <2>3, StepSnapshotFits
  <2>8. ExactMeansExact' /\ ReportMoves
    BY Zenon, <2>1, <2>2, <2>3, StepReport DEF ReportMoves
  <2> QED BY Zenon, <2>3, <2>4, <2>5, <2>6, <2>7, <2>8 DEF ReportInvariant
<1>2. CASE Join \/ Tick \/ Returned \/ UNCHANGED vars
  <2>1. ReportInvariant' /\ report' = report
    BY Zenon, <1>2, JoinKeepsReports, TimeKeepsReports
  <2>2. (\A k \in Kind : report.counts[k] \in Nat) /\ report.max \in Nat
    BY Zenon DEF ReportInvariant, ReportTypes, Counts
  <2> QED BY <2>1, <2>2 DEF ReportMoves
<1>3. Next => Join \/ Tick \/ Returned \/ \E w \in Workers : WorkerStep(w)
  BY DEF Next, WorkerStep, Counting, Flushing, Polling, Reports, Leaving
<1> QED BY Zenon, <1>1, <1>2, <1>3

(* The invariant the reports rest on: progress_callback_mutex_ has one     *)
(* holder, every terminal is on its way to or in the shared counters, once, *)
(* and the snapshot under construction fits what was published.            *)
THEOREM ReportInvariantHolds == Spec => []ReportInvariant
<1>1. Init => ReportInvariant
  BY Zenon, InitReports
<1>2. ThrottleInvariant /\ ReportInvariant /\ [Next]_vars => ReportInvariant'
  BY Zenon, StepReports DEF ThrottleInvariant
<1> QED
  BY <1>1, <1>2, TickCountsClaims, PTL DEF Spec

(* A progress snapshot with counts_exact is exact, for any number of       *)
(* workers, kinds of terminal and flush interval, and the final one has    *)
(* every count and the maximum.                                            *)
THEOREM ExactReportsAreExact == Spec => []ExactMeansExact
<1>1. ReportInvariant => ExactMeansExact
  BY DEF ReportInvariant
<1> QED
  BY <1>1, ReportInvariantHolds, PTL

(* No count and no maximum goes back from one progress callback to the     *)
(* next, and none follows the final one.                                   *)
THEOREM ReportsNeverGoBack == Spec => SnapshotsMonotone
<1>1. ThrottleInvariant /\ ReportInvariant /\ [Next]_vars => [ReportMoves]_report
  BY StepReports DEF ThrottleInvariant
<1>2. Spec => [][ReportMoves]_report
  BY <1>1, TickCountsClaims, ReportInvariantHolds, PTL DEF Spec
<1> QED
  BY Zenon, <1>2 DEF SnapshotsMonotone, ReportMoves

=============================================================================
