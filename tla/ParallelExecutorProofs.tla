----------------------- MODULE ParallelExecutorProofs -----------------------
(***************************************************************************)
(* The theorems about ParallelExecutor.  PoolInvariant is inductive; the   *)
(* four properties it contains follow.  StopInvariant is inductive relative *)
(* to it and gives the two properties of strict mode.  WorkInvariant, also *)
(* relative to it, says where every graph and every count is: from it      *)
(* nothing happens twice, a thread leaves nothing behind, and the pool     *)
(* implements VerifyContract.  StopLag bounds lateness in relaxed mode.    *)
(***************************************************************************)
EXTENDS ParallelExecutorSteps, ParallelExecutorWork, FiniteSetTheorems

(* A counted worker keeps the counter above zero, so that the decrements   *)
(* of active_workers_ and idle_workers_ never wrap around.                 *)
LEMMA CountersStayPositive ==
    ASSUME TypeOK, CountersExact, NEW w \in Workers
    PROVE  CountersPositive(w)
<1>1. IsFiniteSet(BusyWorkers) /\ IsFiniteSet(ParkedWorkers)
  BY Zenon, WorkersAssumption, FS_Subset DEF BusyWorkers, ParkedWorkers
<1>2. ASSUME pc[w] \in BusyPC PROVE active - 1 \in Nat
  <2>1. w \in BusyWorkers
    BY Zenon, <1>2 DEF BusyWorkers
  <2>2. active # 0
    BY Zenon, <1>1, <2>1, FS_EmptySet DEF CountersExact
  <2>3. active \in Nat
    BY Zenon DEF TypeOK
  <2> QED BY <2>2, <2>3
<1>3. ASSUME pc[w] \in ParkedPC PROVE idle - 1 \in Nat
  <2>1. w \in ParkedWorkers
    BY <1>3 DEF ParkedWorkers
  <2>2. idle # 0
    BY Zenon, <1>1, <2>1, FS_EmptySet DEF CountersExact
  <2>3. idle \in Nat
    BY DEF TypeOK
  <2> QED BY <2>2, <2>3
<1> QED BY Zenon, <1>2, <1>3 DEF CountersPositive

(* The counters stay exact.                                                *)
LEMMA CountMoves ==
    ASSUME NEW n, NEW m, NEW A, NEW B, NEW w,
           IsFiniteSet(A), n = Cardinality(A),
           \/ w \notin A /\ B = A \cup {w} /\ m = n + 1
           \/ w \in A /\ B = A \ {w} /\ m = n - 1
           \/ B = A /\ m = n
    PROVE  m = Cardinality(B)
BY FS_AddElement, FS_RemoveElement

(* active_workers_ and idle_workers_ stay exact.                           *)
LEMMA StepCounters ==
    ASSUME TypeOK, CountersExact, NEW w \in Workers, Step(w)
    PROVE  CountersExact'
<1>0. IsFiniteSet(BusyWorkers) /\ IsFiniteSet(ParkedWorkers)
  BY Zenon, WorkersAssumption, FS_Subset DEF BusyWorkers, ParkedWorkers
<1>1. \A v \in Workers : v # w =>
        pc'[v] = pc[v] \/ (pc[v] = "wait" /\ pc'[v] = "wake")
  BY Zenon, Others
<1>2. active' = Cardinality(BusyWorkers')
  <2>1. Moves(BusyPC, active, w)
    BY Zenon, CounterMoves
  <2>2. \A v \in Workers : v # w => (v \in BusyWorkers' <=> v \in BusyWorkers)
    BY Zenon, <1>1 DEF BusyWorkers, BusyPC
  <2>3. \/ w \notin BusyWorkers /\ BusyWorkers' = BusyWorkers \cup {w} /\ active' = active + 1
        \/ w \in BusyWorkers /\ BusyWorkers' = BusyWorkers \ {w} /\ active' = active - 1
        \/ BusyWorkers' = BusyWorkers /\ active' = active
    BY Zenon, <2>1, <2>2 DEF Moves, BusyWorkers
  <2> QED BY Zenon, <1>0, <2>3, CountMoves DEF CountersExact
<1>3. idle' = Cardinality(ParkedWorkers')
  <2>1. Moves(ParkedPC, idle, w)
    BY Zenon, CounterMoves
  <2>2. \A v \in Workers : v # w => (v \in ParkedWorkers' <=> v \in ParkedWorkers)
    BY Zenon, <1>1 DEF ParkedWorkers, ParkedPC
  <2>3. \/ w \notin ParkedWorkers /\ ParkedWorkers' = ParkedWorkers \cup {w} /\ idle' = idle + 1
        \/ w \in ParkedWorkers /\ ParkedWorkers' = ParkedWorkers \ {w} /\ idle' = idle - 1
        \/ ParkedWorkers' = ParkedWorkers /\ idle' = idle
    BY <2>1, <2>2 DEF Moves, ParkedWorkers
  <2> QED BY Zenon, <1>0, <2>3, CountMoves DEF CountersExact
<1> QED BY Zenon, <1>2, <1>3 DEF CountersExact

(* Completion: no task in progress, so every worker is at a point without  *)
(* frames.                                                                 *)
LEMMA StepDrained ==
    ASSUME PoolInvariant, NEW w \in Workers, Step(w),
           TypeOK', FramesFit', CountersExact'
    PROVE  CompleteMeansDrained'
<1>0. TypeOK /\ FramesFit /\ CountersExact /\ CompleteMeansDrained
  BY DEF PoolInvariant
<1> SUFFICES ASSUME complete' PROVE queue' = <<>> /\ active' = 0
  <2> SUFFICES ASSUME active' = 0, NEW v \in Workers
               PROVE  ~Busy(v)' /\ stack'[v] = <<>>
    BY DEF CompleteMeansDrained
  <2>1. IsFiniteSet(BusyWorkers')
    BY Zenon, WorkersAssumption, FS_Subset DEF BusyWorkers
  <2>2. BusyWorkers' = {}
    BY Zenon, <2>1, FS_EmptySet DEF CountersExact
  <2>3. pc'[v] \in PCs \ BusyPC
    BY Zenon, <2>2 DEF BusyWorkers, TypeOK
  <2>4. pc'[v] \in Frameless
    BY Zenon, <2>3 DEF Frameless, Framed, BusyPC
  <2> QED BY Zenon, <2>3, <2>4 DEF Busy, FramesFit, FrameFits
<1>1. CASE complete
  <2>1. queue = <<>> /\ \A v \in Workers : pc[v] \notin BusyPC
    BY Zenon, <1>0, <1>1 DEF CompleteMeansDrained, Busy
  <2>2. BusyWorkers = {}
    BY <2>1 DEF BusyWorkers
  <2>3. active = 0
    BY Zenon, <1>0, <2>2, FS_EmptySet DEF CountersExact
  <2>4. active' = active
    BY Zenon, <1>0, <1>1, <2>1, QueueMoves
  <2>5. queue' = queue
    BY Zenon, <1>0, <1>1, <2>1, QueueMoves DEF QueueStep, QueueAccepts
  <2> QED BY Zenon, <2>1, <2>3, <2>4, <2>5
<1>2. CASE ~complete
  BY Zenon, <1>0, <1>2, QueueMoves DEF CompleteStep, BecameComplete
<1> QED BY Zenon, <1>1, <1>2

(* The invariant holds initially and is preserved by every step.           *)
LEMMA InitInvariant == Init => PoolInvariant
<1> SUFFICES ASSUME Init PROVE PoolInvariant
  OBVIOUS
<1>0. TypeOK
  BY Zenon, InitType
<1>1. \A w \in Workers : pc[w] = "lock" /\ stack[w] = <<>>
  BY DEF Init
<1>2. MutexOwners
  BY Zenon, <1>1, WorkersAssumption DEF Init, MutexOwners, QueueHolders
<1>3. FramesFit
  BY Zenon, <1>1 DEF FramesFit, FrameFits, Framed, Publishing
<1>4. LockedView
  BY Zenon, <1>1 DEF LockedView
<1>5. CountersExact
  <2>1. BusyWorkers = {} /\ ParkedWorkers = {}
    BY Zenon, <1>1 DEF BusyWorkers, ParkedWorkers, BusyPC, ParkedPC
  <2> QED BY Zenon, <2>1, FS_EmptySet DEF Init, CountersExact
<1>6. CompleteMeansDrained
  BY DEF Init, CompleteMeansDrained
<1>7. QueueBounded
  <2>1. queue = <<Root>> /\ Len(<<Root>>) = 1
    BY Zenon DEF Init
  <2> QED BY <2>1, OptionsAssumption DEF QueueBounded
<1>8. NoStrandedSleeper
  BY Zenon, <1>1, WorkersAssumption DEF Init, NoStrandedSleeper
<1> QED BY Zenon, <1>0, <1>2, <1>3, <1>4, <1>5, <1>6, <1>7, <1>8 DEF PoolInvariant

(* Every step of a worker keeps the whole invariant, one conjunct at a     *)
(* time.                                                                   *)
LEMMA StepInvariant ==
    ASSUME PoolInvariant, NEW w \in Workers, Step(w)
    PROVE  PoolInvariant'
<1>0. /\ TypeOK /\ MutexOwners /\ FramesFit /\ LockedView /\ CountersExact
      /\ CompleteMeansDrained /\ QueueBounded /\ NoStrandedSleeper
  BY Zenon DEF PoolInvariant
<1>1. TypeOK'
  BY Zenon, <1>0, CountersStayPositive, StepType DEF Step
<1>2. MutexOwners'
  BY Zenon, <1>0, StepMutexes
<1>3. FramesFit'
  BY Zenon, <1>0, StepFrames
<1>4. LockedView'
  BY Zenon, <1>0, StepLockedView
<1>5. CountersExact'
  BY Zenon, <1>0, StepCounters
<1>6. CompleteMeansDrained'
  BY Zenon, <1>1, <1>3, <1>5, StepDrained
<1>7. QueueBounded'
  BY Zenon, <1>0, StepQueueBounded
<1>8. NoStrandedSleeper'
  BY Zenon, <1>6, StepNoStranded
<1> QED BY Zenon, <1>1, <1>2, <1>3, <1>4, <1>5, <1>6, <1>7, <1>8 DEF PoolInvariant

(* Joining the workers touches only the result, and a stuttering step      *)
(* nothing.                                                                *)
LEMMA JoinInvariant ==
    ASSUME PoolInvariant, Join \/ UNCHANGED vars
    PROVE  PoolInvariant'
<1>0. /\ TypeOK /\ MutexOwners /\ FramesFit /\ LockedView /\ CountersExact
      /\ CompleteMeansDrained /\ QueueBounded /\ NoStrandedSleeper
  BY Zenon DEF PoolInvariant
<1>1. /\ UNCHANGED <<pc, stack, queueVars, idle, stopVars, qlock, plock,
                     pollVars, splitVars, created, countVars>>
  BY Zenon DEF Join, vars
<1>a. UNCHANGED <<pc, stack, queue, active, complete, idle, stop, qlock, plock>>
  BY Zenon, <1>1 DEF queueVars, stopVars
<1>2. TypeOK'
  <2>1. result' \in [kind : {"none", "AllExplored", "Stopped", "threw"}, total : Nat]
    BY <1>0 DEF Join, vars, TypeOK
  <2> QED
    BY Zenon, <1>0, <1>1, <2>1 DEF TypeOK, queueVars, stopVars, pollVars, splitVars, countVars
<1>3. MutexOwners' /\ LockedView' /\ CountersExact'
  BY <1>0, <1>a DEF MutexOwners, LockedView, Ready, CountersExact, BusyWorkers, ParkedWorkers
<1>4. FramesFit'
  BY Zenon, <1>0, <1>a DEF FramesFit, FrameFits, HasNext, TopNode, Top
<1>5. CompleteMeansDrained' /\ QueueBounded' /\ NoStrandedSleeper'
  BY Zenon, <1>0, <1>a DEF CompleteMeansDrained, Busy, QueueBounded, NoStrandedSleeper
<1> QED BY Zenon, <1>2, <1>3, <1>4, <1>5 DEF PoolInvariant

(* The bookkeeping of the pool is sound for any number of workers, any     *)
(* exploration tree and any options: mutex owners, frames, the two         *)
(* counters, completion, the queue bound and the absence of stranded       *)
(* sleepers in worker_loop_impl(), try_enqueue() and run_loop().           *)
THEOREM PoolInvariantHolds == Spec => []PoolInvariant
<1>1. Init => PoolInvariant
  BY Zenon, InitInvariant
<1>2. PoolInvariant /\ [Next]_vars => PoolInvariant'
  <2> SUFFICES ASSUME PoolInvariant, [Next]_vars PROVE PoolInvariant'
    OBVIOUS
  <2>1. CASE \E w \in Workers : Step(w)
    BY Zenon, <2>1, StepInvariant
  <2>2. CASE Join \/ UNCHANGED vars
    BY Zenon, <2>2, JoinInvariant
  <2> QED BY Zenon, <2>1, <2>2 DEF Next, Step, Finished
<1> QED BY <1>1, <1>2, PTL DEF Spec

(* The variables of the pool keep their types; in particular the unsigned  *)
(* counters active_workers_ and idle_workers_ never go below zero.         *)
THEOREM TypesHold == Spec => []TypeOK
BY PoolInvariantHolds, PTL DEF PoolInvariant

(* search_complete_ is set by worker_loop_impl() only when nothing is      *)
(* queued and no worker has work, and no work appears afterwards.          *)
THEOREM CompletionIsFinal == Spec => []CompleteMeansDrained
BY PoolInvariantHolds, PTL DEF PoolInvariant

(* try_enqueue() never lets task_queue_ exceed max_queued_tasks.           *)
THEOREM QueueStaysBounded == Spec => []QueueBounded
BY PoolInvariantHolds, PTL DEF PoolInvariant

(* Without a stop, a queued task always has a worker awake, and sleepers   *)
(* of a completed search are still owed their notify_all().                *)
THEOREM NobodyIsStranded == Spec => []NoStrandedSleeper
BY PoolInvariantHolds, PTL DEF PoolInvariant

-----------------------------------------------------------------------------
(* What publication_mutex_ buys in strict mode, in inductive form: see     *)
(* publish_terminal_execution() and record_exception().                    *)
THEOREM StopInvariantHolds == Spec => []StopInvariant
<1>1. Init => StopInvariant
  <2> SUFFICES ASSUME Init PROVE StopInvariant
    OBVIOUS
  <2>1. firstExc = None /\ \A w \in Workers : late[w] = 0
    BY Zenon DEF Init
  <2>2. StopIsPrompt \/ SyncSteps # 0
    BY <2>1 DEF StopIsPrompt
  <2> QED BY Zenon, <2>1, <2>2 DEF StopInvariant
<1>2. PoolInvariant /\ StopInvariant /\ [Next]_vars => StopInvariant'
  <2> SUFFICES ASSUME PoolInvariant, StopInvariant, [Next]_vars PROVE StopInvariant'
    OBVIOUS
  <2>1. CASE \E w \in Workers : Step(w)
    BY Zenon, <2>1, StepStop
  <2>2. CASE Join \/ UNCHANGED vars
    <3>1. UNCHANGED <<pc, stop, firstExc, late>>
      BY Zenon, <2>2 DEF Join, vars, stopVars, countVars
    <3> QED BY Zenon, <3>1 DEF StopInvariant, StopIsPrompt
  <2> QED BY Zenon, <2>1, <2>2 DEF Next, Step, Finished
<1> QED BY <1>1, <1>2, PoolInvariantHolds, PTL DEF Spec

(* In strict mode publish_terminal_execution() counts at most one terminal *)
(* after the stop flag was raised, in the whole pool.                      *)
THEOREM StrictStopIsPrompt == Spec => [](SyncSteps = 0 => StopIsPrompt)
<1>1. StopInvariant => (SyncSteps = 0 => StopIsPrompt)
  BY DEF StopInvariant
<1> QED BY <1>1, StopInvariantHolds, PTL

(* In strict mode publish_terminal_execution() counts nothing after        *)
(* record_exception() has stored the first exception.                      *)
THEOREM ExceptionEndsCounting == Spec => NoCountAfterException
<1>1. PoolInvariant /\ StopInvariant /\ [Next]_vars
        => [SyncSteps = 0 /\ firstExc # None => counted' = counted]_vars
  <2> SUFFICES ASSUME PoolInvariant, StopInvariant, [Next]_vars,
                      SyncSteps = 0, firstExc # None
               PROVE  counted' = counted
    OBVIOUS
  <2>1. ASSUME NEW w \in Workers, Step(w) PROVE counted' = counted
    <3>1. pc[w] # "count" /\ TypeOK
      BY Zenon DEF StopInvariant, PoolInvariant
    <3> QED BY Zenon, <2>1, <3>1, PublishMoves
  <2>2. CASE Join \/ UNCHANGED vars
    BY Zenon, <2>2 DEF Join, vars, countVars
  <2> QED BY Zenon, <2>1, <2>2 DEF Next, Step, Finished
<1> QED BY <1>1, PoolInvariantHolds, StopInvariantHolds, PTL DEF Spec, NoCountAfterException

-----------------------------------------------------------------------------
(* A flush moves the terminals of one worker to the shared counter.        *)
LEMMA FlushTallies ==
    ASSUME NEW S, NEW l \in [Workers -> Nat], NEW s \in Nat, Tallies(S, l, s),
           NEW w \in Workers
    PROVE  Tallies(S, [l EXCEPT ![w] = 0], s + l[w])
<1>0. IsFiniteSet(S)
  BY DEF Tallies
<1> PICK by \in [S -> Workers \cup {None}] :
         /\ \A v \in Workers : l[v] = Cardinality({n \in S : by[n] = v})
         /\ s = Cardinality({n \in S : by[n] = None})
  BY Zenon DEF Tallies
<1> DEFINE to == [n \in S |-> IF by[n] = w THEN None ELSE by[n]]
           A == {n \in S : by[n] = w}
           B == {n \in S : by[n] = None}
<1>1. to \in [S -> Workers \cup {None}]
  OBVIOUS
<1>2. {n \in S : to[n] = w} = {}
  BY Zenon, WorkersAssumption
<1>3. \A v \in Workers : v # w => {n \in S : to[n] = v} = {n \in S : by[n] = v}
  BY Zenon, WorkersAssumption
<1>4. {n \in S : to[n] = None} = A \cup B /\ A \cap B = {}
  BY Zenon, WorkersAssumption
<1>5. IsFiniteSet(A) /\ IsFiniteSet(B)
  <2>1. A \subseteq S /\ B \subseteq S
    OBVIOUS
  <2> QED BY Zenon, <1>0, <2>1, FS_Subset
<1>6. Cardinality(A \cup B) = Cardinality(A) + Cardinality(B) - Cardinality(A \cap B)
  BY Zenon, <1>5, FS_Union
<1>7. Cardinality(A) = l[w] /\ Cardinality(B) = s
  OBVIOUS
<1> HIDE DEF A, B, to
<1>8. Cardinality({n \in S : to[n] = None}) = s + l[w]
  <2>1. l[w] \in Nat
    OBVIOUS
  <2>2. Cardinality(A \cap B) = 0
    BY Zenon, <1>4, FS_EmptySet
  <2>3. Cardinality(A \cup B) = s + l[w]
    BY <1>6, <1>7, <2>1, <2>2
  <2> QED BY <1>4, <2>3, Zenon
<1>9. \A v \in Workers : [l EXCEPT ![w] = 0][v] = Cardinality({n \in S : to[n] = v})
  BY Zenon, <1>2, <1>3, FS_EmptySet
<1> QED BY Zenon, <1>0, <1>1, <1>8, <1>9 DEF Tallies

(* Counting adds one terminal to the worker's counter.                     *)
LEMMA CountTallies ==
    ASSUME NEW S, NEW l \in [Workers -> Nat], NEW s \in Nat, Tallies(S, l, s),
           NEW w \in Workers, NEW t, t \notin S
    PROVE  Tallies(S \cup {t}, [l EXCEPT ![w] = @ + 1], s)
<1>0. IsFiniteSet(S)
  BY DEF Tallies
<1> PICK by \in [S -> Workers \cup {None}] :
         /\ \A v \in Workers : l[v] = Cardinality({n \in S : by[n] = v})
         /\ s = Cardinality({n \in S : by[n] = None})
  BY Zenon DEF Tallies
<1> DEFINE T == S \cup {t}
           to == [n \in T |-> IF n = t THEN w ELSE by[n]]
           A == {n \in S : by[n] = w}
<1>1. to \in [T -> Workers \cup {None}]
  OBVIOUS
<1>2. {n \in T : to[n] = w} = A \cup {t} /\ t \notin A
  OBVIOUS
<1>3. \A v \in Workers : v # w => {n \in T : to[n] = v} = {n \in S : by[n] = v}
  OBVIOUS
<1>4. {n \in T : to[n] = None} = {n \in S : by[n] = None}
  BY Zenon, WorkersAssumption
<1>5. IsFiniteSet(A)
  <2>1. A \subseteq S
    OBVIOUS
  <2> QED BY Zenon, <1>0, <2>1, FS_Subset
<1>6. Cardinality(A \cup {t}) = Cardinality(A) + 1
  BY Zenon, <1>2, <1>5, FS_AddElement
<1>7. Cardinality(A) = l[w]
  OBVIOUS
<1>8. IsFiniteSet(T)
  BY Zenon, <1>0, FS_AddElement
<1> HIDE DEF A, to, T
<1>9. \A v \in Workers : [l EXCEPT ![w] = @ + 1][v] = Cardinality({n \in T : to[n] = v})
  BY Zenon, <1>2, <1>3, <1>6, <1>7
<1>10. Tallies(T, [l EXCEPT ![w] = @ + 1], s)
  BY Zenon, <1>1, <1>4, <1>8, <1>9 DEF Tallies
<1> QED BY Zenon, <1>10 DEF T

(* Every counted terminal stays in exactly one counter.                    *)
LEMMA StepTally ==
    ASSUME PoolInvariant, CountsFollowFrames, TallyExact, NEW w \in Workers, Step(w)
    PROVE  TallyExact'
<1>0. TypeOK /\ FrameFits(w)
  BY Zenon DEF PoolInvariant, FramesFit
<1>a. /\ local \in [Workers -> Nat] /\ shared \in Nat /\ local[w] \in Nat
      /\ counted \in [Terminal -> Nat] /\ stack[w] \in Seq(Frame)
  BY Zenon, <1>0 DEF TypeOK
<1>b. Tallies(Seen, local, shared)
  BY DEF TallyExact
<1>1. CASE counted' = counted
  <2>1. Seen' = Seen
    BY Zenon, <1>1 DEF Seen
  <2>2. CASE local' = local /\ shared' = shared
    BY <1>b, <2>1, <2>2 DEF TallyExact
  <2>3. CASE Flushes(w)
    <3>1. Tallies(Seen, [local EXCEPT ![w] = 0], shared + local[w])
      BY Zenon, <1>a, <1>b, FlushTallies
    <3> QED BY <2>1, <2>3, <3>1 DEF TallyExact, Flushes
  <2>4. CASE Counts(w)
    BY Zenon, <2>1, <2>4, SeenGrows
  <2> QED BY Zenon, <1>0, <2>2, <2>3, <2>4, TallyMoves
<1>2. CASE Counts(w)
  <2> DEFINE t == TopNode(w)
  <2>1. pc[w] = "count"
    BY Zenon, <1>2 DEF Counts
  <2>2. t \notin Seen /\ Seen' = Seen \cup {t}
    BY Zenon, <1>2, SeenGrows
  <2> HIDE DEF t
  <2> DEFINE more == [local EXCEPT ![w] = @ + 1]
  <2>3. Tallies(Seen', more, shared)
    BY Zenon, <1>a, <1>b, <2>2, CountTallies
  <2>4. CASE shared' = shared /\ local' = more
    BY Zenon, <2>3, <2>4 DEF TallyExact
  <2>5. CASE shared' = shared + local[w] + 1 /\ local' = [local EXCEPT ![w] = 0]
    <3>1. more \in [Workers -> Nat] /\ more[w] = local[w] + 1
      BY <1>a
    <3>2. [more EXCEPT ![w] = 0] = [local EXCEPT ![w] = 0]
      BY Zenon, <1>a
    <3> HIDE DEF more
    <3>3. Tallies(Seen', [more EXCEPT ![w] = 0], shared + more[w])
      BY Zenon, <1>a, <2>3, <3>1, FlushTallies
    <3>4. shared + more[w] = shared'
      BY <1>a, <2>5, <3>1
    <3> QED BY Zenon, <2>5, <3>2, <3>3, <3>4 DEF TallyExact
  <2> QED BY Zenon, <1>0, <2>1, <2>4, <2>5, TallyMoves
<1> QED BY Zenon, <1>0, <1>1, <1>2, TallyMoves

-----------------------------------------------------------------------------
(* The invariant holds initially ...                                       *)
LEMMA InitWork == Init => WorkInvariant
<1> SUFFICES ASSUME Init PROVE WorkInvariant
  OBVIOUS
<1>1. /\ queue = <<Root>> /\ DOMAIN queue = {1} /\ queue[1] = Root
      /\ \A w \in Workers : stack[w] = <<>> /\ DOMAIN stack[w] = {} /\ pc[w] = "lock"
      /\ \A n \in Node : created[n] = IF n = Root THEN 1 ELSE 0
      /\ \A n \in Terminal : counted[n] = 0
      /\ Root \in Node
  BY TreeAssumption DEF Init
<1>2. HeldOnce
  BY Zenon, <1>1 DEF HeldOnce
<1>3. \A n \in Node : \A c \in DOMAIN Children[n] :
        Children[n][c] \in Node /\ created[Children[n][c]] = 0 /\ c \in Nat
  <2> TAKE n \in Node
  <2>1. Children[n] \in Seq(Node)
    BY Zenon, TreeAssumption
  <2>2. \A c \in DOMAIN Children[n] : Children[n][c] \in Node /\ c \in Nat
    BY <2>1
  <2>3. \A c \in DOMAIN Children[n] : Children[n][c] # Root
    BY Zenon, TreeAssumption
  <2> QED BY Zenon, <1>1, <2>2, <2>3
<1>4. FollowsTree(EnterFrame(Root), created)
  <2>1. EnterFrame(Root).node = Root /\ EnterFrame(Root).cursor = 0
    BY Zenon DEF EnterFrame
  <2>2. \A c \in DOMAIN Children[Root] : ~(c < 0)
    BY <1>1, <1>3
  <2> QED BY <1>1, <1>3, <2>1, <2>2 DEF FollowsTree
<1>5. FramesFollowTree
  BY <1>1, <1>3, <1>4 DEF FramesFollowTree
<1>6. CountsFollowFrames
  <2>1. \A n \in Terminal : n \in Node
    BY Zenon DEF Terminal
  <2> QED BY <1>1, <2>1 DEF CountsFollowFrames
<1>7. NothingLost
  BY <1>1 DEF NothingLost, Held
<1>8. TallyExact
  <2>1. Seen = {}
    BY <1>1 DEF Seen
  <2> DEFINE by == [n \in {} |-> None]
  <2>2. by \in [Seen -> Workers \cup {None}]
    BY Zenon, <2>1
  <2>3. \A v : {n \in Seen : by[n] = v} = {}
    BY Zenon, <2>1
  <2>4. (\A w \in Workers : local[w] = 0) /\ shared = 0
    BY Zenon DEF Init
  <2> HIDE DEF by
  <2>5. /\ \A w \in Workers : local[w] = Cardinality({n \in Seen : by[n] = w})
        /\ shared = Cardinality({n \in Seen : by[n] = None})
    BY Zenon, <2>3, <2>4, FS_EmptySet
  <2> QED BY Zenon, <2>1, <2>2, <2>5, FS_EmptySet DEF TallyExact, Tallies
<1>9. EndingsJustified /\ WorkerStateIsReset
  BY <1>1 DEF Init, EndingsJustified, WorkerStateIsReset
<1> QED BY Zenon, <1>2, <1>5, <1>6, <1>7, <1>8, <1>9 DEF WorkInvariant

(* ... and is preserved by the steps of the workers ...                    *)
LEMMA StepWork ==
    ASSUME PoolInvariant, WorkInvariant, NEW w \in Workers, Step(w)
    PROVE  WorkInvariant'
<1>1. PoolInvariant'
  BY StepInvariant
<1>2. /\ HeldOnce /\ FramesFollowTree /\ CountsFollowFrames /\ NothingLost
      /\ TallyExact /\ EndingsJustified /\ WorkerStateIsReset
  BY DEF WorkInvariant
<1>3. HeldOnce'
  BY Zenon, <1>1, <1>2, StepHeldOnce
<1>4. FramesFollowTree'
  BY Zenon, <1>1, <1>2, StepFollowsTree
<1>5. CountsFollowFrames'
  BY Zenon, <1>1, <1>2, StepCounts
<1>6. NothingLost'
  BY Zenon, <1>1, <1>2, StepNothingLost
<1>7. TallyExact'
  BY Zenon, <1>2, StepTally
<1>8. EndingsJustified' /\ WorkerStateIsReset'
  BY Zenon, <1>1, <1>2, StepEndings
<1> QED BY Zenon, <1>3, <1>4, <1>5, <1>6, <1>7, <1>8 DEF WorkInvariant

(* ... and by Join, which only fills in the result.                        *)
LEMMA JoinWork ==
    ASSUME WorkInvariant, Join \/ UNCHANGED vars
    PROVE  WorkInvariant'
<1>1. /\ pc' = pc /\ stack' = stack /\ queue' = queue /\ complete' = complete
      /\ stop' = stop /\ created' = created /\ counted' = counted
      /\ local' = local /\ shared' = shared /\ sinceSync' = sinceSync
      /\ cachedStop' = cachedStop /\ sinceSplit' = sinceSplit /\ cachedIdle' = cachedIdle
  BY Zenon DEF Join, vars, queueVars, stopVars, pollVars, splitVars, countVars
<1>2. result' = result \/ \A w \in Workers : pc[w] = "done"
  BY Zenon DEF Join, vars
<1>3. /\ HeldOnce /\ FramesFollowTree /\ CountsFollowFrames /\ NothingLost
      /\ TallyExact /\ EndingsJustified /\ WorkerStateIsReset
  BY Zenon DEF WorkInvariant
<1>4. HeldOnce'
  <2>1. queue' = queue /\ stack' = stack
    BY Zenon, <1>1
  <2> QED BY <1>3, <2>1 DEF HeldOnce
<1>5. FramesFollowTree'
  BY Zenon, <1>1, <1>3 DEF FramesFollowTree, Top
<1>6. CountsFollowFrames'
  BY Zenon, <1>1, <1>3 DEF CountsFollowFrames, TopNode, Top
<1>7. NothingLost'
  BY Zenon, <1>1, <1>3 DEF NothingLost, Held, Explored
<1>8. TallyExact'
  BY Zenon, <1>1, <1>3 DEF TallyExact, Seen
<1>9. EndingsJustified'
  BY Zenon, <1>1, <1>2, <1>3 DEF EndingsJustified
<1>10. WorkerStateIsReset'
  BY Zenon, <1>1, <1>3 DEF WorkerStateIsReset
<1> QED BY Zenon, <1>4, <1>5, <1>6, <1>7, <1>8, <1>9, <1>10 DEF WorkInvariant

(* Work is neither duplicated nor lost by try_enqueue(), worker_loop_impl() *)
(* and publish_terminal_execution(), for any number of workers, any        *)
(* exploration tree and any options.                                       *)
THEOREM WorkInvariantHolds == Spec => []WorkInvariant
<1>1. Init => WorkInvariant
  BY InitWork
<1>2. PoolInvariant /\ WorkInvariant /\ [Next]_vars => WorkInvariant'
  <2> SUFFICES ASSUME PoolInvariant, WorkInvariant, [Next]_vars PROVE WorkInvariant'
    OBVIOUS
  <2>1. CASE \E w \in Workers : Step(w)
    BY Zenon, <2>1, StepWork
  <2>2. CASE Join \/ UNCHANGED vars
    BY Zenon, <2>2, JoinWork
  <2> QED BY Zenon, <2>1, <2>2 DEF Next, Step, Finished
<1> QED BY <1>1, <1>2, PoolInvariantHolds, PTL DEF Spec

(* No graph is explored twice and no terminal execution counted twice,     *)
(* whether alternatives are handed off through task_queue_ or not.         *)
THEOREM NothingHappensTwice == Spec => []NothingTwice
<1>1. PoolInvariant /\ WorkInvariant => NothingTwice
  <2> SUFFICES ASSUME PoolInvariant, WorkInvariant PROVE NothingTwice
    OBVIOUS
  <2>1. \A n \in Node : created[n] \in {0, 1}
    BY Zenon DEF WorkInvariant, FramesFollowTree
  <2>2. \A n \in Terminal : n \in Node /\ counted[n] \in Nat /\ counted[n] <= created[n]
    BY Zenon DEF PoolInvariant, TypeOK, WorkInvariant, CountsFollowFrames, Terminal
  <2> QED BY <2>1, <2>2 DEF NothingTwice
<1> QED BY <1>1, PoolInvariantHolds, WorkInvariantHolds, PTL

(* flush_worker_state() leaves nothing of an exploration behind in the     *)
(* thread_local state of a thread that has left worker_loop_impl().        *)
THEOREM ThreadStateIsReset == Spec => []WorkerStateIsReset
BY WorkInvariantHolds, PTL DEF WorkInvariant

(* Relaxed mode: between two terminals a worker polls four times or more,  *)
(* and a poll without a refresh brings the next refresh of cached_stop     *)
(* closer.                                                                 *)
THEOREM StopLagHolds == Spec => []StopLag
<1>1. Init => StopLag
  <2> SUFFICES ASSUME Init, SyncSteps > 0 PROVE StopLag
    BY Zenon DEF StopLag
  <2>1. \A w \in Workers : late[w] = 0 /\ sinceSync[w] = 0 /\ pc[w] = "lock"
    BY Zenon DEF Init
  <2>2. 0 <= 1 + ((SyncSteps - 1) \div 4)
    BY OptionsAssumption
  <2> QED BY <2>1, <2>2, OptionsAssumption DEF StopLag, StopIsPrompt
<1>2. PoolInvariant /\ WorkInvariant /\ StopLag /\ [Next]_vars => StopLag'
  <2> SUFFICES ASSUME PoolInvariant, WorkInvariant, StopLag, [Next]_vars, SyncSteps > 0
               PROVE  StopLag'
    BY Zenon DEF StopLag
  <2>1. CASE \E w \in Workers : Step(w)
    <3> PICK w \in Workers : Step(w)
      BY <2>1
    <3>1. PoolInvariant'
      BY Zenon, StepInvariant
    <3> QED BY Zenon, <3>1, StepLag DEF WorkInvariant
  <2>2. CASE Join \/ UNCHANGED vars
    <3>1. /\ pc' = pc /\ stack' = stack /\ stop' = stop /\ late' = late
          /\ sinceSync' = sinceSync /\ cachedStop' = cachedStop
      BY Zenon, <2>2 DEF Join, vars, stopVars, pollVars, countVars
    <3> QED BY <3>1 DEF StopLag, StopIsPrompt
  <2> QED BY Zenon, <2>1, <2>2 DEF Next, Step, Finished
<1> QED BY <1>1, <1>2, PoolInvariantHolds, WorkInvariantHolds, PTL DEF Spec

(* stop_requested(): in strict mode the whole pool counts at most one      *)
(* terminal after the stop, in relaxed mode each worker at most one more   *)
(* than a quarter of its sync_steps, for any number of workers.            *)
THEOREM StopIsAlwaysPrompt == Spec => []StopIsPrompt
<1>1. StopInvariant /\ StopLag => StopIsPrompt
  BY OptionsAssumption DEF StopInvariant, StopLag
<1> QED BY <1>1, StopInvariantHolds, StopLagHolds, PTL

-----------------------------------------------------------------------------
(* Once every worker has left, the shared counter is the whole count.      *)
LEMMA AllIsShared ==
    ASSUME WorkInvariant, \A w \in Workers : pc[w] = "done"
    PROVE  shared = Cardinality(Seen)
<1>1. Tallies(Seen, local, shared) /\ \A w \in Workers : local[w] = 0
  BY Zenon DEF WorkInvariant, TallyExact, WorkerStateIsReset
<1>2. IsFiniteSet(Seen)
  BY Zenon, <1>1 DEF Tallies
<1> PICK by \in [Seen -> Workers \cup {None}] :
         /\ \A w \in Workers : local[w] = Cardinality({n \in Seen : by[n] = w})
         /\ shared = Cardinality({n \in Seen : by[n] = None})
  BY Zenon, <1>1 DEF Tallies
<1>3. ASSUME NEW w \in Workers PROVE {n \in Seen : by[n] = w} = {}
  <2>1. {n \in Seen : by[n] = w} \subseteq Seen
    OBVIOUS
  <2>2. IsFiniteSet({n \in Seen : by[n] = w})
    BY Zenon, <1>2, <2>1, FS_Subset
  <2>3. Cardinality({n \in Seen : by[n] = w}) = 0
    BY Zenon, <1>1
  <2> QED BY Zenon, <2>2, <2>3, FS_EmptySet
<1>4. {n \in Seen : by[n] = None} = Seen
  BY Zenon, <1>3
<1> QED BY <1>4

(* A step of a worker counts one terminal or changes nothing the caller    *)
(* sees.                                                                   *)
LEMMA StepContract ==
    ASSUME PoolInvariant, WorkInvariant, NEW w \in Workers, Step(w)
    PROVE  Contract!CountOne \/ UNCHANGED Contract!cvars
<1>0. TypeOK
  BY Zenon DEF PoolInvariant
<1>1. pc[w] # "done" /\ result' = result
  BY Zenon, <1>0, LocalMoves
<1>2. CASE counted' = counted
  <2>1. Seen' = Seen
    BY Zenon, <1>2 DEF Seen
  <2> QED BY Zenon, <1>1, <2>1 DEF Contract!cvars
<1>3. CASE Counts(w)
  <2>1. CountsFollowFrames /\ EndingsJustified
    BY Zenon DEF WorkInvariant
  <2>2. TopNode(w) \in Terminal \ Seen /\ Seen' = Seen \cup {TopNode(w)}
    BY Zenon, <1>3, <2>1, SeenGrows
  <2>3. result.kind = "none"
    BY Zenon, <1>1, <2>1 DEF EndingsJustified
  <2> QED BY Zenon, <1>1, <2>2, <2>3 DEF Contract!CountOne, Contract!Pending
<1> QED BY Zenon, <1>0, <1>2, <1>3, TallyMoves

(* The contract counts with the same cardinality.                          *)
LEMMA SameCardinality == \A S : Contract!Cardinality(S) = Cardinality(S)
BY DEF Contract!Cardinality, Cardinality

(* run() answers what the contract allows.                                 *)
LEMMA JoinContract ==
    ASSUME PoolInvariant, WorkInvariant, Join
    PROVE  Contract!AnswerAllExplored \/ Contract!AnswerStopped \/ Contract!Throw
<1>1. /\ result.kind = "none" /\ \A w \in Workers : pc[w] = "done"
      /\ result' = [kind |-> IF firstExc # None THEN "threw"
                             ELSE IF stop THEN "Stopped" ELSE "AllExplored",
                    total |-> IF firstExc # None THEN 0 ELSE shared]
  BY Zenon DEF Join
<1>2. Seen' = Seen
  BY Zenon DEF Join, countVars, Seen
<1>3. shared = Cardinality(Seen)
  BY Zenon, <1>1, AllIsShared
<1>4. ~stop => Seen = Terminal
  BY Zenon, <1>1, AllIsSeen
<1>5. CASE firstExc # None
  BY Zenon, <1>1, <1>2, <1>5 DEF Contract!Throw, Contract!Pending
<1>6. CASE firstExc = None /\ stop
  BY Zenon, <1>1, <1>2, <1>3, <1>6, SameCardinality DEF Contract!AnswerStopped, Contract!Pending
<1>7. CASE firstExc = None /\ ~stop
  BY Zenon, <1>1, <1>2, <1>3, <1>4, <1>7, SameCardinality
     DEF Contract!AnswerAllExplored, Contract!Pending
<1> QED BY Zenon, <1>5, <1>6, <1>7

(* verify_parallel() implements the contract of verify(): it counts each   *)
(* terminal execution at most once, says AllExplored only after it counted *)
(* all of them, reports exactly what it counted, and otherwise throws; for *)
(* any number of workers, any tree, any options and any interleaving.      *)
THEOREM ContractIsImplemented == Spec => ImplementsContract
<1>1. Init => Contract!Init
  <2> SUFFICES ASSUME Init PROVE Contract!Init
    OBVIOUS
  <2>1. Seen = {} /\ result = [kind |-> "none", total |-> 0]
    BY DEF Init, Seen
  <2> QED BY Zenon, <2>1 DEF Contract!Init
<1>2. PoolInvariant /\ WorkInvariant /\ [Next]_vars => [Contract!Next]_(Contract!cvars)
  <2> SUFFICES ASSUME PoolInvariant, WorkInvariant, [Next]_vars
               PROVE  [Contract!Next]_(Contract!cvars)
    OBVIOUS
  <2>1. CASE \E w \in Workers : Step(w)
    BY Zenon, <2>1, StepContract DEF Contract!Next
  <2>2. CASE Join
    BY Zenon, <2>2, JoinContract DEF Contract!Next
  <2>3. CASE UNCHANGED vars
    BY Zenon, <2>3 DEF vars, countVars, Contract!cvars, Seen
  <2> QED BY Zenon, <2>1, <2>2, <2>3 DEF Next, Step, Finished
<1> QED BY <1>1, <1>2, PoolInvariantHolds, WorkInvariantHolds, PTL
        DEF Spec, ImplementsContract, Contract!Spec
=============================================================================
