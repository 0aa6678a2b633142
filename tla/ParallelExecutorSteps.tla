----------------------- MODULE ParallelExecutorSteps ------------------------
(***************************************************************************)
(* Every step of a worker preserves the conjuncts of PoolInvariant and of  *)
(* StopInvariant, the justification of every ending, and the bound StopLag *)
(* on what a stop in relaxed mode still lets through.                      *)
(***************************************************************************)
EXTENDS ParallelExecutorTypes

(* A step that changes active_workers_ or idle_workers_ enters or leaves   *)
(* the program points that the counter counts.                             *)
Moves(S, n, w) ==
    \/ pc[w] \notin S /\ pc'[w] \in S /\ n' = n + 1
    \/ pc[w] \in S /\ pc'[w] \notin S /\ n' = n - 1
    \/ (pc[w] \in S <=> pc'[w] \in S) /\ n' = n

(* active_workers_ and idle_workers_ follow the worker into and out of the *)
(* program points they count.                                              *)
LEMMA CounterMoves ==
    ASSUME TypeOK, NEW w \in Workers, Step(w)
    PROVE  Moves(BusyPC, active, w) /\ Moves(ParkedPC, idle, w)
<1>0. pc \in [Workers -> PCs]
  BY DEF TypeOK
<1> USE DEF Goto, queueVars, BusyPC, ParkedPC, Moves
<1>1. CASE Acquire(w)
  BY Zenon, <1>0, <1>1 DEF Acquire, LockQueue, Reacquire, FinishTask, TryEnqueue
<1>2. CASE TakeStep(w)
  BY <1>0, <1>2 DEF TakeStep, Recheck, Park, Leave, PopTask, CompleteNotify, NotifyAllGoto
<1>3. CASE ExploreStep(w)
  <2>1. CASE NotifyOne(w)
    BY Zenon, <1>0, <2>1 DEF NotifyOne, NotifyOneGoto
  <2>2. CASE ~NotifyOne(w)
    BY Zenon, <1>0, <1>3, <2>2 DEF ExploreStep, ProcessTask, ExploreDone, Unwind,
       DispatchEnter, EnterStopped, EnterNode, ResumeExhausted, ResumeFrame,
       SpawnCheck, OfferChild, Handling
  <2> QED BY <2>1, <2>2
<1>4. CASE PublishStep(w)
  BY Zenon, <1>0, <1>4 DEF PublishStep, PublishCheck, CountTerminal, Callback,
     StopStore, StopNotify, NotifyAllGoto
<1>5. CASE FailStep(w)
  BY Zenon, <1>0, <1>5 DEF FailStep, NotifyFatalError, RecordException, RecordNotify,
     NotifyAllGoto
<1>6. CASE SpuriousWake(w) \/ PollAgain(w)
  BY Zenon, <1>0, <1>6 DEF SpuriousWake, PollAgain
<1> QED BY Zenon, <1>1, <1>2, <1>3, <1>4, <1>5, <1>6 DEF Step, WorkerStep

(* Who takes and who gives back a mutex.                                   *)
LEMMA LockMoves ==
    ASSUME TypeOK, MutexOwners, NEW w \in Workers, Step(w)
    PROVE  /\ qlock' \in {qlock, w, None}
           /\ pc[w] \in QueueHolders \/ qlock = None \/ qlock' = qlock
           /\ pc'[w] \in QueueHolders <=> qlock' = w
           /\ plock' \in {plock, w, None}
           /\ (SyncSteps = 0 /\ pc[w] = "count") \/ plock = None \/ plock' = plock
           /\ (SyncSteps = 0 /\ pc'[w] = "count") <=> plock' = w
<1>0. pc \in [Workers -> PCs]
  BY DEF TypeOK
<1>a. /\ pc[w] \in QueueHolders <=> qlock = w
      /\ SyncSteps = 0 /\ pc[w] = "count" <=> plock = w
      /\ w # None
  BY Zenon, WorkersAssumption DEF MutexOwners
<1> USE DEF Goto, QueueHolders
<1>1. CASE Acquire(w)
  BY Zenon, <1>0, <1>a, <1>1 DEF Acquire, LockQueue, Reacquire, FinishTask, TryEnqueue
<1>2. CASE TakeStep(w)
  BY Zenon, <1>0, <1>a, <1>2 DEF TakeStep, Recheck, Park, Leave, PopTask,
     CompleteNotify, NotifyAllGoto
<1>3. CASE ExploreStep(w)
  <2>1. CASE NotifyOne(w)
    BY Zenon, <1>0, <1>a, <2>1 DEF NotifyOne, NotifyOneGoto
  <2>2. CASE ~NotifyOne(w)
    BY Zenon, <1>0, <1>a, <1>3, <2>2 DEF ExploreStep, ProcessTask, ExploreDone, Unwind,
       DispatchEnter, EnterStopped, EnterNode, ResumeExhausted, ResumeFrame,
       SpawnCheck, OfferChild, Handling
  <2> QED BY <2>1, <2>2
<1>4. CASE PublishStep(w)
  BY Zenon, <1>0, <1>a, <1>4 DEF PublishStep, PublishCheck, CountTerminal, Callback,
     StopStore, StopNotify, NotifyAllGoto
<1>5. CASE FailStep(w)
  BY <1>0, <1>a, <1>5 DEF FailStep, NotifyFatalError, RecordException, RecordNotify,
     NotifyAllGoto
<1>6. CASE SpuriousWake(w) \/ PollAgain(w)
  BY <1>0, <1>a, <1>6 DEF SpuriousWake, PollAgain
<1> QED BY Zenon, <1>1, <1>2, <1>3, <1>4, <1>5, <1>6 DEF Step, WorkerStep

(* The mutexes keep the owners that the program points say.                *)
LEMMA StepMutexes ==
    ASSUME TypeOK, MutexOwners, NEW w \in Workers, Step(w)
    PROVE  MutexOwners'
<1> SUFFICES ASSUME NEW v \in Workers
             PROVE  /\ pc'[v] \in QueueHolders <=> qlock' = v
                    /\ SyncSteps = 0 /\ pc'[v] = "count" <=> plock' = v
  BY DEF MutexOwners
<1>1. CASE v = w
  BY <1>1, LockMoves
<1>2. CASE v # w
  <2>1. pc'[v] = pc[v] \/ (pc[v] = "wait" /\ pc'[v] = "wake")
    BY <1>2, Others
  <2>2. /\ pc[v] \in QueueHolders <=> qlock = v
        /\ SyncSteps = 0 /\ pc[v] = "count" <=> plock = v
        /\ pc[w] \in QueueHolders <=> qlock = w
        /\ SyncSteps = 0 /\ pc[w] = "count" <=> plock = w
        /\ v # None
    BY WorkersAssumption DEF MutexOwners
  <2>3. /\ qlock' = qlock \/ (qlock \in {w, None} /\ qlock' \in {w, None})
        /\ plock' = plock \/ (plock \in {w, None} /\ plock' \in {w, None})
    BY Zenon, <2>2, LockMoves
  <2> QED BY Zenon, <1>2, <2>1, <2>2, <2>3 DEF QueueHolders
<1> QED BY <1>1, <1>2

-----------------------------------------------------------------------------
(* A frame that fits its program point keeps fitting.                      *)
LEMMA SameFrames ==
    ASSUME NEW v \in Workers, FrameFits(v), stack'[v] = stack[v],
           \/ pc'[v] = "loop"
           \/ pc[v] \in Frameless /\ pc'[v] \in Frameless
           \/ pc[v] \in Framed /\ pc'[v] \in {"fatal", "record"}
           \/ pc[v] \in {"spawn", "offer"} /\ pc'[v] \in {"spawn", "offer", "enqueue"}
           \/ pc[v] \in Publishing /\ pc'[v] \in Publishing
           \/ pc'[v] = pc[v]
    PROVE  FrameFits(v)'
BY DEF FrameFits, Frameless, Framed, Publishing, HasNext, TopNode, Top

(* Every step leaves the worker with the frames that its program point    *)
(* relies on: the top frame exists, has a next alternative, is terminal.   *)
LEMMA StepFrames ==
    ASSUME TypeOK, FramesFit, NEW w \in Workers, Step(w)
    PROVE  FramesFit'
<1>0. pc \in [Workers -> PCs] /\ stack \in [Workers -> Seq(Frame)]
  BY Zenon DEF TypeOK
<1>a. FrameFits(w)
  BY DEF FramesFit
<1>b. ASSUME NEW v \in Workers, v # w PROVE FrameFits(v)'
  <2>1. FrameFits(v)
    BY DEF FramesFit
  <2>2. /\ stack'[v] = stack[v]
        /\ pc'[v] = pc[v] \/ (pc[v] = "wait" /\ pc'[v] = "wake")
    BY <1>b, Others
  <2>3. {"wait", "wake"} \subseteq Frameless
    BY DEF Frameless, PCs, ParkedPC, BusyPC, Framed
  <2> QED BY Zenon, <2>1, <2>2, <2>3, SameFrames
<1> SUFFICES FrameFits(w)'
  BY <1>b DEF FramesFit
<1>f. /\ {"lock", "check", "take", "park", "wait", "wake", "done", "complete_notify",
          "finish", "record_notify"} \subseteq Frameless
      /\ {"enter", "callback", "fatal"} \subseteq Framed
  BY DEF Frameless, PCs, ParkedPC, BusyPC, Framed
<1>l. ASSUME pc'[w] = "loop" PROVE FrameFits(w)'
  BY <1>l DEF FrameFits, Frameless, Framed, Publishing
<1>e. ASSUME pc'[w] \in Frameless, stack'[w] = <<>> PROVE FrameFits(w)'
  BY <1>e DEF FrameFits, Frameless, Framed, Publishing
<1> USE DEF Goto, SetStack
<1>1. CASE Acquire(w)
  <2>1. CASE TryEnqueue(w)
    <3>1. stack[w] # <<>> /\ pc'[w] \in {"loop", "notify_one"}
      BY Zenon, <1>0, <1>a, <2>1 DEF TryEnqueue, FrameFits, Framed
    <3>2. pc'[w] = "notify_one" => stack'[w] # <<>>
      BY <1>0, <2>1, <3>1, ReplaceTopIsStack DEF TryEnqueue, WithTop
    <3> QED BY <3>1, <3>2, <1>l DEF FrameFits, Frameless, Framed, Publishing
  <2>2. CASE ~TryEnqueue(w)
    BY Zenon, <1>0, <1>a, <1>1, <1>f, <2>2, SameFrames DEF Acquire, LockQueue,
       Reacquire, FinishTask
  <2> QED BY Zenon, <2>1, <2>2
<1>2. CASE TakeStep(w)
  <2>1. CASE PopTask(w)
    <3>1. pc'[w] = "start" /\ stack'[w] # <<>>
      BY Zenon, <1>0, <2>1 DEF PopTask
    <3> QED BY <3>1 DEF FrameFits, Frameless, Framed, Publishing
  <2>2. CASE ~PopTask(w)
    BY Zenon, <1>0, <1>a, <1>2, <1>f, <2>2, SameFrames DEF TakeStep, Recheck, Park,
       Leave, CompleteNotify, NotifyAllGoto
  <2> QED BY <2>1, <2>2
<1>3. CASE ExploreStep(w)
  <2>1. CASE ProcessTask(w) \/ ExploreDone(w) \/ Unwind(w)
    <3>1. \/ pc'[w] = "loop"
          \/ pc'[w] = "finish" /\ stack'[w] = <<>>
      BY Zenon, <1>0, <2>1 DEF ProcessTask, ExploreDone, Unwind
    <3> QED BY Zenon, <3>1, <1>l, <1>e, <1>f
  <2>2. CASE DispatchEnter(w)
    <3>1. pc'[w] = "enter" /\ stack'[w] # <<>>
      BY <1>0, <2>2 DEF DispatchEnter, Handling
    <3> QED BY <3>1 DEF FrameFits, Frameless, Framed, Publishing
  <2>3. CASE EnterStopped(w) \/ ResumeExhausted(w)
    <3>1. pc'[w] = "loop"
      BY <1>0, <2>3 DEF EnterStopped, ResumeExhausted, Handling
    <3> QED BY <3>1, <1>l
  <2>4. CASE EnterNode(w)
    <3>0. stack[w] # <<>> /\ stack[w] \in Seq(Frame)
      BY Zenon, <1>0, <1>a, <2>4 DEF EnterNode, FrameFits, Framed
    <3>1. TopNode(w) \in Node
      BY <3>0, TopIsFrame DEF TopNode, Top
    <3>2. CASE pc'[w] = "loop"
      BY Zenon, <3>2, <1>l
    <3>3. CASE pc'[w] = "fatal" /\ stack' = stack
      BY Zenon, <1>a, <1>f, <2>4, <3>3, SameFrames DEF EnterNode
    <3>4. CASE pc'[w] = "publish" /\ stack' = stack /\ Kind[TopNode(w)] = "terminal"
      <4>1. TopNode(w)' = TopNode(w)
        BY <3>4 DEF TopNode, Top
      <4>2. TopNode(w) \in Terminal
        BY <3>1, <3>4 DEF Terminal
      <4> QED BY Zenon, <3>0, <3>4, <4>1, <4>2 DEF FrameFits, Frameless, Framed,
                 Publishing, Terminal
    <3>5. CASE pc'[w] = "spawn" /\ stack'[w] = WithTop(w, 1, FALSE) /\ Kind[TopNode(w)] = "send"
      <4>1. [node |-> TopNode(w), cursor |-> 1, flag |-> FALSE] \in Frame
        BY Zenon, <3>1 DEF Frame
      <4>2. stack'[w] # <<>> /\ Top(w)' = [node |-> TopNode(w), cursor |-> 1, flag |-> FALSE]
        BY <3>0, <3>5, <4>1, ReplaceTopIsStack DEF WithTop, Top
      <4>3. Children[TopNode(w)] # <<>> /\ Children[TopNode(w)] \in Seq(Node)
        BY <3>1, <3>5, TreeAssumption
      <4>4. 1 \in 1 .. Len(Children[TopNode(w)])
        BY <4>3
      <4>5. HasNext(w)'
        BY <4>2, <4>4 DEF HasNext, TopNode
      <4> QED BY Zenon, <3>5, <4>2, <4>5 DEF FrameFits, Frameless, Framed, Publishing
    <3> QED
      BY Zenon, <1>0, <2>4, <3>2, <3>3, <3>4, <3>5 DEF EnterNode
  <2>5. CASE ResumeFrame(w)
    <3>1. \/ pc'[w] = "loop"
          \/ pc'[w] \in {"offer", "spawn"} /\ stack' = stack /\ stack[w] # <<>> /\ HasNext(w)
      BY <1>0, <2>5 DEF ResumeFrame, Handling
    <3>2. stack' = stack => (HasNext(w)' <=> HasNext(w))
      BY Zenon DEF HasNext, TopNode, Top
    <3> QED BY Zenon, <3>1, <3>2, <1>l DEF FrameFits, Frameless, Framed, Publishing
  <2>6. CASE SpawnCheck(w) \/ OfferChild(w)
    <3>1. \/ pc'[w] = "loop"
          \/ /\ stack'[w] = stack[w]
             /\ pc[w] \in {"spawn", "offer"} /\ pc'[w] \in {"offer", "enqueue"}
      BY Zenon, <1>0, <2>6 DEF SpawnCheck, OfferChild
    <3> QED BY Zenon, <1>a, <1>l, <3>1, SameFrames
  <2>7. CASE NotifyOne(w)
    <3>1. pc'[w] = "loop"
      BY Zenon, <1>0, <2>7 DEF NotifyOne, NotifyOneGoto
    <3> QED BY <3>1, <1>l
  <2> QED BY Zenon, <1>3, <2>1, <2>2, <2>3, <2>4, <2>5, <2>6, <2>7 DEF ExploreStep
<1>4. CASE PublishStep(w)
  <2>1. \/ pc'[w] = "loop"
        \/ /\ stack'[w] = stack[w]
           /\ pc[w] \in Publishing
           /\ pc'[w] \in Publishing \/ (pc[w] = "callback" /\ pc'[w] = "fatal")
    BY <1>0, <1>4 DEF PublishStep, PublishCheck, CountTerminal, Callback, StopStore,
       StopNotify, NotifyAllGoto, Publishing
  <2> QED BY <1>a, <1>f, <1>l, <2>1, SameFrames
<1>5. CASE FailStep(w)
  <2>1. CASE NotifyFatalError(w)
    BY Zenon, <1>0, <1>a, <1>f, <2>1, SameFrames DEF NotifyFatalError
  <2>2. CASE RecordException(w)
    BY Zenon, <1>0, <1>e, <1>f, <2>2 DEF RecordException
  <2>3. CASE RecordNotify(w)
    BY Zenon, <1>0, <1>a, <1>f, <2>3, SameFrames DEF RecordNotify, NotifyAllGoto
  <2> QED BY Zenon, <1>5, <2>1, <2>2, <2>3 DEF FailStep
<1>6. CASE SpuriousWake(w) \/ PollAgain(w)
  BY <1>0, <1>a, <1>f, <1>6, SameFrames DEF SpuriousWake, PollAgain
<1> QED BY Zenon, <1>1, <1>2, <1>3, <1>4, <1>5, <1>6 DEF Step, WorkerStep

-----------------------------------------------------------------------------
(* A worker that holds the mutex keeps what it saw.                        *)
LEMMA StepLockedView ==
    ASSUME TypeOK, MutexOwners, LockedView, NEW w \in Workers, Step(w)
    PROVE  LockedView'
<1> SUFFICES ASSUME NEW v \in Workers
             PROVE  /\ pc'[v] = "take" => Ready'
                    /\ pc'[v] = "park" => queue' = <<>> /\ ~complete'
  BY Zenon DEF LockedView
<1>1. CASE v = w
  BY Zenon, <1>1, QueueMoves
<1>2. CASE v # w
  <2>1. pc'[v] = pc[v] \/ (pc[v] = "wait" /\ pc'[v] = "wake")
    BY Zenon, <1>2, Others
  <2> SUFFICES ASSUME pc[v] \in {"take", "park"}, pc'[v] = pc[v]
               PROVE  /\ pc[v] = "take" => Ready'
                      /\ pc[v] = "park" => queue' = <<>> /\ ~complete'
    BY Zenon, <2>1
  <2>2. qlock = v /\ qlock # None /\ pc[w] # "take"
    BY <1>2, WorkersAssumption DEF MutexOwners, QueueHolders
  <2>3. queue' = queue /\ complete' = complete /\ (stop => stop')
    BY Zenon, <2>2, QueueMoves DEF QueueStep, CompleteStep
  <2> QED BY <2>3 DEF LockedView, Ready
<1> QED BY <1>1, <1>2

(* try_enqueue() tests the bound under the mutex that guards the queue.    *)
LEMMA StepQueueBounded ==
    ASSUME TypeOK, LockedView, QueueBounded, NEW w \in Workers, Step(w)
    PROVE  QueueBounded'
<1>0. queue \in Seq(Node) /\ MaxQueuedTasks \in Nat
  BY OptionsAssumption DEF TypeOK
<1>1. CASE queue' = queue
  BY <1>1 DEF QueueBounded
<1>2. CASE pc[w] = "take" /\ ~complete /\ ~stop /\ queue' = Tail(queue)
  <2>1. queue # <<>>
    BY <1>2 DEF LockedView, Ready
  <2> QED BY <1>0, <1>2, <2>1 DEF QueueBounded
<1>3. CASE QueueAccepts /\ queue' = Append(queue, NextChild(w))
  <2>1. Len(queue) < MaxQueuedTasks /\ Len(queue') = Len(queue) + 1
    BY <1>0, <1>3 DEF QueueAccepts
  <2> QED BY <1>0, <2>1 DEF QueueBounded
<1> QED BY Zenon, <1>1, <1>2, <1>3, QueueMoves DEF QueueStep

(* A worker sleeps or leaves only when nothing is queued, and the sleepers *)
(* of a completed search are owed the broadcast of complete_notify.        *)
LEMMA StepNoStranded ==
    ASSUME PoolInvariant, NEW w \in Workers, Step(w), CompleteMeansDrained'
    PROVE  NoStrandedSleeper'
<1>0. TypeOK /\ LockedView /\ CompleteMeansDrained /\ NoStrandedSleeper
  BY DEF PoolInvariant
<1> SUFFICES ASSUME ~stop'
    PROVE  /\ queue' # <<>> => pc'[w] \notin {"wait", "done"}
           /\ \A v \in Workers : complete' /\ pc'[v] = "wait"
                => \E u \in Workers : pc'[u] = "complete_notify"
  BY DEF NoStrandedSleeper
<1>a. ~stop
  BY <1>0, QueueMoves
<1>1. queue' # <<>> => pc'[w] \notin {"wait", "done"}
  <2>1. pc'[w] = "wait" => queue' = <<>>
    BY Zenon, <1>0, QueueMoves DEF LockedView
  <2>2. pc'[w] = "done" => queue' = <<>>
    BY <1>0, <1>a, QueueMoves DEF CompleteMeansDrained
  <2> QED BY Zenon, <2>1, <2>2
<1>2. ASSUME complete', NEW v \in Workers, pc'[v] = "wait"
      PROVE  \E u \in Workers : pc'[u] = "complete_notify"
  <2>1. CASE ~complete
    BY Zenon, <1>0, <1>2, <2>1, QueueMoves DEF CompleteStep
  <2>2. CASE complete
    <3>1. v # w
      BY Zenon, <1>0, <1>2, <2>2, QueueMoves DEF LockedView
    <3>2. pc[v] = "wait"
      BY Zenon, <1>0, <1>2, <3>1, Others
    <3>3. PICK u \in Workers : pc[u] = "complete_notify"
      BY Zenon, <1>0, <1>a, <2>2, <3>2 DEF NoStrandedSleeper
    <3>4. u # w
      BY Zenon, <1>0, <1>2, <3>3, QueueMoves
    <3>5. pc'[u] = "complete_notify"
      BY Zenon, <1>0, <3>3, <3>4, Others
    <3> QED BY Zenon, <3>5
  <2> QED BY Zenon, <2>1, <2>2
<1> QED BY <1>1, <1>2

-----------------------------------------------------------------------------
(* Counting, and what may come before and after it.                        *)
LEMMA PublishMoves ==
    ASSUME TypeOK, NEW w \in Workers, Step(w)
    PROVE  /\ \/ late' = late /\ counted' = counted
              \/ pc[w] = "count" /\ ~stop /\ late' = late
              \/ pc[w] = "count" /\ pc'[w] = "callback" /\ stop /\ late' = [late EXCEPT ![w] = @ + 1]
                 /\ stop' = stop /\ firstExc' = firstExc
           /\ stop => stop'
           /\ pc'[w] = "count" => /\ pc[w] = "publish" /\ late' = late
                                  /\ stop' = stop /\ firstExc' = firstExc
                                  /\ SyncSteps = 0 => ~stop /\ plock' = w
           /\ firstExc' = firstExc \/ (plock = None /\ stop' = TRUE /\ pc'[w] = "record_notify")
<1>0. pc \in [Workers -> PCs] /\ stop \in BOOLEAN
  BY Zenon DEF TypeOK
<1> USE DEF Goto, countVars, stopVars
<1>1. CASE Acquire(w)
  BY Zenon, <1>0, <1>1 DEF Acquire, LockQueue, Reacquire, FinishTask, TryEnqueue
<1>2. CASE TakeStep(w)
  BY Zenon, <1>0, <1>2 DEF TakeStep, Recheck, Park, Leave, PopTask, CompleteNotify,
     NotifyAllGoto
<1>3. CASE ExploreStep(w)
  <2>1. CASE NotifyOne(w)
    BY Zenon, <1>0, <2>1 DEF NotifyOne, NotifyOneGoto
  <2>2. CASE ~NotifyOne(w)
    BY ZenonT(40), <1>0, <1>3, <2>2 DEF ExploreStep, ProcessTask, ExploreDone, Unwind,
       DispatchEnter, EnterStopped, EnterNode, ResumeExhausted, ResumeFrame,
       SpawnCheck, OfferChild, Handling, ReportProgress
  <2> QED BY Zenon, <2>1, <2>2
<1>4. CASE PublishStep(w)
  BY Zenon, <1>0, <1>4 DEF PublishStep, PublishCheck, CountTerminal, Callback,
     StopStore, StopNotify, NotifyAllGoto, StopRequested
<1>5. CASE FailStep(w)
  BY Zenon, <1>0, <1>5 DEF FailStep, NotifyFatalError, RecordException, RecordNotify,
     NotifyAllGoto
<1>6. CASE SpuriousWake(w) \/ PollAgain(w)
  BY Zenon, <1>0, <1>6 DEF SpuriousWake, PollAgain
<1> QED BY Zenon, <1>1, <1>2, <1>3, <1>4, <1>5, <1>6 DEF Step, WorkerStep

(* Storing the stop flag, recording an exception and counting a terminal   *)
(* exclude each other as publication_mutex_ intends.                       *)
LEMMA StepStop ==
    ASSUME PoolInvariant, StopInvariant, NEW w \in Workers, Step(w)
    PROVE  StopInvariant'
<1>0. TypeOK /\ MutexOwners /\ late \in [Workers -> Nat] /\ None \notin Workers
  BY Zenon, WorkersAssumption DEF PoolInvariant, TypeOK
<1>1. (firstExc # None => stop)'
  BY Zenon, <1>0, PublishMoves DEF StopInvariant
<1> SUFFICES ASSUME SyncSteps = 0
    PROVE  /\ (firstExc # None => \A v \in Workers : pc[v] # "count")'
           /\ (~stop \/ (\E v \in Workers : pc[v] = "count")
                => \A u \in Workers : late[u] = 0)'
           /\ StopIsPrompt'
  BY Zenon, <1>1 DEF StopInvariant
<1>a. ASSUME NEW v \in Workers, v # w PROVE pc'[v] = "count" => pc[v] = "count"
  BY Zenon, <1>0, <1>a, Others
<1>b. \A v \in Workers : pc[v] = "count" <=> plock = v
  BY <1>0 DEF MutexOwners
<1>c. \A u \in Workers : late[u] \in Nat
  BY <1>0
<1>2. (firstExc # None => \A v \in Workers : pc[v] # "count")'
  <2> SUFFICES ASSUME firstExc' # None, NEW v \in Workers, pc'[v] = "count" PROVE FALSE
    OBVIOUS
  <2>1. CASE firstExc' = firstExc
    BY Zenon, <1>0, <1>a, <2>1, PublishMoves DEF StopInvariant
  <2>2. CASE plock = None /\ pc'[w] = "record_notify"
    BY <1>0, <1>a, <1>b, <2>2
  <2> QED BY Zenon, <1>0, <2>1, <2>2, PublishMoves
<1>3. (~stop \/ (\E v \in Workers : pc[v] = "count") => \A u \in Workers : late[u] = 0)'
  <2>1. CASE late' = late
    BY Zenon, <1>0, <1>a, <2>1, PublishMoves DEF StopInvariant
  <2>2. CASE pc[w] = "count" /\ pc'[w] = "callback" /\ stop
    BY Zenon, <1>0, <1>a, <1>b, <2>2, PublishMoves
  <2> QED BY Zenon, <1>0, <2>1, <2>2, PublishMoves
<1>4. StopIsPrompt'
  <2>1. CASE late' = late
    BY <2>1 DEF StopInvariant, StopIsPrompt
  <2>2. CASE pc[w] = "count" /\ late' = [late EXCEPT ![w] = @ + 1]
    <3>1. \A u \in Workers : late[u] = 0
      BY <2>2 DEF StopInvariant
    <3>2. \A u \in Workers : late'[u] = IF u = w THEN 1 ELSE 0
      BY <1>0, <2>2, <3>1
    <3> QED BY <3>2 DEF StopIsPrompt
  <2> QED BY Zenon, <1>0, <2>1, <2>2, PublishMoves
<1> QED BY Zenon, <1>2, <1>3, <1>4

-----------------------------------------------------------------------------
(* What a step does to the thread-local state of its worker.               *)
ThreadStateKept(v) ==
    /\ local'[v] = local[v] /\ sinceSync'[v] = sinceSync[v]
    /\ sinceSplit'[v] = sinceSplit[v]
    /\ cachedStop'[v] = cachedStop[v] /\ cachedIdle'[v] = cachedIdle[v]

ThreadStateReset(v) ==
    /\ local[v] = 0 /\ sinceSync[v] = 0 /\ sinceSplit[v] = 0
    /\ ~cachedStop[v] /\ ~cachedIdle[v]

(* A poll caches the stop flag only when it is set.                        *)
LEMMA PollMoves ==
    ASSUME TypeOK, NEW w \in Workers, PollStop(w)
    PROVE  /\ cachedStop'[w] => cachedStop[w] \/ stop
           /\ \A v \in Workers : v # w =>
                sinceSync'[v] = sinceSync[v] /\ cachedStop'[v] = cachedStop[v]
<1>0. sinceSync \in [Workers -> Nat] /\ cachedStop \in [Workers -> BOOLEAN]
  BY Zenon DEF TypeOK
<1>1. CASE SyncSteps = 0
  BY <1>1 DEF PollStop, pollVars
<1>2. CASE SyncSteps # 0
  BY <1>0, <1>2 DEF PollStop, StopRequested
<1> QED BY Zenon, <1>1, <1>2

(* Polling for idle workers changes only the worker's own copy.            *)
LEMMA SplitMoves ==
    ASSUME TypeOK, NEW w \in Workers, PollSplit(w) \/ UNCHANGED splitVars
    PROVE  \A v \in Workers : v # w =>
              sinceSplit'[v] = sinceSplit[v] /\ cachedIdle'[v] = cachedIdle[v]
<1>0. sinceSplit \in [Workers -> Nat] /\ cachedIdle \in [Workers -> BOOLEAN]
  BY Zenon DEF TypeOK
<1> QED BY <1>0 DEF PollSplit, splitVars

(* A step of w does not touch the state of the other threads; only Leave   *)
(* reaches "done", and it resets its own.                                  *)
LEMMA LocalMoves ==
    ASSUME TypeOK, NEW w \in Workers, Step(w)
    PROVE  /\ pc[w] # "done" /\ result' = result
           /\ pc'[w] = "done" => (stop \/ complete) /\ ThreadStateReset(w)'
           /\ cachedStop'[w] => cachedStop[w] \/ stop'
           /\ \A v \in Workers : v # w => ThreadStateKept(v)
<1>0. /\ pc \in [Workers -> PCs] /\ local \in [Workers -> Nat]
      /\ sinceSync \in [Workers -> Nat] /\ sinceSplit \in [Workers -> Nat]
      /\ cachedStop \in [Workers -> BOOLEAN] /\ cachedIdle \in [Workers -> BOOLEAN]
  BY ZenonT(40) DEF TypeOK
<1>1. \A v \in Workers : v # w => local'[v] = local[v]
  BY <1>0, TallyMoves DEF Flushes
<1>2. pc[w] # "done" /\ result' = result
  <2>1. CASE Acquire(w)
    BY Zenon, <2>1 DEF Acquire, LockQueue, Reacquire, FinishTask, TryEnqueue
  <2>2. CASE TakeStep(w)
    BY <2>2 DEF TakeStep, Recheck, Park, Leave, PopTask, CompleteNotify
  <2>3. CASE ExploreStep(w)
    BY ZenonT(40), <2>3 DEF ExploreStep, ProcessTask, ExploreDone, Unwind, DispatchEnter, EnterStopped,
       EnterNode, ResumeExhausted, ResumeFrame, SpawnCheck, OfferChild, NotifyOne, Handling
  <2>4. CASE PublishStep(w)
    BY Zenon, <2>4 DEF PublishStep, PublishCheck, CountTerminal, Callback, StopStore, StopNotify
  <2>5. CASE FailStep(w)
    BY <2>5 DEF FailStep, NotifyFatalError, RecordException, RecordNotify
  <2>6. CASE SpuriousWake(w) \/ PollAgain(w)
    BY Zenon, <2>6 DEF SpuriousWake, PollAgain
  <2> QED BY Zenon, <2>1, <2>2, <2>3, <2>4, <2>5, <2>6 DEF Step, WorkerStep
<1>3. \/ Leave(w)
      \/ /\ pc'[w] # "done"
         /\ \/ PollStop(w) \/ UNCHANGED pollVars
            \/ stop' /\ sinceSync' = sinceSync /\ cachedStop' = [cachedStop EXCEPT ![w] = TRUE]
         /\ PollSplit(w) \/ UNCHANGED splitVars
  <2> USE DEF Goto
  <2>1. CASE Acquire(w)
    BY Zenon, <1>0, <2>1 DEF Acquire, LockQueue, Reacquire, FinishTask, TryEnqueue
  <2>2. CASE TakeStep(w)
    BY Zenon, <1>0, <2>2 DEF TakeStep, Recheck, Park, PopTask, CompleteNotify,
       NotifyAllGoto
  <2>3. CASE ExploreStep(w)
    <3>1. CASE NotifyOne(w)
      BY Zenon, <1>0, <3>1 DEF NotifyOne, NotifyOneGoto
    <3>2. CASE ~NotifyOne(w)
      BY ZenonT(40), <1>0, <1>2, <2>3, <3>2 DEF ExploreStep, ProcessTask, ExploreDone, Unwind, DispatchEnter,
         EnterStopped, EnterNode, ResumeExhausted, ResumeFrame, SpawnCheck, OfferChild,
         Handling, PollsSplit
    <3> QED BY Zenon, <3>1, <3>2
  <2>4. CASE PublishStep(w)
    BY Zenon, <1>0, <2>4 DEF PublishStep, PublishCheck, CountTerminal, Callback,
       StopStore, StopNotify, NotifyAllGoto, pollVars
  <2>5. CASE FailStep(w)
    BY Zenon, <1>0, <2>5 DEF FailStep, NotifyFatalError, RecordException,
       RecordNotify, NotifyAllGoto
  <2>6. CASE SpuriousWake(w) \/ PollAgain(w)
    BY Zenon, <1>0, <1>2, <2>6 DEF SpuriousWake, PollAgain
  <2> QED BY Zenon, <2>1, <2>2, <2>3, <2>4, <2>5, <2>6 DEF Step, WorkerStep
<1>4. CASE Leave(w)
  BY Zenon, <1>0, <1>1, <1>2, <1>4 DEF Leave, FlushWorkerState, ThreadStateKept,
     ThreadStateReset
<1>5. CASE ~Leave(w)
  <2>1. stop => stop'
    BY ZenonT(40), QueueMoves
  <2>2. /\ cachedStop'[w] => cachedStop[w] \/ stop'
        /\ \A v \in Workers : v # w =>
             sinceSync'[v] = sinceSync[v] /\ cachedStop'[v] = cachedStop[v]
    <3>1. CASE PollStop(w)
      BY Zenon, <2>1, <3>1, PollMoves
    <3>2. CASE UNCHANGED pollVars
      BY <3>2 DEF pollVars
    <3>3. CASE stop' /\ sinceSync' = sinceSync /\ cachedStop' = [cachedStop EXCEPT ![w] = TRUE]
      BY Zenon, <1>0, <3>3
    <3> QED BY ZenonT(40), <1>3, <1>5, <3>1, <3>2, <3>3
  <2>3. \A v \in Workers : v # w =>
          sinceSplit'[v] = sinceSplit[v] /\ cachedIdle'[v] = cachedIdle[v]
    BY Zenon, <1>3, <1>5, SplitMoves
  <2> QED BY ZenonT(40), <1>1, <1>2, <1>3, <1>5, <2>2, <2>3 DEF ThreadStateKept
<1> QED BY <1>4, <1>5

(* Workers leave for a reason and with a clean state.                      *)
LEMMA StepEndings ==
    ASSUME PoolInvariant, PoolInvariant', EndingsJustified, WorkerStateIsReset, NEW w \in Workers, Step(w)
    PROVE  EndingsJustified' /\ WorkerStateIsReset'
<1>0. TypeOK /\ TypeOK'
  BY Zenon DEF PoolInvariant
<1>1. /\ pc[w] # "done" /\ result' = result
      /\ pc'[w] = "done" => (stop \/ complete) /\ ThreadStateReset(w)'
      /\ cachedStop'[w] => cachedStop[w] \/ stop'
      /\ \A v \in Workers : v # w => ThreadStateKept(v)
  BY <1>0, LocalMoves
<1>2. (stop => stop') /\ (complete => complete')
  BY ZenonT(40), <1>0, QueueMoves DEF CompleteStep
<1>3. \A v \in Workers : v # w => (pc'[v] = "done" <=> pc[v] = "done")
  BY Zenon, <1>0, Others
<1>4. \A v \in Workers : cachedStop'[v] => stop'
  BY Zenon, <1>1, <1>2 DEF EndingsJustified, ThreadStateKept
<1>5. \A v \in Workers : pc'[v] = "done" => stop' \/ complete'
  BY Zenon, <1>1, <1>2, <1>3 DEF EndingsJustified
<1>6. result'.kind = "none"
  BY <1>1 DEF EndingsJustified
<1>7. WorkerStateIsReset'
  <2> SUFFICES ASSUME NEW v \in Workers, pc'[v] = "done" PROVE ThreadStateReset(v)'
    BY DEF WorkerStateIsReset, ThreadStateReset
  <2>1. CASE v = w
    BY Zenon, <1>1, <2>1
  <2>2. CASE v # w
    BY Zenon, <1>1, <1>3, <2>2 DEF WorkerStateIsReset, ThreadStateKept,
       ThreadStateReset
  <2> QED BY Zenon, <2>1, <2>2
<1> QED BY Zenon, <1>4, <1>5, <1>6, <1>7 DEF EndingsJustified

-----------------------------------------------------------------------------
(* Relaxed mode.  What PollsMade says of the program points.               *)
LEMMA PollsBound ==
    ASSUME NEW l, NEW f
    PROVE  /\ PollsMade(l, f) \in 0 .. 4
           /\ l = "count" => PollsMade(l, f) = 4
           /\ l = "publish" => PollsMade(l, f) = 3
           /\ l = "enter" => PollsMade(l, f) = 2
           /\ l \in {"spawn", "offer", "enqueue", "notify_one"} => PollsMade(l, f) = 1
           /\ l = "loop" => PollsMade(l, f) \in {0, 1}
           /\ l = "loop" /\ f # <<>> /\ f[Len(f)].cursor = 0 => PollsMade(l, f) = 1
           /\ l = "loop" /\ (f # <<>> => f[Len(f)].cursor > 0) => PollsMade(l, f) = 0
           /\ l \notin {"count", "publish", "enter", "spawn", "offer", "enqueue",
                        "notify_one", "loop"} => PollsMade(l, f) = 0
<1> DEFINE new == f # <<>> /\ f[Len(f)].cursor = 0
<1>1. (f # <<>> => f[Len(f)].cursor > 0) => ~new
  OBVIOUS
<1>2. PollsMade(l, f) =
        IF l = "count" THEN 4 ELSE IF l = "publish" THEN 3 ELSE IF l = "enter" THEN 2
        ELSE IF l \in {"spawn", "offer", "enqueue", "notify_one"} THEN 1
        ELSE IF l = "loop" /\ new THEN 1 ELSE 0
  BY DEF PollsMade
<1> HIDE DEF new
<1>3. l = "loop" /\ new => PollsMade(l, f) = 1
  BY Zenon, <1>2
<1> QED BY <1>1, <1>2, <1>3 DEF new

(* A step polls, or it does not come closer to a terminal.                 *)
Polled(w) ==
    /\ PollStop(w) /\ late' = late
    /\ \/ StopRequested(w) /\ pc'[w] # "count"
       \/ /\ ~StopRequested(w)
          /\ PollsMade(pc'[w], stack'[w]) <= PollsMade(pc[w], stack[w]) + 1

NotPolled(w) ==
    /\ UNCHANGED pollVars /\ pc'[w] # "count" /\ late' = late
    /\ PollsMade(pc'[w], stack'[w]) <= PollsMade(pc[w], stack[w])

CountedLate(w) ==
    /\ UNCHANGED pollVars /\ pc[w] = "count" /\ pc'[w] = "callback"
    /\ stop /\ stop' /\ late' = [late EXCEPT ![w] = @ + 1]

LeftOrStopped(w) ==
    /\ late' = late
    /\ \/ pc'[w] = "done" /\ sinceSync'[w] = 0
       \/ /\ pc'[w] = "stop_notify" /\ stop'
          /\ sinceSync' = sinceSync /\ cachedStop'[w]

(* Which way a step goes, with a poll and without one.                     *)
Closer == {"count", "publish", "enter"}
Near   == Closer \cup {"spawn", "offer", "enqueue", "notify_one", "loop"}

PolledMove(w) ==
    /\ PollStop(w) /\ late' = late
    /\ \/ StopRequested(w) /\ pc'[w] # "count"
       \/ /\ ~StopRequested(w)
          /\ \/ pc'[w] \notin Closer
             \/ pc[w] = "publish" /\ pc'[w] = "count"
             \/ pc[w] = "enter" /\ pc'[w] \in {"enter", "publish"}
             \/ pc[w] = "loop" /\ pc'[w] = "enter" /\ stack[w] # <<>> /\ Top(w).cursor = 0

SilentMove(w) ==
    /\ UNCHANGED pollVars /\ late' = late
    /\ \/ pc'[w] \notin Near
       \/ pc[w] \in {"enqueue", "notify_one"} /\ pc'[w] \in {"notify_one", "loop"}
       \/ pc[w] \in {"callback", "stop_notify"} /\ pc'[w] = "loop" /\ PopFrame(w)

(* Every step is one of these.                                             *)
LEMMA PollCases ==
    ASSUME TypeOK, NEW w \in Workers, Step(w)
    PROVE  PolledMove(w) \/ SilentMove(w) \/ CountedLate(w) \/ LeftOrStopped(w)
<1>a. /\ pc \in [Workers -> PCs]
      /\ cachedStop \in [Workers -> BOOLEAN] /\ sinceSync \in [Workers -> Nat]
  BY ZenonT(40) DEF TypeOK
<1> USE DEF Goto, countVars, Near, Closer
<1>1. CASE Acquire(w)
  BY <1>a, <1>1 DEF Acquire, LockQueue, Reacquire, FinishTask, TryEnqueue, SilentMove
<1>2. CASE TakeStep(w)
  <2>1. CASE Leave(w)
    BY Zenon, <1>a, <2>1 DEF Leave, FlushWorkerState, LeftOrStopped
  <2>2. CASE ~Leave(w)
    BY Zenon, <1>a, <1>2, <2>2 DEF TakeStep, Recheck, Park, PopTask, CompleteNotify,
       NotifyAllGoto, SilentMove
  <2> QED BY Zenon, <2>1, <2>2
<1>3. CASE ExploreStep(w)
  <2>1. CASE NotifyOne(w) \/ ExploreDone(w)
    BY Zenon, <1>a, <2>1 DEF NotifyOne, NotifyOneGoto, ExploreDone, SilentMove
  <2>2. CASE ProcessTask(w) \/ Unwind(w) \/ DispatchEnter(w)
    BY Zenon, <1>a, <2>2 DEF ProcessTask, Unwind, DispatchEnter, Handling, PolledMove
  <2>3. CASE EnterStopped(w) \/ EnterNode(w)
    BY ZenonT(40), <1>a, <2>3 DEF EnterStopped, EnterNode, ReportProgress, PolledMove
  <2>4. CASE ResumeExhausted(w) \/ ResumeFrame(w)
    BY ZenonT(40), <1>a, <2>4 DEF ResumeExhausted, ResumeFrame, Handling, PolledMove
  <2>5. CASE SpawnCheck(w) \/ OfferChild(w)
    BY Zenon, <1>a, <2>5 DEF SpawnCheck, OfferChild, PolledMove
  <2> QED BY Zenon, <1>3, <2>1, <2>2, <2>3, <2>4, <2>5 DEF ExploreStep
<1>4. CASE PublishStep(w)
  <2>1. CASE PublishCheck(w)
    BY ZenonT(40), <1>a, <2>1 DEF PublishCheck, PolledMove
  <2>2. CASE CountTerminal(w)
    BY Zenon, <1>a, <2>2 DEF CountTerminal, CountedLate, SilentMove, stopVars
  <2>3. CASE Callback(w) \/ StopNotify(w)
    BY Zenon, <1>a, <2>3 DEF Callback, StopNotify, NotifyAllGoto, SilentMove
  <2>4. CASE StopStore(w)
    BY Zenon, <1>a, <2>4 DEF StopStore, LeftOrStopped
  <2> QED BY Zenon, <1>4, <2>1, <2>2, <2>3, <2>4 DEF PublishStep
<1>5. CASE FailStep(w)
  BY Zenon, <1>a, <1>5 DEF FailStep, NotifyFatalError, RecordException, RecordNotify,
     NotifyAllGoto, SilentMove
<1>6. CASE SpuriousWake(w)
  BY Zenon, <1>a, <1>6 DEF SpuriousWake, SilentMove
<1>7. CASE PollAgain(w)
  BY Zenon, <1>a, <1>7 DEF PollAgain, PolledMove
<1> QED BY Zenon, <1>1, <1>2, <1>3, <1>4, <1>5, <1>6, <1>7 DEF Step, WorkerStep

(* In polls: below the frame that a callback pops there are only Resume    *)
(* frames.                                                                 *)
LEMMA LagMoves ==
    ASSUME PoolInvariant, PoolInvariant', FramesFollowTree, NEW w \in Workers, Step(w)
    PROVE  Polled(w) \/ NotPolled(w) \/ CountedLate(w) \/ LeftOrStopped(w)
<1>0. TypeOK /\ FrameFits(w)
  BY DEF PoolInvariant, FramesFit
<1>a. pc \in [Workers -> PCs] /\ stack \in [Workers -> Seq(Frame)] /\ stack[w] \in Seq(Frame)
  BY Zenon, <1>0 DEF TypeOK
<1>b. ASSUME stack[w] # <<>>, PopFrame(w) PROVE PollsMade("loop", stack'[w]) = 0
  <2>1. /\ Len(stack'[w]) = Len(stack[w]) - 1
        /\ DOMAIN stack'[w] = 1 .. Len(stack[w]) - 1
        /\ \A i \in 1 .. Len(stack[w]) - 1 : stack'[w][i] = stack[w][i]
    BY ZenonT(40), <1>0, <1>b, PoppedFrames
  <2>2. stack'[w] \in Seq(Frame)
    BY Zenon DEF PoolInvariant, TypeOK
  <2>3. stack'[w] # <<>> => Len(stack'[w]) \in DOMAIN stack'[w]
    BY <2>2
  <2>4. stack'[w] # <<>> => stack'[w][Len(stack'[w])].cursor > 0
    BY ZenonT(40), <2>1, <2>3 DEF FramesFollowTree
  <2> QED BY ZenonT(40), <2>4, PollsBound
<1> DEFINE P == PollsMade(pc[w], stack[w])
           Q == PollsMade(pc'[w], stack'[w])
<1>1. P \in 0 .. 4 /\ Q \in 0 .. 4
  BY Zenon, PollsBound
<1>2. CASE PolledMove(w)
  <2>1. CASE StopRequested(w)
    BY ZenonT(40), <1>2, <2>1 DEF PolledMove, Polled
  <2>2. CASE ~StopRequested(w)
    <3> SUFFICES Q <= P + 1
      BY ZenonT(40), <1>2, <2>2 DEF PolledMove, Polled
    <3>1. CASE pc'[w] \notin Closer
      <4>1. Q <= 1
        BY <3>1, PollsBound DEF Closer
      <4> QED BY <1>1, <4>1
    <3>2. CASE pc[w] = "publish" /\ pc'[w] = "count"
      <4>1. P = 3 /\ Q = 4
        BY Zenon, <3>2, PollsBound
      <4> QED BY <4>1
    <3>3. CASE pc[w] = "enter" /\ pc'[w] \in {"enter", "publish"}
      <4>1. P = 2 /\ Q \in {2, 3}
        BY Zenon, <3>3, PollsBound
      <4> QED BY <4>1
    <3>4. CASE pc[w] = "loop" /\ pc'[w] = "enter" /\ stack[w] # <<>> /\ Top(w).cursor = 0
      <4>1. P = 1 /\ Q = 2
        BY <3>4, PollsBound DEF Top
      <4> QED BY <4>1
    <3> QED BY Zenon, <1>2, <2>2, <3>1, <3>2, <3>3, <3>4 DEF PolledMove
  <2> QED BY Zenon, <2>1, <2>2
<1>3. CASE SilentMove(w)
  <2> SUFFICES pc'[w] # "count" /\ Q <= P
    BY Zenon, <1>3 DEF SilentMove, NotPolled
  <2>1. CASE pc'[w] \notin Near
    <3>1. Q = 0
      BY Zenon, <2>1, PollsBound DEF Near, Closer
    <3> QED BY <1>1, <2>1, <3>1 DEF Near, Closer
  <2>2. CASE pc[w] \in {"enqueue", "notify_one"} /\ pc'[w] \in {"notify_one", "loop"}
    <3>1. P = 1 /\ Q \in {0, 1}
      BY Zenon, <2>2, PollsBound
    <3> QED BY <2>2, <3>1
  <2>3. CASE pc[w] \in {"callback", "stop_notify"} /\ pc'[w] = "loop" /\ PopFrame(w)
    <3>1. stack[w] # <<>>
      BY Zenon, <1>0, <2>3 DEF FrameFits, Framed
    <3>2. Q = 0
      BY Zenon, <1>b, <2>3, <3>1
    <3> QED BY <1>1, <2>3, <3>2
  <2> QED BY ZenonT(40), <1>3, <2>1, <2>2, <2>3 DEF SilentMove
<1> QED BY Zenon, <1>0, <1>2, <1>3, PollCases

(* A worker that misses the stop runs out of unsynchronised polls.         *)
LEMMA StepLag ==
    ASSUME PoolInvariant, PoolInvariant', FramesFollowTree, EndingsJustified,
           SyncSteps > 0, StopLag,
           NEW w \in Workers, Step(w)
    PROVE  StopLag'
<1>0. TypeOK /\ TypeOK'
  BY DEF PoolInvariant
<1>a. /\ late \in [Workers -> Nat] /\ late' \in [Workers -> Nat]
      /\ sinceSync \in [Workers -> Nat] /\ sinceSync' \in [Workers -> Nat]
      /\ cachedStop \in [Workers -> BOOLEAN] /\ stop \in BOOLEAN
      /\ SyncSteps \in Nat
  BY ZenonT(40), <1>0, OptionsAssumption DEF TypeOK
<1>b. stop => stop'
  BY Zenon, <1>0, QueueMoves
<1> DEFINE P(v) == PollsMade(pc[v], stack[v])
           Q(v) == PollsMade(pc'[v], stack'[v])
           Slack == 1 + ((SyncSteps - 1) \div 4)
<1>c. \A v \in Workers : P(v) \in 0 .. 4 /\ Q(v) \in 0 .. 4
  BY Zenon, PollsBound
<1>d. /\ \A v \in Workers : late[v] <= Slack
      /\ \A v \in Workers :
           /\ sinceSync[v] < SyncSteps
           /\ pc[v] = "count" => ~cachedStop[v]
           /\ late[v] > 0 => /\ stop
                             /\ \/ pc[v] = "done" \/ cachedStop[v]
                                \/ sinceSync[v] >= 4 * (late[v] - 1) + P(v)
  BY <1>a DEF StopLag, StopIsPrompt
<1>e. cachedStop[w] => stop
  BY Zenon DEF EndingsJustified
<1>f. pc[w] # "done" /\ \A v \in Workers : v # w => ThreadStateKept(v)
  BY Zenon, <1>0, LocalMoves
<1>g. \A v \in Workers : v # w =>
         (pc'[v] = pc[v] \/ (pc[v] = "wait" /\ pc'[v] = "wake")) /\ stack'[v] = stack[v]
  BY Zenon, <1>0, Others
<1>h. pc[w] = "count" => P(w) = 4
  BY Zenon, PollsBound
<1>i. \A v \in Workers : v # w => Q(v) = P(v)
  <2> SUFFICES ASSUME NEW v \in Workers, v # w PROVE Q(v) = P(v)
    OBVIOUS
  <2>1. CASE pc'[v] = pc[v]
    BY Zenon, <1>g, <2>1
  <2>2. CASE pc[v] = "wait" /\ pc'[v] = "wake"
    BY <2>2, PollsBound
  <2> QED BY Zenon, <1>g, <2>1, <2>2
<1>j. pc'[w] = "callback" => Q(w) = 0
  BY PollsBound
<1> DEFINE Good(v) ==
        /\ late'[v] <= Slack
        /\ sinceSync'[v] < SyncSteps
        /\ pc'[v] = "count" => ~cachedStop'[v]
        /\ late'[v] > 0 => /\ stop'
                           /\ \/ pc'[v] = "done" \/ cachedStop'[v]
                              \/ sinceSync'[v] >= 4 * (late'[v] - 1) + Q(v)
<1>k. (\A v \in Workers : Good(v)) => StopLag'
  BY <1>a DEF StopLag, StopIsPrompt
<1>l. Slack \in Nat
  BY <1>a
<1> HIDE DEF P, Q
<1>1. \A v \in Workers : v # w => late'[v] = late[v]
  BY ZenonT(40), <1>0, <1>a, PublishMoves
<1>2. \A v \in Workers : v # w => Good(v)
  <2> SUFFICES ASSUME NEW v \in Workers, v # w PROVE Good(v)
    OBVIOUS
  <2>1. /\ late'[v] = late[v] /\ sinceSync'[v] = sinceSync[v]
        /\ cachedStop'[v] = cachedStop[v] /\ Q(v) = P(v)
        /\ pc'[v] \in {"count", "done"} <=> pc[v] \in {"count", "done"}
        /\ pc'[v] = "count" <=> pc[v] = "count"
    BY Zenon, <1>1, <1>f, <1>g, <1>i DEF ThreadStateKept
  <2> QED BY Zenon, <1>b, <1>d, <2>1
<1>3. Good(w)
  <2>0. /\ late[w] \in Nat /\ sinceSync[w] \in Nat /\ P(w) \in 0 .. 4 /\ Q(w) \in 0 .. 4
        /\ cachedStop[w] \in BOOLEAN
    BY Zenon, <1>a, <1>c
  <2>1. CASE Polled(w)
    <3>1. /\ sinceSync'[w] = IF PollRefreshes(w) THEN 0 ELSE sinceSync[w] + 1
          /\ cachedStop'[w] = StopRequested(w)
          /\ late'[w] = late[w]
      BY <1>a, <2>1 DEF Polled, PollStop
    <3>2. sinceSync'[w] < SyncSteps
      BY <1>a, <2>0, <3>1 DEF PollRefreshes
    <3>3. pc'[w] = "count" => ~cachedStop'[w]
      BY ZenonT(40), <2>1, <3>1 DEF Polled
    <3>4. ASSUME late[w] > 0, ~cachedStop'[w] PROVE sinceSync'[w] >= 4 * (late[w] - 1) + Q(w)
      <4>1. stop /\ ~StopRequested(w)
        BY Zenon, <1>d, <3>1, <3>4
      <4>2. ~PollRefreshes(w) /\ ~cachedStop[w]
        BY Zenon, <1>a, <4>1 DEF StopRequested
      <4>3. sinceSync[w] >= 4 * (late[w] - 1) + P(w)
        BY Zenon, <1>d, <1>f, <3>4, <4>2
      <4>4. Q(w) <= P(w) + 1
        BY Zenon, <2>1, <4>1 DEF Polled, P, Q
      <4> QED BY <2>0, <3>1, <4>2, <4>3, <4>4
    <3> QED BY ZenonT(40), <1>b, <1>d, <3>1, <3>2, <3>3, <3>4
  <2>2. CASE NotPolled(w)
    <3>1. /\ sinceSync' = sinceSync /\ cachedStop' = cachedStop
          /\ late' = late /\ pc'[w] # "count" /\ Q(w) <= P(w)
      BY Zenon, <2>2 DEF NotPolled, pollVars, P, Q
    <3>2. sinceSync[w] >= 4 * (late[w] - 1) + P(w) => sinceSync[w] >= 4 * (late[w] - 1) + Q(w)
      BY <2>0, <3>1
    <3> QED BY Zenon, <1>b, <1>d, <1>f, <3>1, <3>2
  <2>3. CASE CountedLate(w)
    <3>1. /\ sinceSync' = sinceSync /\ cachedStop' = cachedStop /\ stop'
          /\ late'[w] = late[w] + 1 /\ pc[w] = "count" /\ pc'[w] = "callback" /\ Q(w) = 0
      BY Zenon, <1>a, <1>j, <2>3 DEF CountedLate, pollVars
    <3>2. ~cachedStop[w] /\ P(w) = 4 /\ sinceSync[w] < SyncSteps
      BY Zenon, <1>d, <1>h, <3>1
    <3>3. sinceSync[w] >= 4 * late[w]
      <4>1. CASE late[w] = 0
        BY <2>0, <4>1
      <4>2. CASE late[w] > 0
        <5>1. sinceSync[w] >= 4 * (late[w] - 1) + P(w)
          BY Zenon, <1>d, <1>f, <3>2, <4>2
        <5> QED BY <2>0, <3>2, <5>1
      <4> QED BY <2>0, <4>1, <4>2
    <3>4. late'[w] <= Slack
      BY <1>a, <2>0, <3>1, <3>2, <3>3
    <3>5. sinceSync'[w] >= 4 * (late'[w] - 1) + Q(w)
      BY <2>0, <3>1, <3>3
    <3> QED BY Zenon, <3>1, <3>2, <3>4, <3>5
  <2>4. CASE LeftOrStopped(w)
    BY Zenon, <1>a, <1>b, <1>d, <2>0, <2>4 DEF LeftOrStopped
  <2> QED BY Zenon, <2>1, <2>2, <2>3, <2>4, LagMoves
<1> QED BY Zenon, <1>2, <1>3, <1>k

=============================================================================
