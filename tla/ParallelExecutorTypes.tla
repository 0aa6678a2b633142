----------------------- MODULE ParallelExecutorTypes ------------------------
(***************************************************************************)
(* The types of the pool's variables, and what one step of a worker does to *)
(* them: to the other workers, to the queue and the completion flag, to the *)
(* counts, and to the worker's own frames.  The preservation lemmas of the *)
(* other proof modules argue from these "moves" and not from the actions.  *)
(***************************************************************************)
EXTENDS ParallelExecutor, TLAPS

(* Popping keeps the other frames.                                         *)
LEMMA PopIsStack ==
    ASSUME NEW s \in Seq(Frame), s # <<>>
    PROVE  LET t == SubSeq(s, 1, Len(s) - 1)
           IN  /\ t \in Seq(Frame)
               /\ Len(t) = Len(s) - 1 /\ Len(t) < Len(s)
               /\ DOMAIN t = 1 .. Len(s) - 1
               /\ \A i \in 1 .. Len(s) - 1 : t[i] = s[i]
<1> DEFINE n == Len(s) - 1
           t == SubSeq(s, 1, n)
<1>1. Len(s) \in Nat \ {0} /\ DOMAIN s = 1 .. Len(s)
  OBVIOUS
<1>2. n \in Nat /\ n < Len(s)
  BY <1>1
<1>3. t = [i \in 1 .. n |-> s[i]]
  BY <1>1
<1>4. \A i \in 1 .. n : s[i] \in Frame
  BY <1>1
<1> HIDE DEF n, t
<1>5. t \in Seq(Frame) /\ Len(t) = n
  BY <1>2, <1>3, <1>4
<1>6. DOMAIN t = 1 .. n /\ \A i \in 1 .. n : t[i] = s[i]
  BY <1>3
<1> QED BY <1>2, <1>5, <1>6 DEF n, t

(* The top of a worker's stack is a frame.                                 *)
LEMMA TopIsFrame ==
    ASSUME NEW s \in Seq(Frame), s # <<>>
    PROVE  /\ s[Len(s)] \in Frame
           /\ s[Len(s)].node \in Node
           /\ s[Len(s)].cursor \in Nat
           /\ s[Len(s)].flag \in BOOLEAN
<1>1. s[Len(s)] \in Frame
  OBVIOUS
<1> QED BY <1>1 DEF Frame

(* Rewriting the top frame keeps the rest of the stack.                    *)
LEMMA ReplaceTopIsStack ==
    ASSUME NEW s \in Seq(Frame), s # <<>>, NEW f \in Frame
    PROVE  /\ [s EXCEPT ![Len(s)] = f] \in Seq(Frame)
           /\ [s EXCEPT ![Len(s)] = f] # <<>>
           /\ Len([s EXCEPT ![Len(s)] = f]) = Len(s)
           /\ [s EXCEPT ![Len(s)] = f][Len(s)] = f
<1>1. Len(s) \in 1 .. Len(s)
  OBVIOUS
<1> QED BY <1>1

(* A child frame may be pushed on any stack.                               *)
LEMMA PushIsStack ==
    ASSUME NEW s \in Seq(Frame), NEW n \in Node
    PROVE  Append(s, EnterFrame(n)) \in Seq(Frame)
BY DEF EnterFrame, Frame

(* The child a frame points to is a node.                                  *)
LEMMA NextChildIsNode ==
    ASSUME NEW w \in Workers, TypeOK, stack[w] # <<>>, HasNext(w)
    PROVE  NextChild(w) \in Node
<1>1. TopNode(w) \in Node
  BY Zenon, TopIsFrame DEF TypeOK, TopNode, Top
<1>2. Children[TopNode(w)] \in Seq(Node)
  BY <1>1, TreeAssumption
<1> QED BY <1>2 DEF HasNext, NextChild

(* What the local path and the handoff do to the stack.                    *)
LEMMA WithTopIsStack ==
    ASSUME NEW w \in Workers, TypeOK, stack[w] # <<>>,
           NEW c \in Nat, NEW b \in BOOLEAN
    PROVE  WithTop(w, c, b) \in Seq(Frame)
<1>1. [node |-> TopNode(w), cursor |-> c, flag |-> b] \in Frame
  BY Zenon, TopIsFrame DEF TypeOK, TopNode, Top, Frame
<1> QED BY <1>1, ReplaceTopIsStack DEF TypeOK, WithTop

(* Descending into the next child leaves a stack of frames.                *)
LEMMA DescendIsStack ==
    ASSUME NEW w \in Workers, TypeOK, stack[w] # <<>>, HasNext(w)
    PROVE  DescendStack(w) \in Seq(Frame)
<1>0. stack[w] \in Seq(Frame)
  BY DEF TypeOK
<1>1. Top(w).cursor + 1 \in Nat /\ Top(w).flag \in BOOLEAN
  BY <1>0, TopIsFrame DEF Top
<1>2. WithTop(w, Top(w).cursor + 1, Top(w).flag) \in Seq(Frame)
  BY <1>1, WithTopIsStack
<1> QED BY <1>2, NextChildIsNode, PushIsStack DEF DescendStack

(* Type correctness of the initial state.                                 *)
LEMMA InitType == Init => TypeOK
<1> SUFFICES ASSUME Init PROVE TypeOK
  OBVIOUS
<1> USE TreeAssumption, WorkersAssumption DEF Init
<1>1. pc \in [Workers -> PCs] /\ stack \in [Workers -> Seq(Frame)]
  BY DEF PCs
<1>2. queue \in Seq(Node)
  OBVIOUS
<1>3. result \in [kind : {"none", "AllExplored", "Stopped", "threw"}, total : Nat]
  OBVIOUS
<1>4. created \in [Node -> Nat] /\ counted \in [Terminal -> Nat]
  OBVIOUS
<1> QED BY Zenon, <1>1, <1>2, <1>3, <1>4 DEF TypeOK

(* What each shared helper of the actions keeps well typed.                *)
LEMMA PollTypes ==
    ASSUME TypeOK, NEW w \in Workers, PollStop(w)
    PROVE  sinceSync' \in [Workers -> Nat] /\ cachedStop' \in [Workers -> BOOLEAN]
<1> USE OptionsAssumption DEF TypeOK
<1>1. CASE SyncSteps = 0
  BY Zenon, <1>1 DEF PollStop, pollVars
<1>2. CASE SyncSteps # 0
  <2>0. sinceSync' = [sinceSync EXCEPT ![w] = IF PollRefreshes(w) THEN 0 ELSE @ + 1]
    BY <1>2 DEF PollStop
  <2>a. sinceSync[w] \in Nat
    OBVIOUS
  <2>b. (IF PollRefreshes(w) THEN 0 ELSE sinceSync[w] + 1) \in Nat
    BY <2>a
  <2>1. sinceSync' \in [Workers -> Nat]
    BY <2>0, <2>b, Zenon
  <2>2. StopRequested(w) \in BOOLEAN
    BY Zenon DEF StopRequested
  <2>3. cachedStop' = [cachedStop EXCEPT ![w] = StopRequested(w)]
    BY <1>2 DEF PollStop
  <2> QED BY Zenon, <2>1, <2>2, <2>3
<1> QED BY Zenon, <1>1, <1>2

(* should_split_to_idle_worker() keeps the types of its two cached values. *)
LEMMA SplitTypes ==
    ASSUME TypeOK, NEW w \in Workers, PollsSplit(w)
    PROVE  sinceSplit' \in [Workers -> Nat] /\ cachedIdle' \in [Workers -> BOOLEAN]
<1> USE OptionsAssumption DEF TypeOK
<1>1. CASE UNCHANGED splitVars
  BY Zenon, <1>1 DEF splitVars
<1>2. CASE PollSplit(w) /\ ~Alone
  <2>0. sinceSplit' = [sinceSplit EXCEPT ![w] = IF SplitPolls(w) THEN 0 ELSE @ + 1]
    BY <1>2 DEF PollSplit
  <2>a. sinceSplit[w] \in Nat
    OBVIOUS
  <2>b. (IF SplitPolls(w) THEN 0 ELSE sinceSplit[w] + 1) \in Nat
    BY <2>a
  <2>1. sinceSplit' \in [Workers -> Nat]
    BY <2>0, <2>b, Zenon
  <2>2. SeesIdleWorker(w) \in BOOLEAN
    BY Zenon DEF SeesIdleWorker
  <2>3. cachedIdle' = [cachedIdle EXCEPT ![w] = SeesIdleWorker(w)]
    BY <1>2 DEF PollSplit
  <2> QED BY Zenon, <2>1, <2>2, <2>3
<1> QED BY Zenon, <1>1, <1>2 DEF PollsSplit, PollSplit

(* The flush of a progress report keeps the types of the counts.           *)
LEMMA ReportTypes ==
    ASSUME TypeOK, NEW w \in Workers, ReportProgress(w)
    PROVE  /\ local' \in [Workers -> Nat] /\ shared' \in Nat
           /\ counted' \in [Terminal -> Nat] /\ late' \in [Workers -> Nat]
<1>1. /\ local \in [Workers -> Nat] /\ shared \in Nat
      /\ counted \in [Terminal -> Nat] /\ late \in [Workers -> Nat]
  BY Zenon DEF TypeOK
<1> QED BY <1>1 DEF ReportProgress, countVars

(* A step and the wakeups it causes lead to program points.                *)
LEMMA NotifyTypes ==
    ASSUME TypeOK, NEW w \in Workers, NEW label \in PCs
    PROVE  /\ Goto(w, label) => pc' \in [Workers -> PCs]
           /\ NotifyAllGoto(w, label) => pc' \in [Workers -> PCs]
           /\ NotifyOneGoto(w, label) => pc' \in [Workers -> PCs]
<1>1. "wake" \in PCs
  BY DEF PCs, ParkedPC
<1> QED BY ZenonT(40), <1>1 DEF TypeOK, Goto, NotifyAllGoto, NotifyOneGoto

(* Handing over or entering a node keeps the type of its counter.          *)
LEMMA CreateTypes ==
    ASSUME TypeOK, NEW n \in Node, Create(n)
    PROVE  created' \in [Node -> Nat]
<1>1. created \in [Node -> Nat]
  BY DEF TypeOK
<1>2. created[n] + 1 \in Nat
  BY <1>1
<1> QED BY <1>1, <1>2 DEF Create

(* A counted worker keeps the counter above zero.                          *)
CountersPositive(w) ==
    /\ pc[w] \in BusyPC => active - 1 \in Nat
    /\ pc[w] \in ParkedPC => idle - 1 \in Nat

(* The program points, as members of PCs.                                  *)
LEMMA Labels ==
    /\ {"lock", "check", "take", "park", "wait", "wake", "complete_notify",
        "done"} \subseteq PCs
    /\ {"start", "loop", "enter", "spawn", "offer", "enqueue", "notify_one",
        "publish", "count", "callback", "stop_store", "stop_notify", "fatal",
        "record", "record_notify", "finish"} \subseteq PCs
BY DEF PCs, BusyPC, ParkedPC

(* Every step of a worker preserves the types, one action at a time.       *)
LEMMA StepType ==
    ASSUME PoolInvariant, NEW w \in Workers, CountersPositive(w)
    PROVE  /\ WorkerStep(w) => TypeOK'
           /\ SpuriousWake(w) => TypeOK'
           /\ PollAgain(w) => TypeOK'
<1> TypeOK /\ FramesFit /\ CountersExact
  BY DEF PoolInvariant
<1> USE DEF queueVars, stopVars, pollVars, splitVars, countVars
<1>a. pc \in [Workers -> PCs] /\ stack \in [Workers -> Seq(Frame)]
  BY Zenon DEF TypeOK
<1>b. stack[w] \in Seq(Frame)
  BY Zenon, <1>a
<1>c. pc[w] \in Framed => stack[w] # <<>>
  BY DEF FramesFit, FrameFits
<1>d. stack[w] # <<>> => TopNode(w) \in Node /\ Top(w).cursor \in Nat /\ Top(w).flag \in BOOLEAN
  BY <1>b, TopIsFrame DEF TopNode, Top
<1>e. /\ queue \in Seq(Node) /\ active \in Nat /\ idle \in Nat
      /\ complete \in BOOLEAN /\ stop \in BOOLEAN
      /\ plock \in Workers \cup {None}
      /\ firstExc \in Node \cup {None} /\ fatal \in Node \cup {None}
  BY DEF TypeOK
<1>f. /\ sinceSync \in [Workers -> Nat] /\ cachedStop \in [Workers -> BOOLEAN]
      /\ sinceSplit \in [Workers -> Nat] /\ cachedIdle \in [Workers -> BOOLEAN]
      /\ created \in [Node -> Nat]
  BY Zenon DEF TypeOK
<1>1. ASSUME LockQueue(w) PROVE TypeOK'
  <2>1. pc' \in [Workers -> PCs]
    BY <1>1, NotifyTypes, Labels DEF LockQueue
  <2>2. idle' \in Nat
    BY <1>1, <1>e, <1>f DEF LockQueue
  <2> QED BY Zenon, <1>1, <2>1, <2>2 DEF LockQueue, TypeOK
<1>2. ASSUME Recheck(w) PROVE TypeOK'
  <2>1. pc' \in [Workers -> PCs]
    BY <1>2, NotifyTypes, Labels DEF Recheck
  <2>2. pc[w] \in ParkedPC
    BY <1>2 DEF Recheck, ParkedPC
  <2>3. idle' \in Nat
    BY <1>2, <2>2, <1>e, <1>f DEF Recheck, CountersPositive
  <2> QED BY Zenon, <1>2, <2>1, <2>3 DEF Recheck, TypeOK
<1>3. ASSUME Park(w) PROVE TypeOK'
  <2>1. pc' \in [Workers -> PCs]
    BY <1>3, NotifyTypes, Labels DEF Park
  <2> QED BY Zenon, <1>3, <2>1 DEF Park, TypeOK
<1>4. ASSUME SpuriousWake(w) PROVE TypeOK'
  <2>1. pc' \in [Workers -> PCs]
    BY <1>4, NotifyTypes, Labels DEF SpuriousWake
  <2> QED BY Zenon, <1>4, <2>1 DEF SpuriousWake, TypeOK
<1>5. ASSUME Reacquire(w) PROVE TypeOK'
  <2>1. pc' \in [Workers -> PCs]
    BY <1>5, NotifyTypes, Labels DEF Reacquire
  <2>2. pc[w] \in ParkedPC
    BY <1>5 DEF Reacquire, ParkedPC
  <2>3. idle' \in Nat
    BY <1>5, <2>2, <1>e, <1>f DEF Reacquire, CountersPositive
  <2> QED BY Zenon, <1>5, <2>1, <2>3 DEF Reacquire, TypeOK
<1>6. ASSUME Leave(w) PROVE TypeOK'
  <2>1. pc' \in [Workers -> PCs]
    BY <1>6, NotifyTypes, Labels DEF Leave
  <2>2. sinceSync' \in [Workers -> Nat] /\ cachedStop' \in [Workers -> BOOLEAN]
    BY <1>6, <1>e, <1>f DEF Leave, FlushWorkerState
  <2>3. sinceSplit' \in [Workers -> Nat] /\ cachedIdle' \in [Workers -> BOOLEAN]
    BY <1>6, <1>e, <1>f DEF Leave, FlushWorkerState
  <2>a. local \in [Workers -> Nat] /\ shared \in Nat
    BY DEF TypeOK
  <2>b. local[w] \in Nat
    BY <2>a
  <2>4. local' \in [Workers -> Nat] /\ shared' \in Nat
    BY <1>6, <2>a, <2>b DEF Leave, FlushWorkerState
  <2> QED BY Zenon, <1>6, <2>1, <2>2, <2>3, <2>4 DEF Leave, TypeOK
<1>7. ASSUME PopTask(w) PROVE TypeOK'
  <2>1. pc' \in [Workers -> PCs]
    BY <1>7, NotifyTypes, Labels DEF PopTask
  <2>2. queue # <<>> /\ queue \in Seq(Node)
    BY <1>7, <1>e, <1>f DEF PopTask, LockedView, Ready, PoolInvariant
  <2>3. Head(queue) \in Node /\ queue' \in Seq(Node)
    BY <1>7, <2>2 DEF PopTask
  <2>a. EnterFrame(Head(queue)) \in Frame
    BY <2>3 DEF EnterFrame, Frame
  <2>b. <<EnterFrame(Head(queue))>> \in Seq(Frame)
    BY <2>a
  <2>4. stack' \in [Workers -> Seq(Frame)]
    BY <1>7, <1>a, <2>b DEF PopTask
  <2>5. active' \in Nat
    BY SMTT(30), <1>7, <1>e, <1>f DEF PopTask
  <2> QED BY Zenon, <1>7, <2>1, <2>3, <2>4, <2>5 DEF PopTask, TypeOK
<1>8. ASSUME ProcessTask(w) PROVE TypeOK'
  <2>1. pc' \in [Workers -> PCs]
    BY <1>8, NotifyTypes, Labels DEF ProcessTask
  <2>2. sinceSync' \in [Workers -> Nat] /\ cachedStop' \in [Workers -> BOOLEAN]
    BY <1>8, PollTypes DEF ProcessTask, Handling
  <2>a. stack' = stack \/ stack' = [stack EXCEPT ![w] = <<>>]
    BY <1>8 DEF ProcessTask
  <2>b. <<>> \in Seq(Frame)
    OBVIOUS
  <2>3. stack' \in [Workers -> Seq(Frame)]
    BY Zenon, <1>a, <2>a, <2>b
  <2> QED BY Zenon, <1>8, <2>1, <2>2, <2>3 DEF ProcessTask, TypeOK
<1>9. ASSUME FinishTask(w) PROVE TypeOK'
  <2>1. pc' \in [Workers -> PCs]
    BY <1>9, NotifyTypes, Labels DEF FinishTask
  <2>2. pc[w] \in BusyPC
    BY <1>9 DEF FinishTask, BusyPC
  <2>3. active' \in Nat
    BY <1>9, <2>2 DEF FinishTask, CountersPositive
  <2>4. complete' \in BOOLEAN
    BY <1>9, <1>e, <1>f DEF FinishTask, BecameComplete
  <2> QED BY Zenon, <1>9, <2>1, <2>3, <2>4 DEF FinishTask, TypeOK
<1>10. ASSUME CompleteNotify(w) PROVE TypeOK'
  <2>1. pc' \in [Workers -> PCs]
    BY <1>10, NotifyTypes, Labels DEF CompleteNotify
  <2> QED BY Zenon, <1>10, <2>1 DEF CompleteNotify, TypeOK
<1>11. ASSUME ExploreDone(w) PROVE TypeOK'
  <2>1. pc' \in [Workers -> PCs]
    BY <1>11, NotifyTypes, Labels DEF ExploreDone
  <2> QED BY Zenon, <1>11, <2>1 DEF ExploreDone, TypeOK
<1>12. ASSUME Unwind(w) PROVE TypeOK'
  <2>1. pc' \in [Workers -> PCs]
    BY <1>12, NotifyTypes, Labels DEF Unwind
  <2>2. sinceSync' \in [Workers -> Nat] /\ cachedStop' \in [Workers -> BOOLEAN]
    BY <1>12, PollTypes DEF Unwind, Handling
  <2>3. stack' \in [Workers -> Seq(Frame)]
    BY <1>12, <1>a DEF Unwind, SetStack
  <2> QED BY ZenonT(40), <1>12, <2>1, <2>2, <2>3 DEF Unwind, TypeOK
<1>13. ASSUME DispatchEnter(w) PROVE TypeOK'
  <2>1. pc' \in [Workers -> PCs]
    BY <1>13, NotifyTypes, Labels DEF DispatchEnter
  <2>2. sinceSync' \in [Workers -> Nat] /\ cachedStop' \in [Workers -> BOOLEAN]
    BY <1>13, PollTypes DEF DispatchEnter, Handling
  <2> QED BY Zenon, <1>13, <2>1, <2>2 DEF DispatchEnter, TypeOK, Handling
<1>14. ASSUME PollAgain(w) PROVE TypeOK'
  <2>2. sinceSync' \in [Workers -> Nat] /\ cachedStop' \in [Workers -> BOOLEAN]
    BY <1>14, PollTypes DEF PollAgain, Handling
  <2> QED BY Zenon, <1>14, <2>2 DEF PollAgain, TypeOK
<1>15. ASSUME EnterStopped(w) PROVE TypeOK'
  <2>1. pc' \in [Workers -> PCs]
    BY <1>15, NotifyTypes, Labels DEF EnterStopped
  <2>2. sinceSync' \in [Workers -> Nat] /\ cachedStop' \in [Workers -> BOOLEAN]
    BY <1>15, PollTypes DEF EnterStopped, Handling
  <2>3. /\ local' \in [Workers -> Nat] /\ shared' \in Nat
         /\ counted' \in [Terminal -> Nat] /\ late' \in [Workers -> Nat]
    BY Zenon, <1>15, ReportTypes DEF EnterStopped
  <2> QED BY Zenon, <1>15, <2>1, <2>2, <2>3 DEF EnterStopped, TypeOK
<1>16. ASSUME EnterNode(w) PROVE TypeOK'
  <2>1. pc' \in [Workers -> PCs]
    BY Zenon, <1>16, NotifyTypes, Labels DEF EnterNode
  <2>2. sinceSync' \in [Workers -> Nat] /\ cachedStop' \in [Workers -> BOOLEAN]
    BY <1>16, PollTypes DEF EnterNode, Handling
  <2>3. /\ local' \in [Workers -> Nat] /\ shared' \in Nat
         /\ counted' \in [Terminal -> Nat] /\ late' \in [Workers -> Nat]
    BY Zenon, <1>16, ReportTypes DEF EnterNode
  <2>4. stack[w] # <<>>
    BY <1>16, <1>c DEF EnterNode, Framed
  <2>5. SubSeq(stack[w], 1, Len(stack[w]) - 1) \in Seq(Frame)
    BY <1>b, <2>4, PopIsStack
  <2>6. WithTop(w, 1, FALSE) \in Seq(Frame)
    BY Zenon, <2>4, WithTopIsStack
  <2>7. stack' \in [Workers -> Seq(Frame)]
    BY Zenon, <1>16, <1>a, <2>5, <2>6 DEF EnterNode, PopFrame, SetStack
  <2> QED BY ZenonT(40), <1>16, <2>1, <2>2, <2>3, <2>7 DEF EnterNode, TypeOK
<1>17. ASSUME ResumeExhausted(w) PROVE TypeOK'
  <2>2. sinceSync' \in [Workers -> Nat] /\ cachedStop' \in [Workers -> BOOLEAN]
    BY <1>17, PollTypes DEF ResumeExhausted, Handling
  <2>4. stack[w] # <<>>
    BY Zenon, <1>17 DEF ResumeExhausted, Handling
  <2>5. SubSeq(stack[w], 1, Len(stack[w]) - 1) \in Seq(Frame)
    BY <1>b, <2>4, PopIsStack
  <2>7. stack' \in [Workers -> Seq(Frame)]
    BY Zenon, <1>17, <1>a, <2>5 DEF ResumeExhausted, PopFrame, SetStack
  <2> QED BY ZenonT(40), <1>17, <2>2, <2>7 DEF ResumeExhausted, TypeOK
<1>18. ASSUME ResumeFrame(w) PROVE TypeOK'
  <2>1. pc' \in [Workers -> PCs]
    BY <1>18, <1>a, NotifyTypes, Labels DEF ResumeFrame
  <2>2. sinceSync' \in [Workers -> Nat] /\ cachedStop' \in [Workers -> BOOLEAN]
    BY Zenon, <1>18, PollTypes DEF ResumeFrame, Handling
  <2>3. sinceSplit' \in [Workers -> Nat] /\ cachedIdle' \in [Workers -> BOOLEAN]
    BY Zenon, <1>18, SplitTypes DEF ResumeFrame
  <2>4. stack[w] # <<>> /\ HasNext(w)
    BY Zenon, <1>18 DEF ResumeFrame, Handling
  <2>5. DescendStack(w) \in Seq(Frame) /\ NextChild(w) \in Node
    BY <2>4, DescendIsStack, NextChildIsNode
  <2>6. stack' \in [Workers -> Seq(Frame)]
    BY Zenon, <1>18, <1>a, <2>5 DEF ResumeFrame, DescendLocally, SetStack
  <2>7. created' \in [Node -> Nat]
    BY Zenon, <1>18, <2>5, CreateTypes, <1>e, <1>f DEF ResumeFrame, DescendLocally
  <2> QED BY ZenonT(40), <1>18, <2>1, <2>2, <2>3, <2>6, <2>7 DEF ResumeFrame, TypeOK
<1>19. ASSUME SpawnCheck(w) PROVE TypeOK'
  <2>1. pc' \in [Workers -> PCs]
    BY <1>19, NotifyTypes, Labels DEF SpawnCheck
  <2>2. sinceSync' \in [Workers -> Nat] /\ cachedStop' \in [Workers -> BOOLEAN]
    BY Zenon, <1>19, PollTypes DEF SpawnCheck, Handling
  <2>4. stack[w] # <<>> /\ HasNext(w)
    BY Zenon, <1>19, <1>c DEF SpawnCheck, Framed, FramesFit, FrameFits
  <2>5. DescendStack(w) \in Seq(Frame) /\ NextChild(w) \in Node
    BY <2>4, DescendIsStack, NextChildIsNode
  <2>6. \A b \in BOOLEAN : WithTop(w, Top(w).cursor, b) \in Seq(Frame)
    BY <1>d, <2>4, WithTopIsStack
  <2>7. stack' \in [Workers -> Seq(Frame)]
    BY Zenon, <1>19, <1>a, <2>5, <2>6 DEF SpawnCheck, DescendLocally, SetStack
  <2>8. created' \in [Node -> Nat]
    BY <1>19, <2>5, CreateTypes, <1>e, <1>f DEF SpawnCheck, DescendLocally
  <2> QED BY ZenonT(40), <1>19, <2>1, <2>2, <2>7, <2>8 DEF SpawnCheck, TypeOK
<1>20. ASSUME OfferChild(w) PROVE TypeOK'
  <2>1. pc' \in [Workers -> PCs]
    BY Zenon, <1>20, NotifyTypes, Labels DEF OfferChild
  <2>2. sinceSync' \in [Workers -> Nat] /\ cachedStop' \in [Workers -> BOOLEAN]
    BY Zenon, <1>20, PollTypes DEF OfferChild, Handling
  <2>4. stack[w] # <<>> /\ HasNext(w)
    BY Zenon, <1>20, <1>c DEF OfferChild, Framed, FramesFit, FrameFits
  <2>5. DescendStack(w) \in Seq(Frame) /\ NextChild(w) \in Node
    BY <2>4, DescendIsStack, NextChildIsNode
  <2>7. stack' \in [Workers -> Seq(Frame)]
    BY Zenon, <1>20, <1>a, <2>5 DEF OfferChild, DescendLocally, SetStack
  <2>8. created' \in [Node -> Nat]
    BY Zenon, <1>20, <2>5, CreateTypes, <1>e, <1>f DEF OfferChild, DescendLocally
  <2> QED BY ZenonT(40), <1>20, <2>1, <2>2, <2>7, <2>8 DEF OfferChild, TypeOK
<1>21. ASSUME TryEnqueue(w) PROVE TypeOK'
  <2>1. pc' \in [Workers -> PCs]
    BY Zenon, <1>21, NotifyTypes, Labels DEF TryEnqueue
  <2>4. stack[w] # <<>> /\ HasNext(w)
    BY Zenon, <1>21, <1>c DEF TryEnqueue, Framed, FramesFit, FrameFits
  <2>5. DescendStack(w) \in Seq(Frame) /\ NextChild(w) \in Node
    BY <2>4, DescendIsStack, NextChildIsNode
  <2>6. WithTop(w, Top(w).cursor + 1, Top(w).flag) \in Seq(Frame)
    BY <1>d, <2>4, WithTopIsStack
  <2>7. stack' \in [Workers -> Seq(Frame)]
    BY Zenon, <1>21, <1>a, <2>5, <2>6 DEF TryEnqueue, SetStack
  <2>8. created' \in [Node -> Nat]
    BY Zenon, <1>21, <2>5, CreateTypes DEF TryEnqueue
  <2>a. queue \in Seq(Node)
    BY DEF TypeOK
  <2>b. Append(queue, NextChild(w)) \in Seq(Node)
    BY <2>a, <2>5
  <2>9. queue' \in Seq(Node)
    BY <1>21, <2>a, <2>b DEF TryEnqueue
  <2> QED BY ZenonT(40), <1>21, <2>1, <2>7, <2>8, <2>9 DEF TryEnqueue, TypeOK
<1>22. ASSUME NotifyOne(w) PROVE TypeOK'
  <2>1. pc' \in [Workers -> PCs]
    BY <1>22, NotifyTypes, Labels DEF NotifyOne
  <2> QED BY Zenon, <1>22, <2>1 DEF NotifyOne, TypeOK
<1>23. ASSUME PublishCheck(w) PROVE TypeOK'
  <2>1. pc' \in [Workers -> PCs]
    BY <1>23, NotifyTypes, Labels DEF PublishCheck
  <2>2. sinceSync' \in [Workers -> Nat] /\ cachedStop' \in [Workers -> BOOLEAN]
    BY Zenon, <1>23, PollTypes DEF PublishCheck, Handling
  <2>4. stack[w] # <<>>
    BY <1>23, <1>c DEF PublishCheck, Framed
  <2>5. SubSeq(stack[w], 1, Len(stack[w]) - 1) \in Seq(Frame)
    BY <1>b, <2>4, PopIsStack
  <2>7. stack' \in [Workers -> Seq(Frame)]
    BY Zenon, <1>23, <1>a, <2>5 DEF PublishCheck, PopFrame, SetStack
  <2>8. plock' \in Workers \cup {None}
    BY <1>23, <1>e, <1>f DEF PublishCheck
  <2> QED BY Zenon, <1>23, <2>1, <2>2, <2>7, <2>8 DEF PublishCheck, TypeOK
<1>24. ASSUME CountTerminal(w) PROVE TypeOK'
  <2>1. pc' \in [Workers -> PCs]
    BY <1>24, NotifyTypes, Labels DEF CountTerminal
  <2>a. /\ local \in [Workers -> Nat] /\ shared \in Nat /\ stop \in BOOLEAN
        /\ counted \in [Terminal -> Nat] /\ late \in [Workers -> Nat]
        /\ plock \in Workers \cup {None}
    BY Zenon DEF TypeOK
  <2>b. local[w] \in Nat /\ late[w] \in Nat
    BY <2>a
  <2>c. TopNode(w) \in Terminal /\ counted[TopNode(w)] \in Nat
    BY Zenon, <1>24, <2>a DEF CountTerminal, FramesFit, FrameFits, Publishing
  <2>2. local' \in [Workers -> Nat] /\ shared' \in Nat
    BY <1>24, <2>a, <2>b DEF CountTerminal
  <2>3. counted' \in [Terminal -> Nat]
    BY <1>24, <2>a, <2>c DEF CountTerminal
  <2>d. late' = late \/ late' = [late EXCEPT ![w] = @ + 1]
    BY <1>24 DEF CountTerminal
  <2>4. late' \in [Workers -> Nat]
    BY <2>a, <2>b, <2>d
  <2>e. plock' = plock \/ plock' = None
    BY <1>24 DEF CountTerminal
  <2>5. plock' \in Workers \cup {None}
    BY Zenon, <2>a, <2>e
  <2> QED BY Zenon, <1>24, <2>1, <2>2, <2>3, <2>4, <2>5 DEF CountTerminal, TypeOK
<1>25. ASSUME Callback(w) PROVE TypeOK'
  <2>1. pc' \in [Workers -> PCs]
    BY Zenon, <1>25, NotifyTypes, Labels DEF Callback
  <2>4. stack[w] # <<>>
    BY Zenon, <1>25, <1>c DEF Callback, Framed
  <2>5. SubSeq(stack[w], 1, Len(stack[w]) - 1) \in Seq(Frame)
    BY <1>b, <2>4, PopIsStack
  <2>7. stack' \in [Workers -> Seq(Frame)]
    BY Zenon, <1>25, <1>a, <2>5 DEF Callback, PopFrame, SetStack
  <2> QED BY Zenon, <1>25, <2>1, <2>7 DEF Callback, TypeOK
<1>26. ASSUME StopStore(w) PROVE TypeOK'
  <2>1. pc' \in [Workers -> PCs]
    BY <1>26, NotifyTypes, Labels DEF StopStore
  <2> QED BY Zenon, <1>26, <2>1 DEF StopStore, TypeOK
<1>27. ASSUME StopNotify(w) PROVE TypeOK'
  <2>1. pc' \in [Workers -> PCs]
    BY <1>27, NotifyTypes, Labels DEF StopNotify
  <2>4. stack[w] # <<>>
    BY Zenon, <1>27, <1>c DEF StopNotify, Framed
  <2>5. SubSeq(stack[w], 1, Len(stack[w]) - 1) \in Seq(Frame)
    BY <1>b, <2>4, PopIsStack
  <2>7. stack' \in [Workers -> Seq(Frame)]
    BY Zenon, <1>27, <1>a, <2>5 DEF StopNotify, PopFrame, SetStack
  <2> QED BY ZenonT(40), <1>27, <2>1, <2>7 DEF StopNotify, TypeOK
<1>28. ASSUME NotifyFatalError(w) PROVE TypeOK'
  <2>1. pc' \in [Workers -> PCs]
    BY Zenon, <1>28, NotifyTypes, Labels DEF NotifyFatalError
  <2>4. stack[w] # <<>>
    BY Zenon, <1>28, <1>c DEF NotifyFatalError, Framed
  <2>5. fatal' \in Node \cup {None}
    BY Zenon, <1>28, <1>d, <2>4, <1>e, <1>f DEF NotifyFatalError
  <2> QED BY ZenonT(40), <1>28, <2>1, <2>5 DEF NotifyFatalError, TypeOK
<1>29. ASSUME RecordException(w) PROVE TypeOK'
  <2>1. pc' \in [Workers -> PCs]
    BY <1>29, NotifyTypes, Labels DEF RecordException
  <2>4. stack[w] # <<>>
    BY Zenon, <1>29, <1>c DEF RecordException, Framed
  <2>5. firstExc' \in Node \cup {None}
    BY Zenon, <1>29, <1>d, <2>4, <1>e, <1>f DEF RecordException
  <2>6. stack' \in [Workers -> Seq(Frame)]
    BY <1>29, <1>a DEF RecordException, SetStack
  <2> QED BY ZenonT(40), <1>29, <2>1, <2>5, <2>6 DEF RecordException, TypeOK
<1>30. ASSUME RecordNotify(w) PROVE TypeOK'
  <2>1. pc' \in [Workers -> PCs]
    BY Zenon, <1>30, NotifyTypes, Labels DEF RecordNotify
  <2> QED BY Zenon, <1>30, <2>1 DEF RecordNotify, TypeOK
<1> QED
  BY Zenon, <1>1, <1>2, <1>3, <1>4, <1>5, <1>6, <1>7, <1>8, <1>9, <1>10, <1>11, <1>12,
     <1>13, <1>14, <1>15, <1>16, <1>17, <1>18, <1>19, <1>20, <1>21, <1>22, <1>23,
     <1>24, <1>25, <1>26, <1>27, <1>28, <1>29, <1>30 DEF WorkerStep, Acquire,
     TakeStep, ExploreStep, PublishStep, FailStep

(* Dropping the top frame keeps the others.                                *)
LEMMA PoppedFrames ==
    ASSUME TypeOK, NEW w \in Workers, stack[w] # <<>>, PopFrame(w)
    PROVE  /\ Len(stack'[w]) = Len(stack[w]) - 1
           /\ Len(stack'[w]) < Len(stack[w])
           /\ DOMAIN stack'[w] = 1 .. Len(stack[w]) - 1
           /\ \A i \in 1 .. Len(stack[w]) - 1 : stack'[w][i] = stack[w][i]
<1>1. stack \in [Workers -> Seq(Frame)] /\ stack[w] \in Seq(Frame)
  BY DEF TypeOK
<1>2. stack'[w] = SubSeq(stack[w], 1, Len(stack[w]) - 1)
  BY Zenon, <1>1 DEF PopFrame, SetStack
<1> QED BY <1>1, <1>2, PopIsStack

-----------------------------------------------------------------------------
Step(w) == WorkerStep(w) \/ SpuriousWake(w) \/ PollAgain(w)

(* A step of one worker moves the others at most from sleep to wakefulness. *)
LEMMA Others ==
    ASSUME TypeOK, NEW w \in Workers, Step(w), NEW v \in Workers, v # w
    PROVE  /\ stack'[v] = stack[v]
           /\ pc'[v] = pc[v] \/ (pc[v] = "wait" /\ pc'[v] = "wake")
<1>0. pc \in [Workers -> PCs] /\ stack \in [Workers -> Seq(Frame)]
  BY Zenon DEF TypeOK
<1> USE DEF Goto, SetStack
<1>1. CASE Acquire(w)
  BY Zenon, <1>0, <1>1 DEF Acquire, LockQueue, Reacquire, FinishTask, TryEnqueue
<1>2. CASE TakeStep(w)
  BY <1>0, <1>2 DEF TakeStep, Recheck, Park, Leave, PopTask, CompleteNotify, NotifyAllGoto
<1>3. CASE ExploreStep(w)
  BY Zenon, <1>0, <1>3 DEF ExploreStep, ProcessTask, ExploreDone, Unwind, DispatchEnter,
     EnterStopped, EnterNode, ResumeExhausted, ResumeFrame, SpawnCheck,
     OfferChild, NotifyOne, NotifyOneGoto, PopFrame, DescendLocally
<1>4. CASE PublishStep(w)
  BY Zenon, <1>0, <1>4 DEF PublishStep, PublishCheck, CountTerminal, Callback,
     StopStore, StopNotify, NotifyAllGoto, PopFrame
<1>5. CASE FailStep(w)
  BY Zenon, <1>0, <1>5 DEF FailStep, NotifyFatalError, RecordException, RecordNotify,
     NotifyAllGoto
<1>6. CASE SpuriousWake(w) \/ PollAgain(w)
  BY <1>0, <1>6 DEF SpuriousWake, PollAgain
<1> QED BY <1>1, <1>2, <1>3, <1>4, <1>5, <1>6 DEF Step, WorkerStep

(* What a step does to the queue and the completion flag, and what it knew *)
(* when it moved to a point that relies on them.                           *)
QueueStep(w) ==
    \/ queue' = queue
    \/ pc[w] = "take" /\ ~complete /\ ~stop /\ queue' = Tail(queue)
    \/ qlock = None /\ QueueAccepts /\ queue' = Append(queue, NextChild(w))
       /\ pc[w] = "enqueue"

CompleteStep(w) ==
    \/ complete' = complete
    \/ /\ qlock = None /\ BecameComplete /\ complete' = TRUE /\ queue' = queue
       /\ pc'[w] = "complete_notify"

(* What one step of a worker may do to the queue, to the stop flag and to  *)
(* completion, and what it knows when it takes a task, parks or leaves.    *)
LEMMA QueueMoves ==
    ASSUME TypeOK, NEW w \in Workers, Step(w)
    PROVE  /\ stop => stop'
           /\ QueueStep(w)
           /\ CompleteStep(w)
           /\ pc'[w] = "take" => Ready'
           /\ pc'[w] = "park" => queue' = <<>> /\ ~complete'
           /\ pc'[w] = "wait" => pc[w] = "park" /\ queue' = queue /\ complete' = complete
           /\ pc'[w] = "done" => (stop \/ complete) /\ queue' = queue
           /\ complete /\ pc[w] \notin BusyPC => pc'[w] \notin BusyPC /\ active' = active
           /\ pc[w] = "complete_notify" => \A v \in Workers : pc'[v] # "wait"
<1>0. pc \in [Workers -> PCs] /\ complete \in BOOLEAN /\ stop \in BOOLEAN
  BY Zenon DEF TypeOK
<1> USE DEF Goto, queueVars, stopVars, QueueStep, CompleteStep
<1>1. CASE Acquire(w)
  <2>1. CASE LockQueue(w)
    BY Zenon, <1>0, <2>1 DEF LockQueue, Ready, BusyPC
  <2>2. CASE Reacquire(w)
    BY <1>0, <2>2 DEF Reacquire, Ready, BusyPC
  <2>3. CASE FinishTask(w)
    BY Zenon, <1>0, <2>3 DEF FinishTask, BusyPC
  <2>4. CASE TryEnqueue(w)
    BY <1>0, <2>4 DEF TryEnqueue, BusyPC
  <2> QED BY Zenon, <1>1, <2>1, <2>2, <2>3, <2>4 DEF Acquire
<1>2. CASE TakeStep(w)
  <2>1. CASE Recheck(w)
    BY Zenon, <1>0, <2>1 DEF Recheck, Ready, BusyPC
  <2>2. CASE ~Recheck(w)
    BY <1>0, <1>2, <2>2 DEF TakeStep, Park, Leave, PopTask, CompleteNotify,
       NotifyAllGoto, BusyPC
  <2> QED BY ZenonT(40), <2>1, <2>2
<1>3. CASE ExploreStep(w)
  <2>1. CASE NotifyOne(w)
    BY <1>0, <2>1 DEF NotifyOne, NotifyOneGoto, BusyPC
  <2>2. CASE ~NotifyOne(w)
    BY ZenonT(40), <1>0, <1>3, <2>2 DEF ExploreStep, ProcessTask, ExploreDone, Unwind,
       DispatchEnter, EnterStopped, EnterNode, ResumeExhausted, ResumeFrame,
       SpawnCheck, OfferChild, Handling, BusyPC
  <2> QED BY Zenon, <2>1, <2>2
<1>4. CASE PublishStep(w)
  BY Zenon, <1>0, <1>4 DEF PublishStep, PublishCheck, CountTerminal, Callback,
     StopStore, StopNotify, NotifyAllGoto, BusyPC
<1>5. CASE FailStep(w)
  BY Zenon, <1>0, <1>5 DEF FailStep, NotifyFatalError, RecordException, RecordNotify,
     NotifyAllGoto, BusyPC
<1>6. CASE SpuriousWake(w) \/ PollAgain(w)
  BY Zenon, <1>0, <1>6 DEF SpuriousWake, PollAgain, BusyPC
<1> QED BY Zenon, <1>1, <1>2, <1>3, <1>4, <1>5, <1>6 DEF Step, WorkerStep

(* Counting a terminal.                                                    *)
Counts(w) ==
    /\ pc[w] = "count" /\ pc'[w] = "callback"
    /\ stack' = stack /\ queue' = queue /\ created' = created /\ stop' = stop
    /\ counted' = [counted EXCEPT ![TopNode(w)] = @ + 1]

Flushes(w) ==
    /\ shared' = shared + local[w]
    /\ local' = [local EXCEPT ![w] = 0]

(* Where the counts change.                                                *)
LEMMA TallyMoves ==
    ASSUME TypeOK, NEW w \in Workers, Step(w)
    PROVE  \/ /\ pc[w] # "count" /\ counted' = counted
              /\ (local' = local /\ shared' = shared) \/ Flushes(w)
           \/ /\ Counts(w)
              /\ \/ shared' = shared /\ local' = [local EXCEPT ![w] = @ + 1]
                 \/ shared' = shared + local[w] + 1 /\ local' = [local EXCEPT ![w] = 0]
<1>0. pc \in [Workers -> PCs]
  BY Zenon DEF TypeOK
<1> USE DEF countVars
<1>1. CASE Acquire(w)
  BY Zenon, <1>1 DEF Acquire, LockQueue, Reacquire, FinishTask, TryEnqueue
<1>2. CASE TakeStep(w)
  BY Zenon, <1>2 DEF TakeStep, Recheck, Park, Leave, PopTask, CompleteNotify,
     FlushWorkerState, Flushes
<1>3. CASE ExploreStep(w)
  BY Zenon, <1>3 DEF ExploreStep, ProcessTask, ExploreDone, Unwind, DispatchEnter, EnterStopped,
     EnterNode, ResumeExhausted, ResumeFrame, SpawnCheck, OfferChild, NotifyOne, Handling,
     ReportProgress, Flushes
<1>4. CASE PublishStep(w)
  <2>1. CASE CountTerminal(w)
    BY Zenon, <1>0, <2>1 DEF CountTerminal, Counts, Goto, queueVars, stopVars
  <2>2. CASE ~CountTerminal(w)
    BY Zenon, <1>4, <2>2 DEF PublishStep, PublishCheck, Callback, StopStore,
       StopNotify
  <2> QED BY Zenon, <2>1, <2>2
<1>5. CASE FailStep(w)
  BY Zenon, <1>5 DEF FailStep, NotifyFatalError, RecordException, RecordNotify
<1>6. CASE SpuriousWake(w) \/ PollAgain(w)
  BY Zenon, <1>6 DEF SpuriousWake, PollAgain
<1> QED BY Zenon, <1>1, <1>2, <1>3, <1>4, <1>5, <1>6 DEF Step, WorkerStep

-----------------------------------------------------------------------------
(* What a step of w does to its stack, the queue and the created nodes.    *)
(* Quiet: frames are dropped from the top, or the cursor of a frame just   *)
(* entered is set to its first alternative.                                *)
SameFrame(f, g) ==
    /\ g.node = f.node
    /\ \/ g.cursor = f.cursor
       \/ f.cursor = 0 /\ g.cursor = 1 /\ Children[f.node] # <<>>

Quiet(w) ==
    /\ queue' = queue /\ created' = created
    /\ Len(stack'[w]) <= Len(stack[w])
    /\ \A i \in DOMAIN stack'[w] : SameFrame(stack[w][i], stack'[w][i])

(* Took: the front of the queue becomes the only frame.                    *)
Took(w) ==
    /\ created' = created
    /\ queue # <<>> /\ queue' = Tail(queue)
    /\ stack[w] = <<>> /\ stack'[w] = <<EnterFrame(Head(queue))>>

(* Advanced: the next alternative is created and the cursor moves past it; *)
(* the alternative becomes a frame of w (Descended) or a queued task.      *)
Advanced(w) ==
    /\ stack[w] # <<>> /\ HasNext(w)
    /\ pc[w] \notin AfterCount
    /\ created' = [created EXCEPT ![NextChild(w)] = @ + 1]
    /\ \A i \in 1 .. Len(stack[w]) - 1 : stack'[w][i] = stack[w][i]
    /\ stack'[w][Len(stack[w])].node = TopNode(w)
    /\ stack'[w][Len(stack[w])].cursor = Top(w).cursor + 1

Descended(w) ==
    /\ Advanced(w) /\ queue' = queue
    /\ Len(stack'[w]) = Len(stack[w]) + 1
    /\ stack'[w][Len(stack[w]) + 1] = EnterFrame(NextChild(w))

HandedOver(w) ==
    /\ Advanced(w) /\ queue' = Append(queue, NextChild(w))
    /\ Len(stack'[w]) = Len(stack[w])

(* The frame operations, in these terms.                                   *)
LEMMA KeptIsQuiet ==
    ASSUME TypeOK, NEW w \in Workers, stack'[w] = stack[w],
           queue' = queue, created' = created
    PROVE  Quiet(w)
<1>1. stack[w] \in Seq(Frame)
  BY Zenon DEF TypeOK
<1>2. \A i \in DOMAIN stack[w] : SameFrame(stack[w][i], stack'[w][i])
  BY DEF SameFrame
<1> QED BY <1>1, <1>2 DEF Quiet

(* Dropping every frame is quiet.                                          *)
LEMMA ClearedIsQuiet ==
    ASSUME TypeOK, NEW w \in Workers, stack'[w] = <<>>,
           queue' = queue, created' = created
    PROVE  Quiet(w)
<1>1. stack[w] \in Seq(Frame)
  BY DEF TypeOK
<1>2. Len(stack[w]) >= 0 /\ Len(<<>>) = 0 /\ DOMAIN <<>> = {}
  BY <1>1
<1> QED BY Zenon, <1>2 DEF Quiet

(* Dropping the top frame is quiet.                                        *)
LEMMA PoppedIsQuiet ==
    ASSUME TypeOK, NEW w \in Workers, stack[w] # <<>>, PopFrame(w),
           queue' = queue, created' = created
    PROVE  /\ Quiet(w)
           /\ Len(stack'[w]) = Len(stack[w]) - 1
<1>1. stack[w] \in Seq(Frame)
  BY Zenon DEF TypeOK
<1>2. /\ Len(stack'[w]) = Len(stack[w]) - 1
      /\ DOMAIN stack'[w] = 1 .. Len(stack[w]) - 1
      /\ \A i \in 1 .. Len(stack[w]) - 1 : stack'[w][i] = stack[w][i]
  BY Zenon, PoppedFrames
<1>3. \A i \in DOMAIN stack'[w] : SameFrame(stack[w][i], stack'[w][i])
  BY Zenon, <1>2 DEF SameFrame
<1> QED BY <1>1, <1>2, <1>3 DEF Quiet

(* Rewriting the top frame: its node and the frames below stay.            *)
LEMMA WithTopFrames ==
    ASSUME TypeOK, NEW w \in Workers, stack[w] # <<>>,
           NEW c \in Nat, NEW b \in BOOLEAN
    PROVE  /\ WithTop(w, c, b) \in Seq(Frame)
           /\ Len(WithTop(w, c, b)) = Len(stack[w])
           /\ \A i \in 1 .. Len(stack[w]) - 1 : WithTop(w, c, b)[i] = stack[w][i]
           /\ WithTop(w, c, b)[Len(stack[w])].node = TopNode(w)
           /\ WithTop(w, c, b)[Len(stack[w])].cursor = c
<1>1. stack[w] \in Seq(Frame)
  BY DEF TypeOK
<1>2. [node |-> TopNode(w), cursor |-> c, flag |-> b] \in Frame
  BY Zenon, <1>1, TopIsFrame DEF TopNode, Top, Frame
<1>3. WithTop(w, c, b) = [stack[w] EXCEPT ![Len(stack[w])] =
                             [node |-> TopNode(w), cursor |-> c, flag |-> b]]
  BY Zenon DEF WithTop
<1>4. /\ WithTop(w, c, b) \in Seq(Frame)
      /\ Len(WithTop(w, c, b)) = Len(stack[w])
      /\ WithTop(w, c, b)[Len(stack[w])] = [node |-> TopNode(w), cursor |-> c, flag |-> b]
  BY <1>1, <1>2, <1>3, ReplaceTopIsStack
<1>5. \A i \in 1 .. Len(stack[w]) - 1 : WithTop(w, c, b)[i] = stack[w][i]
  BY <1>1, <1>3
<1> QED BY <1>4, <1>5

(* Entering a frame with alternatives, or setting its flag, is quiet.      *)
LEMMA RetoppedIsQuiet ==
    ASSUME TypeOK, NEW w \in Workers, stack[w] # <<>>,
           NEW c \in Nat, NEW b \in BOOLEAN,
           \/ c = Top(w).cursor
           \/ Top(w).cursor = 0 /\ c = 1 /\ Children[TopNode(w)] # <<>>,
           stack'[w] = WithTop(w, c, b), queue' = queue, created' = created
    PROVE  Quiet(w) /\ Len(stack'[w]) = Len(stack[w])
<1>1. stack[w] \in Seq(Frame)
  BY Zenon DEF TypeOK
<1>2. /\ stack'[w] \in Seq(Frame)
      /\ Len(stack'[w]) = Len(stack[w])
      /\ \A i \in 1 .. Len(stack[w]) - 1 : stack'[w][i] = stack[w][i]
      /\ stack'[w][Len(stack[w])].node = TopNode(w)
      /\ stack'[w][Len(stack[w])].cursor = c
  <2>1. /\ WithTop(w, c, b) \in Seq(Frame)
        /\ Len(WithTop(w, c, b)) = Len(stack[w])
        /\ \A i \in 1 .. Len(stack[w]) - 1 : WithTop(w, c, b)[i] = stack[w][i]
        /\ WithTop(w, c, b)[Len(stack[w])].node = TopNode(w)
        /\ WithTop(w, c, b)[Len(stack[w])].cursor = c
    BY WithTopFrames
  <2> QED BY Zenon, <2>1
<1>3. SameFrame(stack[w][Len(stack[w])], stack'[w][Len(stack[w])])
  BY Zenon, <1>2 DEF SameFrame, TopNode, Top
<1>4. \A i \in DOMAIN stack'[w] : SameFrame(stack[w][i], stack'[w][i])
  <2> SUFFICES ASSUME NEW i \in DOMAIN stack'[w]
               PROVE  SameFrame(stack[w][i], stack'[w][i])
    OBVIOUS
  <2>1. i \in 1 .. Len(stack[w])
    BY <1>2
  <2>2. CASE i = Len(stack[w])
    BY Zenon, <1>3, <2>2
  <2>3. CASE i # Len(stack[w])
    BY <1>1, <1>2, <2>1, <2>3 DEF SameFrame
  <2> QED BY <2>2, <2>3
<1> QED BY <1>1, <1>2, <1>4 DEF Quiet

(* Descending advances the cursor and pushes a frame for the alternative.  *)
LEMMA DescendIsDescended ==
    ASSUME TypeOK, NEW w \in Workers, stack[w] # <<>>, HasNext(w),
           pc[w] \notin AfterCount,
           stack' = [stack EXCEPT ![w] = DescendStack(w)],
           Create(NextChild(w)), queue' = queue
    PROVE  Descended(w)
<1>1. stack \in [Workers -> Seq(Frame)] /\ stack[w] \in Seq(Frame)
  BY Zenon DEF TypeOK
<1>a. Top(w).cursor \in Nat /\ Top(w).flag \in BOOLEAN
  BY Zenon, <1>1, TopIsFrame DEF Top
<1>2. Top(w).cursor + 1 \in Nat /\ Top(w).flag \in BOOLEAN
  BY <1>a
<1> DEFINE s == WithTop(w, Top(w).cursor + 1, Top(w).flag)
<1>3. /\ s \in Seq(Frame)
      /\ Len(s) = Len(stack[w])
      /\ \A i \in 1 .. Len(stack[w]) - 1 : s[i] = stack[w][i]
      /\ s[Len(stack[w])].node = TopNode(w)
      /\ s[Len(stack[w])].cursor = Top(w).cursor + 1
  BY <1>2, WithTopFrames
<1>4. stack'[w] = Append(s, EnterFrame(NextChild(w)))
  BY <1>1 DEF DescendStack
<1> HIDE DEF s
<1>5. Len(stack[w]) \in Nat \ {0}
  BY <1>1
<1>6. /\ Len(stack'[w]) = Len(stack[w]) + 1
      /\ \A i \in 1 .. Len(stack[w]) : stack'[w][i] = s[i]
      /\ stack'[w][Len(stack[w]) + 1] = EnterFrame(NextChild(w))
  BY <1>3, <1>4, <1>5
<1>7. /\ \A i \in 1 .. Len(stack[w]) - 1 : stack'[w][i] = stack[w][i]
      /\ stack'[w][Len(stack[w])] = s[Len(stack[w])]
  BY <1>3, <1>5, <1>6
<1> QED BY Zenon, <1>3, <1>6, <1>7 DEF Descended, Advanced, Create

(* Handing over advances the cursor in the same way.                       *)
LEMMA EnqueueIsHandedOver ==
    ASSUME TypeOK, NEW w \in Workers, stack[w] # <<>>, HasNext(w),
           pc[w] \notin AfterCount,
           stack' = [stack EXCEPT ![w] = WithTop(w, Top(w).cursor + 1, Top(w).flag)],
           Create(NextChild(w)), queue' = Append(queue, NextChild(w))
    PROVE  HandedOver(w)
<1>1. stack \in [Workers -> Seq(Frame)] /\ stack[w] \in Seq(Frame)
  BY Zenon DEF TypeOK
<1>a. Top(w).cursor \in Nat /\ Top(w).flag \in BOOLEAN
  BY Zenon, <1>1, TopIsFrame DEF Top
<1>2. Top(w).cursor + 1 \in Nat /\ Top(w).flag \in BOOLEAN
  BY <1>a
<1> DEFINE s == WithTop(w, Top(w).cursor + 1, Top(w).flag)
<1>3. /\ Len(s) = Len(stack[w])
      /\ \A i \in 1 .. Len(stack[w]) - 1 : s[i] = stack[w][i]
      /\ s[Len(stack[w])].node = TopNode(w)
      /\ s[Len(stack[w])].cursor = Top(w).cursor + 1
  BY <1>2, WithTopFrames
<1>4. stack'[w] = s
  BY <1>1
<1> HIDE DEF s
<1> QED BY Zenon, <1>3, <1>4 DEF HandedOver, Advanced, Create

(* A frame is dropped for a reason: nothing is left below it, its graph is *)
(* inconsistent, its callback has been dealt with, or the search stops.    *)
DropJustified(w) ==
    \/ Len(stack'[w]) = Len(stack[w])
    \/ stop'
    \/ /\ Len(stack'[w]) = Len(stack[w]) - 1
       /\ \/ Top(w).cursor > Len(Children[TopNode(w)])
          \/ Kind[TopNode(w)] = "pruned"
          \/ pc[w] \in {"callback", "stop_notify"}

QuietStep(w) == Quiet(w) /\ DropJustified(w)

(* What the guards establish for the leaves below.                         *)
LEMMA StackMoves ==
    ASSUME PoolInvariant, FramesFollowTree, EndingsJustified,
           NEW w \in Workers, Step(w)
    PROVE  QuietStep(w) \/ Took(w) \/ Descended(w) \/ HandedOver(w)
<1>0. TypeOK /\ FrameFits(w) /\ LockedView
  BY DEF PoolInvariant, FramesFit
<1>a. pc \in [Workers -> PCs] /\ stack \in [Workers -> Seq(Frame)]
  BY Zenon, <1>0 DEF TypeOK
<1>b. pc[w] \in Framed => stack[w] # <<>>
  BY <1>0 DEF FrameFits
<1>c. StopRequested(w) => stop
  BY Zenon DEF StopRequested, EndingsJustified
<1>d. stop => stop'
  BY Zenon, <1>0, QueueMoves
<1>e. ASSUME stack' = stack, queue' = queue, created' = created PROVE QuietStep(w)
  BY <1>0, <1>e, KeptIsQuiet DEF QuietStep, DropJustified
<1>f. ASSUME stack' = [stack EXCEPT ![w] = <<>>], stop', queue' = queue, created' = created
      PROVE  QuietStep(w)
  <2>1. stack'[w] = <<>>
    BY Zenon, <1>a, <1>f
  <2> QED BY <1>0, <1>f, <2>1, ClearedIsQuiet DEF QuietStep, DropJustified
<1>g. ASSUME stack[w] # <<>>, PopFrame(w), queue' = queue, created' = created,
             \/ stop'
             \/ Top(w).cursor > Len(Children[TopNode(w)])
             \/ Kind[TopNode(w)] = "pruned"
             \/ pc[w] \in {"callback", "stop_notify"}
      PROVE  QuietStep(w)
  BY Zenon, <1>0, <1>g, PoppedIsQuiet DEF QuietStep, DropJustified
<1>h. ASSUME stack[w] # <<>>, NEW c \in Nat, NEW b \in BOOLEAN,
             \/ c = Top(w).cursor
             \/ Top(w).cursor = 0 /\ c = 1 /\ Children[TopNode(w)] # <<>>,
             SetStack(w, WithTop(w, c, b)), queue' = queue, created' = created
      PROVE  QuietStep(w)
  <2>1. stack'[w] = WithTop(w, c, b)
    BY Zenon, <1>a, <1>h DEF SetStack
  <2>2. Quiet(w) /\ Len(stack'[w]) = Len(stack[w])
    BY Zenon, <1>0, <1>h, <2>1, RetoppedIsQuiet
  <2> QED BY Zenon, <2>2 DEF QuietStep, DropJustified
<1>i. ASSUME stack[w] # <<>>, HasNext(w), pc[w] \notin AfterCount,
             DescendLocally(w), queue' = queue
      PROVE  Descended(w)
  BY Zenon, <1>0, <1>i, DescendIsDescended DEF DescendLocally, SetStack
<1>j. pc[w] \in {"spawn", "offer", "enqueue"} => HasNext(w) /\ stack[w] # <<>>
  BY <1>0, <1>b DEF FrameFits, Framed
<1>k. stack[w] # <<>> => /\ TopNode(w) \in Node
                         /\ Top(w).cursor \in Nat /\ Top(w).flag \in BOOLEAN
  BY <1>a, TopIsFrame DEF TopNode, Top
<1> USE DEF queueVars
<1>1. CASE Acquire(w)
  <2>1. CASE TryEnqueue(w)
    <3>1. stack[w] # <<>> /\ HasNext(w) /\ pc[w] \notin AfterCount
      BY Zenon, <1>j, <2>1 DEF TryEnqueue, AfterCount
    <3>2. CASE queue' = queue /\ SetStack(w, DescendStack(w))
      BY Zenon, <1>i, <2>1, <3>1, <3>2 DEF TryEnqueue, DescendLocally
    <3>3. CASE /\ queue' = Append(queue, NextChild(w))
               /\ SetStack(w, WithTop(w, Top(w).cursor + 1, Top(w).flag))
      BY Zenon, <1>0, <2>1, <3>1, <3>3, EnqueueIsHandedOver DEF TryEnqueue, SetStack
    <3> QED BY Zenon, <2>1, <3>2, <3>3 DEF TryEnqueue
  <2>2. CASE ~TryEnqueue(w)
    BY <1>1, <1>e, <2>2 DEF Acquire, LockQueue, Reacquire, FinishTask
  <2> QED BY Zenon, <2>1, <2>2
<1>2. CASE TakeStep(w)
  <2>1. CASE PopTask(w)
    <3>1. queue # <<>>
      BY Zenon, <1>0, <2>1 DEF PopTask, LockedView, Ready
    <3>2. stack[w] = <<>>
      BY Zenon, <1>0, <2>1 DEF PopTask, FrameFits, Frameless, PCs, Framed
    <3> QED BY <1>a, <2>1, <3>1, <3>2 DEF PopTask, Took
  <2>2. CASE ~PopTask(w)
    BY Zenon, <1>2, <1>e, <2>2 DEF TakeStep, Recheck, Park, Leave, CompleteNotify
  <2> QED BY <2>1, <2>2
<1>3. CASE ExploreStep(w)
  <2>1. CASE ProcessTask(w) \/ Unwind(w)
    BY Zenon, <1>c, <1>d, <1>e, <1>f, <2>1 DEF ProcessTask, Unwind, SetStack
  <2>2. CASE ExploreDone(w) \/ DispatchEnter(w) \/ EnterStopped(w) \/ NotifyOne(w)
    BY Zenon, <1>e, <2>2 DEF ExploreDone, DispatchEnter, EnterStopped, NotifyOne
  <2>3. CASE EnterNode(w)
    <3>0. /\ stack[w] # <<>> /\ queue' = queue /\ created' = created
      BY Zenon, <1>b, <2>3 DEF EnterNode, Framed
    <3>1. CASE PopFrame(w) /\ Kind[TopNode(w)] = "pruned"
      BY Zenon, <1>g, <3>0, <3>1
    <3>2. CASE stack' = stack
      BY <1>e, <3>0, <3>2
    <3>3. CASE SetStack(w, WithTop(w, 1, FALSE)) /\ Kind[TopNode(w)] \in {"branch", "send"}
      <4>1. Children[TopNode(w)] # <<>>
        BY Zenon, <1>k, <3>0, <3>3, TreeAssumption
      <4>2. Top(w).cursor = 0
        BY Zenon, <2>3 DEF EnterNode, FramesFollowTree
      <4> QED BY Zenon, <1>h, <3>0, <3>3, <4>1, <4>2
    <3> QED BY Zenon, <2>3, <3>1, <3>2, <3>3 DEF EnterNode
  <2>4. CASE ResumeExhausted(w)
    BY Zenon, <1>g, <2>4 DEF ResumeExhausted, Handling
  <2>5. CASE ResumeFrame(w)
    <3>1. /\ stack[w] # <<>> /\ HasNext(w) /\ pc[w] \notin AfterCount /\ queue' = queue
          /\ DescendLocally(w) \/ (stack' = stack /\ created' = created)
      BY Zenon, <2>5 DEF ResumeFrame, Handling, AfterCount
    <3> QED BY Zenon, <1>e, <1>i, <3>1
  <2>6. CASE SpawnCheck(w)
    <3>1. /\ stack[w] # <<>> /\ HasNext(w) /\ pc[w] \notin AfterCount /\ queue' = queue
          /\ \/ DescendLocally(w)
             \/ stack' = stack /\ created' = created
             \/ /\ created' = created
                /\ \E b \in BOOLEAN : SetStack(w, WithTop(w, Top(w).cursor, b))
      BY ZenonT(40), <1>j, <2>6 DEF SpawnCheck, AfterCount, StopRequested
    <3> QED BY Zenon, <1>e, <1>h, <1>i, <1>k, <3>1
  <2>7. CASE OfferChild(w)
    <3>1. /\ stack[w] # <<>> /\ HasNext(w) /\ pc[w] \notin AfterCount /\ queue' = queue
          /\ DescendLocally(w) \/ (stack' = stack /\ created' = created)
      BY Zenon, <1>j, <2>7 DEF OfferChild, AfterCount
    <3> QED BY Zenon, <1>e, <1>i, <3>1
  <2> QED BY <1>3, <2>1, <2>2, <2>3, <2>4, <2>5, <2>6, <2>7 DEF ExploreStep
<1>4. CASE PublishStep(w)
  <2>0. stack[w] # <<>> /\ queue' = queue /\ created' = created
    BY Zenon, <1>b, <1>4 DEF PublishStep, PublishCheck, CountTerminal, Callback,
       StopStore, StopNotify, Framed
  <2>1. CASE stack' = stack
    BY Zenon, <1>e, <2>0, <2>1
  <2>2. CASE PopFrame(w) /\ (stop' \/ pc[w] \in {"callback", "stop_notify"})
    BY Zenon, <1>g, <2>0, <2>2
  <2> QED BY Zenon, <1>4, <1>c, <1>d, <2>1, <2>2 DEF PublishStep, PublishCheck,
             CountTerminal, Callback, StopStore, StopNotify
<1>5. CASE FailStep(w)
  BY Zenon, <1>5, <1>e, <1>f DEF FailStep, NotifyFatalError, RecordException,
     RecordNotify, SetStack
<1>6. CASE SpuriousWake(w) \/ PollAgain(w)
  BY Zenon, <1>6, <1>e DEF SpuriousWake, PollAgain
<1> QED BY <1>1, <1>2, <1>3, <1>4, <1>5, <1>6 DEF Step, WorkerStep

(* The alternative that an advancing step creates is new, and only its     *)
(* parent's frame points to it.                                            *)
LEMMA AdvancedCreates ==
    ASSUME PoolInvariant, HeldOnce, FramesFollowTree, NEW w \in Workers, Advanced(w)
    PROVE  /\ NextChild(w) \in Node /\ TopNode(w) \in Node
           /\ created[NextChild(w)] = 0 /\ created[TopNode(w)] = 1
           /\ \A n \in Node : created'[n] = IF n = NextChild(w) THEN 1 ELSE created[n]
           /\ \A n \in Node : \A c \in DOMAIN Children[n] :
                Children[n][c] \in Node
                /\ (Children[n][c] = NextChild(w) <=> n = TopNode(w) /\ c = Top(w).cursor)
           /\ Top(w).cursor \in DOMAIN Children[TopNode(w)]
           /\ Top(w).cursor \in Nat
<1>0. TypeOK
  BY Zenon DEF PoolInvariant
<1>1. stack[w] \in Seq(Frame) /\ stack[w] # <<>> /\ HasNext(w)
  BY Zenon, <1>0 DEF TypeOK, Advanced
<1>2. TopNode(w) \in Node /\ Top(w).cursor \in Nat
  BY Zenon, <1>1, TopIsFrame DEF TopNode, Top
<1>3. NextChild(w) \in Node
  BY Zenon, <1>0, <1>1, NextChildIsNode
<1>4. \A n \in Node : Children[n] \in Seq(Node)
  BY Zenon, TreeAssumption
<1>5. Top(w).cursor \in DOMAIN Children[TopNode(w)]
  BY <1>1, <1>2, <1>4 DEF HasNext
<1>6. FollowsTree(Top(w), created)
  <2>1. Len(stack[w]) \in DOMAIN stack[w]
    BY <1>1
  <2> QED BY Zenon, <2>1 DEF FramesFollowTree, Top
<1>7. created[NextChild(w)] = 0 /\ created[TopNode(w)] = 1
  <2>1. ~(Top(w).cursor < Top(w).cursor)
    BY <1>2
  <2> QED BY Zenon, <1>5, <1>6, <2>1 DEF FollowsTree, NextChild, TopNode
<1>8. \A n \in Node : created'[n] = IF n = NextChild(w) THEN 1 ELSE created[n]
  <2>1. created \in [Node -> Nat]
    BY Zenon, <1>0 DEF TypeOK
  <2>2. created' = [created EXCEPT ![NextChild(w)] = @ + 1]
    BY Zenon DEF Advanced
  <2> QED BY <1>7, <2>1, <2>2
<1>9. \A n \in Node : \A c \in DOMAIN Children[n] :
        Children[n][c] \in Node
        /\ (Children[n][c] = NextChild(w) <=> n = TopNode(w) /\ c = Top(w).cursor)
  <2> SUFFICES ASSUME NEW n \in Node, NEW c \in DOMAIN Children[n]
               PROVE  Children[n][c] \in Node
                      /\ (Children[n][c] = NextChild(w) <=> n = TopNode(w) /\ c = Top(w).cursor)
    OBVIOUS
  <2>1. Children[n][c] \in Node
    BY <1>4
  <2>2. Children[n][c] = NextChild(w) => n = TopNode(w) /\ c = Top(w).cursor
    BY <1>2, <1>5, TreeAssumption DEF NextChild
  <2> QED BY <2>1, <2>2 DEF NextChild
<1> QED BY Zenon, <1>2, <1>3, <1>5, <1>7, <1>8, <1>9

(* A quiet step and a handover add no place to a stack, and each place     *)
(* keeps its node.                                                         *)
LEMMA PlacesKept ==
    ASSUME PoolInvariant, TypeOK', NEW w \in Workers, Step(w),
           Quiet(w) \/ HandedOver(w)
    PROVE  \A v \in Workers : \A i \in DOMAIN stack'[v] :
              i \in DOMAIN stack[v] /\ stack'[v][i].node = stack[v][i].node
<1>0. TypeOK
  BY DEF PoolInvariant
<1>1. /\ stack \in [Workers -> Seq(Frame)] /\ stack' \in [Workers -> Seq(Frame)]
  BY ZenonT(40), <1>0 DEF TypeOK
<1> SUFFICES ASSUME NEW v \in Workers, NEW i \in DOMAIN stack'[v]
             PROVE  i \in DOMAIN stack[v] /\ stack'[v][i].node = stack[v][i].node
  OBVIOUS
<1>2. CASE v # w
  BY Zenon, <1>0, <1>2, Others
<1>3. CASE v = w /\ Quiet(w)
  <2>1. stack[w] \in Seq(Frame) /\ stack'[w] \in Seq(Frame)
    BY Zenon, <1>1
  <2>2. /\ Len(stack'[w]) <= Len(stack[w]) /\ i \in DOMAIN stack'[w]
        /\ stack'[w][i].node = stack[w][i].node
    BY Zenon, <1>3 DEF Quiet, SameFrame
  <2>3. i \in DOMAIN stack[w]
    BY <2>1, <2>2
  <2> QED BY Zenon, <1>3, <2>2, <2>3
<1>4. CASE v = w /\ HandedOver(w)
  <2>1. stack[w] \in Seq(Frame) /\ stack'[w] \in Seq(Frame)
    BY Zenon, <1>1
  <2>2. Len(stack'[w]) = Len(stack[w]) /\ i \in DOMAIN stack'[w]
    BY Zenon, <1>4 DEF HandedOver
  <2>3. i \in DOMAIN stack[w] /\ (i = Len(stack[w]) \/ i \in 1 .. Len(stack[w]) - 1)
    BY <2>1, <2>2
  <2>4. CASE i = Len(stack[w])
    BY Zenon, <1>4, <2>3, <2>4 DEF HandedOver, Advanced, TopNode, Top
  <2>5. CASE i \in 1 .. Len(stack[w]) - 1
    BY Zenon, <1>4, <2>3, <2>5 DEF HandedOver, Advanced
  <2> QED BY Zenon, <2>3, <2>4, <2>5
<1> QED BY <1>2, <1>3, <1>4

(* After descending: the old places, with the same nodes, and one more.    *)
LEMMA PlacesDescended ==
    ASSUME PoolInvariant, TypeOK', NEW w \in Workers, Step(w), Descended(w)
    PROVE  \A v \in Workers : \A i \in DOMAIN stack'[v] :
              \/ i \in DOMAIN stack[v] /\ stack'[v][i].node = stack[v][i].node
              \/ v = w /\ i = Len(stack[w]) + 1 /\ stack'[v][i] = EnterFrame(NextChild(w))
<1>0. TypeOK
  BY DEF PoolInvariant
<1>1. /\ stack \in [Workers -> Seq(Frame)] /\ stack' \in [Workers -> Seq(Frame)]
  BY Zenon, <1>0 DEF TypeOK
<1> SUFFICES ASSUME NEW v \in Workers, NEW i \in DOMAIN stack'[v]
             PROVE  \/ i \in DOMAIN stack[v] /\ stack'[v][i].node = stack[v][i].node
                    \/ v = w /\ i = Len(stack[w]) + 1 /\ stack'[v][i] = EnterFrame(NextChild(w))
  OBVIOUS
<1>2. CASE v # w
  BY Zenon, <1>0, <1>2, Others
<1>3. CASE v = w
  <2>1. stack[w] \in Seq(Frame) /\ stack'[w] \in Seq(Frame)
    BY Zenon, <1>1
  <2>a. Len(stack'[w]) = Len(stack[w]) + 1 /\ i \in DOMAIN stack'[w] /\ stack[w] # <<>>
    BY Zenon, <1>3 DEF Descended, Advanced
  <2>2. \/ i \in DOMAIN stack[w] /\ (i = Len(stack[w]) \/ i \in 1 .. Len(stack[w]) - 1)
        \/ i = Len(stack[w]) + 1
    BY <2>1, <2>a
  <2>3. CASE i \in DOMAIN stack[w] /\ i = Len(stack[w])
    BY Zenon, <1>3, <2>3 DEF Descended, Advanced, TopNode, Top
  <2>4. CASE i = Len(stack[w]) + 1
    BY Zenon, <1>3, <2>4 DEF Descended
  <2>5. CASE i \in DOMAIN stack[w] /\ i \in 1 .. Len(stack[w]) - 1
    BY Zenon, <1>3, <2>5 DEF Descended, Advanced
  <2> QED BY Zenon, <2>2, <2>3, <2>4, <2>5
<1> QED BY Zenon, <1>2, <1>3

(* What is held exists.                                                    *)
LEMMA HeldIsCreated ==
    ASSUME FramesFollowTree
    PROVE  /\ \A i \in DOMAIN queue : created[queue[i]] = 1
           /\ \A w \in Workers : \A i \in DOMAIN stack[w] : created[stack[w][i].node] = 1
BY Zenon DEF FramesFollowTree, FollowsTree, EnterFrame

=============================================================================
