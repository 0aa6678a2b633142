------------------------ MODULE ParallelExecutorWork ------------------------
(***************************************************************************)
(* Every step of a worker preserves the conjuncts of WorkInvariant: a node is *)
(* held in one place, the frames follow the search tree, the counts follow *)
(* the frames, and nothing is lost before it is explored.                  *)
(***************************************************************************)
EXTENDS ParallelExecutorTypes

(* A node stays in one place.                                              *)
LEMMA StepHeldOnce ==
    ASSUME PoolInvariant, PoolInvariant', HeldOnce, FramesFollowTree,
           EndingsJustified, NEW w \in Workers, Step(w)
    PROVE  HeldOnce'
<1>0. TypeOK /\ TypeOK'
  BY DEF PoolInvariant
<1>1. /\ stack \in [Workers -> Seq(Frame)] /\ stack' \in [Workers -> Seq(Frame)]
      /\ queue \in Seq(Node) /\ queue' \in Seq(Node)
  BY ZenonT(40), <1>0 DEF TypeOK
<1>2. CASE Quiet(w)
  <2>1. queue' = queue
    BY <1>2 DEF Quiet
  <2>2. \A v \in Workers : \A i \in DOMAIN stack'[v] :
          i \in DOMAIN stack[v] /\ stack'[v][i].node = stack[v][i].node
    BY <1>0, <1>2, PlacesKept
  <2> QED BY <2>1, <2>2 DEF HeldOnce
<1>3. CASE Took(w)
  <2>1. /\ DOMAIN queue' = 1 .. Len(queue) - 1
        /\ \A i \in 1 .. Len(queue) - 1 : queue'[i] = queue[i + 1]
        /\ Head(queue) = queue[1] /\ Len(queue) \in Nat \ {0}
    BY <1>1, <1>3 DEF Took
  <2>2. \A i \in DOMAIN queue' : i + 1 \in DOMAIN queue /\ i + 1 # 1 /\ queue'[i] = queue[i + 1]
    BY <1>1, <2>1
  <2>3. \A v \in Workers : \A i \in DOMAIN stack'[v] :
          \/ v # w /\ i \in DOMAIN stack[v] /\ stack'[v][i].node = stack[v][i].node
          \/ v = w /\ i = 1 /\ stack'[v][i].node = queue[1]
    <3> SUFFICES ASSUME NEW v \in Workers, NEW i \in DOMAIN stack'[v]
                 PROVE  \/ v # w /\ i \in DOMAIN stack[v] /\ stack'[v][i].node = stack[v][i].node
                        \/ v = w /\ i = 1 /\ stack'[v][i].node = queue[1]
      OBVIOUS
    <3>1. CASE v # w
      BY <1>0, <3>1, Others
    <3>2. CASE v = w
      BY <1>3, <2>1, <3>2 DEF Took, EnterFrame
    <3> QED BY <3>1, <3>2
  <2>4. 1 \in DOMAIN queue
    BY <1>1, <2>1
  <2>5. (\A i, j \in DOMAIN queue : queue[i] = queue[j] => i = j)'
    <3> SUFFICES ASSUME NEW i \in DOMAIN queue', NEW j \in DOMAIN queue', queue'[i] = queue'[j]
                 PROVE  i = j
      OBVIOUS
    <3>1. i + 1 = j + 1
      BY <2>2 DEF HeldOnce
    <3>2. i \in Nat /\ j \in Nat
      BY <2>1
    <3> QED BY <3>1, <3>2
  <2>6. (\A u, v \in Workers : \A i \in DOMAIN stack[u], j \in DOMAIN stack[v] :
          stack[u][i].node = stack[v][j].node => u = v /\ i = j)'
    BY <2>3, <2>4 DEF HeldOnce
  <2>7. (\A v \in Workers : \A i \in DOMAIN queue, j \in DOMAIN stack[v] :
          queue[i] # stack[v][j].node)'
    BY <2>2, <2>3, <2>4 DEF HeldOnce
  <2> QED BY <2>5, <2>6, <2>7 DEF HeldOnce
<1>4. CASE Descended(w)
  <2>1. queue' = queue
    BY Zenon, <1>4 DEF Descended
  <2>2. \A v \in Workers : \A i \in DOMAIN stack'[v] :
          \/ i \in DOMAIN stack[v] /\ stack'[v][i].node = stack[v][i].node
          \/ v = w /\ i = Len(stack[w]) + 1 /\ stack'[v][i].node = NextChild(w)
    <3>1. EnterFrame(NextChild(w)).node = NextChild(w)
      BY DEF EnterFrame
    <3>2. \A v \in Workers : \A i \in DOMAIN stack'[v] :
            \/ i \in DOMAIN stack[v] /\ stack'[v][i].node = stack[v][i].node
            \/ v = w /\ i = Len(stack[w]) + 1 /\ stack'[v][i] = EnterFrame(NextChild(w))
      BY <1>0, <1>4, PlacesDescended
    <3> QED BY <3>1, <3>2
  <2>3. created[NextChild(w)] = 0
    BY <1>4, AdvancedCreates DEF Descended
  <2>4. /\ \A i \in DOMAIN queue : queue[i] # NextChild(w)
        /\ \A v \in Workers : \A i \in DOMAIN stack[v] : stack[v][i].node # NextChild(w)
    BY <2>3, HeldIsCreated
  <2> QED BY SMTT(30), <2>1, <2>2, <2>4 DEF HeldOnce
<1>5. CASE HandedOver(w)
  <2>1. \A v \in Workers : \A i \in DOMAIN stack'[v] :
          i \in DOMAIN stack[v] /\ stack'[v][i].node = stack[v][i].node
    BY Zenon, <1>0, <1>5, PlacesKept
  <2>2. created[NextChild(w)] = 0 /\ NextChild(w) \in Node
    BY <1>5, AdvancedCreates DEF HandedOver
  <2>3. \A i \in DOMAIN queue' : \/ i \in DOMAIN queue /\ queue'[i] = queue[i]
                                 \/ i = Len(queue) + 1 /\ queue'[i] = NextChild(w)
    BY <1>1, <1>5, <2>2 DEF HandedOver
  <2>4. /\ \A i \in DOMAIN queue : queue[i] # NextChild(w)
        /\ \A v \in Workers : \A i \in DOMAIN stack[v] : stack[v][i].node # NextChild(w)
    BY <2>2, HeldIsCreated
  <2> QED BY <2>1, <2>3, <2>4 DEF HeldOnce
<1> QED BY <1>2, <1>3, <1>4, <1>5, StackMoves DEF QuietStep

(* Entering a frame: the cursor is still zero.                             *)
LEMMA EnterMoves ==
    ASSUME PoolInvariant, FramesFollowTree, NEW w \in Workers, Step(w)
    PROVE  \A v \in Workers : pc'[v] = "enter" => Top(v)'.cursor = 0
<1>0. TypeOK
  BY DEF PoolInvariant
<1>a. pc \in [Workers -> PCs]
  BY <1>0 DEF TypeOK
<1> SUFFICES ASSUME NEW v \in Workers, pc'[v] = "enter" PROVE Top(v)'.cursor = 0
  OBVIOUS
<1>1. CASE v # w
  BY <1>0, <1>1, Others DEF FramesFollowTree, Top
<1>2. CASE v = w
  <2>1. stack'[w] = stack[w] /\ Top(w).cursor = 0
    <3> USE DEF Goto
    <3>1. CASE Acquire(w)
      BY Zenon, <1>2, <1>a, <3>1 DEF Acquire, LockQueue, Reacquire, FinishTask,
         TryEnqueue
    <3>2. CASE TakeStep(w)
      BY Zenon, <1>2, <1>a, <3>2 DEF TakeStep, Recheck, Park, Leave, PopTask,
         CompleteNotify, NotifyAllGoto
    <3>3. CASE ExploreStep(w)
      <4>1. CASE NotifyOne(w)
        BY Zenon, <1>2, <1>a, <4>1 DEF NotifyOne, NotifyOneGoto
      <4>2. CASE ~NotifyOne(w)
        BY ZenonT(40), <1>2, <1>a, <3>3, <4>2 DEF ExploreStep, ProcessTask, ExploreDone, Unwind,
           DispatchEnter, EnterStopped, EnterNode, ResumeExhausted, ResumeFrame,
           SpawnCheck, OfferChild, Handling
      <4> QED BY <4>1, <4>2
    <3>4. CASE PublishStep(w)
      BY ZenonT(40), <1>2, <1>a, <3>4 DEF PublishStep, PublishCheck, CountTerminal, Callback,
         StopStore, StopNotify, NotifyAllGoto
    <3>5. CASE FailStep(w)
      BY Zenon, <1>2, <1>a, <3>5 DEF FailStep, NotifyFatalError, RecordException,
         RecordNotify, NotifyAllGoto
    <3>6. CASE SpuriousWake(w) \/ PollAgain(w)
      BY ZenonT(40), <1>2, <1>a, <3>6 DEF SpuriousWake, PollAgain, FramesFollowTree
    <3> QED BY Zenon, <3>1, <3>2, <3>3, <3>4, <3>5, <3>6 DEF Step, WorkerStep
  <2> QED BY Zenon, <1>2, <2>1 DEF Top
<1> QED BY <1>1, <1>2

(* A frame elsewhere is not affected by a new alternative.                 *)
LEMMA FrameUnaffected ==
    ASSUME PoolInvariant, HeldOnce, FramesFollowTree, NEW w \in Workers, Advanced(w),
           NEW f, f.node \in Node, f.node # TopNode(w), FollowsTree(f, created)
    PROVE  FollowsTree(f, created')
<1> DEFINE child == NextChild(w)
<1>1. /\ created[child] = 0 /\ child \in Node
      /\ \A n \in Node : created'[n] = IF n = child THEN 1 ELSE created[n]
      /\ \A c \in DOMAIN Children[f.node] :
           Children[f.node][c] \in Node /\ Children[f.node][c] # child
  BY AdvancedCreates
<1> HIDE DEF child
<1>2. created'[f.node] = 1
  BY <1>1 DEF FollowsTree
<1>3. \A c \in DOMAIN Children[f.node] :
         created'[Children[f.node][c]] = created[Children[f.node][c]]
  BY <1>1
<1> QED BY ZenonT(40), <1>2, <1>3 DEF FollowsTree

(* The frame that advanced, and the new alternative.                       *)
LEMMA AdvancedFollowsTree ==
    ASSUME PoolInvariant, HeldOnce, FramesFollowTree, NEW w \in Workers, Advanced(w)
    PROVE  /\ \A f : f.node = TopNode(w) /\ f.cursor = Top(w).cursor + 1 => FollowsTree(f, created')
           /\ FollowsTree(EnterFrame(NextChild(w)), created')
           /\ \A n \in Node : created'[n] \in {0, 1}
           /\ \A n \in Node : created'[n] = 0 =>
                 \A c \in DOMAIN Children[n] : created'[Children[n][c]] = 0
<1> DEFINE child == NextChild(w)
           m == TopNode(w)
           k == Top(w).cursor
<1>1. /\ child \in Node /\ m \in Node
      /\ created[child] = 0 /\ created[m] = 1
      /\ \A n \in Node : created'[n] = IF n = child THEN 1 ELSE created[n]
      /\ \A n \in Node : \A c \in DOMAIN Children[n] :
           Children[n][c] \in Node /\ (Children[n][c] = child <=> n = m /\ c = k)
      /\ k \in DOMAIN Children[m] /\ k \in Nat
  BY Zenon, AdvancedCreates
<1>2. FollowsTree(Top(w), created)
  <2>1. stack[w] \in Seq(Frame) /\ stack[w] # <<>>
    BY DEF PoolInvariant, TypeOK, Advanced
  <2>2. Len(stack[w]) \in DOMAIN stack[w]
    BY <2>1
  <2> QED BY Zenon, <2>2 DEF FramesFollowTree, Top
<1>3. \A c \in DOMAIN Children[m] : created[Children[m][c]] = IF c < k THEN 1 ELSE 0
  BY <1>2 DEF FollowsTree, TopNode
<1>4. \A c \in DOMAIN Children[m] : c \in Nat
  <2>1. Children[m] \in Seq(Node)
    BY Zenon, <1>1, TreeAssumption
  <2> QED BY <2>1
<1>a. /\ \A n \in Node : created[n] \in {0, 1}
      /\ \A n \in Node : created[n] = 0 => \A c \in DOMAIN Children[n] : created[Children[n][c]] = 0
  BY DEF FramesFollowTree
<1> HIDE DEF child, m, k
<1>5. \A c \in DOMAIN Children[m] :
        created'[Children[m][c]] = IF c < k + 1 THEN 1 ELSE 0
  BY <1>1, <1>3, <1>4
<1>6. created'[m] = 1 /\ Children[m] # <<>>
  BY <1>1
<1>7. \A f : f.node = m /\ f.cursor = k + 1 => FollowsTree(f, created')
  <2> SUFFICES ASSUME NEW f, f.node = m, f.cursor = k + 1 PROVE FollowsTree(f, created')
    OBVIOUS
  <2> QED BY <1>5, <1>6 DEF FollowsTree
<1>8. FollowsTree(EnterFrame(child), created')
  <2>1. \A c \in DOMAIN Children[child] : c \in Nat
    <3>1. Children[child] \in Seq(Node)
      BY Zenon, <1>1, TreeAssumption
    <3> QED BY <3>1
  <2>2. child # m
    BY <1>1
  <2>3. \A c \in DOMAIN Children[child] : created'[Children[child][c]] = 0
    BY <1>1, <1>a, <2>2
  <2>4. EnterFrame(child).node = child /\ EnterFrame(child).cursor = 0
    BY DEF EnterFrame
  <2>5. \A c \in DOMAIN Children[child] : ~(c < 0)
    BY <2>1
  <2> QED BY <1>1, <2>3, <2>4, <2>5 DEF FollowsTree
<1>9. \A n \in Node : created'[n] \in {0, 1}
  BY <1>1, <1>a
<1>10. \A n \in Node : created'[n] = 0 => \A c \in DOMAIN Children[n] : created'[Children[n][c]] = 0
  BY <1>1, <1>a
<1> QED BY Zenon, <1>7, <1>8, <1>9, <1>10 DEF child, m, k

(* A frame that was just entered points to its first alternative.          *)
LEMMA SameFrameFollowsTree ==
    ASSUME NEW f, NEW g, f.node \in Node, f.cursor \in Nat, SameFrame(f, g), FollowsTree(f, created),
           created' = created
    PROVE  FollowsTree(g, created')
<1>1. Children[f.node] \in Seq(Node)
  BY TreeAssumption
<1>2. \A c \in DOMAIN Children[f.node] : c \in Nat /\ c >= 1
  BY <1>1
<1>3. CASE g.cursor = f.cursor
  BY <1>3 DEF SameFrame, FollowsTree
<1>4. CASE f.cursor = 0 /\ g.cursor = 1 /\ Children[f.node] # <<>>
  <2>1. \A c \in DOMAIN Children[f.node] : ~(c < 0) /\ ~(c < 1)
    BY <1>2
  <2> QED BY <1>4, <2>1 DEF SameFrame, FollowsTree
<1> QED BY <1>3, <1>4 DEF SameFrame

(* Below the top there are only Resume frames.                             *)
LEMMA StepBelowTop ==
    ASSUME PoolInvariant, PoolInvariant', FramesFollowTree, EndingsJustified,
           NEW w \in Workers, Step(w)
    PROVE  \A v \in Workers : \A i \in 1 .. Len(stack'[v]) - 1 : stack'[v][i].cursor > 0
<1>0. TypeOK /\ TypeOK'
  BY DEF PoolInvariant
<1>1. stack \in [Workers -> Seq(Frame)] /\ stack' \in [Workers -> Seq(Frame)]
  BY Zenon, <1>0 DEF TypeOK
<1> SUFFICES ASSUME NEW v \in Workers, NEW i \in 1 .. Len(stack'[v]) - 1
             PROVE  stack'[v][i].cursor > 0
  OBVIOUS
<1>2. CASE v # w
  BY ZenonT(40), <1>0, <1>2, Others DEF FramesFollowTree
<1>3. CASE v = w
  <2>0. /\ Len(stack[w]) \in Nat /\ Len(stack'[w]) \in Nat
        /\ DOMAIN stack'[w] = 1 .. Len(stack'[w]) /\ stack[w] \in Seq(Frame)
    BY <1>1
  <2>1. CASE Quiet(w)
    <3>1. i \in DOMAIN stack'[w] /\ i \in 1 .. Len(stack[w]) - 1
      BY <1>3, <2>0, <2>1 DEF Quiet
    <3>2. SameFrame(stack[w][i], stack'[w][i]) /\ stack[w][i].cursor > 0
      BY Zenon, <2>1, <3>1 DEF Quiet, FramesFollowTree
    <3> QED BY <1>3, <3>2 DEF SameFrame
  <2>2. CASE Took(w)
    <3>1. Len(stack'[w]) = 1
      BY <2>2 DEF Took
    <3> QED BY <1>3, <3>1
  <2>3. CASE Advanced(w) /\ Len(stack'[w]) <= Len(stack[w]) + 1
    <3>1. Top(w).cursor \in Nat
      BY Zenon, <2>0, <2>3, TopIsFrame DEF Advanced, Top
    <3>2. CASE i = Len(stack[w])
      BY <1>3, <2>3, <3>1, <3>2 DEF Advanced
    <3>3. CASE i # Len(stack[w])
      <4>1. i \in 1 .. Len(stack[w]) - 1
        BY <1>3, <2>0, <2>3, <3>3
      <4> QED BY Zenon, <1>3, <2>3, <4>1 DEF Advanced, FramesFollowTree
    <3> QED BY Zenon, <3>2, <3>3
  <2>4. Descended(w) \/ HandedOver(w) => Advanced(w) /\ Len(stack'[w]) <= Len(stack[w]) + 1
    BY <2>0 DEF Descended, HandedOver
  <2> QED BY Zenon, <2>1, <2>2, <2>3, <2>4, StackMoves DEF QuietStep
<1> QED BY <1>2, <1>3

(* Frames and queue keep following the tree.                               *)
LEMMA StepFollowsTree ==
    ASSUME PoolInvariant, PoolInvariant', HeldOnce, FramesFollowTree,
           EndingsJustified, NEW w \in Workers, Step(w)
    PROVE  FramesFollowTree'
<1>0. TypeOK /\ TypeOK'
  BY DEF PoolInvariant
<1>1. /\ stack \in [Workers -> Seq(Frame)] /\ stack' \in [Workers -> Seq(Frame)]
      /\ queue \in Seq(Node) /\ queue' \in Seq(Node)
  BY Zenon, <1>0 DEF TypeOK
<1>2. /\ \A v \in Workers : \A i \in DOMAIN stack[v] :
           stack[v][i].node \in Node /\ stack[v][i].cursor \in Nat
      /\ \A i \in DOMAIN queue : EnterFrame(queue[i]).node = queue[i] /\ queue[i] \in Node
  <2>1. \A v \in Workers : \A i \in DOMAIN stack[v] : stack[v][i] \in Frame
    BY <1>1
  <2>2. \A i \in DOMAIN queue : queue[i] \in Node
    BY <1>1
  <2> QED BY Zenon, <2>1, <2>2 DEF Frame, EnterFrame
<1>3. \A v \in Workers : pc'[v] = "enter" => Top(v)'.cursor = 0
  BY Zenon, EnterMoves
<1> SUFFICES /\ \A i \in DOMAIN queue' : FollowsTree(EnterFrame(queue'[i]), created')
             /\ \A v \in Workers : \A i \in DOMAIN stack'[v] : FollowsTree(stack'[v][i], created')
             /\ \A n \in Node : created'[n] \in {0, 1}
             /\ \A n \in Node : created'[n] = 0 =>
                   \A c \in DOMAIN Children[n] : created'[Children[n][c]] = 0
  BY Zenon, <1>3, StepBelowTop DEF FramesFollowTree, Top
<1>4. CASE Quiet(w) \/ Took(w)
  <2>1. created' = created
    BY Zenon, <1>4 DEF Quiet, Took
  <2>2. \A f : FollowsTree(f, created) => FollowsTree(f, created')
    BY Zenon, <2>1 DEF FollowsTree
  <2>3. /\ \A n \in Node : created'[n] \in {0, 1}
        /\ \A n \in Node : created'[n] = 0 =>
             \A c \in DOMAIN Children[n] : created'[Children[n][c]] = 0
    BY Zenon, <2>1 DEF FramesFollowTree
  <2>4. \A i \in DOMAIN queue' : \E j \in DOMAIN queue : queue'[i] = queue[j]
    <3>1. CASE queue' = queue
      BY Zenon, <3>1
    <3>2. CASE queue # <<>> /\ queue' = Tail(queue)
      <4>1. \A i \in DOMAIN queue' : i + 1 \in DOMAIN queue /\ queue'[i] = queue[i + 1]
        BY <1>1, <3>2
      <4> QED BY Zenon, <4>1
    <3> QED BY <1>4, <3>1, <3>2 DEF Quiet, Took
  <2>5. \A i \in DOMAIN queue' : FollowsTree(EnterFrame(queue'[i]), created')
    BY Zenon, <2>2, <2>4 DEF FramesFollowTree
  <2>6. ASSUME NEW v \in Workers, NEW i \in DOMAIN stack'[v] PROVE FollowsTree(stack'[v][i], created')
    <3>1. CASE v # w
      <4>1. stack'[v] = stack[v]
        BY Zenon, <1>0, <3>1, Others
      <4>2. FollowsTree(stack[v][i], created)
        BY Zenon, <2>6, <4>1 DEF FramesFollowTree
      <4> QED BY Zenon, <2>2, <4>1, <4>2
    <3>2. CASE v = w /\ Quiet(w)
      <4>1. i \in DOMAIN stack[w] /\ SameFrame(stack[w][i], stack'[w][i])
        BY <1>1, <2>6, <3>2 DEF Quiet
      <4>2. FollowsTree(stack[w][i], created) /\ stack[w][i].node \in Node /\ stack[w][i].cursor \in Nat
        BY Zenon, <1>2, <4>1 DEF FramesFollowTree
      <4> QED BY Zenon, <2>1, <3>2, <4>1, <4>2, SameFrameFollowsTree
    <3>3. CASE v = w /\ Took(w)
      <4>1. 1 \in DOMAIN queue /\ Head(queue) = queue[1]
        BY <1>1, <3>3 DEF Took
      <4>2. stack'[v][i] = EnterFrame(queue[1])
        BY <2>6, <3>3, <4>1 DEF Took
      <4>3. FollowsTree(EnterFrame(queue[1]), created)
        BY Zenon, <4>1 DEF FramesFollowTree
      <4> QED BY Zenon, <2>2, <4>2, <4>3
    <3> QED BY Zenon, <1>4, <3>1, <3>2, <3>3
  <2> QED BY ZenonT(40), <2>3, <2>5, <2>6
<1>5. CASE Descended(w) \/ HandedOver(w)
  <2>0. Advanced(w)
    BY Zenon, <1>5 DEF Descended, HandedOver
  <2>1. /\ \A f : f.node = TopNode(w) /\ f.cursor = Top(w).cursor + 1 => FollowsTree(f, created')
        /\ FollowsTree(EnterFrame(NextChild(w)), created')
        /\ \A n \in Node : created'[n] \in {0, 1}
        /\ \A n \in Node : created'[n] = 0 =>
             \A c \in DOMAIN Children[n] : created'[Children[n][c]] = 0
    BY ZenonT(40), <2>0, AdvancedFollowsTree
  <2>a. Len(stack[w]) \in DOMAIN stack[w]
    BY <1>1, <2>0 DEF Advanced
  <2>2. \A i \in DOMAIN queue : FollowsTree(EnterFrame(queue[i]), created')
    <3> SUFFICES ASSUME NEW i \in DOMAIN queue PROVE FollowsTree(EnterFrame(queue[i]), created')
      OBVIOUS
    <3>1. queue[i] # TopNode(w)
      BY Zenon, <2>a DEF HeldOnce, TopNode, Top
    <3>2. FollowsTree(EnterFrame(queue[i]), created)
      BY Zenon DEF FramesFollowTree
    <3> QED BY Zenon, <1>2, <2>0, <3>1, <3>2, FrameUnaffected
  <2>3. \A i \in DOMAIN queue' : FollowsTree(EnterFrame(queue'[i]), created')
    <3>1. NextChild(w) \in Node
      BY ZenonT(40), <2>0, AdvancedCreates
    <3>2. \A i \in DOMAIN queue' : \/ i \in DOMAIN queue /\ queue'[i] = queue[i]
                                   \/ queue'[i] = NextChild(w)
      <4>1. CASE queue' = queue
        BY Zenon, <4>1
      <4>2. CASE queue' = Append(queue, NextChild(w))
        BY <1>1, <3>1, <4>2
      <4> QED BY Zenon, <1>5, <4>1, <4>2 DEF Descended, HandedOver
    <3> QED BY ZenonT(40), <2>1, <2>2, <3>2
  <2>4. ASSUME NEW v \in Workers, NEW i \in DOMAIN stack[v], v # w \/ i # Len(stack[w])
        PROVE  FollowsTree(stack[v][i], created')
    <3>1. stack[v][i].node # TopNode(w)
      BY <2>4, <2>a DEF HeldOnce, TopNode, Top
    <3>2. FollowsTree(stack[v][i], created)
      BY Zenon, <2>4 DEF FramesFollowTree
    <3> QED BY <1>2, <2>0, <2>4, <3>1, <3>2, FrameUnaffected
  <2>5. ASSUME NEW v \in Workers, NEW i \in DOMAIN stack'[v] PROVE FollowsTree(stack'[v][i], created')
    <3>1. CASE v # w
      <4>1. stack'[v] = stack[v]
        BY <1>0, <3>1, Others
      <4> QED BY Zenon, <2>4, <2>5, <3>1, <4>1
    <3>2. CASE v = w
      <4>1. stack[w] \in Seq(Frame) /\ stack'[w] \in Seq(Frame)
        BY Zenon, <1>1
      <4>2. CASE i = Len(stack[w])
        BY ZenonT(40), <2>0, <2>1, <3>2, <4>2 DEF Advanced
      <4>3. CASE i \in 1 .. Len(stack[w]) - 1
        <5>1. stack'[w][i] = stack[w][i] /\ i \in DOMAIN stack[w] /\ i # Len(stack[w])
          BY <2>0, <4>1, <4>3 DEF Advanced
        <5> QED BY ZenonT(40), <2>4, <3>2, <5>1
      <4>4. CASE Descended(w) /\ i = Len(stack[w]) + 1
        BY <2>1, <3>2, <4>4 DEF Descended
      <4>5. i \in 1 .. Len(stack[w]) \/ (Descended(w) /\ i = Len(stack[w]) + 1)
        BY <1>5, <2>5, <3>2, <4>1 DEF Descended, HandedOver
      <4>6. i \in 1 .. Len(stack[w]) - 1 \/ i = Len(stack[w]) \/ (Descended(w) /\ i = Len(stack[w]) + 1)
        BY <4>1, <4>5
      <4> QED BY <4>2, <4>3, <4>4, <4>6
    <3> QED BY Zenon, <3>1, <3>2
  <2> QED BY ZenonT(40), <2>1, <2>3, <2>5
<1> QED BY ZenonT(40), <1>4, <1>5, StackMoves DEF QuietStep

-----------------------------------------------------------------------------
(* Around the callback: a counted terminal stays on top until it is popped. *)
LEMMA CallbackMoves ==
    ASSUME PoolInvariant, NEW w \in Workers, Step(w)
    PROVE  /\ pc[w] \in AfterCount =>
                \/ pc'[w] \in AfterCount /\ stack'[w] = stack[w]
                \/ Len(stack'[w]) < Len(stack[w])
           /\ pc'[w] \in {"callback", "stop_store", "stop_notify"} =>
                \/ pc[w] = "count"
                \/ pc[w] \in {"callback", "stop_store"} /\ stack'[w] = stack[w]
<1>0. TypeOK /\ FrameFits(w)
  BY DEF PoolInvariant, FramesFit
<1>a. pc \in [Workers -> PCs] /\ stack \in [Workers -> Seq(Frame)] /\ stack[w] \in Seq(Frame)
  BY Zenon, <1>0 DEF TypeOK
<1>b. pc[w] \in AfterCount => stack[w] # <<>>
  BY Zenon, <1>0 DEF FrameFits, Framed, AfterCount
<1>c. ASSUME stack[w] # <<>>, PopFrame(w) PROVE Len(stack'[w]) < Len(stack[w])
  BY <1>0, <1>c, PoppedFrames
<1>d. ASSUME stack[w] # <<>>, SetStack(w, <<>>) PROVE Len(stack'[w]) < Len(stack[w])
  <2>1. stack'[w] = <<>>
    BY Zenon, <1>a, <1>d DEF SetStack
  <2>2. Len(stack[w]) \in Nat \ {0} /\ Len(<<>>) = 0
    BY <1>a, <1>d
  <2> QED BY <2>1, <2>2
<1> USE DEF Goto, AfterCount
<1>1. CASE Acquire(w)
  BY <1>a, <1>1 DEF Acquire, LockQueue, Reacquire, FinishTask, TryEnqueue
<1>2. CASE TakeStep(w)
  BY <1>a, <1>2 DEF TakeStep, Recheck, Park, Leave, PopTask, CompleteNotify, NotifyAllGoto
<1>3. CASE ExploreStep(w)
  <2>1. CASE NotifyOne(w)
    BY Zenon, <1>a, <2>1 DEF NotifyOne, NotifyOneGoto
  <2>2. CASE ~NotifyOne(w)
    BY ZenonT(40), <1>a, <1>3, <2>2 DEF ExploreStep, ProcessTask, ExploreDone, Unwind,
       DispatchEnter, EnterStopped, EnterNode, ResumeExhausted, ResumeFrame,
       SpawnCheck, OfferChild, Handling
  <2> QED BY Zenon, <2>1, <2>2
<1>4. CASE PublishStep(w)
  BY Zenon, <1>a, <1>b, <1>c, <1>4 DEF PublishStep, PublishCheck, CountTerminal,
     Callback, StopStore, StopNotify, NotifyAllGoto
<1>5. CASE FailStep(w)
  BY <1>a, <1>b, <1>d, <1>5 DEF FailStep, NotifyFatalError, RecordException, RecordNotify,
     NotifyAllGoto
<1>6. CASE SpuriousWake(w) \/ PollAgain(w)
  BY Zenon, <1>a, <1>6 DEF SpuriousWake, PollAgain
<1> QED BY <1>1, <1>2, <1>3, <1>4, <1>5, <1>6 DEF Step, WorkerStep

(* Where the places after a step come from.                                *)
LEMMA PlacesFrom ==
    ASSUME PoolInvariant, PoolInvariant', FramesFollowTree, EndingsJustified,
           NEW w \in Workers, Step(w)
    PROVE  /\ \A v \in Workers : \A i \in DOMAIN stack'[v] :
                \/ i \in DOMAIN stack[v] /\ stack'[v][i].node = stack[v][i].node
                \/ v = w /\ \E j \in DOMAIN queue : stack'[v][i].node = queue[j]
                \/ v = w /\ Advanced(w) /\ stack'[v][i].node = NextChild(w)
           /\ \A i \in DOMAIN queue' :
                \/ \E j \in DOMAIN queue : queue'[i] = queue[j]
                \/ Advanced(w) /\ queue'[i] = NextChild(w)
           /\ created' = created \/ Advanced(w)
<1>0. TypeOK /\ TypeOK'
  BY DEF PoolInvariant
<1>1. queue \in Seq(Node)
  BY Zenon, <1>0 DEF TypeOK
<1>2. CASE Quiet(w)
  BY <1>0, <1>2, PlacesKept DEF Quiet
<1>3. CASE Took(w)
  <2>1. \A i \in DOMAIN queue' : \E j \in DOMAIN queue : queue'[i] = queue[j]
    <3>1. \A i \in DOMAIN queue' : i + 1 \in DOMAIN queue /\ queue'[i] = queue[i + 1]
      BY <1>1, <1>3 DEF Took
    <3> QED BY <3>1
  <2>2. \A v \in Workers : v # w => stack'[v] = stack[v]
    BY Zenon, <1>0, Others
  <2>3. \A i \in DOMAIN stack'[w] : \E j \in DOMAIN queue : stack'[w][i].node = queue[j]
    <3>1. 1 \in DOMAIN queue /\ Head(queue) = queue[1]
      BY <1>1, <1>3 DEF Took
    <3>2. \A i \in DOMAIN stack'[w] : stack'[w][i] = EnterFrame(queue[1])
      BY <1>3, <3>1 DEF Took
    <3>3. EnterFrame(queue[1]).node = queue[1]
      BY Zenon DEF EnterFrame
    <3> QED BY <3>1, <3>2, <3>3
  <2>4. created' = created
    BY Zenon, <1>3 DEF Took
  <2> QED BY <2>1, <2>2, <2>3, <2>4
<1>4. CASE Descended(w)
  <2>1. EnterFrame(NextChild(w)).node = NextChild(w)
    BY Zenon DEF EnterFrame
  <2>2. Advanced(w) /\ queue' = queue
    BY Zenon, <1>4 DEF Descended
  <2>3. \A v \in Workers : \A i \in DOMAIN stack'[v] :
          \/ i \in DOMAIN stack[v] /\ stack'[v][i].node = stack[v][i].node
          \/ v = w /\ i = Len(stack[w]) + 1 /\ stack'[v][i] = EnterFrame(NextChild(w))
    BY Zenon, <1>0, <1>4, PlacesDescended
  <2> QED BY <2>1, <2>2, <2>3
<1>5. CASE HandedOver(w)
  <2>1. Advanced(w) /\ queue' = Append(queue, NextChild(w))
    BY Zenon, <1>5 DEF HandedOver
  <2>2. \A i \in DOMAIN queue' : \/ i \in DOMAIN queue /\ queue'[i] = queue[i]
                                 \/ queue'[i] = NextChild(w)
    BY <1>1, <2>1
  <2>3. \A v \in Workers : \A i \in DOMAIN stack'[v] :
          i \in DOMAIN stack[v] /\ stack'[v][i].node = stack[v][i].node
    BY Zenon, <1>0, <1>5, PlacesKept
  <2> QED BY Zenon, <2>1, <2>2, <2>3
<1> QED BY Zenon, <1>2, <1>3, <1>4, <1>5, StackMoves DEF QuietStep

(* A terminal is counted once, while it is on top.                         *)
LEMMA StepCounts ==
    ASSUME PoolInvariant, PoolInvariant', HeldOnce, FramesFollowTree, CountsFollowFrames,
           EndingsJustified, NEW w \in Workers, Step(w)
    PROVE  CountsFollowFrames'
<1>0. TypeOK /\ TypeOK' /\ FramesFit /\ FramesFit'
  BY DEF PoolInvariant
<1>a. /\ stack \in [Workers -> Seq(Frame)] /\ stack' \in [Workers -> Seq(Frame)]
      /\ pc \in [Workers -> PCs]
      /\ counted \in [Terminal -> Nat] /\ created \in [Node -> Nat]
  BY Zenon, <1>0 DEF TypeOK
<1>b. \A v \in Workers : pc[v] \in {"callback", "stop_store", "stop_notify", "count"} =>
         /\ Len(stack[v]) \in DOMAIN stack[v]
         /\ TopNode(v) \in Terminal
         /\ TopNode(v) = stack[v][Len(stack[v])].node
  <2> SUFFICES ASSUME NEW v \in Workers,
                      pc[v] \in {"callback", "stop_store", "stop_notify", "count"}
               PROVE  /\ Len(stack[v]) \in DOMAIN stack[v]
                      /\ TopNode(v) \in Terminal
                      /\ TopNode(v) = stack[v][Len(stack[v])].node
    OBVIOUS
  <2>1. stack[v] # <<>> /\ TopNode(v) \in Terminal
    BY Zenon, <1>0 DEF FramesFit, FrameFits, Framed, Publishing
  <2>2. stack[v] \in Seq(Frame)
    BY Zenon, <1>a
  <2> QED BY <2>1, <2>2 DEF TopNode, Top
<1>1. CASE Counts(w)
  <2>1. pc[w] = "count" /\ pc'[w] = "callback" /\ stack' = stack /\ queue' = queue
        /\ created' = created
    BY Zenon, <1>1 DEF Counts
  <2>2. /\ Len(stack[w]) \in DOMAIN stack[w]
        /\ TopNode(w) \in Terminal
        /\ TopNode(w) = stack[w][Len(stack[w])].node
    BY Zenon, <1>b, <2>1
  <2>3. counted[TopNode(w)] = 0
    BY Zenon, <2>1, <2>2 DEF CountsFollowFrames, AfterCount
  <2>4. \A n \in Terminal : counted'[n] = IF n = TopNode(w) THEN 1 ELSE counted[n]
    <3>1. counted \in [Terminal -> Nat]
      BY Zenon, <1>a
    <3>2. counted' = [counted EXCEPT ![TopNode(w)] = @ + 1]
      BY Zenon, <1>1 DEF Counts
    <3> QED BY <2>3, <3>1, <3>2
  <2>5. created[TopNode(w)] = 1
    BY Zenon, <2>2, HeldIsCreated
  <2>6. \A n \in Terminal : counted'[n] <= created'[n]
    <3>1. \A n \in Terminal : counted[n] <= created[n]
      BY Zenon DEF CountsFollowFrames
    <3>2. 1 <= 1
      OBVIOUS
    <3> QED BY Zenon, <2>1, <2>4, <2>5, <3>1, <3>2
  <2>7. \A i \in DOMAIN queue' : queue'[i] \in Terminal => counted'[queue'[i]] = 0
    <3> SUFFICES ASSUME NEW i \in DOMAIN queue, queue[i] \in Terminal
                 PROVE  counted'[queue[i]] = 0
      BY Zenon, <2>1
    <3>1. counted[queue[i]] = 0
      BY Zenon DEF CountsFollowFrames
    <3>2. \A j \in DOMAIN stack[w] : queue[i] # stack[w][j].node
      BY Zenon DEF HeldOnce
    <3>3. queue[i] # stack[w][Len(stack[w])].node
      BY Zenon, <2>2, <3>2
    <3> QED BY Zenon, <2>2, <2>4, <3>1, <3>3
  <2>8. ASSUME NEW v \in Workers, NEW i \in DOMAIN stack'[v], stack'[v][i].node \in Terminal
        PROVE  \/ counted'[stack'[v][i].node] = 0
               \/ i = Len(stack'[v]) /\ pc'[v] \in AfterCount
    <3>1. CASE v = w /\ i = Len(stack[w])
      BY Zenon, <2>1, <3>1 DEF AfterCount
    <3>2. CASE ~(v = w /\ i = Len(stack[w]))
      <4>1. stack[v][i].node # TopNode(w)
        <5>a. i \in DOMAIN stack[v]
          BY Zenon, <2>1
        <5>1. \A j \in DOMAIN stack[w] :
                 stack[v][i].node = stack[w][j].node => v = w /\ i = j
          BY Zenon, <5>a DEF HeldOnce
        <5>2. stack[v][i].node # stack[w][Len(stack[w])].node
          BY Zenon, <2>2, <3>2, <5>1
        <5> QED BY Zenon, <2>2, <5>2
      <4>2. counted'[stack'[v][i].node] = counted[stack[v][i].node]
        BY Zenon, <2>1, <2>4, <2>8, <4>1
      <4>3. \/ counted[stack[v][i].node] = 0
            \/ i = Len(stack[v]) /\ pc[v] \in AfterCount
        BY Zenon, <2>1, <2>8 DEF CountsFollowFrames
      <4>4. pc[v] \in AfterCount => pc'[v] \in AfterCount
        BY Zenon, <1>0, <2>1, Others DEF AfterCount
      <4> QED BY Zenon, <2>1, <4>2, <4>3, <4>4
    <3> QED BY <3>1, <3>2
  <2>9. ASSUME NEW v \in Workers, pc'[v] \in {"callback", "stop_store", "stop_notify"}
        PROVE  counted'[TopNode(v)'] = 1
    <3>1. TopNode(v)' = TopNode(v)
      BY Zenon, <2>1 DEF TopNode, Top
    <3>2. CASE v = w
      BY Zenon, <2>2, <2>4, <3>1, <3>2
    <3>3. CASE v # w
      <4>1. pc[v] \in {"callback", "stop_store", "stop_notify"}
        BY Zenon, <1>0, <2>9, <3>3, Others
      <4>2. counted[TopNode(v)] = 1 /\ TopNode(v) \in Terminal
        BY Zenon, <1>b, <4>1 DEF CountsFollowFrames
      <4>3. TopNode(v) # TopNode(w)
        BY <2>3, <4>2
      <4> QED BY Zenon, <2>4, <3>1, <4>2, <4>3
    <3> QED BY Zenon, <3>2, <3>3
  <2> QED BY Zenon, <2>6, <2>7, <2>8, <2>9 DEF CountsFollowFrames, TopNode, Top
<1>2. CASE pc[w] # "count" /\ counted' = counted
  <2>0. /\ \A v \in Workers : \A i \in DOMAIN stack'[v] :
             \/ i \in DOMAIN stack[v] /\ stack'[v][i].node = stack[v][i].node
             \/ v = w /\ \E j \in DOMAIN queue : stack'[v][i].node = queue[j]
             \/ v = w /\ Advanced(w) /\ stack'[v][i].node = NextChild(w)
        /\ \A i \in DOMAIN queue' :
             \/ \E j \in DOMAIN queue : queue'[i] = queue[j]
             \/ Advanced(w) /\ queue'[i] = NextChild(w)
        /\ created' = created \/ Advanced(w)
    BY Zenon, PlacesFrom
  <2>1. Advanced(w) => /\ \A n \in Node : created[n] <= created'[n]
                       /\ NextChild(w) \in Terminal => counted[NextChild(w)] = 0
    <3> SUFFICES ASSUME Advanced(w)
                 PROVE  /\ \A n \in Node : created[n] <= created'[n]
                        /\ NextChild(w) \in Terminal => counted[NextChild(w)] = 0
      OBVIOUS
    <3>1. /\ NextChild(w) \in Node /\ created[NextChild(w)] = 0
          /\ \A n \in Node : created'[n] = IF n = NextChild(w) THEN 1 ELSE created[n]
      BY Zenon, AdvancedCreates
    <3>2. \A n \in Node : created[n] <= created'[n]
      <4> TAKE n \in Node
      <4>1. created[n] \in Nat
        BY Zenon, <1>a
      <4> QED BY <3>1, <4>1
    <3>3. NextChild(w) \in Terminal => counted[NextChild(w)] = 0
      BY <1>a, <3>1 DEF CountsFollowFrames
    <3> QED BY Zenon, <3>2, <3>3
  <2>2. \A n \in Terminal : counted'[n] <= created'[n]
    <3>1. \A n \in Terminal : n \in Node
      BY Zenon DEF Terminal
    <3>2. \A n \in Terminal : created[n] <= created'[n]
      BY <1>a, <2>0, <2>1, <3>1
    <3>3. \A n \in Terminal : counted[n] <= created[n]
      BY Zenon DEF CountsFollowFrames
    <3>4. \A n \in Terminal : counted[n] \in Nat /\ created[n] \in Nat /\ created'[n] \in Nat
      BY Zenon, <1>0, <1>a, <3>1 DEF TypeOK
    <3> QED BY <1>2, <3>2, <3>3, <3>4
  <2>3. \A i \in DOMAIN queue' : queue'[i] \in Terminal => counted'[queue'[i]] = 0
    BY Zenon, <1>2, <2>0, <2>1 DEF CountsFollowFrames
  <2>4. ASSUME NEW v \in Workers, NEW i \in DOMAIN stack'[v], stack'[v][i].node \in Terminal,
               counted'[stack'[v][i].node] # 0
        PROVE  i = Len(stack'[v]) /\ pc'[v] \in AfterCount
    <3>1. i \in DOMAIN stack[v] /\ stack'[v][i].node = stack[v][i].node
      BY <1>2, <2>0, <2>1, <2>4 DEF CountsFollowFrames
    <3>2. i = Len(stack[v]) /\ pc[v] \in AfterCount
      BY Zenon, <1>2, <2>4, <3>1 DEF CountsFollowFrames
    <3>3. CASE v # w
      BY Zenon, <1>0, <3>2, <3>3, Others DEF AfterCount
    <3>4. CASE v = w
      <4>1. stack[w] \in Seq(Frame) /\ stack'[w] \in Seq(Frame)
        BY Zenon, <1>a
      <4>2. i <= Len(stack'[w]) /\ Len(stack'[w]) \in Nat
        BY <2>4, <3>4, <4>1
      <4>3. \/ pc'[w] \in AfterCount /\ stack'[w] = stack[w]
            \/ Len(stack'[w]) < Len(stack[w])
        BY Zenon, <3>2, <3>4, CallbackMoves
      <4> QED BY <3>2, <3>4, <4>1, <4>2, <4>3
    <3> QED BY Zenon, <3>3, <3>4
  <2>5. ASSUME NEW v \in Workers, pc'[v] \in {"callback", "stop_store", "stop_notify"}
        PROVE  counted'[TopNode(v)'] = 1
    <3>1. CASE v # w
      <4>1. pc[v] = pc'[v] /\ stack'[v] = stack[v]
        BY Zenon, <1>0, <2>5, <3>1, Others
      <4> QED BY Zenon, <1>2, <2>5, <4>1 DEF CountsFollowFrames, TopNode, Top
    <3>2. CASE v = w
      <4>1. pc[w] \in {"callback", "stop_store"} /\ stack'[w] = stack[w]
        BY <1>2, <2>5, <3>2, CallbackMoves
      <4> QED BY Zenon, <1>2, <3>2, <4>1 DEF CountsFollowFrames, TopNode, Top
    <3> QED BY Zenon, <3>1, <3>2
  <2> QED BY Zenon, <2>2, <2>3, <2>4, <2>5 DEF CountsFollowFrames, TopNode, Top
<1> QED BY Zenon, <1>0, <1>1, <1>2, TallyMoves

-----------------------------------------------------------------------------
(* What has been dealt with stays dealt with.                              *)
LEMMA ExploredStays ==
    ASSUME PoolInvariant, PoolInvariant', HeldOnce, FramesFollowTree, CountsFollowFrames,
           EndingsJustified, NEW w \in Workers, Step(w), NEW n \in Node
    PROVE  /\ created[n] = 1 => created'[n] = 1
           /\ Explored(n) => Explored(n)'
<1>0. TypeOK
  BY Zenon DEF PoolInvariant
<1>1. \A m \in Node : created[m] = 1 => created'[m] = 1
  <2>1. CASE created' = created
    BY Zenon, <2>1
  <2>2. CASE Advanced(w)
    BY Zenon, <2>2, AdvancedCreates
  <2> QED BY Zenon, <2>1, <2>2, PlacesFrom
<1>2. \A m \in Terminal : counted[m] = 1 => counted'[m] = 1
  <2>1. CASE counted' = counted
    BY Zenon, <2>1
  <2>2. CASE Counts(w)
    <3>1. FrameFits(w) /\ pc[w] = "count" /\ stack[w] \in Seq(Frame)
      BY Zenon, <1>0, <2>2 DEF PoolInvariant, FramesFit, Counts, TypeOK
    <3>2. stack[w] # <<>> /\ TopNode(w) \in Terminal
      BY Zenon, <3>1 DEF FrameFits, Framed, Publishing
    <3>3. Len(stack[w]) \in DOMAIN stack[w]
      BY <3>1, <3>2
    <3>4. counted[TopNode(w)] = 0
      BY Zenon, <3>1, <3>2, <3>3 DEF CountsFollowFrames, AfterCount, TopNode, Top
    <3>5. counted \in [Terminal -> Nat]
      BY Zenon, <1>0 DEF TypeOK
    <3>6. counted' = [counted EXCEPT ![TopNode(w)] = @ + 1]
      BY Zenon, <2>2 DEF Counts
    <3>7. \A m \in Terminal : m # TopNode(w) => counted'[m] = counted[m]
      BY Zenon, <3>5, <3>6
    <3>8. 0 # 1
      OBVIOUS
    <3> QED BY Zenon, <3>4, <3>7, <3>8
  <2> QED BY Zenon, <1>0, <2>1, <2>2, TallyMoves
<1>3. ASSUME Explored(n) PROVE Explored(n)'
  <2>1. \A c \in DOMAIN Children[n] : Children[n][c] \in Node
    BY TreeAssumption
  <2>2. \A c \in DOMAIN Children[n] : created'[Children[n][c]] = 1
    BY Zenon, <1>1, <1>3, <2>1 DEF Explored
  <2>3. n \in Terminal => counted'[n] = 1
    BY Zenon, <1>2, <1>3 DEF Explored
  <2> QED BY Zenon, <2>2, <2>3 DEF Explored
<1> QED BY <1>1, <1>3

(* A frame that is dropped without a stop was explored.                    *)
LEMMA DroppedIsExplored ==
    ASSUME PoolInvariant, FramesFollowTree, CountsFollowFrames,
           NEW w \in Workers, stack[w] # <<>>,
           \/ Top(w).cursor > Len(Children[TopNode(w)])
           \/ Kind[TopNode(w)] = "pruned"
           \/ pc[w] \in {"callback", "stop_notify"}
    PROVE  Explored(TopNode(w))
<1>0. TypeOK /\ FrameFits(w)
  BY Zenon DEF PoolInvariant, FramesFit
<1>1. stack[w] \in Seq(Frame)
  BY Zenon, <1>0 DEF TypeOK
<1>2. TopNode(w) \in Node /\ Top(w).cursor \in Nat
  BY Zenon, <1>1, TopIsFrame DEF TopNode, Top
<1>3. FollowsTree(Top(w), created)
  <2>1. Len(stack[w]) \in DOMAIN stack[w]
    BY <1>1
  <2> QED BY Zenon, <2>1 DEF FramesFollowTree, Top
<1>4. Children[TopNode(w)] \in Seq(Node)
  BY Zenon, <1>2, TreeAssumption
<1>5. CASE Top(w).cursor > Len(Children[TopNode(w)])
  <2>1. Top(w).cursor > 0
    BY <1>2, <1>4, <1>5
  <2>2. Children[TopNode(w)] # <<>>
    BY <1>3, <2>1 DEF FollowsTree, TopNode
  <2>3. TopNode(w) \notin Terminal
    BY <1>2, <2>2, TreeAssumption DEF Terminal
  <2>4. \A c \in DOMAIN Children[TopNode(w)] : c < Top(w).cursor
    BY <1>2, <1>4, <1>5
  <2>5. \A c \in DOMAIN Children[TopNode(w)] : created[Children[TopNode(w)][c]] = 1
    BY <1>3, <2>4 DEF FollowsTree, TopNode
  <2> QED BY Zenon, <2>3, <2>5 DEF Explored
<1>6. CASE Kind[TopNode(w)] = "pruned"
  <2>1. Children[TopNode(w)] = <<>> /\ TopNode(w) \notin Terminal
    BY ZenonT(40), <1>2, <1>6, TreeAssumption DEF Terminal
  <2> QED BY <2>1 DEF Explored
<1>7. CASE pc[w] \in {"callback", "stop_notify"}
  <2>1. counted[TopNode(w)] = 1 /\ TopNode(w) \in Terminal
    BY <1>0, <1>7 DEF CountsFollowFrames, FrameFits, Publishing
  <2>2. Children[TopNode(w)] = <<>>
    BY Zenon, <1>2, <2>1, TreeAssumption DEF Terminal
  <2> QED BY <2>1, <2>2 DEF Explored
<1> QED BY Zenon, <1>5, <1>6, <1>7

(* A held node stays held, unless it was explored or the search stopped.   *)
LEMMA HeldMoves ==
    ASSUME PoolInvariant, PoolInvariant', FramesFollowTree, CountsFollowFrames,
           EndingsJustified, NEW w \in Workers, Step(w), ~stop',
           NEW n \in Node, Held(n)
    PROVE  Held(n)' \/ Explored(n)
<1>0. TypeOK /\ TypeOK'
  BY DEF PoolInvariant
<1>a. /\ stack \in [Workers -> Seq(Frame)] /\ stack' \in [Workers -> Seq(Frame)]
      /\ queue \in Seq(Node)
  BY ZenonT(40), <1>0 DEF TypeOK
<1>b. QuietStep(w) \/ Took(w) \/ Descended(w) \/ HandedOver(w)
  BY StackMoves
<1>1. ASSUME NEW i \in DOMAIN queue, queue[i] = n PROVE Held(n)'
  <2>1. CASE queue' = queue
    BY Zenon, <1>1, <2>1 DEF Held
  <2>2. CASE Took(w)
    <3>1. CASE i = 1
      <4>1. stack'[w] = <<EnterFrame(n)>>
        BY <1>a, <1>1, <2>2, <3>1 DEF Took
      <4>2. 1 \in DOMAIN stack'[w] /\ stack'[w][1].node = n
        BY <4>1 DEF EnterFrame
      <4> QED BY Zenon, <4>2 DEF Held
    <3>2. CASE i # 1
      <4>a. queue' = Tail(queue)
        BY Zenon, <2>2 DEF Took
      <4>1. i - 1 \in DOMAIN queue' /\ queue'[i - 1] = n
        BY <1>a, <1>1, <3>2, <4>a
      <4> QED BY Zenon, <4>1 DEF Held
    <3> QED BY Zenon, <3>1, <3>2
  <2>3. CASE queue' = Append(queue, NextChild(w))
    <3>1. i \in DOMAIN queue' /\ queue'[i] = n
      BY <1>a, <1>1, <2>3
    <3> QED BY Zenon, <3>1 DEF Held
  <2> QED BY Zenon, <1>b, <2>1, <2>2, <2>3 DEF QuietStep, Quiet, Descended, HandedOver
<1>2. ASSUME NEW v \in Workers, NEW i \in DOMAIN stack[v], stack[v][i].node = n, v # w
      PROVE  Held(n)'
  <2>1. stack'[v] = stack[v]
    BY Zenon, <1>0, <1>2, Others
  <2> QED BY Zenon, <1>2, <2>1 DEF Held
<1>3. ASSUME NEW i \in DOMAIN stack[w], stack[w][i].node = n
      PROVE  Held(n)' \/ Explored(n)
  <2>0. stack[w] \in Seq(Frame) /\ stack'[w] \in Seq(Frame) /\ stack[w] # <<>>
    BY <1>a, <1>3
  <2>1. CASE i \in DOMAIN stack'[w] /\ stack'[w][i].node = n
    BY Zenon, <2>1 DEF Held
  <2>2. CASE QuietStep(w)
    <3>1. CASE i \in DOMAIN stack'[w]
      BY <1>3, <2>1, <2>2, <3>1 DEF QuietStep, Quiet, SameFrame
    <3>2. CASE i \notin DOMAIN stack'[w]
      <4>1. Len(stack'[w]) # Len(stack[w])
        BY <1>3, <2>0, <3>2
      <4>2. /\ Len(stack'[w]) = Len(stack[w]) - 1
            /\ \/ Top(w).cursor > Len(Children[TopNode(w)])
               \/ Kind[TopNode(w)] = "pruned"
               \/ pc[w] \in {"callback", "stop_notify"}
        BY Zenon, <2>2, <4>1 DEF QuietStep, DropJustified
      <4>3. i = Len(stack[w])
        BY <1>3, <2>0, <3>2, <4>2
      <4>4. TopNode(w) = n
        BY Zenon, <1>3, <4>3 DEF TopNode, Top
      <4> QED BY Zenon, <2>0, <4>2, <4>4, DroppedIsExplored
    <3> QED BY Zenon, <3>1, <3>2
  <2>3. CASE Advanced(w) /\ Len(stack'[w]) >= Len(stack[w])
    <3>1. i \in DOMAIN stack'[w]
      BY <2>0, <2>3, <1>3
    <3>2. CASE i = Len(stack[w])
      BY Zenon, <1>3, <2>1, <2>3, <3>1, <3>2 DEF Advanced, TopNode, Top
    <3>3. CASE i # Len(stack[w])
      <4>1. i \in 1 .. Len(stack[w]) - 1
        BY <1>3, <2>0, <3>3
      <4> QED BY <1>3, <2>1, <2>3, <3>1, <4>1 DEF Advanced
    <3> QED BY Zenon, <3>2, <3>3
  <2>4. Descended(w) \/ HandedOver(w) => Advanced(w) /\ Len(stack'[w]) >= Len(stack[w])
    BY <2>0 DEF Descended, HandedOver
  <2>5. ~Took(w)
    BY Zenon, <2>0 DEF Took
  <2> QED BY <1>b, <2>2, <2>3, <2>4, <2>5
<1> QED BY <1>1, <1>2, <1>3 DEF Held

(* Before a stop no work is lost.                                          *)
LEMMA StepNothingLost ==
    ASSUME PoolInvariant, PoolInvariant', HeldOnce, FramesFollowTree, CountsFollowFrames,
           NothingLost, EndingsJustified, NEW w \in Workers, Step(w)
    PROVE  NothingLost'
<1> SUFFICES ASSUME ~stop' PROVE NothingLost'
  BY DEF NothingLost
<1>0. TypeOK /\ TypeOK'
  BY Zenon DEF PoolInvariant
<1>1. ~stop
  BY Zenon, <1>0, QueueMoves
<1>2. created'[Root] = 1
  BY <1>1, TreeAssumption, ExploredStays DEF NothingLost
<1>3. ASSUME NEW n \in Node, created'[n] = 1 PROVE Held(n)' \/ Explored(n)'
  <2>1. CASE created[n] = 1
    <3>1. Held(n) \/ Explored(n)
      BY Zenon, <1>1, <2>1 DEF NothingLost
    <3>2. Held(n) => Held(n)' \/ Explored(n)
      BY Zenon, HeldMoves
    <3>3. Explored(n) => Explored(n)'
      BY Zenon, ExploredStays
    <3> QED BY Zenon, <3>1, <3>2, <3>3
  <2>2. CASE created[n] # 1
    <3>1. Advanced(w)
      BY Zenon, <1>3, <2>2, PlacesFrom
    <3>2. n = NextChild(w)
      BY <1>3, <2>2, <3>1, AdvancedCreates
    <3>3. CASE Descended(w)
      <4>1. Len(stack[w]) + 1 \in DOMAIN stack'[w]
        <5>1. stack[w] \in Seq(Frame) /\ stack'[w] \in Seq(Frame)
          BY Zenon, <1>0 DEF TypeOK
        <5> QED BY <3>3, <5>1 DEF Descended
      <4>2. stack'[w][Len(stack[w]) + 1].node = n
        BY <3>2, <3>3 DEF Descended, EnterFrame
      <4> QED BY Zenon, <4>1, <4>2 DEF Held
    <3>4. CASE HandedOver(w)
      <4>1. queue \in Seq(Node) /\ queue' = Append(queue, n)
        BY <1>0, <3>2, <3>4 DEF TypeOK, HandedOver
      <4>2. Len(queue) + 1 \in DOMAIN queue' /\ queue'[Len(queue) + 1] = n
        BY <4>1
      <4> QED BY Zenon, <4>2 DEF Held
    <3>5. created' # created
      BY Zenon, <1>3, <2>2
    <3> QED BY <3>3, <3>4, <3>5, StackMoves DEF QuietStep, Quiet, Took
  <2> QED BY <2>1, <2>2
<1> QED BY <1>2, <1>3 DEF NothingLost

-----------------------------------------------------------------------------
(* The terminal that is counted was not seen before.                       *)
LEMMA SeenGrows ==
    ASSUME PoolInvariant, CountsFollowFrames, NEW w \in Workers, Counts(w)
    PROVE  /\ TopNode(w) \in Terminal
           /\ TopNode(w) \notin Seen
           /\ Seen' = Seen \cup {TopNode(w)}
<1>0. TypeOK /\ FrameFits(w)
  BY Zenon DEF PoolInvariant, FramesFit
<1>1. counted \in [Terminal -> Nat] /\ stack[w] \in Seq(Frame)
  BY Zenon, <1>0 DEF TypeOK
<1>2. pc[w] = "count"
  BY Zenon DEF Counts
<1>3. TopNode(w) \in Terminal /\ stack[w] # <<>>
  BY Zenon, <1>0, <1>2 DEF FrameFits, Framed, Publishing
<1>4. counted[TopNode(w)] = 0
  <2>1. Len(stack[w]) \in DOMAIN stack[w]
    BY <1>1, <1>3
  <2> QED BY ZenonT(40), <1>2, <1>3, <2>1 DEF CountsFollowFrames, AfterCount, TopNode, Top
<1>5. \A n \in Terminal : counted'[n] = IF n = TopNode(w) THEN 1 ELSE counted[n]
  <2>1. counted' = [counted EXCEPT ![TopNode(w)] = @ + 1]
    BY Zenon DEF Counts
  <2> QED BY <1>1, <1>4, <2>1
<1>6. 1 > 0 /\ ~(0 > 0)
  OBVIOUS
<1> QED BY Zenon, <1>3, <1>4, <1>5, <1>6 DEF Seen

(* A search that nobody stopped has seen every terminal execution.         *)
LEMMA AllIsSeen ==
    ASSUME PoolInvariant, WorkInvariant, ~stop, \A w \in Workers : pc[w] = "done"
    PROVE  Seen = Terminal
<1>1. complete
  BY WorkersAssumption DEF WorkInvariant, EndingsJustified
<1>2. queue = <<>> /\ \A w \in Workers : stack[w] = <<>>
  BY <1>1 DEF PoolInvariant, CompleteMeansDrained
<1>3. \A n \in Node : ~Held(n)
  BY <1>2 DEF Held
<1>4. created[Root] = 1 /\ \A n \in Node : created[n] = 1 => Explored(n)
  BY <1>3 DEF WorkInvariant, NothingLost
<1> DEFINE S == {n \in Node : created[n] = 1}
<1>5. S \in SUBSET Node /\ Root \in S
  BY Zenon, <1>4, TreeAssumption
<1>6. \A n \in S : \A i \in DOMAIN Children[n] : Children[n][i] \in S
  <2> TAKE n \in S
  <2> TAKE i \in DOMAIN Children[n]
  <2>1. Children[n][i] \in Node
    BY TreeAssumption
  <2>2. created[Children[n][i]] = 1
    BY Zenon, <1>4 DEF Explored
  <2> QED BY <2>1, <2>2
<1> HIDE DEF S
<1>7. S = Node
  BY Zenon, <1>5, <1>6, TreeAssumption
<1>8. \A n \in Terminal : counted[n] = 1
  <2>1. \A n \in Terminal : n \in Node
    BY DEF Terminal
  <2> QED BY Zenon, <1>4, <1>7, <2>1 DEF S, Explored
<1> QED BY <1>8 DEF Seen

=============================================================================
