-------------------------- MODULE ParallelExecutor --------------------------
(***************************************************************************)
(* The worker pool behind verify_parallel(): class ParallelExecutor of     *)
(* include/dpor/algo/dpor.hpp, with the frame protocol by which            *)
(* DepthFirstExplorer hands alternatives to other workers.                 *)
(*                                                                         *)
(* The exploration tree is data: a node stands for an exploration graph,   *)
(* Children gives the alternatives of its branch in the order the code     *)
(* tries them, and Kind says what entering the node does.  What a graph is *)
(* made of does not matter to the pool.  What matters is which worker      *)
(* holds which node, what is queued, who sleeps and who wakes whom.        *)
(*                                                                         *)
(* Granularity: a step contains at most one access to shared state that    *)
(* another worker can race with.  A critical section is one step when the  *)
(* rest of it is local, and several when a store outside the mutex can     *)
(* fall between two of its reads.                                          *)
(***************************************************************************)
EXTENDS Integers, Sequences, FiniteSets

CONSTANTS
    Workers,         \* the threads in worker_loop(), the caller's included
    Node,            \* nodes of the exploration tree
    Root,            \* the empty graph
    Children,        \* Children[n]: alternatives of n, in cursor order
    Kind,            \* Kind[n]: "terminal", "pruned", "branch" or "send"
    Faulty,          \* nodes at which a thread function throws
    Spawnable,       \* nodes whose alternatives are within spawn_depth_cutoff
    Outcomes,        \* what on_terminal_execution may do
    MaxQueuedTasks,  \* max_queued_tasks_, resolved
    SyncSteps,       \* sync_steps_; 0 is the strict mode
    SplitPoll,       \* split_poll_interval_steps_
    FlushInterval,   \* progress_counter_flush_interval_; 0: on_progress unset
    None             \* "no node" and "no worker"

Terminal == {n \in Node : Kind[n] = "terminal"}

ASSUME WorkersAssumption ==
    /\ IsFiniteSet(Workers) /\ Workers # {}
    /\ None \notin Workers

ASSUME TreeAssumption ==
    /\ Root \in Node /\ None \notin Node
    /\ Kind \in [Node -> {"terminal", "pruned", "branch", "send"}]
    /\ Children \in [Node -> Seq(Node)]
    /\ \A n \in Node : Kind[n] \in {"branch", "send"} <=> Children[n] # <<>>
    /\ \A m, n \in Node :
         \A i \in DOMAIN Children[m], j \in DOMAIN Children[n] :
          Children[m][i] = Children[n][j] => m = n /\ i = j
    /\ \A n \in Node : \A i \in DOMAIN Children[n] : Children[n][i] # Root
    /\ \A S \in SUBSET Node :
          /\ Root \in S
          /\ \A n \in S : \A i \in DOMAIN Children[n] : Children[n][i] \in S
          => S = Node
    /\ Faulty \subseteq Node
    /\ Spawnable \subseteq Node

ASSUME OptionsAssumption ==
    /\ Outcomes \subseteq {"continue", "stop", "throw"}
    /\ MaxQueuedTasks \in Nat \ {0}
    /\ SyncSteps \in Nat
    /\ SplitPoll \in Nat
    /\ FlushInterval \in Nat

VARIABLES
    pc,              \* where each worker is in worker_loop_impl / run_loop
    stack,           \* frames of the worker's explorer, top last
    queue,           \* task_queue_
    active,          \* active_workers_
    idle,            \* idle_workers_
    complete,        \* search_complete_
    stop,            \* stop_requested_
    qlock,           \* owner of queue_mutex_ between steps
    plock,           \* owner of publication_mutex_ between steps
    firstExc,        \* first_exception_: the node whose visit threw
    fatal,           \* fatal_error_reported_ and what was reported
    sinceSync,       \* WorkerState.steps_since_sync
    cachedStop,      \* WorkerState.cached_stop
    sinceSplit,      \* WorkerState.steps_since_split_poll
    cachedIdle,      \* WorkerState.cached_workers_idle
    local,           \* WorkerState.local_*_executions, summed over the kinds
    shared,          \* *_executions_explored_, summed over the kinds
    created,         \* history: how often each node was queued or entered
    counted,         \* history: how often each terminal was counted
    late,            \* history: terminals a worker counted after the stop
    result           \* what run() returned

queueVars  == <<queue, active, complete>>
stopVars   == <<stop, firstExc, fatal>>
pollVars   == <<sinceSync, cachedStop>>
splitVars  == <<sinceSplit, cachedIdle>>
countVars  == <<local, shared, counted, late>>
vars == <<pc, stack, queueVars, idle, stopVars, qlock, plock, pollVars,
          splitVars, created, countVars, result>>

(***************************************************************************)
(* Frames.  cursor 0 is an Enter frame; cursor c > 0 is a Resume frame     *)
(* whose next alternative is Children[node][c]; past the last alternative  *)
(* the frame only rolls back and pops (ExitLinearChild, or a Resume frame  *)
(* with nothing left).  flag is frame.flag of a send frame.                *)
(***************************************************************************)
Frame == [node : Node, cursor : Nat, flag : BOOLEAN]
EnterFrame(n) == [node |-> n, cursor |-> 0, flag |-> FALSE]

Top(w)      == stack[w][Len(stack[w])]
TopNode(w)  == Top(w).node
NextChild(w) == Children[TopNode(w)][Top(w).cursor]

(* The worker holds a popped task: between ++active_workers_ and           *)
(* --active_workers_.                                                      *)
BusyPC == {"start", "loop", "enter", "spawn", "offer", "enqueue",
           "notify_one", "publish", "count", "callback", "stop_store",
           "stop_notify", "fatal", "record", "record_notify", "finish"}
ParkedPC == {"check", "park", "wait", "wake"}
QueueHolders == {"check", "take", "park"}   \* between steps, holding queue_mutex_
PCs == BusyPC \cup ParkedPC \cup {"lock", "take", "complete_notify", "done"}

Init ==
    /\ pc = [w \in Workers |-> "lock"]
    /\ stack = [w \in Workers |-> <<>>]
    /\ queue = <<Root>>
    /\ active = 0
    /\ idle = 0
    /\ complete = FALSE
    /\ stop = FALSE
    /\ qlock = None
    /\ plock = None
    /\ firstExc = None
    /\ fatal = None
    /\ sinceSync = [w \in Workers |-> 0]
    /\ cachedStop = [w \in Workers |-> FALSE]
    /\ sinceSplit = [w \in Workers |-> 0]
    /\ cachedIdle = [w \in Workers |-> FALSE]
    /\ local = [w \in Workers |-> 0]
    /\ shared = 0
    /\ created = [n \in Node |-> IF n = Root THEN 1 ELSE 0]
    /\ counted = [n \in Terminal |-> 0]
    /\ late = [w \in Workers |-> 0]
    /\ result = [kind |-> "none", total |-> 0]

-----------------------------------------------------------------------------
(* Mutant: the cached flag is reloaded one poll late.                      *)
PollRefreshesLate(w) == sinceSync[w] >= SyncSteps

(* stop_requested(): strict mode loads the flag; relaxed mode reloads its  *)
(* cached copy once every SyncSteps calls.                                 *)
PollRefreshes(w) == sinceSync[w] + 1 >= SyncSteps

StopRequested(w) ==
    IF SyncSteps = 0 \/ PollRefreshes(w) THEN stop ELSE cachedStop[w]

PollStop(w) ==
    IF SyncSteps = 0
    THEN UNCHANGED pollVars
    ELSE /\ sinceSync' = [sinceSync EXCEPT ![w] =
                            IF PollRefreshes(w) THEN 0 ELSE @ + 1]
         /\ cachedStop' = [cachedStop EXCEPT ![w] = StopRequested(w)]

(* max_workers_ <= 1: can_spawn() and try_enqueue() return at once.        *)
Alone == Cardinality(Workers) <= 1

(* should_split_to_idle_worker(): the idle count is read every SplitPoll   *)
(* calls and remembered in between.                                        *)
SplitPolls(w) == SplitPoll <= 1 \/ sinceSplit[w] + 1 >= SplitPoll

SeesIdleWorker(w) == IF SplitPolls(w) THEN idle # 0 ELSE cachedIdle[w]

PollSplit(w) ==
    IF Alone
    THEN UNCHANGED splitVars
    ELSE /\ sinceSplit' = [sinceSplit EXCEPT ![w] =
                             IF SplitPolls(w) THEN 0 ELSE @ + 1]
         /\ cachedIdle' = [cachedIdle EXCEPT ![w] = SeesIdleWorker(w)]

(* The predicate of queue_cv_.wait().                                      *)
Ready == stop \/ complete \/ queue # <<>>

Goto(w, label) == pc' = [pc EXCEPT ![w] = label]

(* notify_all() moves every sleeper to where it reacquires the mutex;      *)
(* notify_one() moves one, or none when nobody sleeps.                     *)
NotifyAllGoto(w, label) ==
    pc' = [v \in Workers |-> IF v = w THEN label
                             ELSE IF pc[v] = "wait" THEN "wake" ELSE pc[v]]

NotifyOneGoto(w, label) ==
    LET sleepers == {v \in Workers : pc[v] = "wait"} IN
    \/ /\ sleepers = {}
       /\ Goto(w, label)
    \/ \E v \in sleepers : pc' = [pc EXCEPT ![w] = label, ![v] = "wake"]

-----------------------------------------------------------------------------
(* worker_loop_impl(): taking a task.                                      *)

(* Lock queue_mutex_ and evaluate ready().                                 *)
LockQueue(w) ==
    /\ pc[w] = "lock"
    /\ qlock = None
    /\ qlock' = w
    /\ \/ Ready /\ Goto(w, "take") /\ UNCHANGED idle
       \/ ~Ready /\ Goto(w, "check") /\ idle' = idle + 1
    /\ UNCHANGED <<stack, queueVars, stopVars, plock, pollVars, splitVars,
                   created, countVars, result>>

(* wait() evaluates ready() once more before it blocks; only the stop flag *)
(* can have changed.                                                       *)
Recheck(w) ==
    /\ pc[w] = "check"
    /\ \/ Ready /\ Goto(w, "take") /\ idle' = idle - 1
       \/ ~Ready /\ Goto(w, "park") /\ UNCHANGED idle
    /\ UNCHANGED <<stack, queueVars, stopVars, qlock, plock, pollVars,
                   splitVars, created, countVars, result>>

(* Inside wait(): the predicate was false; block and release the mutex.    *)
Park(w) ==
    /\ pc[w] = "park"
    /\ Goto(w, "wait")
    /\ qlock' = None
    /\ UNCHANGED <<stack, queueVars, idle, stopVars, plock, pollVars,
                   splitVars, created, countVars, result>>

(* A sleeper may return from the condition variable without a notification. *)
SpuriousWake(w) ==
    /\ pc[w] = "wait"
    /\ Goto(w, "wake")
    /\ UNCHANGED <<stack, queueVars, idle, stopVars, qlock, plock, pollVars,
                   splitVars, created, countVars, result>>

(* Back from the condition variable: reacquire and re-evaluate ready().    *)
Reacquire(w) ==
    /\ pc[w] = "wake"
    /\ qlock = None
    /\ qlock' = w
    /\ \/ Ready /\ Goto(w, "take") /\ idle' = idle - 1
       \/ ~Ready /\ Goto(w, "park") /\ UNCHANGED idle
    /\ UNCHANGED <<stack, queueVars, stopVars, plock, pollVars, splitVars,
                   created, countVars, result>>

(* Mutants: the local counts are reset without being added; the polling    *)
(* state of the thread is not reset.                                       *)
FlushForgets(w) ==
    /\ local' = [local EXCEPT ![w] = 0]
    /\ sinceSync' = [sinceSync EXCEPT ![w] = 0]
    /\ cachedStop' = [cachedStop EXCEPT ![w] = FALSE]
    /\ sinceSplit' = [sinceSplit EXCEPT ![w] = 0]
    /\ cachedIdle' = [cachedIdle EXCEPT ![w] = FALSE]
    /\ UNCHANGED shared
FlushKeepsPolls(w) ==
    /\ shared' = shared + local[w]
    /\ local' = [local EXCEPT ![w] = 0]
    /\ UNCHANGED <<pollVars, splitVars>>

(* flush_worker_state().                                                   *)
FlushWorkerState(w) ==
    /\ shared' = shared + local[w]
    /\ local' = [local EXCEPT ![w] = 0]
    /\ sinceSync' = [sinceSync EXCEPT ![w] = 0]
    /\ cachedStop' = [cachedStop EXCEPT ![w] = FALSE]
    /\ sinceSplit' = [sinceSplit EXCEPT ![w] = 0]
    /\ cachedIdle' = [cachedIdle EXCEPT ![w] = FALSE]

(* The second look at the stop flag: leave, flushing under the mutex.      *)
Leave(w) ==
    /\ pc[w] = "take"
    /\ stop \/ complete
    /\ FlushWorkerState(w)
    /\ qlock' = None
    /\ Goto(w, "done")
    /\ UNCHANGED <<stack, queueVars, idle, stopVars, plock, created,
                   counted, late,
                   result>>

(* Otherwise pop the front task.                                           *)
PopTask(w) ==
    /\ pc[w] = "take"
    /\ ~stop /\ ~complete
    /\ stack' = [stack EXCEPT ![w] = <<EnterFrame(Head(queue))>>]
    /\ queue' = Tail(queue)
    /\ active' = active + 1
    /\ qlock' = None
    /\ Goto(w, "start")
    /\ UNCHANGED <<idle, complete, stopVars, plock, pollVars, splitVars,
                   created, countVars, result>>

(* process_task(): a stop seen here drops the task.                        *)
ProcessTask(w) ==
    /\ pc[w] = "start"
    /\ PollStop(w)
    /\ \/ /\ StopRequested(w)
          /\ stack' = [stack EXCEPT ![w] = <<>>]
          /\ Goto(w, "finish")
       \/ /\ ~StopRequested(w)
          /\ Goto(w, "loop")
          /\ UNCHANGED stack
    /\ UNCHANGED <<queueVars, idle, stopVars, qlock, plock, splitVars,
                   created, countVars, result>>

(* became_complete: the last active worker found the queue empty.          *)
BecameComplete == ~stop /\ queue = <<>> /\ active' = 0

(* After process_task(): --active_workers_ and the completion test.        *)
FinishTask(w) ==
    /\ pc[w] = "finish"
    /\ qlock = None
    /\ active' = active - 1
    /\ complete' = (complete \/ BecameComplete)
    /\ Goto(w, IF BecameComplete THEN "complete_notify" ELSE "lock")
    /\ UNCHANGED <<stack, queue, idle, stopVars, qlock, plock, pollVars,
                   splitVars, created, countVars, result>>

(* Mutants: notify_one() instead of notify_all(); no notification at all.  *)
CompleteNotifyOne(w) ==
    /\ pc[w] = "complete_notify"
    /\ NotifyOneGoto(w, "lock")
    /\ UNCHANGED <<stack, queueVars, idle, stopVars, qlock, plock, pollVars,
                   splitVars, created, countVars, result>>
CompleteSilently(w) ==
    /\ pc[w] = "complete_notify"
    /\ Goto(w, "lock")
    /\ UNCHANGED <<stack, queueVars, idle, stopVars, qlock, plock, pollVars,
                   splitVars, created, countVars, result>>

CompleteNotify(w) ==
    /\ pc[w] = "complete_notify"
    /\ NotifyAllGoto(w, "lock")
    /\ UNCHANGED <<stack, queueVars, idle, stopVars, qlock, plock, pollVars,
                   splitVars, created, countVars, result>>

-----------------------------------------------------------------------------
(* run_loop(): one iteration on the top frame.                             *)

SetStack(w, s) == stack' = [stack EXCEPT ![w] = s]
PopFrame(w) == SetStack(w, SubSeq(stack[w], 1, Len(stack[w]) - 1))
(* Mutant: a Resume frame's cursor does not advance.                       *)
WithTopStale(w, cursor, flag) ==
    [stack[w] EXCEPT ![Len(stack[w])] =
        [node   |-> TopNode(w),
         cursor |-> IF Top(w).cursor = 0 THEN cursor ELSE Top(w).cursor,
         flag   |-> flag]]

WithTop(w, cursor, flag) ==
    [stack[w] EXCEPT ![Len(stack[w])] =
        [node |-> TopNode(w), cursor |-> cursor, flag |-> flag]]

(* No context left: run_loop() returns.                                    *)
ExploreDone(w) ==
    /\ pc[w] = "loop"
    /\ stack[w] = <<>>
    /\ Goto(w, "finish")
    /\ UNCHANGED <<stack, queueVars, idle, stopVars, qlock, plock, pollVars,
                   splitVars, created, countVars, result>>

(* A stop was seen.  unwind_one_step() repeats until no context is left:   *)
(* the flag and its cached copy never fall back to false meanwhile.        *)
Unwind(w) ==
    /\ pc[w] = "loop"
    /\ stack[w] # <<>>
    /\ StopRequested(w)
    /\ PollStop(w)
    /\ SetStack(w, <<>>)
    /\ Goto(w, "finish")
    /\ UNCHANGED <<queueVars, idle, stopVars, qlock, plock, splitVars,
                   created, countVars, result>>

(* No stop was seen: the frame on top is handled.                          *)
Handling(w) ==
    /\ pc[w] = "loop"
    /\ stack[w] # <<>>
    /\ ~StopRequested(w)
    /\ PollStop(w)

DispatchEnter(w) ==
    /\ Handling(w)
    /\ Top(w).cursor = 0
    /\ Goto(w, "enter")
    /\ UNCHANGED <<stack, queueVars, idle, stopVars, qlock, plock, splitVars,
                   created, countVars, result>>

(* handle_enter_frame() polls once before the consistency check of a       *)
(* VisitIfConsistent frame, and once per thread when it looks for a        *)
(* blocked receive to reschedule: any number of polls that see no stop.    *)
PollAgain(w) ==
    /\ pc[w] = "enter"
    /\ ~StopRequested(w)
    /\ PollStop(w)
    /\ UNCHANGED <<pc, stack, queueVars, idle, stopVars, qlock, plock,
                   splitVars, created, countVars, result>>

(* Mutant: the flush of a report leaves the local counts in place.         *)
ReportProgressTwice(w) ==
    /\ UNCHANGED <<local, counted, late>>
    /\ \/ UNCHANGED shared
       \/ FlushInterval # 0 /\ shared' = shared + local[w]

(* maybe_report_progress(): with on_progress set, a report that is due     *)
(* flushes the worker's counts first.  The clock decides.                  *)
ReportProgress(w) ==
    \/ UNCHANGED countVars
    \/ /\ FlushInterval # 0
       /\ shared' = shared + local[w]
       /\ local' = [local EXCEPT ![w] = 0]
       /\ UNCHANGED <<counted, late>>

(* A poll of handle_enter_frame() sees the stop: the frame is left as it   *)
(* is, or popped, and run_loop() unwinds the rest.                         *)
EnterStopped(w) ==
    /\ pc[w] = "enter"
    /\ StopRequested(w)
    /\ PollStop(w)
    /\ ReportProgress(w)
    /\ Goto(w, "loop")
    /\ UNCHANGED <<stack, queueVars, idle, stopVars, qlock, plock, splitVars,
                   created, result>>

(* Otherwise an inconsistent graph is dropped, a terminal one is           *)
(* published, a thread function may throw, and a graph with alternatives   *)
(* turns the frame into a Resume frame.                                    *)
EnterNode(w) ==
    /\ pc[w] = "enter"
    /\ ~StopRequested(w)
    /\ PollStop(w)
    /\ ReportProgress(w)
    /\ LET n == TopNode(w) IN
       \/ /\ Kind[n] = "pruned"
          /\ PopFrame(w)
          /\ Goto(w, "loop")
       \/ /\ Kind[n] # "pruned"
          /\ n \in Faulty
          /\ Goto(w, "fatal")
          /\ UNCHANGED stack
       \/ /\ Kind[n] = "terminal"
          /\ n \notin Faulty
          /\ Goto(w, "publish")
          /\ UNCHANGED stack
       \/ /\ Kind[n] \in {"branch", "send"}
          /\ n \notin Faulty
          /\ SetStack(w, WithTop(w, 1, FALSE))
          /\ Goto(w, IF Kind[n] = "send" /\ ~Alone THEN "spawn" ELSE "loop")
    /\ UNCHANGED <<queueVars, idle, stopVars, qlock, plock, splitVars,
                   created, result>>

(* Nothing left below this frame.                                          *)
ResumeExhausted(w) ==
    /\ Handling(w)
    /\ Top(w).cursor > Len(Children[TopNode(w)])
    /\ PopFrame(w)
    /\ UNCHANGED <<pc, queueVars, idle, stopVars, qlock, plock, splitVars,
                   created, countVars, result>>

HasNext(w) == Top(w).cursor \in 1 .. Len(Children[TopNode(w)])

(* The last alternative stays local: the last ND choice, the bottom branch *)
(* or last candidate of a receive, the continuation of a send.             *)
MayGiveAway(w) == Top(w).cursor < Len(Children[TopNode(w)])

(* A send frame offers what it may if it could spawn when it was entered;  *)
(* an ND or receive frame first asks for an idle worker.                   *)
OffersRevisit(w)   == MayGiveAway(w) /\ Kind[TopNode(w)] = "send" /\ Top(w).flag
WantsSplit(w) ==
    MayGiveAway(w) /\ Kind[TopNode(w)] = "branch" /\ ~Alone /\ SeesIdleWorker(w)

PollsSplit(w) ==
    IF MayGiveAway(w) /\ Kind[TopNode(w)] = "branch"
    THEN PollSplit(w)
    ELSE UNCHANGED splitVars

Create(n) == created' = [created EXCEPT ![n] = @ + 1]

(* The local path: advance the cursor and enter the child.                 *)
DescendStack(w) ==
    Append(WithTop(w, Top(w).cursor + 1, Top(w).flag),
           EnterFrame(NextChild(w)))

DescendLocally(w) ==
    /\ SetStack(w, DescendStack(w))
    /\ Create(NextChild(w))

(* handle_resume_*_frame(): offer the next alternative or descend into it. *)
ResumeFrame(w) ==
    /\ Handling(w)
    /\ HasNext(w)
    /\ PollsSplit(w)
    /\ \/ /\ OffersRevisit(w)
          /\ Goto(w, "offer")
          /\ UNCHANGED <<stack, created>>
       \/ /\ WantsSplit(w)
          /\ Goto(w, "spawn")
          /\ UNCHANGED <<stack, created>>
       \/ /\ ~OffersRevisit(w) /\ ~WantsSplit(w)
          /\ DescendLocally(w)
          /\ UNCHANGED pc
    /\ UNCHANGED <<queueVars, idle, stopVars, qlock, plock, countVars, result>>

(* can_spawn(): a poll, then the depth cutoff.  A send frame remembers the *)
(* answer in its flag; an ND or receive frame acts on it.                  *)
SpawnCheck(w) ==
    /\ pc[w] = "spawn"
    /\ PollStop(w)
    /\ LET may == ~StopRequested(w) /\ TopNode(w) \in Spawnable IN
       \/ /\ Kind[TopNode(w)] = "send"
          /\ SetStack(w, WithTop(w, Top(w).cursor, may))
          /\ Goto(w, "loop")
          /\ UNCHANGED created
       \/ /\ Kind[TopNode(w)] # "send"
          /\ may
          /\ Goto(w, "offer")
          /\ UNCHANGED <<stack, created>>
       \/ /\ Kind[TopNode(w)] # "send"
          /\ ~may
          /\ DescendLocally(w)
          /\ Goto(w, "loop")
    /\ UNCHANGED <<queueVars, idle, stopVars, qlock, plock, splitVars,
                   countVars, result>>

(* try_enqueue() polls before it locks.                                    *)
OfferChild(w) ==
    /\ pc[w] = "offer"
    /\ PollStop(w)
    /\ \/ /\ StopRequested(w)
          /\ DescendLocally(w)
          /\ Goto(w, "loop")
       \/ /\ ~StopRequested(w)
          /\ Goto(w, "enqueue")
          /\ UNCHANGED <<stack, created>>
    /\ UNCHANGED <<queueVars, idle, stopVars, qlock, plock, splitVars,
                   countVars, result>>

QueueAccepts == ~stop /\ ~complete /\ Len(queue) < MaxQueuedTasks

(* try_enqueue() under queue_mutex_.  A refused alternative is explored    *)
(* locally; an accepted one is consumed by advancing the cursor.           *)
TryEnqueue(w) ==
    /\ pc[w] = "enqueue"
    /\ qlock = None
    /\ Create(NextChild(w))
    /\ \/ /\ QueueAccepts
          /\ queue' = Append(queue, NextChild(w))
          /\ SetStack(w, WithTop(w, Top(w).cursor + 1, Top(w).flag))
          /\ Goto(w, "notify_one")
       \/ /\ ~QueueAccepts
          /\ SetStack(w, DescendStack(w))
          /\ Goto(w, "loop")
          /\ UNCHANGED queue
    /\ UNCHANGED <<active, idle, complete, stopVars, qlock, plock, pollVars,
                   splitVars, countVars, result>>

NotifyOne(w) ==
    /\ pc[w] = "notify_one"
    /\ NotifyOneGoto(w, "loop")
    /\ UNCHANGED <<stack, queueVars, idle, stopVars, qlock, plock, pollVars,
                   splitVars, created, countVars, result>>

-----------------------------------------------------------------------------
(* publish_terminal_execution().                                           *)

(* Mutant: strict mode checks without holding publication_mutex_.          *)
PublishCheckUnlocked(w) ==
    /\ pc[w] = "publish"
    /\ PollStop(w)
    /\ \/ StopRequested(w) /\ PopFrame(w) /\ Goto(w, "loop")
       \/ ~StopRequested(w) /\ Goto(w, "count") /\ UNCHANGED stack
    /\ UNCHANGED <<queueVars, idle, stopVars, qlock, plock, splitVars,
                   created, countVars, result>>

(* The stop check.  Strict mode keeps publication_mutex_ until the count   *)
(* is in; relaxed mode only consults its cached flag.                      *)
PublishCheck(w) ==
    /\ pc[w] = "publish"
    /\ SyncSteps = 0 => plock = None
    /\ PollStop(w)
    /\ \/ /\ StopRequested(w)
          /\ PopFrame(w)
          /\ Goto(w, "loop")
          /\ UNCHANGED plock
       \/ /\ ~StopRequested(w)
          /\ plock' = IF SyncSteps = 0 THEN w ELSE plock
          /\ Goto(w, "count")
          /\ UNCHANGED stack
    /\ UNCHANGED <<queueVars, idle, stopVars, qlock, splitVars, created,
                   countVars, result>>

(* increment_local_terminal_counts(), with its flush.                      *)
CountTerminal(w) ==
    /\ pc[w] = "count"
    /\ IF FlushInterval # 0 /\ local[w] + 1 >= FlushInterval
       THEN /\ shared' = shared + local[w] + 1
            /\ local' = [local EXCEPT ![w] = 0]
       ELSE /\ local' = [local EXCEPT ![w] = @ + 1]
            /\ UNCHANGED shared
    /\ counted' = [counted EXCEPT ![TopNode(w)] = @ + 1]
    /\ late' = IF stop THEN [late EXCEPT ![w] = @ + 1] ELSE late
    /\ plock' = IF SyncSteps = 0 THEN None ELSE plock
    /\ Goto(w, "callback")
    /\ UNCHANGED <<stack, queueVars, idle, stopVars, qlock, pollVars,
                   splitVars, created, result>>

(* on_terminal_execution runs without a lock and may continue, stop the    *)
(* search or throw.                                                        *)
Callback(w) ==
    /\ pc[w] = "callback"
    /\ \/ /\ "continue" \in Outcomes
          /\ PopFrame(w)
          /\ Goto(w, "loop")
       \/ /\ "stop" \in Outcomes
          /\ Goto(w, "stop_store")
          /\ UNCHANGED stack
       \/ /\ "throw" \in Outcomes
          /\ Goto(w, "fatal")
          /\ UNCHANGED stack
    /\ UNCHANGED <<queueVars, idle, stopVars, qlock, plock, pollVars,
                   splitVars, created, countVars, result>>

(* request_stop(): store the flag and the worker's own copy, then notify.  *)
StopStore(w) ==
    /\ pc[w] = "stop_store"
    /\ stop' = TRUE
    /\ cachedStop' = [cachedStop EXCEPT ![w] = TRUE]
    /\ Goto(w, "stop_notify")
    /\ UNCHANGED <<stack, queueVars, idle, firstExc, fatal, qlock, plock,
                   sinceSync, splitVars, created, countVars, result>>

StopNotify(w) ==
    /\ pc[w] = "stop_notify"
    /\ NotifyAllGoto(w, "loop")
    /\ PopFrame(w)
    /\ UNCHANGED <<queueVars, idle, stopVars, qlock, plock, pollVars,
                   splitVars, created, countVars, result>>

-----------------------------------------------------------------------------
(* Exceptions: report, unwind, record, notify.                             *)

(* notify_fatal_error(): the first failing worker reports its graph.       *)
NotifyFatalError(w) ==
    /\ pc[w] = "fatal"
    /\ fatal' = IF fatal = None THEN TopNode(w) ELSE fatal
    /\ Goto(w, "record")
    /\ UNCHANGED <<stack, queueVars, idle, stop, firstExc, qlock, plock,
                   pollVars, splitVars, created, countVars, result>>

(* Mutants: record_exception() without publication_mutex_; without the     *)
(* stop flag.                                                              *)
RecordExceptionUnlocked(w) ==
    /\ pc[w] = "record"
    /\ firstExc' = IF firstExc = None THEN TopNode(w) ELSE firstExc
    /\ stop' = TRUE
    /\ SetStack(w, <<>>)
    /\ Goto(w, "record_notify")
    /\ UNCHANGED <<queueVars, idle, fatal, qlock, plock, pollVars, splitVars,
                   created, countVars, result>>
RecordExceptionQuietly(w) ==
    /\ pc[w] = "record"
    /\ plock = None
    /\ firstExc' = IF firstExc = None THEN TopNode(w) ELSE firstExc
    /\ SetStack(w, <<>>)
    /\ Goto(w, "record_notify")
    /\ UNCHANGED <<queueVars, idle, stop, fatal, qlock, plock, pollVars,
                   splitVars, created, countVars, result>>

(* The contexts unwind and record_exception() stores exception and flag    *)
(* under publication_mutex_.                                               *)
RecordException(w) ==
    /\ pc[w] = "record"
    /\ plock = None
    /\ firstExc' = IF firstExc = None THEN TopNode(w) ELSE firstExc
    /\ stop' = TRUE
    /\ SetStack(w, <<>>)
    /\ Goto(w, "record_notify")
    /\ UNCHANGED <<queueVars, idle, fatal, qlock, plock, pollVars, splitVars,
                   created, countVars, result>>

RecordNotify(w) ==
    /\ pc[w] = "record_notify"
    /\ NotifyAllGoto(w, "finish")
    /\ UNCHANGED <<stack, queueVars, idle, stopVars, qlock, plock, pollVars,
                   splitVars, created, countVars, result>>

-----------------------------------------------------------------------------
(* Mutant: run() forgets that the search was stopped.                      *)
JoinIgnoresStop ==
    /\ result.kind = "none"
    /\ \A w \in Workers : pc[w] = "done"
    /\ result' = [kind  |-> IF firstExc # None THEN "threw" ELSE "AllExplored",
                  total |-> IF firstExc # None THEN 0 ELSE shared]
    /\ UNCHANGED <<pc, stack, queueVars, idle, stopVars, qlock, plock,
                   pollVars, splitVars, created, countVars>>

(* run(): once every worker has returned, rethrow or collect the counts.   *)
Join ==
    /\ result.kind = "none"
    /\ \A w \in Workers : pc[w] = "done"
    /\ result' = [kind |-> IF firstExc # None THEN "threw"
                           ELSE IF stop THEN "Stopped" ELSE "AllExplored",
                  total |-> IF firstExc # None THEN 0 ELSE shared]
    /\ UNCHANGED <<pc, stack, queueVars, idle, stopVars, qlock, plock,
                   pollVars, splitVars, created, countVars>>

Acquire(w) == LockQueue(w) \/ Reacquire(w) \/ FinishTask(w) \/ TryEnqueue(w)

TakeStep(w) ==
    Recheck(w) \/ Park(w) \/ Leave(w) \/ PopTask(w) \/ CompleteNotify(w)

ExploreStep(w) ==
    \/ ProcessTask(w) \/ ExploreDone(w) \/ Unwind(w)
    \/ DispatchEnter(w) \/ EnterStopped(w) \/ EnterNode(w)
    \/ ResumeExhausted(w) \/ ResumeFrame(w) \/ SpawnCheck(w) \/ OfferChild(w)
    \/ NotifyOne(w)

PublishStep(w) ==
    \/ PublishCheck(w) \/ CountTerminal(w) \/ Callback(w)
    \/ StopStore(w) \/ StopNotify(w)

FailStep(w) == NotifyFatalError(w) \/ RecordException(w) \/ RecordNotify(w)

WorkerStep(w) ==
    Acquire(w) \/ TakeStep(w) \/ ExploreStep(w) \/ PublishStep(w) \/ FailStep(w)

Finished == result.kind # "none" /\ UNCHANGED vars

Next ==
    \/ \E w \in Workers : WorkerStep(w) \/ SpuriousWake(w) \/ PollAgain(w)
    \/ Join
    \/ Finished

Spec == Init /\ [][Next]_vars

(* The scheduler runs every thread that can run, and a mutex that is free  *)
(* again and again is eventually acquired.  Nothing promises a spurious    *)
(* wakeup.                                                                 *)
Fairness ==
    /\ \A w \in Workers :
         /\ WF_vars(WorkerStep(w))
         /\ SF_vars(Acquire(w))
         /\ SF_vars(PublishCheck(w))
         /\ SF_vars(RecordException(w))
    /\ WF_vars(Join)

FairSpec == Spec /\ Fairness

-----------------------------------------------------------------------------
Busy(w) == pc[w] \in BusyPC

(* Type invariant.                                                         *)
TypeOK ==
    /\ pc \in [Workers -> PCs]
    /\ stack \in [Workers -> Seq(Frame)]
    /\ queue \in Seq(Node)
    /\ active \in Nat
    /\ idle \in Nat
    /\ complete \in BOOLEAN
    /\ stop \in BOOLEAN
    /\ qlock \in Workers \cup {None}
    /\ plock \in Workers \cup {None}
    /\ firstExc \in Node \cup {None}
    /\ fatal \in Node \cup {None}
    /\ sinceSync \in [Workers -> Nat]
    /\ cachedStop \in [Workers -> BOOLEAN]
    /\ sinceSplit \in [Workers -> Nat]
    /\ cachedIdle \in [Workers -> BOOLEAN]
    /\ local \in [Workers -> Nat]
    /\ shared \in Nat
    /\ created \in [Node -> Nat]
    /\ counted \in [Terminal -> Nat]
    /\ late \in [Workers -> Nat]
    /\ result \in [kind : {"none", "AllExplored", "Stopped", "threw"},
                   total : Nat]

(* search_complete_ is set only when no work exists anywhere: nothing is   *)
(* queued, no worker holds a task or a frame, and no worker will ever hold *)
(* one again.                                                              *)
CompleteMeansDrained ==
    complete => /\ queue = <<>>
                /\ \A w \in Workers : ~Busy(w) /\ stack[w] = <<>>

(* max_queued_tasks_ is never exceeded, however many workers offer at once. *)
QueueBounded == Len(queue) <= MaxQueuedTasks

(* Without a stop nobody sleeps through work.  A queued task always has a  *)
(* worker awake to take it, although notify_one() is lost when nobody      *)
(* sleeps, and after completion a sleeper is still owed the broadcast.     *)
NoStrandedSleeper ==
    ~stop =>
      /\ queue # <<>> => \E w \in Workers : pc[w] \notin {"wait", "done"}
      /\ complete /\ (\E w \in Workers : pc[w] = "wait")
            => \E w \in Workers : pc[w] = "complete_notify"

(***************************************************************************)
(* The inductive invariant behind the three properties above: who owns the *)
(* mutexes, which program points have frames, what was established before  *)
(* the queue mutex was kept across a step, and that the two counters are   *)
(* the numbers of workers they are meant to count.                         *)
(***************************************************************************)
BusyWorkers   == {w \in Workers : pc[w] \in BusyPC}
ParkedWorkers == {w \in Workers : pc[w] \in ParkedPC}

Framed   == {"start", "enter", "spawn", "offer", "enqueue", "notify_one",
             "publish", "count", "callback", "stop_store", "stop_notify",
             "fatal", "record"}
Frameless == PCs \ (Framed \cup {"loop"})
Publishing == {"publish", "count", "callback", "stop_store", "stop_notify"}

MutexOwners ==
    /\ \A w \in Workers : pc[w] \in QueueHolders <=> qlock = w
    /\ \A w \in Workers : SyncSteps = 0 /\ pc[w] = "count" <=> plock = w

FrameFits(w) ==
    /\ pc[w] \in Frameless => stack[w] = <<>>
    /\ pc[w] \in Framed => stack[w] # <<>>
    /\ pc[w] \in {"spawn", "offer", "enqueue"} => HasNext(w)
    /\ pc[w] \in Publishing => TopNode(w) \in Terminal
FramesFit == \A w \in Workers : FrameFits(w)

LockedView ==
    \A w \in Workers :
        /\ pc[w] = "take" => Ready
        /\ pc[w] = "park" => queue = <<>> /\ ~complete

CountersExact ==
    /\ active = Cardinality(BusyWorkers)
    /\ idle = Cardinality(ParkedWorkers)

(* The pool neither ends early nor sleeps through work, as in the three    *)
(* properties above; active_workers_ and idle_workers_ count exactly the   *)
(* workers between their two updates, each mutex has the owner the program *)
(* points say, and a worker that is about to sleep or to pop has seen what *)
(* it relies on.                                                           *)
PoolInvariant ==
    /\ TypeOK
    /\ MutexOwners
    /\ FramesFit
    /\ LockedView
    /\ CountersExact
    /\ CompleteMeansDrained
    /\ QueueBounded
    /\ NoStrandedSleeper

(* No graph is explored twice and no terminal execution is counted twice:  *)
(* an alternative is handed off or explored locally, never both.           *)
NothingTwice ==
    /\ \A n \in Node : created[n] <= 1
    /\ \A n \in Terminal : counted[n] <= 1

(* Terminals counted after the stop flag was raised.  In strict mode the   *)
(* publication mutex leaves room for one in the whole pool; in relaxed     *)
(* mode each worker may miss the flag for SyncSteps - 1 polls, of which it  *)
(* makes four or more between two terminals, besides the terminal that it  *)
(* had already checked for.                                                *)
StopIsPrompt ==
    IF SyncSteps = 0
    THEN \A v, w \in Workers : late[v] + (IF v = w THEN 0 ELSE late[w]) <= 1
    ELSE \A w \in Workers : late[w] <= 1 + ((SyncSteps - 1) \div 4)

(* In strict mode nothing is counted once an exception is recorded: both   *)
(* happen under publication_mutex_.                                        *)
NoCountAfterException ==
    [][SyncSteps = 0 /\ firstExc # None => counted' = counted]_vars

(* The inductive invariant behind the two properties above, in strict mode. *)
StopInvariant ==
    /\ firstExc # None => stop
    /\ SyncSteps = 0 =>
         /\ firstExc # None => \A w \in Workers : pc[w] # "count"
         /\ ~stop \/ (\E w \in Workers : pc[w] = "count")
               => \A w \in Workers : late[w] = 0
         /\ StopIsPrompt

(* worker_state() is one thread_local per OS thread and the caller's       *)
(* thread runs many explorations: a worker leaves nothing behind in it.    *)
WorkerStateIsReset ==
    \A w \in Workers : pc[w] = "done" =>
        /\ local[w] = 0 /\ sinceSync[w] = 0 /\ sinceSplit[w] = 0
        /\ ~cachedStop[w] /\ ~cachedIdle[w]

(***************************************************************************)
(* The inductive invariant behind NothingTwice, WorkerStateIsReset and the *)
(* contract below: who holds a node, what was created of its alternatives, *)
(* where a counted terminal may still be on a stack, and in whose counter  *)
(* it is.                                                                  *)
(***************************************************************************)

(* A node is in one place of one stack, or in one place of the queue.      *)
HeldOnce ==
    /\ \A i, j \in DOMAIN queue : queue[i] = queue[j] => i = j
    /\ \A v, w \in Workers : \A i \in DOMAIN stack[v], j \in DOMAIN stack[w] :
          stack[v][i].node = stack[w][j].node => v = w /\ i = j
    /\ \A w \in Workers : \A i \in DOMAIN queue, j \in DOMAIN stack[w] :
          queue[i] # stack[w][j].node

(* The alternatives before the cursor have been created, the others not.   *)
FollowsTree(f, made) ==
    /\ made[f.node] = 1
    /\ f.cursor > 0 => Children[f.node] # <<>>
    /\ \A c \in DOMAIN Children[f.node] :
          made[Children[f.node][c]] = IF c < f.cursor THEN 1 ELSE 0

FramesFollowTree ==
    /\ \A i \in DOMAIN queue : FollowsTree(EnterFrame(queue[i]), created)
    /\ \A w \in Workers : \A i \in DOMAIN stack[w] : FollowsTree(stack[w][i], created)
    /\ \A w \in Workers : pc[w] = "enter" => Top(w).cursor = 0
    /\ \A w \in Workers : \A i \in 1 .. Len(stack[w]) - 1 : stack[w][i].cursor > 0
    /\ \A n \in Node : created[n] \in {0, 1}
    /\ \A n \in Node : created[n] = 0 =>
          \A c \in DOMAIN Children[n] : created[Children[n][c]] = 0

(* A counted terminal is on a stack only until its callback is dealt with. *)
AfterCount == {"callback", "stop_store", "stop_notify", "fatal", "record"}

CountsFollowFrames ==
    /\ \A n \in Terminal : counted[n] <= created[n]
    /\ \A i \in DOMAIN queue : queue[i] \in Terminal => counted[queue[i]] = 0
    /\ \A w \in Workers : \A i \in DOMAIN stack[w] :
          stack[w][i].node \in Terminal =>
             \/ counted[stack[w][i].node] = 0
             \/ i = Len(stack[w]) /\ pc[w] \in AfterCount
    /\ \A w \in Workers : pc[w] \in {"callback", "stop_store", "stop_notify"} =>
          counted[TopNode(w)] = 1

(* Before a stop, what nobody holds any more has been dealt with.          *)
Held(n) ==
    \/ \E i \in DOMAIN queue : queue[i] = n
    \/ \E w \in Workers : \E i \in DOMAIN stack[w] : stack[w][i].node = n
Explored(n) ==
    /\ \A c \in DOMAIN Children[n] : created[Children[n][c]] = 1
    /\ n \in Terminal => counted[n] = 1
NothingLost ==
    ~stop => /\ created[Root] = 1
             /\ \A n \in Node : created[n] = 1 => Held(n) \/ Explored(n)

(* Every counted terminal is in one counter: of a worker, or the shared    *)
(* one, where "by" says None.                                              *)
Seen == {n \in Terminal : counted[n] > 0}
Tallies(S, ofWorker, ofAll) ==
    /\ IsFiniteSet(S)
    /\ \E by \in [S -> Workers \cup {None}] :
          /\ \A w \in Workers : ofWorker[w] = Cardinality({n \in S : by[n] = w})
          /\ ofAll = Cardinality({n \in S : by[n] = None})
TallyExact == Tallies(Seen, local, shared)

(* A worker leaves for a reason, and run() returns after all of them.      *)
EndingsJustified ==
    /\ \A w \in Workers : cachedStop[w] => stop
    /\ \A w \in Workers : pc[w] = "done" => stop \/ complete
    /\ result.kind # "none" => \A w \in Workers : pc[w] = "done"

(* Work is neither duplicated nor lost on its way through frames, queue    *)
(* and counters: a graph is held in one place, exactly the alternatives    *)
(* before a cursor exist, a terminal leaves its stack counted unless the   *)
(* search was stopped, and each count is in exactly one counter until the  *)
(* thread leaves with nothing behind.                                      *)
WorkInvariant ==
    /\ HeldOnce
    /\ FramesFollowTree
    /\ CountsFollowFrames
    /\ NothingLost
    /\ TallyExact
    /\ EndingsJustified
    /\ WorkerStateIsReset

(* Polls a worker has made on its way from one terminal to the next.       *)
PollsMade(label, frames) ==
    CASE label = "count" -> 4
      [] label = "publish" -> 3
      [] label = "enter" -> 2
      [] label \in {"spawn", "offer", "enqueue", "notify_one"} -> 1
      [] label = "loop" /\ frames # <<>> /\ frames[Len(frames)].cursor = 0 -> 1
      [] OTHER -> 0

(* Relaxed mode: a worker that counted after the stop either has seen it   *)
(* by now or has polled without a refresh ever since, four times or more   *)
(* for each terminal; so it sees the stop before it has counted too many.  *)
StopLag ==
    SyncSteps > 0 =>
      /\ StopIsPrompt
      /\ \A w \in Workers :
           /\ sinceSync[w] < SyncSteps
           /\ pc[w] = "count" => ~cachedStop[w]
           /\ late[w] > 0 =>
                /\ stop
                /\ \/ pc[w] = "done" \/ cachedStop[w]
                   \/ sinceSync[w] >= 4 * (late[w] - 1) + PollsMade(pc[w], stack[w])

(* The pool implements the contract of verify(): the terminals it has      *)
(* counted are the ones seen, and what run() returned is the answer.       *)
Contract ==
    INSTANCE VerifyContract
        WITH seen <- Seen, answer <- result
ImplementsContract == Contract!Spec

(* verify_parallel() returns: worker_loop_impl() ends in every worker.     *)
Returns == <>(result.kind # "none")
=============================================================================
