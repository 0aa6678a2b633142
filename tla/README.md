# A TLA+ model of CPP-DPOR

CPP-DPOR is a header-only C++ library that explores all executions of a
message-passing program, up to equivalence, by dynamic partial order reduction
(the Must algorithm).  This directory models its engine and its two-phase commit
example in TLA+, checks the models with TLC on small instances, and proves with
TLAPS what can be proved for instances of any size.

All source references are to `src/`; `dpor.hpp` is `include/dpor/algo/dpor.hpp`,
and the example is `examples/two_phase_commit_timeout/`.  `PROJECT.json` maps every
definition to the lines it models, lists the hazards with the lines where they
bite and the properties that cover them, and gives the status of every part.

## 1. The system and its parts

| Part | State | Hard behaviours | Modules |
|---|---|---|---|
| `ParallelExecutor` (dpor.hpp) | task queue, `active_workers_`, `idle_workers_`, `search_complete_`, `stop_requested_`, first exception, two mutexes, one `WorkerState` per thread | every interleaving of workers; notifications sent to nobody; cached copies of the stop flag and the idle count; exceptions anywhere | `ParallelExecutor`, `VerifyContract` |
| its progress reports | atomic counters, `next_progress_report_tick_`, `progress_callback_mutex_` | racing claims, torn snapshots, lock order | `ProgressReports` |
| `DepthFirstExplorer` (dpor.hpp) | a stack of contexts, each a graph and a stack of frames with checkpoints and cursors | long sequences of revisits and rollbacks; a stop in the middle; handoff of one alternative | `DepthFirstExplorer` |
| the algorithm (dpor.hpp) | none | completeness and optimality | `DporAlgorithm` |
| graphs (`execution_graph.hpp`, `exploration_graph.hpp`, `event.hpp`) | events, reads-from, caches, undo logs | caches that must agree with the graph after any rollback, copy or rewrite | `ExecutionGraph`, `GraphCaches`, `ExplorationGraph`, `GraphHistory` |
| consistency (`consistency.hpp`) | none | the shortcut for graphs known to be acyclic | `Consistency` |
| oracle (`tests/support/oracle_core.hpp`) | a set of signatures | the reference for completeness | `DporOracle` |
| two-phase commit, over UDP | coordinator, participants, timers, datagrams | late, lost and duplicated datagrams, a broadcast cut off in the middle, a crash before the decision | `TwoPhaseProtocol`, `TwoPhaseCommit`, `CommitContract` |
| two-phase commit, simulated | thread functions that replay the protocol | a run that must be replayable from any trace the engine builds | `CommitSimulation`, composed with the engine in `MCDpor` |

The explorer calls its executor through `stop_requested`,
`maybe_report_progress`, `can_spawn`, `should_split_to_idle_worker`,
`try_enqueue`, `publish_terminal_execution` and `notify_fatal_error` (and two
diagnostic counters, `note_nd_split` and `note_receive_split`, left out).  The
explorer uses the algorithm, which uses graphs and the consistency checker.  The
protocol objects of the example run unchanged in two environments: over sockets,
or as the program that the engine explores.

Three abstract specifications say what a part promises: `VerifyContract` (the
result of `verify()` and `verify_parallel()`), `GraphHistory` (graphs are values
and a rollback restores one) and `CommitContract` (atomic commit).  The detailed
modules are checked to implement them.

Other modules: `MCParallelExecutor`, `MCDpor` and `MCExplorationGraph` hold the
instances for TLC; `ParallelExecutorTypes`, `ParallelExecutorSteps`,
`ParallelExecutorWork`, `ParallelExecutorProofs`, `ProgressReportsSteps`,
`ProgressReportsProofs`, `GraphCachesProofs` and `TwoPhaseCommitProofs` hold the
proofs.

Definitions introduced by the word "Mutant" in their comment are faulty
variants, one per property.  With the variant in place of the original TLC finds
the property violated, which shows that the property can fail.

## 2. How the models correspond to the code

### ParallelExecutor

A node of the constant exploration tree stands for a graph.  `Kind` says what
`handle_enter_frame()` does with it: it is inconsistent (`"pruned"`), published
(`"terminal"`), or has alternatives (`"branch"` for ND and receive frames,
`"send"` for the revisits of a send followed by its continuation).  A Block, an
ND label without choices or a rescheduling is a branch with one alternative,
which is never given away.  `Faulty` nodes are those where a thread function
throws.

`pc[w]` is the program point of a worker.

| Points | Code |
|---|---|
| `lock`, `check`, `park`, `wait`, `wake`, `take` | the wait loop at dpor.hpp:1766-1789 |
| `start` | `process_task()` |
| `loop` | `run_loop()` |
| `enter` | `handle_enter_frame()` |
| `spawn`, `offer`, `enqueue`, `notify_one` | `can_spawn()`, `try_enqueue()` |
| `publish`, `count`, `callback` | `publish_terminal_execution()` |
| `stop_store`, `stop_notify` | `request_stop()` |
| `fatal`, `record`, `record_notify` | the two `catch` blocks, `record_exception()` |
| `finish`, `complete_notify` | the end of a task, dpor.hpp:1806-1819 |

Steps are cut at accesses to state that another worker can change meanwhile.
`queue_mutex_` is held across steps only where a store outside the mutex (the
stop flag) may fall between two reads: `wait()` evaluates its predicate, and
evaluates it again, and only then blocks.  Notification is
`std::condition_variable` as its users know it: a notification reaches those who
are blocked, and spurious wakeups are possible but not promised.

Memory is sequentially consistent in the model.  `request_stop()` stores the
stop flag with release order and without a mutex, and its readers load it with
acquire order, so the language allows a load to lag behind the store; the model
has no such lag, and "late" in `StopIsPrompt` is counted from the store.  The
relaxed reads of `idle_workers_` (the split gate) and of `stop_requested_` in
`try_enqueue()` are treated in the same way.  Memory orders are outside what the
checks and proofs show.

When a progress report is due is nondeterministic here, and a report is modelled
by the flush of local counts.  The counts of the five kinds are added up.
`created`, `counted` and `late` are history variables.

### ProgressReports

The other side of `maybe_report_progress()`: the clock, the poll counter, the load
and the compare-exchange on `next_progress_report_tick_`, the two mutexes, and
the counters one atomic at a time, so a snapshot is read while others flush.  A
worker is in the middle of some task and leaves when it likes; when all have left
the caller makes the final report.  Claims are an interval apart but callbacks
wait for the mutex, so two callbacks may be closer together than an interval;
what holds is the rate (`ReportsThrottled`).

### ExecutionGraph, Consistency, DporAlgorithm, DepthFirstExplorer

A graph is a record of an event sequence and a reads-from function; ids are
positions, as in the code, where ascending ids are insertion order.  A matcher
is the set of values it accepts.  Checkpoints are saved graphs, so `rollback()`
is exact by definition here; `ImplementsHistory` of `ExplorationGraph` is what
justifies it.  `GiveAway` is `try_enqueue()` accepting; with `Splits` an executor
may accept or refuse any offer.  Since explorers share no graph, the model runs
the queued tasks one after the other.

### GraphCaches, ExplorationGraph, GraphHistory

One `ExplorationGraphT` with everything it keeps beside the events: thread tails
and counts, receives per thread, reader counts, the unread mask, the used event
indices (`UsedEventIndexSet`) with the saturating next index, `known_acyclic_`
and `pending_fresh_receive_id_`, the vector clocks of the porf cache, the reused
trace buffer (entries that compare equal are kept, the others written, the rest
cut off), and the two undo logs, undone one record per step.  The owner may
call anything in any order, subject to the preconditions that every caller in
dpor.hpp meets:

* a source is an existing send or bottom (a source that is added later would be
  missing from the reader counts);
* the variants that preserve acyclicity are called where no cycle arises;
* checkpoints are held as a stack.  A checkpoint of an abandoned branch is
  accepted again once the logs have regrown to its size, and rolls back to
  something else;
* a graph that is rewritten (`restrict`, `rebind_rf`, `with_rf`,
  `with_nd_value`) carries no history: `Copy` followed by a rewrite is what the
  code does to a graph that has one.

Indices are given in ascending order per thread, so the branches of
`UsedEventIndexSet` that absorb or split its sparse part are part of the model
but are not reached.

### DporOracle

`tests/support/oracle_core.hpp` enumerates all executions by brute force.  The
model first grows one witness execution in every possible way and then runs the
explorer: `Complete` says that in each behaviour the explorer published that
behaviour's witness.  Checking all behaviours compares the two sets.

### TwoPhaseProtocol, TwoPhaseCommit, CommitSimulation

`TwoPhaseProtocol` has one operator per handler of `Coordinator` and
`Participant`.  It returns the state after the handler, the state if a send in it
throws, the messages in order, the timers set and cancelled, and whether the
protocol is done, throws or goes on.  `TwoPhaseCommit` is `UdpEnvironment::run()`
around it: start, due timers, one datagram at a time, and the reset of the timers
on every exit.  A datagram may be lost, late, overtaken or duplicated, a send may
fail in the middle of a broadcast, the coordinator may crash before its decision.
Time is abstract: a timer that is set may fire at any moment.

`CommitSimulation` is the other environment (`sim/`): the thread function of a
node runs the protocol from its start against a trace, answers the first
operations from it and returns the label of the next one.  It is a `ThreadFn`, so
the explorer model runs it.  A trace that the replay cannot follow would be a
`Failure`, which `GraphFollowsProgram` excludes.

The model was compared with the counts that the example's own test demands.  The
explorer on the simulation with two participants ends with 896 published
executions with crash injection and with 876 without, the numbers at
`two_phase_commit_test.cpp` lines 636 and 781.  These two explorations take about
four and three minutes and are not among the runs; `dpor_async` has the simulation
with one participant, compared with the oracle.

## 3. Runs

| Run | Instance | Distinct states | Shows |
|---|---|---|---|
| `pool_explores` | 3 workers, 8-node tree, queue of 1, no stop | 119,290 | the invariant that is proved, nothing is explored twice, refinement of `VerifyContract` |
| `pool_stop_strict` | 3 workers, 3 terminals, queue of 2, one node throws; callbacks continue, stop or throw | 31,131 | at most one late count; none after an exception; refinement |
| `pool_stop_relaxed` | 2 workers, 7-node tree, callbacks continue, stop or throw, `sync_steps` 6, split poll 2, flush interval 2 | 366,143 | late counts bounded; each count in one counter; thread-local state reset |
| `pool_returns` | 2 workers, 8-node tree, fair, no stop | 11,818 | `verify_parallel()` returns |
| `pool_lost_wakeup` | the same with callbacks that stop | | **fails**: see findings |
| `progress_reports` | 2 workers, 2 kinds, intervals 0 and 2, flush intervals 1 and 2, 2 terminals, 4 ticks | 2,046,412 | reports throttled, snapshots never go back, exact ones exact, no deadlock of the two mutexes |
| `exploration_graph` | 2 threads, 4 events, 2 assignments, 1 checkpoint | 127,342 | every cache exact, `known_acyclic_` sound, program order total, refinement of `GraphHistory` |
| `dpor_async` | 270 programs of three threads and the simulated commit | 55,594 | completeness, no duplicates, graphs follow the program, revisits whole, termination |
| `dpor_fifo` | 216 programs, FIFO channels | 38,676 | completeness, no duplicates, visited graphs consistent, the masked tiebreaker |
| `dpor_split_cut` | 72 programs, fair, any handoff and any stop; depth 6, 2 events per thread, errors | 72,723 | checkpoints nest, nothing twice, kinds truthful, what is missing was announced, the search ends however it is stopped |
| `dpor_error` | one program | | **fails**: see findings |
| `two_phase_commit` | 2 participants, all faults | 71,344 | agreement, validity, crash safety, timers match phases, refinement of `CommitContract`, waits end |

Bounds.

* Pool: three workers are needed for two to sleep while one completes and for two
  to publish while one fails; the queue of one slot makes refusals happen.  In
  relaxed mode a worker polls at least four times between two terminals, so with
  `sync_steps` 6 a worker may count two terminals late (`StopIsPrompt` allows
  1 + 5 div 4), which is the first case in which the bound is not simply one.
  The proof covers every value.
* Explorer: the small programs have up to three events per thread, two senders racing
  for a receiver, receives with matchers, nonblocking receives, duplicate ND
  choices, conditional sends and messages that unblock others; each is run under
  every assignment of roles to thread ids, because ids order the exploration and
  break ties.  `MaxDepth` 100 is above any depth these programs reach.
* Graph: four events are two threads with a send that can have two readers and a
  binding that closes a cycle; two assignments rebind one receive.  `MaxIndex` 2
  makes indices run out.  With two nested checkpoints and three events the same
  properties were checked separately (about 630,000 states).
* Progress: two workers can lose an exchange to each other; two kinds suffice to
  tear a snapshot; four ticks are two intervals.
* Commit: with two participants one can be served and the other cut off.

The three safety runs of the pool are taken up to a permutation of the workers
(`WorkerSymmetry`): `ParallelExecutor` treats them alike and its safety properties
quantify over all of them.  The 7-node tree is the 8-node tree without its pruned
node, which counts nothing.  The two runs about `Returns` are temporal and use no
symmetry, nor do the other modules, where thread ids and participants are ordered.

Deadlock is checked except in `exploration_graph`, where the owner may stop
calling and the bounds end every behaviour, and in `two_phase_commit`, where all
nodes may have returned, or wait for a datagram that never comes.

Fairness.

* `FairSpec` of the pool gives each worker weak fairness, and strong fairness for
  the steps that acquire a mutex: the scheduler runs every runnable thread and a
  mutex that is released again and again is eventually obtained.  Spurious
  wakeups get none.
* `FairOracleSpec` (`dpor_async`, `dpor_split_cut`) says that the one thread of the
  explorer keeps running: it is weak fairness of the whole next-state relation,
  with the states in which no step changes anything written out (`Stuck`)
  because TLC cannot evaluate `ENABLED` of the explorer in reasonable time.
* `FairSpec` of the commit gives weak fairness to timers only: `run()` waits no
  longer than until its next timer and dispatches due timers before every
  datagram.  Nothing makes a datagram arrive, so a participant that gets no
  Prepare waits for ever, and `EveryWaitEnds` does not claim otherwise.

## 4. Findings

* **A stop can be missed by a worker that is about to sleep.**  `request_stop()`
  and `record_exception()` set the flag and notify without `queue_mutex_`.  If
  this falls between a worker's last evaluation of the wait predicate and its
  blocking, the worker sleeps, nobody notifies again and `run()` hangs in
  `join()`.  The comment at dpor.hpp:1797-1803 ("which broadcast themselves") and
  `docs/parallel_exploration_implementation.md` lines 85-91 state that broadcast
  is enough.  Run `pool_lost_wakeup`.
* **An error terminal hides executions.**  The branch ends when a thread's next
  label is an error, before the other threads are asked, so their later sends
  never revisit earlier receives.  `docs/api.md` lines 326-327 and
  353-356 say that exploration goes on after an error terminal.  Run `dpor_error`.
  `CompleteUnlessCut` is what holds instead.

A remark without a run: `docs/api.md` lines 274-275 say that work is offered to
others at the backward revisits of a send only, while ND and receive alternatives
are offered too (dpor.hpp:2626 and 2680); the pool model does what the code does.

## 5. Proofs

`ParallelExecutorProofs`: for every finite nonempty set of workers, every tree
that satisfies `TreeAssumption` and all options.

* `PoolInvariantHolds`: `Spec => []PoolInvariant`.  The properties
  `CompleteMeansDrained`, `QueueBounded` and `NoStrandedSleeper` are not
  inductive.  That the search ends only when drained needs `active_workers_` to
  be exactly the number of busy workers; that a decrement does not wrap needs
  the same; that a popped task exists needs the view under the mutex
  (`LockedView`: at `take`, `Ready` still holds, because only the stop flag
  changes meanwhile and it is never reset); this needs `MutexOwners`; that a
  worker's steps are defined needs its frames (`FramesFit`).  `PoolInvariant` is
  the conjunction, and TLC checks it in `pool_explores`.
* `TypesHold`, `CompletionIsFinal`, `QueueStaysBounded`, `NobodyIsStranded`:
  consequences.
* `StopInvariantHolds`, and from it `StrictStopIsPrompt` and
  `ExceptionEndsCounting`: what `publication_mutex_` guarantees in strict mode.
  The invariant says that a late count leaves nobody at the point between check
  and count, and that a recorded exception excludes anybody there.
* `StopLagHolds`, and with the above `StopIsAlwaysPrompt`: lateness in relaxed
  mode.  The bound on late counts is not inductive; `StopLag` ties each late
  count to four polls made since the cached flag was last reloaded (`PollsMade`
  says how many a worker has made on its way to the next terminal), and a reload
  comes before the `sync_steps`-th.
* `WorkInvariantHolds`: where every graph and every count is.  That no node is
  created twice needs that the alternatives from a frame's cursor on do not exist
  yet (`FramesFollowTree`), which needs that no two places hold the same node
  (`HeldOnce`).  That a terminal is counted once needs where a counted one can
  still be on a stack (`CountsFollowFrames`).  That none is missing when no stop
  happened needs `NothingLost`: what was created is held, or all its alternatives
  were created, or it was counted.  `TallyExact` says that counters and local
  counts partition the counted terminals; it is stated with an assignment of
  terminals to counters, so that a flush is a union of disjoint finite sets and no
  sum over workers is needed.  TLC checks the invariant in `pool_stop_relaxed`.
* `NothingHappensTwice`, `ThreadStateIsReset`: consequences.
* `ContractIsImplemented`: `Spec => Contract!Spec`.  A count is `CountOne` of the
  contract, `Join` one of its answers.  That `AllExplored` is true needs that
  without a stop every node was created when all workers have left: the created
  nodes contain the root and, nothing being held any more, the alternatives of
  each, and `TreeAssumption` says that only the whole tree does.

`ParallelExecutorTypes` preserves types and describes each step by what it does to
a frame, the queue and the counts; `ParallelExecutorSteps` and
`ParallelExecutorWork` argue from these descriptions for each conjunct;
`ParallelExecutorProofs` assembles.

`TwoPhaseCommitProofs`: for any number of participants and every combination of
faults.

* `CommitInvariantHolds`.  None of the properties is inductive: that two
  delivered decisions agree needs that every decision on the way is the
  coordinator's, that a commit is unanimous needs where the tally came from.  The
  invariant traces every piece of information to its origin: the tally to votes
  cast, one per sender; a decision on the way or delivered to the coordinator;
  an outcome "commit" to a delivered decision.  A handler is `Faithful` when the
  step it returns keeps to that, and what the network, a failing send or the crash
  make of a faithful step is one argument for all handlers.
* `DecisionsAgree`, `CommitsAreUnanimous`, `CrashesAreSafe`, `TimersMatchPhases`
  follow from it.
* `CommitIsImplemented`: `Spec => Contract!Spec`, the refinement itself: every
  step is a step of `CommitContract` or leaves its variables alone.

`ProgressReportsProofs`, with the descriptions of the steps in
`ProgressReportsSteps`: for any finite number of workers, any kinds and any
intervals.

* `TickCountsClaims` is the inductive invariant of the throttle: the report tick
  has advanced by an interval for each report made *or claimed*, and is never more
  than an interval ahead of the clock.  Counting only reports made is not
  inductive, because a claim precedes its callback by several steps.
  `ReportsAreThrottled` follows.
* `ReportInvariantHolds` is the one of the counters.  Every terminal begun is in
  the shared counter or waits in the local count of one worker (`CountsAddUp`: a
  cardinality of pairs, so that no sum is needed), the shared maximum covers what
  was flushed (`MaxAddsUp`), one worker at a time is inside the callback mutex
  (`Alone`), and the part of a snapshot that is already read lies between the last
  report and the counters (`SnapshotFits`).
* `ExactReportsAreExact` and `ReportsNeverGoBack` follow; without `SnapshotFits`
  neither is inductive, because a snapshot is read one counter at a time while
  others flush.

`GraphCachesProofs`: why `known_acyclic_` may stay set, for graphs of any size.
`AppendedEventComesLast`, `FreshBindingClosesNoCycle` and `BottomClosesNoCycle` say
that the three operations that keep the flag close no cycle: edges into an event
that nothing follows keep the others in order.  Acyclic is `Orderable` (every
nonempty set of events has a minimal one), which is what Kahn's algorithm decides.
The rewrites of a whole graph are folds over its events, which need induction over
data; there `KnownAcyclicSound` is checked by TLC only.

Only model-checked: liveness (`Returns`, `Terminates`, `EveryWaitEnds`), which
needs fairness; the refinement of `GraphHistory`, the caches of the graph, its
vector clocks and trace buffers, and everything about the explorer, whose
operators (closure, restriction, traces) are folds: what a fold computes for every
input takes an induction that the provers cannot instantiate.

## 6. Not modelled

* Memory orders (see above).
* Failing locks and allocations, a thread that cannot be created in `run()`, and so
  the exceptions of `worker_loop_impl()` that only these can cause and that skip
  `flush_worker_state()`; exceptions of `on_progress`; which of two failures at
  the same moment is reported (dpor.hpp:1696); the guard against calling
  `verify()` from a callback (dpor.hpp:1491).
* Split diagnostics, counters that are only copied to the result; progress reports of the
  sequential executor, where nothing is concurrent.
* The relation algebra (`relation.hpp`): pure and lazy.  The engine uses its
  program-order and reads-from views only, whose content `ExecutionGraph` defines;
  composition and closure serve tests and clients.
* `ThreadMapT`: a dense map, here a TLA+ function.
* Sockets, addresses, the text encoding of datagrams and the real clock of the
  UDP environment; formatting and error messages; benchmarks and command lines.
