--------------------------- MODULE ProgressReports ---------------------------
(***************************************************************************)
(* Progress reports of verify_parallel(): maybe_report_progress(), the     *)
(* counters it publishes and the final report (class ParallelExecutor of   *)
(* include/dpor/algo/dpor.hpp).  Workers count terminal executions in      *)
(* their own WorkerState and add them to the shared counters one atomic at *)
(* a time; whoever wins the exchange on next_progress_report_tick_ reports *)
(* under progress_callback_mutex_, with queue_mutex_ taken inside it.      *)
(* ParallelExecutor has the exploration; here a worker is in the middle of *)
(* some task, and leaves when it likes.  on_progress is set.               *)
(***************************************************************************)
EXTENDS Integers, FiniteSets, Functions

CONSTANTS
    Workers,
    Main,             \* the caller's thread, which also runs worker_loop()
    NumKinds,         \* kinds of terminal, each with a counter of its own
    Depths,           \* thread event depths of terminals
    Intervals,        \* choices of progress_report_interval; 0: every poll
    FlushIntervals,   \* choices of progress_counter_flush_interval
    PollInterval,     \* progress_poll_interval_steps
    MaxTerminals,     \* bound: terminals published in all
    MaxTime,          \* bound: clock ticks
    MaxReports        \* bound: live reports when every poll reports

Free == "free"

ASSUME ProgressAssumption ==
    /\ Main \in Workers /\ IsFiniteSet(Workers) /\ Free \notin Workers
    /\ NumKinds \in Nat \ {0}
    /\ Depths \subseteq Nat
    /\ Intervals \subseteq Nat
    /\ FlushIntervals \subseteq Nat \ {0}
    /\ PollInterval \in Nat
    /\ MaxTime \in Nat /\ MaxTerminals \in Nat /\ MaxReports \in Nat

VARIABLES
    interval, flushEvery,   \* the options of this run
    clock,                  \* Clock::now()
    due,                    \* next_progress_report_tick_
    pc, back,               \* where a worker is, and where flushing returns to
    at,                     \* the counter a flush or a snapshot is at
    polls,                  \* steps_since_progress_poll
    now, seen,              \* now_tick and due_tick of maybe_report_progress()
    local, localMax,        \* WorkerState: counts per kind, deepest terminal
    pending,                \* pending_terminal_executions
    shared, sharedMax,      \* the atomic counters
    seenMax,                \* "observed" of the exchange loop for the maximum
    snapshot,               \* the ProgressSnapshot being filled
    callbackLock,           \* owner of progress_callback_mutex_
    queueLock,              \* owner of queue_mutex_
    report,                 \* what the last callback was given; honest is a ghost:
                            \* its counts fit the terminals published meanwhile
    joined,                 \* run() has joined its threads
    live,                   \* history: number of live callbacks
    kind,                   \* the kind of terminal a worker is publishing, or 0
    started, published,     \* history: terminals of each kind whose publication
                            \* has begun and has ended
    deepest                 \* history: depth of the deepest terminal

options == <<interval, flushEvery>>
pollVars == <<polls, now, seen>>
countVars == <<local, localMax, pending, shared, sharedMax, seenMax>>
locks == <<callbackLock, queueLock>>
history == <<kind, started, published, deepest>>
vars == <<options, clock, due, pc, back, at, pollVars, countVars, snapshot,
          locks, report, live, joined, history>>

Kind == 1 .. NumKinds
NoCounts == [k \in Kind |-> 0]
(* floor (a ghost): terminals published before the snapshot was begun.     *)
NoSnapshot(floor) == [counts |-> NoCounts, max |-> 0, floor |-> floor]
Larger(a, b) == IF a > b THEN a ELSE b

Init ==
    /\ interval \in Intervals /\ flushEvery \in FlushIntervals
    /\ clock = 0 /\ due = interval
    /\ pc = [w \in Workers |-> "run"]
    /\ back = [w \in Workers |-> "run"]
    /\ at = [w \in Workers |-> 1]
    /\ polls = [w \in Workers |-> 0]
    /\ now = [w \in Workers |-> 0]
    /\ seen = [w \in Workers |-> 0]
    /\ local = [w \in Workers |-> NoCounts]
    /\ localMax = [w \in Workers |-> 0]
    /\ pending = [w \in Workers |-> 0]
    /\ shared = NoCounts /\ sharedMax = 0
    /\ seenMax = [w \in Workers |-> 0]
    /\ snapshot = NoSnapshot(NoCounts)
    /\ callbackLock = Free /\ queueLock = Free
    /\ report = [state |-> "none", counts |-> NoCounts, max |-> 0, exact |-> FALSE,
                 honest |-> TRUE]
    /\ joined = FALSE /\ live = 0
    /\ kind = [w \in Workers |-> 0]
    /\ started = NoCounts /\ published = NoCounts /\ deepest = 0

Goto(w, label) == pc' = [pc EXCEPT ![w] = label]

(* The local variables of maybe_report_progress() go out of scope.         *)
Forget(w) == now' = [now EXCEPT ![w] = 0] /\ seen' = [seen EXCEPT ![w] = 0]

(* Without an interval the clock decides nothing.                          *)
Tick == /\ interval > 0 /\ clock < MaxTime
        /\ clock' = clock + 1
        /\ UNCHANGED <<options, due, pc, back, at, pollVars, countVars, snapshot,
                       locks, report, live, joined, history>>
-----------------------------------------------------------------------------
(* Counting.                                                               *)

(* flush_local_counts() starts, and will go on at label.                   *)
CallFlush(w, label) ==
    /\ Goto(w, "flush")
    /\ back' = [back EXCEPT ![w] = label]
    /\ at' = [at EXCEPT ![w] = 1]

(* increment_local_terminal_counts()                                       *)
CountTerminal(w, k, d) ==
    /\ pc[w] = "run"
    /\ SumFunction(started) < MaxTerminals
    /\ local' = [local EXCEPT ![w][k] = @ + 1]
    /\ localMax' = [localMax EXCEPT ![w] = Larger(d, @)]
    /\ pending' = [pending EXCEPT ![w] = @ + 1]
    /\ started' = [started EXCEPT ![k] = @ + 1]
    /\ deepest' = Larger(d, deepest)
    /\ IF pending[w] + 1 >= flushEvery
       THEN /\ CallFlush(w, "published")
            /\ kind' = [kind EXCEPT ![w] = k]
            /\ UNCHANGED published
       ELSE /\ published' = [published EXCEPT ![k] = @ + 1]
            /\ UNCHANGED <<pc, back, at, kind>>
    /\ UNCHANGED <<options, clock, due, pollVars, shared, sharedMax, seenMax,
                   snapshot, locks, report, live, joined>>

Published(w) ==
    /\ pc[w] = "published"
    /\ published' = [published EXCEPT ![kind[w]] = @ + 1]
    /\ kind' = [kind EXCEPT ![w] = 0]
    /\ Goto(w, "run")
    /\ UNCHANGED <<options, clock, due, back, at, pollVars, countVars, snapshot,
                   locks, report, live, joined, started, deepest>>

(* One fetch_add.                                                          *)
FlushCount(w) ==
    /\ pc[w] = "flush" /\ at[w] \in Kind
    /\ shared' = [shared EXCEPT ![at[w]] = @ + local[w][at[w]]]
    /\ at' = [at EXCEPT ![w] = @ + 1]
    /\ UNCHANGED <<options, clock, due, pc, back, pollVars, local, localMax,
                   pending, sharedMax, seenMax, snapshot, locks, report, live, joined,
                   history>>

(* The maximum: a load, then the exchange loop.                            *)
FlushLoadMax(w) ==
    /\ pc[w] = "flush" /\ at[w] \notin Kind
    /\ seenMax' = [seenMax EXCEPT ![w] = sharedMax]
    /\ Goto(w, "fold")
    /\ UNCHANGED <<options, clock, due, back, at, pollVars, local, localMax,
                   pending, shared, sharedMax, snapshot, locks, report, live, joined,
                   history>>

(* The counts are reset whichever way the loop ends.                       *)
EndFlush(w) ==
    /\ local' = [local EXCEPT ![w] = NoCounts]
    /\ localMax' = [localMax EXCEPT ![w] = 0]
    /\ pending' = [pending EXCEPT ![w] = 0]
    /\ at' = [at EXCEPT ![w] = 1]
    /\ seenMax' = [seenMax EXCEPT ![w] = 0]
    /\ Goto(w, back[w])

(* Mutant: the maximum is stored, not exchanged.                           *)
FoldMaxStores(w) ==
    /\ pc[w] = "fold"
    /\ sharedMax' = Larger(localMax[w], seenMax[w])
    /\ EndFlush(w)
    /\ UNCHANGED <<options, clock, due, back, pollVars, shared, snapshot, locks,
                   report, live, joined, history>>

FoldMax(w) ==
    /\ pc[w] = "fold"
    /\ \/ /\ seenMax[w] >= localMax[w]
          /\ EndFlush(w) /\ UNCHANGED sharedMax
       \/ /\ seenMax[w] < localMax[w] /\ sharedMax = seenMax[w]
          /\ sharedMax' = localMax[w]
          /\ EndFlush(w)
       \/ /\ seenMax[w] < localMax[w] /\ sharedMax # seenMax[w]
          /\ seenMax' = [seenMax EXCEPT ![w] = sharedMax]
          /\ UNCHANGED <<pc, at, local, localMax, pending, sharedMax>>
    /\ UNCHANGED <<options, clock, due, back, pollVars, shared, snapshot, locks,
                   report, live, joined, history>>
-----------------------------------------------------------------------------
(* maybe_report_progress()                                                 *)

(* The clock is looked at once every PollInterval calls.                   *)
PollLater(w) ==
    /\ pc[w] = "run" /\ interval > 0
    /\ PollInterval > 1 /\ polls[w] + 1 < PollInterval
    /\ polls' = [polls EXCEPT ![w] = @ + 1]
    /\ UNCHANGED <<options, clock, due, pc, back, at, now, seen, countVars, snapshot,
                   locks, report, live, joined, history>>

Poll(w) ==
    /\ pc[w] = "run"
    /\ \/ /\ interval = 0 /\ live < MaxReports
          /\ Goto(w, "acquire") /\ UNCHANGED <<polls, now>>
       \/ /\ interval > 0
          /\ PollInterval <= 1 \/ polls[w] + 1 >= PollInterval
          /\ polls' = [polls EXCEPT ![w] = 0]
          /\ now' = [now EXCEPT ![w] = clock]
          /\ Goto(w, "load")
    /\ UNCHANGED <<options, clock, due, back, at, seen, countVars, snapshot, locks,
                   report, live, joined, history>>

(* Back to work, or on to the exchange with the tick just seen.            *)
Compare(w) ==
    \/ now[w] < due /\ Forget(w) /\ Goto(w, "run")
    \/ /\ now[w] >= due
       /\ seen' = [seen EXCEPT ![w] = due]
       /\ Goto(w, "exchange") /\ UNCHANGED now

LoadDue(w) ==
    /\ pc[w] = "load"
    /\ Compare(w)
    /\ UNCHANGED <<options, clock, due, back, at, polls, countVars, snapshot,
                   locks, report, live, joined, history>>

(* compare_exchange_weak(); a spurious failure changes nothing.            *)
ClaimReport(w) ==
    /\ pc[w] = "exchange"
    /\ due = seen[w]
    /\ due' = now[w] + interval
    /\ Forget(w)
    /\ Goto(w, "acquire")
    /\ UNCHANGED <<options, clock, back, at, polls, countVars, snapshot, locks,
                   report, live, joined, history>>

(* Mutant: after a lost exchange the new tick is not compared with now.    *)
LoseClaimRetries(w) ==
    /\ pc[w] = "exchange"
    /\ due # seen[w]
    /\ seen' = [seen EXCEPT ![w] = due]
    /\ UNCHANGED <<options, clock, due, pc, back, at, polls, now, countVars, snapshot,
                   locks, report, live, joined, history>>

LoseClaim(w) ==
    /\ pc[w] = "exchange"
    /\ due # seen[w]
    /\ Compare(w)
    /\ UNCHANGED <<options, clock, due, back, at, polls, countVars, snapshot,
                   locks, report, live, joined, history>>

(* publish_progress_snapshot(): flush, fill a snapshot, call back, all     *)
(* under progress_callback_mutex_.                                         *)
LockCallback(w) ==
    /\ pc[w] = "acquire"
    /\ callbackLock = Free
    /\ callbackLock' = w
    /\ snapshot' = NoSnapshot(published)
    /\ CallFlush(w, "snapshot")
    /\ UNCHANGED <<options, clock, due, pollVars, countVars, queueLock, report, live, joined,
                   history>>

(* make_progress_snapshot(): one load after the other.                     *)
ReadCount(w) ==
    /\ pc[w] = "snapshot" /\ at[w] \in Kind
    /\ snapshot' = [snapshot EXCEPT !.counts[at[w]] = shared[at[w]]]
    /\ at' = [at EXCEPT ![w] = @ + 1]
    /\ UNCHANGED <<options, clock, due, pc, back, pollVars, countVars, locks, report,
                   live, joined, history>>

ReadMax(w) ==
    /\ pc[w] = "snapshot" /\ at[w] \notin Kind
    /\ snapshot' = [snapshot EXCEPT !.max = sharedMax]
    /\ Goto(w, "queue")
    /\ UNCHANGED <<options, clock, due, back, at, pollVars, countVars, locks, report,
                   live, joined, history>>

LockQueue(w) ==
    /\ pc[w] = "queue"
    /\ queueLock = Free
    /\ Goto(w, "callback")
    /\ UNCHANGED <<options, clock, due, back, at, pollVars, countVars, snapshot, locks,
                   report, live, joined, history>>

(* notify_progress().                                                      *)
Callback(w) ==
    /\ pc[w] = "callback"
    /\ report' = [state   |-> IF joined THEN "final" ELSE "running",
                  counts  |-> snapshot.counts,
                  max     |-> snapshot.max,
                  exact   |-> joined \/ flushEvery <= 1,
                  honest  |-> \A k \in Kind : /\ snapshot.floor[k] <= snapshot.counts[k]
                                              /\ snapshot.counts[k] <= started[k]]
    /\ live' = IF joined THEN live ELSE live + 1
    /\ callbackLock' = Free
    /\ snapshot' = NoSnapshot(NoCounts)
    /\ at' = [at EXCEPT ![w] = 1]
    /\ Goto(w, IF joined THEN "end" ELSE "run")
    /\ UNCHANGED <<options, clock, due, back, pollVars, countVars,
                   queueLock, joined, history>>
-----------------------------------------------------------------------------
(* The end of run().                                                       *)

(* worker_loop_impl() leaves through flush_worker_state(), which flushes   *)
(* under queue_mutex_.                                                     *)
Leave(w) ==
    /\ pc[w] = "run"
    /\ queueLock = Free
    /\ queueLock' = w
    /\ CallFlush(w, "leave")
    /\ UNCHANGED <<options, clock, due, pollVars, countVars, snapshot, callbackLock,
                   report, live, joined, history>>

Left(w) ==
    /\ pc[w] = "leave"
    /\ queueLock' = Free
    /\ polls' = [polls EXCEPT ![w] = 0]
    /\ Goto(w, "left")
    /\ UNCHANGED <<options, clock, due, back, at, now, seen, countVars, snapshot,
                   callbackLock, report, live, joined, history>>

(* Mutant: the caller does not wait for the other threads.                 *)
JoinEarly ==
    /\ ~joined
    /\ pc[Main] = "left"
    /\ joined' = TRUE
    /\ Goto(Main, "acquire")
    /\ UNCHANGED <<options, clock, due, back, at, pollVars, countVars, snapshot,
                   locks, report, live, history>>

(* All threads are joined and no exception was recorded: the caller's      *)
(* thread makes the final report (publish_final_progress).                 *)
Join ==
    /\ ~joined
    /\ \A w \in Workers : pc[w] = "left"
    /\ joined' = TRUE
    /\ Goto(Main, "acquire")
    /\ UNCHANGED <<options, clock, due, back, at, pollVars, countVars, snapshot,
                   locks, report, live, history>>

Returned == pc[Main] = "end" /\ UNCHANGED vars
-----------------------------------------------------------------------------
Next ==
    \/ Tick \/ Join \/ Returned
    \/ \E w \in Workers :
          \/ \E k \in Kind, d \in Depths : CountTerminal(w, k, d)
          \/ Published(w) \/ FlushCount(w) \/ FlushLoadMax(w) \/ FoldMax(w)
          \/ PollLater(w) \/ Poll(w) \/ LoadDue(w) \/ ClaimReport(w) \/ LoseClaim(w)
          \/ LockCallback(w) \/ ReadCount(w) \/ ReadMax(w) \/ LockQueue(w) \/ Callback(w)
          \/ Leave(w) \/ Left(w)

Spec == Init /\ [][Next]_vars
-----------------------------------------------------------------------------
(* ReportsThrottled: "progress_report_interval > 0 throttles live          *)
(* snapshots to at most one callback per interval" (docs/api.md): by any   *)
(* time, no more live callbacks were made than intervals have passed,      *)
(* however the workers race for a report.                                  *)
ReportsThrottled == live * interval <= clock

(* SnapshotsMonotone: from one callback to the next no count and no        *)
(* maximum goes back, although each is read from counters that several     *)
(* workers add to one at a time; nothing is reported after the final       *)
(* snapshot.                                                               *)
SnapshotsMonotone ==
    [][/\ \A k \in Kind : report'.counts[k] >= report.counts[k]
       /\ report'.max >= report.max
       /\ report.state = "final" => UNCHANGED report]_report

(* ExactMeansExact: a snapshot that says counts_exact has, of each kind,   *)
(* every terminal whose publication ended before the report began, and     *)
(* none that had not begun by the callback; the final one has the exact    *)
(* counts and maximum, although workers flush concurrently and the maximum *)
(* is folded by an exchange loop.                                          *)
ExactMeansExact ==
    /\ report.exact => report.honest
    /\ report.state = "final" => report.counts = started /\ report.max = deepest
=============================================================================
