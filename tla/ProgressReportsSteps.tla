------------------------ MODULE ProgressReportsSteps ------------------------
(***************************************************************************)
(* What one step of a worker does to the state behind progress reports: who *)
(* holds the delivery mutex, which counter each statement moves and where a *)
(* snapshot's numbers come from; and what those moves preserve of          *)
(* ReportInvariant, the conjuncts that need no counting of pairs.          *)
(***************************************************************************)
EXTENDS ProgressReports, TLAPS

ReturnLabel == {"run", "published", "snapshot", "leave"}

Label == ReturnLabel \cup {"flush", "fold", "load", "exchange", "acquire", "queue",
                           "callback", "left", "end"}

ThrottleTypes ==
    /\ interval \in Nat /\ clock \in Nat /\ due \in Nat /\ live \in Nat
    /\ joined \in BOOLEAN
    /\ pc \in [Workers -> Label] /\ back \in [Workers -> ReturnLabel]
    /\ now \in [Workers -> Nat] /\ seen \in [Workers -> Nat]

(* What the reports rest on.                                               *)

(* Inside publish_progress_snapshot().                                     *)
Inside(w) ==
    \/ pc[w] \in {"snapshot", "queue", "callback"}
    \/ pc[w] \in {"flush", "fold"} /\ back[w] = "snapshot"

(* What worker w has counted and not yet added to the shared counter of k. *)
Unflushed(w, k) ==
    IF pc[w] = "fold" \/ (pc[w] = "flush" /\ at[w] > k) THEN 0 ELSE local[w][k]

Waiting(k) == {p \in Workers \X Nat : 1 <= p[2] /\ p[2] <= Unflushed(p[1], k)}

(* Inside increment_local_terminal_counts(), and the workers that publish a *)
(* terminal of kind k.                                                     *)
InPublication(w) ==
    \/ pc[w] = "published"
    \/ pc[w] \in {"flush", "fold"} /\ back[w] = "published"

Publishing(k) == {w \in Workers : kind[w] = k}

(* The parts of the snapshot that have been read.                          *)
MaxRead(w) == pc[w] \in {"queue", "callback"}

CountRead(w, k) == MaxRead(w) \/ (pc[w] = "snapshot" /\ at[w] > k)

Counts == [Kind -> Nat]

ReportTypes ==
    /\ flushEvery \in Nat \ {0} /\ at \in [Workers -> 1 .. NumKinds + 1]
    /\ local \in [Workers -> Counts] /\ localMax \in [Workers -> Nat]
    /\ pending \in [Workers -> Nat] /\ seenMax \in [Workers -> Nat]
    /\ shared \in Counts /\ sharedMax \in Nat
    /\ kind \in [Workers -> 0 .. NumKinds]
    /\ started \in Counts /\ published \in Counts /\ deepest \in Nat
    /\ snapshot \in [counts : Counts, max : Nat, floor : Counts]
    /\ report \in [state : {"none", "running", "final"}, counts : Counts, max : Nat,
                   exact : BOOLEAN, honest : BOOLEAN]

(* Who is where: the callback mutex has one holder, a worker outside       *)
(* flush_local_counts() and its run has nothing of its own, and after the  *)
(* join only the caller's thread moves.                                    *)
Holding == \A w \in Workers : Inside(w) <=> callbackLock = w

Resting ==
    \A w \in Workers :
        pc[w] \in {"published", "snapshot", "queue", "callback", "leave", "left", "end"} \/ joined
        => local[w] = NoCounts /\ localMax[w] = 0

Alone ==
    /\ joined => /\ \A w \in Workers \ {Main} : pc[w] = "left"
                 /\ Inside(Main) \/ pc[Main] \in {"acquire", "end"}
    /\ report.state = "final" => joined /\ pc[Main] = "end"

(* Which kind is being published; with a flush interval of 1 nothing else  *)
(* is held back.                                                           *)
KindsKnown ==
    /\ \A w \in Workers : kind[w] # 0 <=> InPublication(w)
    /\ flushEvery <= 1 =>
          \A w \in Workers, k \in Kind :
             local[w][k] = 0 \/ (local[w][k] = 1 /\ kind[w] = k)

(* No terminal is lost or counted twice on its way to the shared counters, *)
(* and the deepest one is in the shared maximum or on its way there.       *)
CountsAddUp ==
    \A k \in Kind :
        /\ IsFiniteSet(Waiting(k))
        /\ started[k] = shared[k] + Cardinality(Waiting(k))
        /\ started[k] = published[k] + Cardinality(Publishing(k))

MaxAddsUp ==
    /\ sharedMax <= deepest
    /\ \A w \in Workers : /\ localMax[w] <= deepest
                          /\ pc[w] = "fold" => seenMax[w] <= sharedMax
    /\ deepest = sharedMax \/ \E w \in Workers : localMax[w] = deepest

(* The snapshot lies between the last report and the counters, and, where  *)
(* it is to be exact, between what was and what is published.              *)
SnapshotFits ==
    /\ \A k \in Kind : /\ report.counts[k] <= shared[k]
                       /\ snapshot.floor[k] <= started[k]
                       /\ flushEvery <= 1 => snapshot.floor[k] <= shared[k]
    /\ report.max <= sharedMax
    /\ \A w \in Workers, k \in Kind : CountRead(w, k) =>
          /\ report.counts[k] <= snapshot.counts[k] /\ snapshot.counts[k] <= shared[k]
          /\ flushEvery <= 1 => snapshot.floor[k] <= snapshot.counts[k]
          /\ joined => snapshot.counts[k] = started[k]
    /\ \A w \in Workers : MaxRead(w) =>
          /\ report.max <= snapshot.max /\ snapshot.max <= sharedMax
          /\ joined => snapshot.max = deepest

ReportInvariant ==
    /\ ReportTypes /\ Holding /\ Resting /\ Alone /\ KindsKnown
    /\ CountsAddUp /\ MaxAddsUp /\ SnapshotFits /\ ExactMeansExact

(* The steps of a worker; CountTerminal is apart because of its inputs.    *)
Counting(w) == \E k \in Kind, d \in Depths : CountTerminal(w, k, d)

Flushing(w) == Published(w) \/ FlushCount(w) \/ FlushLoadMax(w) \/ FoldMax(w)

Polling(w) == PollLater(w) \/ Poll(w) \/ LoadDue(w) \/ ClaimReport(w) \/ LoseClaim(w)

Reports(w) == LockCallback(w) \/ ReadCount(w) \/ ReadMax(w) \/ LockQueue(w) \/ Callback(w)

Leaving(w) == Leave(w) \/ Left(w)

WorkerStep(w) == Counting(w) \/ Flushing(w) \/ Polling(w) \/ Reports(w) \/ Leaving(w)

-----------------------------------------------------------------------------
(* Polling and leaving do not touch the counters or the report.            *)
LEMMA PollMoves ==
    ASSUME ThrottleTypes, ReportTypes, NEW w \in Workers, Polling(w) \/ Leaving(w)
    PROVE  /\ UNCHANGED <<flushEvery, countVars, snapshot, report, callbackLock, joined, history>>
           /\ \/ /\ pc[w] \in {"run", "load", "exchange"} /\ UNCHANGED <<back, at>>
                 /\ \E l \in {"run", "load", "exchange", "acquire"} : pc' = [pc EXCEPT ![w] = l]
              \/ pc[w] = "run" /\ CallFlush(w, "leave")
              \/ /\ pc[w] = "leave" /\ UNCHANGED <<back, at>>
                 /\ pc' = [pc EXCEPT ![w] = "left"]
<1>1. CASE PollLater(w)
  <2>1. pc' = [pc EXCEPT ![w] = "run"]
    BY <1>1 DEF PollLater, ThrottleTypes
  <2> QED BY Zenon, <1>1, <2>1 DEF PollLater, options, locks
<1>2. CASE Poll(w)
  BY <1>2 DEF Poll, Goto, options, locks
<1>3. CASE LoadDue(w)
  BY <1>3 DEF LoadDue, Compare, Goto, options, locks
<1>4. CASE ClaimReport(w)
  BY <1>4 DEF ClaimReport, Goto, options, locks
<1>5. CASE LoseClaim(w)
  BY <1>5 DEF LoseClaim, Compare, Goto, options, locks
<1>6. CASE Leave(w)
  BY <1>6 DEF Leave, options
<1>7. CASE Left(w)
  BY <1>7 DEF Left, Goto, options
<1> QED BY <1>1, <1>2, <1>3, <1>4, <1>5, <1>6, <1>7 DEF Polling, Leaving

(* A counter goes up.                                                      *)
LEMMA OneMore ==
    ASSUME NEW c \in Counts, NEW k
    PROVE  [c EXCEPT ![k] = @ + 1] \in Counts
<1>1. \A i \in Kind : [c EXCEPT ![k] = @ + 1][i] \in Nat
  BY DEF Counts
<1> QED BY Zenon, <1>1 DEF Counts

(* Every step keeps the counters and the snapshot typed.                   *)
LEMMA ReportStepTypes ==
    ASSUME ThrottleTypes, ReportTypes, NEW w \in Workers, WorkerStep(w)
    PROVE  ReportTypes'
<1>0. NumKinds \in Nat \ {0} /\ Kind = 1 .. NumKinds /\ Depths \subseteq Nat
  BY ProgressAssumption DEF Kind
<1>1. ASSUME NEW k \in Kind, NEW d \in Depths, CountTerminal(w, k, d) PROVE ReportTypes'
  <2>1. local' \in [Workers -> Counts]
    BY <1>1 DEF CountTerminal, ReportTypes, Counts
  <2>2. localMax' \in [Workers -> Nat] /\ pending' \in [Workers -> Nat] /\ deepest' \in Nat
    BY <1>0, <1>1 DEF CountTerminal, ReportTypes, Larger
  <2>3. started' \in Counts /\ published' \in Counts
    <3>1. /\ started' = [started EXCEPT ![k] = @ + 1]
          /\ published' = published \/ published' = [published EXCEPT ![k] = @ + 1]
      BY <1>1 DEF CountTerminal
    <3>2. started \in Counts /\ published \in Counts
      BY DEF ReportTypes
    <3> QED BY Zenon, <3>1, <3>2, OneMore
  <2>4. 1 \in 1 .. NumKinds + 1 /\ k \in 0 .. NumKinds
    BY <1>0
  <2>5. at' \in [Workers -> 1 .. NumKinds + 1] /\ kind' \in [Workers -> 0 .. NumKinds]
    BY <1>1, <2>4 DEF CountTerminal, CallFlush, ReportTypes
  <2>6. UNCHANGED <<flushEvery, shared, sharedMax, seenMax, snapshot, report>>
    BY <1>1 DEF CountTerminal, options
  <2> QED BY <2>1, <2>2, <2>3, <2>5, <2>6 DEF ReportTypes
<1>2. CASE Published(w)
  <2>1. published' \in Counts
    BY Zenon, <1>2, OneMore DEF Published, ReportTypes
  <2>2. 0 \in 0 .. NumKinds
    BY <1>0
  <2>3. kind' \in [Workers -> 0 .. NumKinds]
    BY Zenon, <1>2, <2>2 DEF Published, ReportTypes
  <2> QED BY <1>2, <2>1, <2>3 DEF Published, ReportTypes, options, countVars
<1>3. CASE FlushCount(w)
  <2>1. shared' \in Counts
    BY <1>3 DEF FlushCount, ReportTypes, Counts
  <2>2. at' \in [Workers -> 1 .. NumKinds + 1]
    BY <1>0, <1>3 DEF FlushCount, ReportTypes
  <2> QED BY Zenon, <1>3, <2>1, <2>2 DEF FlushCount, ReportTypes, options, history
<1>4. CASE FlushLoadMax(w)
  BY <1>4 DEF FlushLoadMax, ReportTypes, options, history
<1>5. CASE FoldMax(w)
  <2>1. NoCounts \in Counts /\ 1 \in 1 .. NumKinds + 1
    BY <1>0 DEF NoCounts, Counts
  <2> QED BY <1>5, <2>1 DEF FoldMax, EndFlush, ReportTypes, options, history
<1>6. CASE Polling(w) \/ Leaving(w)
  <2>1. /\ UNCHANGED <<flushEvery, countVars, snapshot, report, callbackLock, joined, history>>
        /\ (at' = at \/ at' = [at EXCEPT ![w] = 1])
    BY <1>6, PollMoves DEF CallFlush
  <2>2. 1 \in 1 .. NumKinds + 1 /\ at \in [Workers -> 1 .. NumKinds + 1]
    BY <1>0 DEF ReportTypes
  <2>3. at' \in [Workers -> 1 .. NumKinds + 1]
    BY Zenon, <2>1, <2>2
  <2> QED BY <2>1, <2>3 DEF ReportTypes, countVars, history
<1>7. CASE LockCallback(w)
  <2>1. NoCounts \in Counts /\ 1 \in 1 .. NumKinds + 1
    BY <1>0 DEF NoCounts, Counts
  <2>2. snapshot' \in [counts : Counts, max : Nat, floor : Counts]
    BY <1>7, <2>1 DEF LockCallback, NoSnapshot, ReportTypes
  <2> QED BY Zenon, <1>7, <2>1, <2>2 DEF LockCallback, CallFlush, ReportTypes,
             options, countVars, history
<1>8. CASE ReadCount(w)
  <2>1. snapshot' \in [counts : Counts, max : Nat, floor : Counts]
    BY Zenon, <1>8 DEF ReadCount, ReportTypes, Counts
  <2>2. at' \in [Workers -> 1 .. NumKinds + 1]
    BY <1>0, <1>8 DEF ReadCount, ReportTypes
  <2> QED BY <1>8, <2>1, <2>2 DEF ReadCount, ReportTypes, options, countVars, history
<1>9. CASE ReadMax(w)
  BY <1>9 DEF ReadMax, ReportTypes, options, countVars, history
<1>10. CASE LockQueue(w)
  BY <1>10 DEF LockQueue, ReportTypes, options, countVars, history
<1>11. CASE Callback(w)
  <2>1. NoCounts \in Counts /\ 1 \in 1 .. NumKinds + 1
    BY <1>0 DEF NoCounts, Counts
  <2>2. snapshot' \in [counts : Counts, max : Nat, floor : Counts]
    BY Zenon, <1>11, <2>1 DEF Callback, NoSnapshot
  <2>3. report' \in [state : {"none", "running", "final"}, counts : Counts, max : Nat,
                     exact : BOOLEAN, honest : BOOLEAN]
    BY <1>11 DEF Callback, ReportTypes, ThrottleTypes
  <2> QED BY <1>11, <2>1, <2>2, <2>3 DEF Callback, ReportTypes, options, countVars, history
<1> QED BY <1>1, <1>2, <1>3, <1>4, <1>5, <1>6, <1>7, <1>8, <1>9, <1>10, <1>11
        DEF WorkerStep, Counting, Flushing, Reports

-----------------------------------------------------------------------------
(* A step of w leaves the state of the other workers alone.                *)
Kept(v) ==
    /\ pc'[v] = pc[v] /\ back'[v] = back[v] /\ at'[v] = at[v]
    /\ local'[v] = local[v] /\ localMax'[v] = localMax[v] /\ seenMax'[v] = seenMax[v]
    /\ kind'[v] = kind[v]

LEMMA OthersKept ==
    ASSUME ThrottleTypes, ReportTypes, NEW w \in Workers, WorkerStep(w),
           NEW v \in Workers \ {w}
    PROVE  Kept(v)
<1>0. /\ pc \in [Workers -> Label] /\ back \in [Workers -> ReturnLabel]
      /\ at \in [Workers -> 1 .. NumKinds + 1] /\ kind \in [Workers -> 0 .. NumKinds]
      /\ local \in [Workers -> Counts] /\ localMax \in [Workers -> Nat]
      /\ seenMax \in [Workers -> Nat]
  BY Zenon DEF ThrottleTypes, ReportTypes
<1>1. CASE Counting(w)
  BY <1>0, <1>1 DEF Counting, CountTerminal, CallFlush, Goto, Kept
<1>2. CASE Flushing(w)
  BY <1>0, <1>2 DEF Flushing, Published, FlushCount, FlushLoadMax, FoldMax, EndFlush, Goto,
                    Kept, countVars, history
<1>3. CASE Polling(w) \/ Leaving(w)
  BY <1>0, <1>3, PollMoves DEF CallFlush, Goto, Kept, countVars, history
<1>4. CASE Reports(w)
  BY Zenon, <1>0, <1>4 DEF Reports, LockCallback, ReadCount, ReadMax, LockQueue,
     Callback, CallFlush, Goto, Kept, countVars, history
<1> QED BY Zenon, <1>1, <1>2, <1>3, <1>4 DEF WorkerStep

(* What a step of w does to its own place in the protocol.                 *)
Rested == {"published", "snapshot", "queue", "callback", "leave", "left", "end"}

LockMoves(w) ==
    \/ callbackLock' = callbackLock /\ (Inside(w)' <=> Inside(w))
    \/ callbackLock = Free /\ callbackLock' = w /\ Inside(w)'
    \/ Inside(w) /\ callbackLock' = Free /\ ~Inside(w)'

OwnMoves(w) ==
    /\ joined' = joined /\ flushEvery' = flushEvery
    /\ pc'[w] \in Rested \/ joined => local'[w] = NoCounts /\ localMax'[w] = 0
    /\ joined => w = Main /\ (Inside(w)' \/ pc'[w] = "end")
    /\ report' = report \/ report'.state # "final" \/ (joined /\ pc'[w] = "end")
    /\ kind'[w] # 0 <=> InPublication(w)'
    /\ flushEvery <= 1 =>
          \A k \in Kind : local'[w][k] = 0 \/ (local'[w][k] = 1 /\ kind'[w] = k)

LEMMA StepOwn ==
    ASSUME ThrottleTypes, ReportTypes, Holding, Resting, Alone, KindsKnown,
           NEW w \in Workers, WorkerStep(w)
    PROVE  LockMoves(w) /\ OwnMoves(w)
<1>0. /\ pc \in [Workers -> Label] /\ back \in [Workers -> ReturnLabel]
      /\ at \in [Workers -> 1 .. NumKinds + 1] /\ kind \in [Workers -> 0 .. NumKinds]
      /\ local \in [Workers -> Counts] /\ localMax \in [Workers -> Nat]
      /\ flushEvery \in Nat \ {0} /\ pending \in [Workers -> Nat]
  BY DEF ThrottleTypes, ReportTypes
<1>a. joined => w = Main \/ pc[w] = "left"
  BY Zenon DEF Alone
<1>b. joined => pc[w] \in {"left", "acquire", "end", "flush", "fold", "snapshot", "queue", "callback"}
  BY <1>a DEF Alone, Inside
<1>c. \A k \in Kind : NoCounts[k] = 0
  BY Zenon DEF NoCounts
<1>d. /\ pc[w] \in Rested \/ joined => local[w] = NoCounts /\ localMax[w] = 0
      /\ kind[w] # 0 <=> InPublication(w)
      /\ flushEvery <= 1 =>
            \A k \in Kind : local[w][k] = 0 \/ (local[w][k] = 1 /\ kind[w] = k)
  BY Zenon DEF Resting, Rested, KindsKnown
<1>1. ASSUME NEW k \in Kind, NEW d \in Depths, CountTerminal(w, k, d)
      PROVE  LockMoves(w) /\ OwnMoves(w)
  <2>1. ~joined /\ joined' = joined /\ kind[w] = 0 /\ pc[w] = "run"
    BY Zenon, <1>1, <1>b, <1>d DEF CountTerminal, InPublication
  <2>2. callbackLock' = callbackLock /\ report' = report /\ flushEvery' = flushEvery
    BY Zenon, <1>1 DEF CountTerminal, locks, options
  <2>3. \/ /\ pc'[w] = "flush" /\ back'[w] = "published" /\ kind'[w] = k
        \/ /\ pc'[w] = "run" /\ kind'[w] = 0 /\ flushEvery > 1
    BY <1>0, <1>1, <2>1 DEF CountTerminal, CallFlush, Goto
  <2>4. local'[w] = [local[w] EXCEPT ![k] = @ + 1]
    BY Zenon, <1>0, <1>1 DEF CountTerminal
  <2>5. flushEvery <= 1 => \A i \in Kind : local'[w][i] = 0 \/ (local'[w][i] = 1 /\ kind'[w] = i)
    BY <1>0, <1>d, <2>1, <2>3, <2>4 DEF Kind, Counts
  <2>6. ~Inside(w) /\ ~Inside(w)' /\ pc'[w] \notin Rested
    BY <2>1, <2>3 DEF Inside, Rested
  <2>7. kind'[w] # 0 <=> InPublication(w)'
    BY <2>3 DEF InPublication, Kind
  <2> QED BY Zenon, <2>1, <2>2, <2>5, <2>6, <2>7 DEF LockMoves, OwnMoves
<1>2. CASE Published(w)
  <2>1. /\ pc[w] = "published" /\ pc'[w] = "run" /\ kind'[w] = 0 /\ local'[w] = local[w]
        /\ UNCHANGED <<joined, flushEvery, callbackLock, report>>
    BY Zenon, <1>0, <1>2 DEF Published, Goto, countVars, locks, options
  <2> QED BY Zenon, <1>b, <1>c, <1>d, <2>1 DEF LockMoves, OwnMoves, Inside,
             InPublication, Rested
<1>3. CASE FlushCount(w)
  <2>1. /\ pc'[w] = pc[w] /\ back'[w] = back[w] /\ kind'[w] = kind[w] /\ pc[w] = "flush"
        /\ local'[w] = local[w] /\ localMax'[w] = localMax[w]
        /\ UNCHANGED <<joined, flushEvery, callbackLock, report>>
    BY Zenon, <1>0, <1>3 DEF FlushCount, history, locks, options
  <2> QED BY Zenon, <1>a, <1>d, <2>1 DEF LockMoves, OwnMoves, Inside, InPublication,
             Rested, Alone
<1>4. CASE FlushLoadMax(w)
  <2>1. /\ pc[w] = "flush" /\ pc'[w] = "fold" /\ back'[w] = back[w] /\ kind'[w] = kind[w]
        /\ local'[w] = local[w] /\ localMax'[w] = localMax[w]
        /\ UNCHANGED <<joined, flushEvery, callbackLock, report>>
    BY Zenon, <1>0, <1>4 DEF FlushLoadMax, Goto, history, locks, options
  <2> QED BY Zenon, <1>a, <1>d, <2>1 DEF LockMoves, OwnMoves, Inside, InPublication,
             Rested, Alone
<1>5. CASE FoldMax(w)
  <2>1. /\ pc[w] = "fold" /\ back'[w] = back[w] /\ kind'[w] = kind[w]
        /\ UNCHANGED <<joined, flushEvery, callbackLock, report>>
    BY Zenon, <1>5 DEF FoldMax, history, locks, options
  <2>2. CASE EndFlush(w)
    <3>1. /\ pc'[w] = back[w] /\ local'[w] = NoCounts /\ localMax'[w] = 0
          /\ back[w] \in ReturnLabel
      BY Zenon, <1>0, <2>2 DEF EndFlush, Goto
    <3> QED BY Zenon, <1>a, <1>c, <1>d, <2>1, <3>1 DEF LockMoves, OwnMoves, Inside,
               InPublication, Rested, Alone, ReturnLabel
  <2>3. CASE UNCHANGED <<pc, local, localMax>>
    BY Zenon, <1>a, <1>d, <2>1, <2>3 DEF LockMoves, OwnMoves, Inside, InPublication,
       Rested, Alone
  <2> QED BY Zenon, <1>5, <2>2, <2>3 DEF FoldMax
<1>6. CASE Polling(w) \/ Leaving(w)
  <2>1. /\ local'[w] = local[w] /\ localMax'[w] = localMax[w] /\ kind'[w] = kind[w]
        /\ UNCHANGED <<joined, flushEvery, callbackLock, report>>
    BY Zenon, <1>6, PollMoves DEF countVars, history
  <2>2. \/ /\ pc[w] \in {"run", "load", "exchange"}
           /\ pc'[w] \in {"run", "load", "exchange", "acquire"}
        \/ pc[w] = "run" /\ pc'[w] = "flush" /\ back'[w] = "leave"
        \/ pc[w] = "leave" /\ pc'[w] = "left"
    BY Zenon, <1>0, <1>6, PollMoves DEF CallFlush, Goto
  <2>3. ~joined
    BY Zenon, <1>b, <2>2
  <2> QED BY Zenon, <1>d, <2>1, <2>2, <2>3 DEF LockMoves, OwnMoves, Inside,
             InPublication, Rested
<1>7. CASE LockCallback(w)
  <2>1. /\ pc[w] = "acquire" /\ pc'[w] = "flush" /\ back'[w] = "snapshot"
        /\ callbackLock = Free /\ callbackLock' = w
        /\ local'[w] = local[w] /\ localMax'[w] = localMax[w] /\ kind'[w] = kind[w]
        /\ UNCHANGED <<joined, flushEvery, report>>
    BY Zenon, <1>0, <1>7 DEF LockCallback, CallFlush, Goto, countVars, history,
       options
  <2> QED BY Zenon, <1>a, <1>d, <2>1 DEF LockMoves, OwnMoves, Inside, InPublication,
             Rested
<1>8. CASE ReadCount(w) \/ ReadMax(w) \/ LockQueue(w)
  <2>1. /\ pc[w] \in {"snapshot", "queue"} /\ pc'[w] \in {"snapshot", "queue", "callback"}
        /\ local'[w] = local[w] /\ localMax'[w] = localMax[w] /\ kind'[w] = kind[w]
        /\ UNCHANGED <<joined, flushEvery, callbackLock, report>>
    BY Zenon, <1>0, <1>8 DEF ReadCount, ReadMax, LockQueue, Goto, countVars, history,
       locks, options
  <2> QED BY Zenon, <1>a, <1>d, <2>1 DEF LockMoves, OwnMoves, Inside, InPublication,
             Rested
<1>9. CASE Callback(w)
  <2>1. /\ pc[w] = "callback" /\ pc'[w] = (IF joined THEN "end" ELSE "run")
        /\ callbackLock' = Free
        /\ local'[w] = local[w] /\ localMax'[w] = localMax[w] /\ kind'[w] = kind[w]
        /\ report'.state = (IF joined THEN "final" ELSE "running")
        /\ UNCHANGED <<joined, flushEvery>>
    BY Zenon, <1>0, <1>9 DEF Callback, Goto, countVars, history, options
  <2> QED BY Zenon, <1>a, <1>d, <2>1 DEF LockMoves, OwnMoves, Inside, InPublication,
             Rested
<1> QED BY Zenon, <1>1, <1>2, <1>3, <1>4, <1>5, <1>6, <1>7, <1>8, <1>9 DEF WorkerStep,
           Counting, Flushing, Reports

(* The protocol is kept.                                                   *)
LEMMA StepPlaces ==
    ASSUME ThrottleTypes, ReportTypes, Holding, Resting, Alone, KindsKnown,
           NEW w \in Workers, WorkerStep(w)
    PROVE  Holding' /\ Resting' /\ Alone' /\ KindsKnown'
<1>1. LockMoves(w) /\ OwnMoves(w)
  BY StepOwn
<1>2. \A v \in Workers \ {w} : Kept(v)
  BY Zenon, OthersKept
<1>3. \A v \in Workers \ {w} : /\ Inside(v)' <=> Inside(v)
                               /\ InPublication(v)' <=> InPublication(v)
  BY <1>2 DEF Kept, Inside, InPublication
<1>4. Holding'
  BY <1>1, <1>3, ProgressAssumption DEF Holding, LockMoves
<1>5. Resting'
  BY <1>1, <1>2 DEF Resting, OwnMoves, Rested, Kept
<1>6. Alone'
  <2>1. joined' => /\ \A v \in Workers \ {Main} : pc'[v] = "left"
                   /\ Inside(Main)' \/ pc'[Main] \in {"acquire", "end"}
    BY Zenon, <1>1, <1>2 DEF Alone, OwnMoves, Kept
  <2>2. pc[Main] = "end" => w # Main
    BY Zenon DEF WorkerStep, Counting, CountTerminal, Flushing, Published, FlushCount,
       FlushLoadMax, FoldMax, Polling, PollLater, Poll, LoadDue, ClaimReport,
       LoseClaim, Reports, LockCallback, ReadCount, ReadMax, LockQueue, Callback,
       Leaving, Leave, Left
  <2>3. report'.state = "final" => joined' /\ pc'[Main] = "end"
    BY Zenon, <1>1, <1>2, <2>2, ProgressAssumption DEF Alone, OwnMoves, Kept
  <2> QED BY Zenon, <2>1, <2>3 DEF Alone
<1>7. KindsKnown'
  BY <1>1, <1>2, <1>3 DEF KindsKnown, OwnMoves, Kept
<1> QED BY <1>4, <1>5, <1>6, <1>7

-----------------------------------------------------------------------------
(* The counters of kind k: nothing happens to them, or w counts a terminal, *)
(* or w adds what it has to the shared counter.                            *)
Untouched(k) ==
    /\ \A v \in Workers : Unflushed(v, k)' = Unflushed(v, k)
    /\ shared'[k] = shared[k] /\ started'[k] = started[k]

Counted(w, k) ==
    /\ \A v \in Workers \ {w} : Unflushed(v, k)' = Unflushed(v, k)
    /\ Unflushed(w, k)' = Unflushed(w, k) + 1
    /\ shared'[k] = shared[k] /\ started'[k] = started[k] + 1

Added(w, k) ==
    /\ \A v \in Workers \ {w} : Unflushed(v, k)' = Unflushed(v, k)
    /\ Unflushed(w, k)' = 0
    /\ shared'[k] = shared[k] + Unflushed(w, k) /\ started'[k] = started[k]

LEMMA CounterMoves ==
    ASSUME ThrottleTypes, ReportTypes, Resting, NEW w \in Workers, WorkerStep(w), NEW k \in Kind
    PROVE  Untouched(k) \/ Counted(w, k) \/ Added(w, k)
<1>0. /\ pc \in [Workers -> Label] /\ back \in [Workers -> ReturnLabel]
      /\ at \in [Workers -> 1 .. NumKinds + 1] /\ local \in [Workers -> Counts]
      /\ shared \in Counts /\ started \in Counts
      /\ Kind = 1 .. NumKinds /\ NumKinds \in Nat \ {0} /\ k \in Nat
  BY ProgressAssumption DEF ThrottleTypes, ReportTypes, Kind
<1>a. \A v \in Workers \ {w} : Unflushed(v, k)' = Unflushed(v, k)
  BY OthersKept DEF Kept, Unflushed
<1>b. ASSUME Unflushed(w, k)' = Unflushed(w, k), shared' = shared, started' = started
      PROVE  Untouched(k)
  BY Zenon, <1>a, <1>b DEF Untouched
<1>1. ASSUME NEW i \in Kind, NEW d \in Depths, CountTerminal(w, i, d)
      PROVE  Untouched(k) \/ Counted(w, k)
  <2>1. /\ pc[w] = "run" /\ shared' = shared /\ started' = [started EXCEPT ![i] = @ + 1]
        /\ local'[w] = [local[w] EXCEPT ![i] = @ + 1]
    BY Zenon, <1>0, <1>1 DEF CountTerminal
  <2>2. pc'[w] = "run" \/ (pc'[w] = "flush" /\ at'[w] = 1)
    BY Zenon, <1>0, <1>1, <2>1 DEF CountTerminal, CallFlush, Goto
  <2>3. Unflushed(w, k) = local[w][k] /\ Unflushed(w, k)' = local'[w][k]
    BY <1>0, <2>1, <2>2 DEF Unflushed
  <2>4. local'[w][k] = IF k = i THEN local[w][k] + 1 ELSE local[w][k]
    BY Zenon, <1>0, <2>1 DEF Counts
  <2>5. started'[k] = IF k = i THEN started[k] + 1 ELSE started[k]
    BY <1>0, <2>1 DEF Counts
  <2> QED BY Zenon, <1>a, <2>1, <2>3, <2>4, <2>5 DEF Untouched, Counted
<1>2. CASE Published(w)
  <2>1. /\ pc[w] = "published" /\ pc'[w] = "run" /\ local' = local
        /\ shared' = shared /\ started' = started
    BY Zenon, <1>0, <1>2 DEF Published, Goto, countVars
  <2> QED BY Zenon, <1>b, <2>1 DEF Unflushed
<1>3. CASE FlushCount(w)
  <2>1. /\ pc[w] = "flush" /\ pc'[w] = "flush" /\ at'[w] = at[w] + 1 /\ at[w] \in Kind
        /\ local' = local /\ started' = started
        /\ shared' = [shared EXCEPT ![at[w]] = @ + local[w][at[w]]]
    BY Zenon, <1>0, <1>3 DEF FlushCount, history
  <2>2. CASE at[w] = k
    <3>1. Unflushed(w, k) = local[w][k] /\ Unflushed(w, k)' = 0
      BY <1>0, <2>1, <2>2 DEF Unflushed
    <3>2. shared'[k] = shared[k] + local[w][k]
      BY Zenon, <1>0, <2>1, <2>2 DEF Counts
    <3> QED BY Zenon, <1>a, <2>1, <3>1, <3>2 DEF Added
  <2>3. CASE at[w] # k
    <3>1. Unflushed(w, k)' = Unflushed(w, k)
      BY <1>0, <2>1, <2>3 DEF Unflushed
    <3>2. shared'[k] = shared[k]
      BY Zenon, <1>0, <2>1, <2>3 DEF Counts
    <3> QED BY Zenon, <1>a, <2>1, <3>1, <3>2 DEF Untouched
  <2> QED BY Zenon, <2>2, <2>3
<1>4. CASE FlushLoadMax(w)
  <2>1. /\ pc[w] = "flush" /\ pc'[w] = "fold" /\ at[w] \notin Kind
        /\ UNCHANGED <<local, shared, started>>
    BY Zenon, <1>0, <1>4 DEF FlushLoadMax, Goto, history
  <2>2. at[w] > k
    BY <1>0, <2>1
  <2> QED BY Zenon, <1>b, <2>1, <2>2 DEF Unflushed
<1>5. CASE FoldMax(w)
  <2>1. pc[w] = "fold" /\ UNCHANGED <<shared, started>>
    BY Zenon, <1>5 DEF FoldMax, history
  <2>2. Unflushed(w, k) = 0
    BY Zenon, <2>1 DEF Unflushed
  <2>3. CASE EndFlush(w)
    <3>1. pc'[w] \in ReturnLabel /\ local'[w] = NoCounts
      BY Zenon, <1>0, <2>3 DEF EndFlush, Goto
    <3>2. Unflushed(w, k)' = 0
      BY Zenon, <3>1 DEF Unflushed, ReturnLabel, NoCounts
    <3> QED BY Zenon, <1>b, <2>1, <2>2, <3>2
  <2>4. CASE UNCHANGED <<pc, at, local>>
    BY Zenon, <1>b, <2>1, <2>4 DEF Unflushed
  <2> QED BY Zenon, <1>5, <2>3, <2>4 DEF FoldMax
<1>6. CASE Polling(w) \/ Leaving(w)
  <2>1. UNCHANGED <<local, shared, started>>
    BY Zenon, <1>6, PollMoves DEF countVars, history
  <2>2. /\ pc[w] \notin {"flush", "fold"}
        /\ pc'[w] \notin {"flush", "fold"} \/ (pc'[w] = "flush" /\ at'[w] = 1)
    BY Zenon, <1>0, <1>6, PollMoves DEF CallFlush, Goto
  <2>3. Unflushed(w, k)' = Unflushed(w, k)
    BY <1>0, <2>1, <2>2 DEF Unflushed
  <2> QED BY Zenon, <1>b, <2>1, <2>3
<1>7. CASE Reports(w)
  <2>1. UNCHANGED <<local, shared, started>>
    BY <1>7 DEF Reports, LockCallback, ReadCount, ReadMax, LockQueue, Callback, countVars, history
  <2>2. /\ pc[w] \notin {"flush", "fold"}
        /\ pc'[w] \notin {"flush", "fold"} \/ (pc'[w] = "flush" /\ at'[w] = 1)
    BY Zenon, <1>0, <1>7 DEF Reports, LockCallback, ReadCount, ReadMax, LockQueue,
       Callback, CallFlush, Goto
  <2>3. Unflushed(w, k)' = Unflushed(w, k)
    BY <1>0, <2>1, <2>2 DEF Unflushed
  <2> QED BY <1>b, <2>1, <2>3
<1> QED BY <1>1, <1>2, <1>3, <1>4, <1>5, <1>6, <1>7 DEF WorkerStep, Counting, Flushing

(* The kinds being published.                                              *)
LEMMA PublishingMoves ==
    ASSUME ThrottleTypes, ReportTypes, KindsKnown, NEW w \in Workers, WorkerStep(w), NEW k \in Kind
    PROVE  \/ /\ kind'[w] = k <=> kind[w] = k
              /\ started'[k] - published'[k] = started[k] - published[k]
           \/ /\ kind[w] # k /\ kind'[w] = k
              /\ started'[k] = started[k] + 1 /\ published'[k] = published[k]
           \/ /\ kind[w] = k /\ kind'[w] # k
              /\ started'[k] = started[k] /\ published'[k] = published[k] + 1
<1>0. /\ kind \in [Workers -> 0 .. NumKinds] /\ started \in Counts /\ published \in Counts
      /\ Kind = 1 .. NumKinds /\ NumKinds \in Nat \ {0} /\ k \in Nat
  BY ProgressAssumption DEF ReportTypes, Kind
<1>1. ASSUME NEW i \in Kind, NEW d \in Depths, CountTerminal(w, i, d),
             kind' = [kind EXCEPT ![w] = i], published' = published
      PROVE  k = i => /\ kind[w] # k /\ kind'[w] = k
                      /\ started'[k] = started[k] + 1 /\ published'[k] = published[k]
  <2>1. kind[w] = 0
    BY Zenon, <1>1 DEF CountTerminal, KindsKnown, InPublication
  <2>2. started'[i] = started[i] + 1
    BY Zenon, <1>0, <1>1 DEF CountTerminal, Counts
  <2> QED BY <1>0, <1>1, <2>1, <2>2
<1>2. ASSUME NEW i \in Kind, NEW d \in Depths, CountTerminal(w, i, d),
             kind' = [kind EXCEPT ![w] = i], published' = published
      PROVE  k # i => /\ kind'[w] = k <=> kind[w] = k
                      /\ started'[k] - published'[k] = started[k] - published[k]
  <2>1. kind[w] = 0
    BY <1>2 DEF CountTerminal, KindsKnown, InPublication
  <2>2. k # i => started'[k] = started[k]
    BY Zenon, <1>0, <1>2 DEF CountTerminal, Counts
  <2> QED BY <1>0, <1>2, <2>1, <2>2
<1>3. ASSUME NEW i \in Kind, NEW d \in Depths, CountTerminal(w, i, d),
             kind' = kind, published' = [published EXCEPT ![i] = @ + 1]
      PROVE  /\ kind'[w] = k <=> kind[w] = k
             /\ started'[k] - published'[k] = started[k] - published[k]
  <2>1. /\ started'[k] = IF k = i THEN started[k] + 1 ELSE started[k]
        /\ published'[k] = IF k = i THEN published[k] + 1 ELSE published[k]
        /\ started[k] \in Nat /\ published[k] \in Nat
    BY Zenon, <1>0, <1>3 DEF CountTerminal, Counts
  <2>2. started'[k] - published'[k] = started[k] - published[k]
    BY <2>1
  <2> QED BY Zenon, <1>3, <2>2
<1>4. CASE Counting(w)
  BY Zenon, <1>1, <1>2, <1>3, <1>4 DEF Counting, CountTerminal
<1>5. CASE Published(w)
  <2>1. /\ kind[w] # 0 /\ kind'[w] = 0 /\ started' = started
        /\ published' = [published EXCEPT ![kind[w]] = @ + 1]
    BY <1>0, <1>5 DEF Published, KindsKnown, InPublication
  <2>2. published'[k] = IF k = kind[w] THEN published[k] + 1 ELSE published[k]
    BY Zenon, <1>0, <2>1 DEF Counts
  <2> QED BY <1>0, <2>1, <2>2
<1>6. ASSUME UNCHANGED history
      PROVE  /\ kind'[w] = k <=> kind[w] = k
             /\ started'[k] - published'[k] = started[k] - published[k]
  BY Zenon, <1>6 DEF history
<1>7. CASE FlushCount(w) \/ FlushLoadMax(w) \/ FoldMax(w) \/ Reports(w)
  <2>1. UNCHANGED history
    BY <1>7 DEF FlushCount, FlushLoadMax, FoldMax, Reports, LockCallback, ReadCount, ReadMax,
                LockQueue, Callback
  <2> QED BY Zenon, <1>6, <2>1
<1>8. CASE Polling(w) \/ Leaving(w)
  <2>1. UNCHANGED history
    BY Zenon, <1>8, PollMoves
  <2> QED BY <1>6, <2>1
<1> QED BY Zenon, <1>4, <1>5, <1>7, <1>8 DEF WorkerStep, Flushing

-----------------------------------------------------------------------------
(* What a step does to the maxima.                                         *)
LEMMA MaxMoves ==
    ASSUME ThrottleTypes, ReportTypes, NEW w \in Workers, WorkerStep(w)
    PROVE  \/ /\ UNCHANGED <<sharedMax, deepest>> /\ localMax'[w] = localMax[w]
              /\ pc'[w] = "fold" => seenMax'[w] = sharedMax
           \/ /\ pc[w] = "run" /\ pc'[w] # "fold" /\ sharedMax' = sharedMax
              /\ \E d \in Nat : /\ deepest' = Larger(d, deepest)
                                /\ localMax'[w] = Larger(d, localMax[w])
           \/ /\ pc[w] = "fold" /\ pc'[w] # "fold" /\ localMax'[w] = 0
              /\ deepest' = deepest
              /\ \/ sharedMax' = sharedMax /\ localMax[w] <= seenMax[w]
                 \/ sharedMax' = localMax[w] /\ sharedMax < localMax[w]
<1>0. /\ pc \in [Workers -> Label] /\ back \in [Workers -> ReturnLabel]
      /\ localMax \in [Workers -> Nat] /\ seenMax \in [Workers -> Nat] /\ sharedMax \in Nat
  BY Zenon DEF ThrottleTypes, ReportTypes
<1>1. ASSUME NEW k \in Kind, NEW d \in Depths, CountTerminal(w, k, d)
      PROVE  /\ pc[w] = "run" /\ pc'[w] # "fold" /\ sharedMax' = sharedMax
             /\ \E e \in Nat : /\ deepest' = Larger(e, deepest)
                               /\ localMax'[w] = Larger(e, localMax[w])
  <2>1. d \in Nat
    BY Zenon, ProgressAssumption
  <2>2. /\ pc[w] = "run" /\ sharedMax' = sharedMax /\ deepest' = Larger(d, deepest)
        /\ localMax'[w] = Larger(d, localMax[w])
    BY Zenon, <1>0, <1>1 DEF CountTerminal
  <2>3. pc'[w] # "fold"
    BY Zenon, <1>0, <1>1, <2>2 DEF CountTerminal, CallFlush, Goto
  <2> QED BY Zenon, <2>1, <2>2, <2>3
<1>2. CASE Published(w)
  BY Zenon, <1>0, <1>2 DEF Published, Goto, countVars
<1>3. CASE FlushCount(w)
  BY Zenon, <1>0, <1>3 DEF FlushCount, history
<1>4. CASE FlushLoadMax(w)
  BY Zenon, <1>0, <1>4 DEF FlushLoadMax, Goto, history
<1>5. CASE FoldMax(w)
  <2>1. pc[w] = "fold" /\ deepest' = deepest
    BY Zenon, <1>5 DEF FoldMax, history
  <2>2. CASE EndFlush(w)
    <3>1. localMax'[w] = 0 /\ pc'[w] \in ReturnLabel
      BY Zenon, <1>0, <2>2 DEF EndFlush, Goto
    <3>2. pc'[w] # "fold"
      BY Zenon, <3>1 DEF ReturnLabel
    <3>3. \/ sharedMax' = sharedMax /\ localMax[w] <= seenMax[w]
          \/ sharedMax' = localMax[w] /\ sharedMax < localMax[w]
          \/ pc' = pc
      BY Zenon, <1>0, <1>5 DEF FoldMax
    <3> QED BY Zenon, <2>1, <3>1, <3>2, <3>3
  <2>3. CASE /\ seenMax' = [seenMax EXCEPT ![w] = sharedMax]
             /\ UNCHANGED <<localMax, sharedMax>>
    BY Zenon, <1>0, <2>1, <2>3
  <2> QED BY Zenon, <1>5, <2>2, <2>3 DEF FoldMax
<1>6. CASE Polling(w) \/ Leaving(w)
  <2>1. UNCHANGED <<localMax, sharedMax, deepest>>
    BY Zenon, <1>6, PollMoves DEF countVars, history
  <2>2. pc'[w] # "fold"
    BY Zenon, <1>0, <1>6, PollMoves DEF CallFlush, Goto
  <2> QED BY Zenon, <2>1, <2>2
<1>7. CASE Reports(w)
  <2>1. UNCHANGED <<localMax, sharedMax, deepest>>
    BY Zenon, <1>7 DEF Reports, LockCallback, ReadCount, ReadMax, LockQueue, Callback,
       countVars, history
  <2>2. pc'[w] # "fold"
    BY Zenon, <1>0, <1>7 DEF Reports, LockCallback, ReadCount, ReadMax, LockQueue,
       Callback, CallFlush, Goto
  <2> QED BY Zenon, <2>1, <2>2
<1> QED BY Zenon, <1>1, <1>2, <1>3, <1>4, <1>5, <1>6, <1>7 DEF WorkerStep, Counting,
           Flushing

(* The maximum is neither lost nor made up; the shared one only grows.     *)
LEMMA StepMaxAddsUp ==
    ASSUME ThrottleTypes, ReportTypes, ReportTypes', MaxAddsUp, NEW w \in Workers, WorkerStep(w)
    PROVE  MaxAddsUp' /\ sharedMax <= sharedMax'
<1>0. /\ localMax \in [Workers -> Nat] /\ seenMax \in [Workers -> Nat] /\ sharedMax \in Nat
      /\ localMax' \in [Workers -> Nat] /\ seenMax' \in [Workers -> Nat] /\ sharedMax' \in Nat
      /\ deepest \in Nat /\ deepest' \in Nat
  BY Zenon DEF ReportTypes
<1>1. \A v \in Workers \ {w} : /\ localMax'[v] = localMax[v] /\ seenMax'[v] = seenMax[v]
                               /\ pc'[v] = pc[v]
  BY Zenon, OthersKept DEF Kept
<1>2. /\ sharedMax <= deepest
      /\ \A v \in Workers : /\ localMax[v] <= deepest
                            /\ pc[v] = "fold" => seenMax[v] <= sharedMax
      /\ deepest = sharedMax \/ \E v \in Workers : localMax[v] = deepest
  BY Zenon DEF MaxAddsUp
<1>3. CASE /\ UNCHANGED <<sharedMax, deepest>> /\ localMax'[w] = localMax[w]
           /\ pc'[w] = "fold" => seenMax'[w] = sharedMax
  <2>1. \A v \in Workers : /\ localMax'[v] = localMax[v]
                           /\ pc'[v] = "fold" => seenMax'[v] <= sharedMax
    BY <1>0, <1>1, <1>2, <1>3
  <2> QED BY <1>0, <1>2, <1>3, <2>1 DEF MaxAddsUp
<1>4. ASSUME pc'[w] # "fold", sharedMax' = sharedMax,
             NEW d \in Nat, deepest' = Larger(d, deepest), localMax'[w] = Larger(d, localMax[w])
      PROVE  MaxAddsUp' /\ sharedMax <= sharedMax'
  <2>1. /\ deepest <= deepest' /\ localMax'[w] <= deepest' /\ sharedMax <= sharedMax'
        /\ deepest' = deepest \/ localMax'[w] = deepest'
        /\ localMax[w] = deepest => localMax'[w] = deepest'
    <3>1. localMax[w] \in Nat /\ localMax[w] <= deepest
      BY Zenon, <1>0, <1>2
    <3> QED BY <1>0, <1>4, <3>1 DEF Larger
  <2>2. sharedMax' <= deepest'
    BY <1>0, <1>2, <1>4, <2>1
  <2>3. \A v \in Workers : /\ localMax'[v] <= deepest'
                           /\ pc'[v] = "fold" => seenMax'[v] <= sharedMax'
    BY <1>0, <1>1, <1>2, <1>4, <2>1
  <2>4. deepest' = sharedMax' \/ \E v \in Workers : localMax'[v] = deepest'
    BY Zenon, <1>1, <1>2, <1>4, <2>1
  <2> QED BY Zenon, <2>1, <2>2, <2>3, <2>4 DEF MaxAddsUp
<1>5. CASE /\ pc[w] = "fold" /\ pc'[w] # "fold" /\ localMax'[w] = 0 /\ deepest' = deepest
           /\ \/ sharedMax' = sharedMax /\ localMax[w] <= seenMax[w]
              \/ sharedMax' = localMax[w] /\ sharedMax < localMax[w]
  <2>1. /\ sharedMax <= sharedMax' /\ localMax[w] <= sharedMax' /\ sharedMax' <= deepest
    <3>1. localMax[w] \in Nat /\ seenMax[w] \in Nat /\ seenMax[w] <= sharedMax
          /\ localMax[w] <= deepest
      BY Zenon, <1>0, <1>2, <1>5
    <3> QED BY <1>0, <1>2, <1>5, <3>1
  <2>2. \A v \in Workers : /\ localMax'[v] <= deepest'
                           /\ pc'[v] = "fold" => seenMax'[v] <= sharedMax'
    <3>1. ASSUME NEW v \in Workers \ {w}
          PROVE  localMax'[v] <= deepest' /\ (pc'[v] = "fold" => seenMax'[v] <= sharedMax')
      <4>1. localMax[v] <= deepest /\ (pc[v] = "fold" => seenMax[v] <= sharedMax)
            /\ seenMax[v] \in Nat
        BY Zenon, <1>0, <1>2
      <4>2. localMax'[v] = localMax[v] /\ seenMax'[v] = seenMax[v] /\ pc'[v] = pc[v]
        BY Zenon, <1>1
      <4> QED BY <1>0, <1>5, <2>1, <4>1, <4>2
    <3>2. localMax'[w] <= deepest' /\ pc'[w] # "fold"
      BY <1>0, <1>5
    <3> QED BY Zenon, <3>1, <3>2
  <2>3. deepest' = sharedMax' \/ \E v \in Workers : localMax'[v] = deepest'
    <3>1. CASE deepest = sharedMax
      BY <1>0, <1>5, <2>1, <3>1
    <3>2. ASSUME NEW v \in Workers, localMax[v] = deepest
          PROVE  deepest' = sharedMax' \/ \E u \in Workers : localMax'[u] = deepest'
      BY <1>0, <1>1, <1>5, <2>1, <3>2
    <3> QED BY Zenon, <1>2, <3>1, <3>2
  <2> QED BY Zenon, <1>5, <2>1, <2>2, <2>3 DEF MaxAddsUp
<1> QED BY Zenon, <1>3, <1>4, <1>5, MaxMoves

(* The counters only go up, and not at all after the join.                 *)
LEMMA CountersGrow ==
    ASSUME ThrottleTypes, ReportTypes, Resting, Alone, NEW w \in Workers, WorkerStep(w)
    PROVE  /\ \A k \in Kind : shared[k] <= shared'[k] /\ started[k] <= started'[k]
           /\ joined => started' = started /\ deepest' = deepest
<1>1. ASSUME NEW k \in Kind PROVE shared[k] <= shared'[k] /\ started[k] <= started'[k]
  <2>1. shared[k] \in Nat /\ started[k] \in Nat /\ Unflushed(w, k) \in Nat
    BY DEF ReportTypes, Counts, Unflushed
  <2>2. Untouched(k) \/ Counted(w, k) \/ Added(w, k)
    BY Zenon, CounterMoves
  <2>3. /\ shared'[k] = shared[k] \/ shared'[k] = shared[k] + Unflushed(w, k)
        /\ started'[k] = started[k] \/ started'[k] = started[k] + 1
    BY Zenon, <2>2 DEF Untouched, Counted, Added
  <2> HIDE DEF Unflushed
  <2> QED BY <2>1, <2>3
<1>2. ASSUME joined PROVE started' = started /\ deepest' = deepest
  <2>1. pc[w] # "run"
    BY <1>2 DEF Alone, Inside
  <2>2. CASE Polling(w) \/ Leaving(w)
    BY Zenon, <2>2, PollMoves DEF history
  <2>3. CASE Counting(w)
    BY Zenon, <2>1, <2>3 DEF Counting, CountTerminal
  <2>4. CASE Flushing(w)
    BY Zenon, <2>4 DEF Flushing, Published, FlushCount, FlushLoadMax, FoldMax, history
  <2>5. CASE Reports(w)
    BY Zenon, <2>5 DEF Reports, LockCallback, ReadCount, ReadMax, LockQueue, Callback,
       history
  <2> QED BY Zenon, <2>2, <2>3, <2>4, <2>5 DEF WorkerStep
<1> QED BY Zenon, <1>1, <1>2

-----------------------------------------------------------------------------
(* The snapshot and the report: no step but those of                       *)
(* publish_progress_snapshot() touches them.                               *)
Aside(w) ==
    /\ snapshot' = snapshot /\ report' = report
    /\ MaxRead(w)' => MaxRead(w)
    /\ \A k \in Kind : CountRead(w, k)' => CountRead(w, k)

Fresh(w) == ~MaxRead(w)' /\ \A k \in Kind : ~CountRead(w, k)'

Begun(w) ==
    /\ callbackLock = Free /\ report' = report /\ Fresh(w)
    /\ \A k \in Kind : snapshot'.floor[k] = published[k]

CountTaken(w) ==
    /\ Inside(w) /\ report' = report /\ snapshot'.floor = snapshot.floor
    /\ ~MaxRead(w)'
    /\ \A k \in Kind : CountRead(w, k)' =>
          \/ CountRead(w, k) /\ snapshot'.counts[k] = snapshot.counts[k]
          \/ snapshot'.counts[k] = shared[k]

MaxTaken(w) ==
    /\ Inside(w) /\ report' = report /\ snapshot'.floor = snapshot.floor
    /\ snapshot'.max = sharedMax /\ snapshot'.counts = snapshot.counts
    /\ \A k \in Kind : CountRead(w, k)

Given(w) ==
    /\ Inside(w) /\ Fresh(w) /\ MaxRead(w) /\ \A k \in Kind : CountRead(w, k)
    /\ report'.counts = snapshot.counts /\ report'.max = snapshot.max
    /\ report'.exact <=> joined \/ flushEvery <= 1
    /\ report'.honest <=> \A k \in Kind : /\ snapshot.floor[k] <= snapshot.counts[k]
                                          /\ snapshot.counts[k] <= started[k]
    /\ report'.state = "final" <=> joined
    /\ snapshot'.floor = NoCounts

LEMMA SnapshotMoves ==
    ASSUME ThrottleTypes, ReportTypes, NEW w \in Workers, WorkerStep(w)
    PROVE  Aside(w) \/ Begun(w) \/ CountTaken(w) \/ MaxTaken(w) \/ Given(w)
<1>0. /\ pc \in [Workers -> Label] /\ back \in [Workers -> ReturnLabel]
      /\ at \in [Workers -> 1 .. NumKinds + 1]
      /\ NumKinds \in Nat \ {0} /\ Kind = 1 .. NumKinds
  BY Zenon, ProgressAssumption DEF ThrottleTypes, ReportTypes, Kind
<1>1. CASE Counting(w)
  <2>1. snapshot' = snapshot /\ report' = report
    BY Zenon, <1>1 DEF Counting, CountTerminal
  <2>2. (pc'[w] = "flush" \/ pc'[w] = pc[w]) /\ pc[w] = "run"
    BY <1>0, <1>1 DEF Counting, CountTerminal, CallFlush, Goto
  <2> QED BY Zenon, <2>1, <2>2 DEF Aside, MaxRead, CountRead
<1>2. CASE Flushing(w)
  <2>1. snapshot' = snapshot /\ report' = report
    BY Zenon, <1>2 DEF Flushing, Published, FlushCount, FlushLoadMax, FoldMax
  <2>2. pc'[w] \in {"run", "flush", "fold"} \/ (pc'[w] \in ReturnLabel /\ at'[w] = 1)
    <3>1. CASE Published(w)
      BY Zenon, <1>0, <3>1 DEF Published, Goto
    <3>2. CASE FlushCount(w)
      BY Zenon, <1>0, <3>2 DEF FlushCount, Goto
    <3>3. CASE FlushLoadMax(w)
      BY <1>0, <3>3 DEF FlushLoadMax, Goto
    <3>4. CASE FoldMax(w)
      BY <1>0, <3>4 DEF FoldMax, EndFlush, Goto
    <3> QED BY Zenon, <1>2, <3>1, <3>2, <3>3, <3>4 DEF Flushing
  <2>3. \A k \in Kind : ~(1 > k)
    BY <1>0
  <2> QED BY Zenon, <2>1, <2>2, <2>3 DEF Aside, MaxRead, CountRead, ReturnLabel
<1>3. CASE Polling(w) \/ Leaving(w)
  <2>1. snapshot' = snapshot /\ report' = report
    BY Zenon, <1>3, PollMoves
  <2>2. pc'[w] \in {"run", "load", "exchange", "acquire", "flush", "left"}
    BY Zenon, <1>0, <1>3, PollMoves DEF CallFlush, Goto
  <2> QED BY Zenon, <2>1, <2>2 DEF Aside, MaxRead, CountRead
<1>4. CASE LockCallback(w)
  <2>1. pc'[w] = "flush" /\ snapshot' = NoSnapshot(published)
    BY <1>0, <1>4 DEF LockCallback, CallFlush, Goto
  <2>2. Fresh(w)
    BY Zenon, <2>1 DEF Fresh, MaxRead, CountRead
  <2>3. callbackLock = Free /\ report' = report
    BY Zenon, <1>4 DEF LockCallback
  <2>4. snapshot'.floor = published
    BY Zenon, <2>1 DEF NoSnapshot
  <2>5. Begun(w)
    BY Zenon, <2>2, <2>3, <2>4 DEF Begun
  <2> QED BY Zenon, <2>5
<1>5. CASE ReadCount(w)
  <2>1. /\ pc[w] = "snapshot" /\ pc'[w] = pc[w] /\ at[w] \in Kind /\ at'[w] = at[w] + 1
        /\ report' = report
    BY <1>0, <1>5 DEF ReadCount
  <2>2. /\ snapshot'.floor = snapshot.floor
        /\ snapshot'.counts = [snapshot.counts EXCEPT ![at[w]] = shared[at[w]]]
    BY <1>5 DEF ReadCount, ReportTypes
  <2>3. snapshot.counts \in [Kind -> Nat]
    BY Zenon DEF ReportTypes, Counts
  <2>4. ASSUME NEW k \in Kind, CountRead(w, k)'
        PROVE  \/ CountRead(w, k) /\ snapshot'.counts[k] = snapshot.counts[k]
               \/ snapshot'.counts[k] = shared[k]
    <3>1. at[w] + 1 > k
      BY Zenon, <2>1, <2>4 DEF CountRead, MaxRead
    <3>2. CASE k = at[w]
      BY Zenon, <2>2, <2>3, <3>2
    <3>3. CASE k # at[w]
      <4>1. at[w] > k
        BY <1>0, <2>1, <3>1, <3>3
      <4> QED BY Zenon, <2>1, <2>2, <2>3, <3>3, <4>1 DEF CountRead
    <3> QED BY Zenon, <3>2, <3>3
  <2> QED BY Zenon, <2>1, <2>2, <2>4 DEF CountTaken, Inside, MaxRead
<1>6. CASE ReadMax(w)
  <2>1. pc[w] = "snapshot" /\ at[w] \notin Kind /\ report' = report
    BY <1>6 DEF ReadMax
  <2>2. /\ snapshot'.floor = snapshot.floor /\ snapshot'.max = sharedMax
        /\ snapshot'.counts = snapshot.counts
    BY <1>6 DEF ReadMax, ReportTypes
  <2>3. \A k \in Kind : at[w] > k
    BY <1>0, <2>1
  <2> QED BY Zenon, <2>1, <2>2, <2>3 DEF MaxTaken, Inside, CountRead
<1>7. CASE LockQueue(w)
  BY Zenon, <1>0, <1>7 DEF LockQueue, Goto, Aside, MaxRead, CountRead
<1>8. CASE Callback(w)
  <2>1. pc[w] = "callback" /\ pc'[w] \in {"end", "run"}
    BY Zenon, <1>0, <1>8 DEF Callback, Goto
  <2>2. Fresh(w) /\ MaxRead(w) /\ Inside(w) /\ \A k \in Kind : CountRead(w, k)
    BY Zenon, <2>1 DEF Fresh, MaxRead, CountRead, Inside
  <2>3. snapshot'.floor = NoCounts
    BY Zenon, <1>8 DEF Callback, NoSnapshot
  <2>4. /\ report'.counts = snapshot.counts /\ report'.max = snapshot.max
        /\ report'.exact <=> joined \/ flushEvery <= 1
        /\ report'.honest <=> \A k \in Kind : /\ snapshot.floor[k] <= snapshot.counts[k]
                                              /\ snapshot.counts[k] <= started[k]
        /\ report'.state = "final" <=> joined
    BY Zenon, <1>8 DEF Callback
  <2> QED BY Zenon, <2>2, <2>3, <2>4 DEF Given
<1> QED BY Zenon, <1>1, <1>2, <1>3, <1>4, <1>5, <1>6, <1>7, <1>8 DEF WorkerStep,
           Reports

(* Where a part of the snapshot or of the report comes from; the callback  *)
(* mutex keeps the other workers out.                                      *)
CountFrom(v, k) ==
    /\ snapshot'.floor = snapshot.floor /\ report' = report
    /\ \/ CountRead(v, k) /\ snapshot'.counts[k] = snapshot.counts[k]
       \/ snapshot'.counts[k] = shared[k]

MaxFrom(v) ==
    /\ report' = report
    /\ \/ MaxRead(v) /\ snapshot'.max = snapshot.max
       \/ snapshot'.max = sharedMax

LEMMA SnapshotSources ==
    ASSUME ThrottleTypes, ReportTypes, Holding, NEW w \in Workers, WorkerStep(w)
    PROVE  /\ \A v \in Workers, k \in Kind : CountRead(v, k)' => CountFrom(v, k)
           /\ \A v \in Workers : MaxRead(v)' => MaxFrom(v)
           /\ \A k \in Kind : snapshot'.floor[k] \in {snapshot.floor[k], published[k], 0}
           /\ report' = report \/ Given(w)
<1>1. Aside(w) \/ Begun(w) \/ CountTaken(w) \/ MaxTaken(w) \/ Given(w)
  BY Zenon, SnapshotMoves
<1>2. \A v \in Workers \ {w} : /\ \A k \in Kind : CountRead(v, k)' <=> CountRead(v, k)
                               /\ MaxRead(v)' <=> MaxRead(v)
  BY Zenon, OthersKept DEF Kept, CountRead, MaxRead
<1>3. \A v \in Workers, k \in Kind : (CountRead(v, k) => Inside(v)) /\ (MaxRead(v) => Inside(v))
  BY DEF CountRead, MaxRead, Inside
<1>4. (callbackLock = Free \/ Inside(w)) => \A v \in Workers \ {w} : ~Inside(v)
  BY ProgressAssumption DEF Holding
<1>a. Kind # {}
  BY ProgressAssumption DEF Kind
<1>5. CASE Aside(w)
  BY Zenon, <1>2, <1>5 DEF Aside, CountFrom, MaxFrom
<1>6. CASE ~Aside(w)
  <2>1. \A v \in Workers \ {w} : ~MaxRead(v)' /\ \A k \in Kind : ~CountRead(v, k)'
    BY Zenon, <1>1, <1>2, <1>3, <1>4, <1>6, <1>a DEF Begun, CountTaken, MaxTaken,
       Given
  <2>2. \A k \in Kind : CountRead(w, k)' => CountFrom(w, k)
    BY Zenon, <1>1, <1>6 DEF Begun, CountTaken, MaxTaken, Given, Fresh, CountFrom
  <2>3. MaxRead(w)' => MaxFrom(w)
    BY Zenon, <1>1, <1>6 DEF Begun, CountTaken, MaxTaken, Given, Fresh, MaxFrom
  <2>4. \A k \in Kind : snapshot'.floor[k] \in {snapshot.floor[k], published[k], 0}
    BY Zenon, <1>1, <1>6 DEF Begun, CountTaken, MaxTaken, Given, NoCounts
  <2>5. report' = report \/ Given(w)
    BY <1>1, <1>6 DEF Begun, CountTaken, MaxTaken
  <2> QED BY Zenon, <2>1, <2>2, <2>3, <2>4, <2>5
<1> QED BY Zenon, <1>5, <1>6

-----------------------------------------------------------------------------
(* run() joins: all workers have left.                                     *)
LEMMA JoinKeepsReports ==
    ASSUME ThrottleTypes, ReportInvariant, Join
    PROVE  ReportInvariant' /\ UNCHANGED report
<1>0. pc \in [Workers -> Label]
  BY Zenon DEF ThrottleTypes
<1>1. /\ ~joined /\ joined' = TRUE /\ pc' = [pc EXCEPT ![Main] = "acquire"]
      /\ \A v \in Workers : pc[v] = "left"
      /\ UNCHANGED <<flushEvery, back, at, local, localMax, pending, shared, sharedMax, seenMax,
                     snapshot, callbackLock, report, kind, started, published, deepest>>
  BY Zenon DEF Join, Goto, options, countVars, locks, history
<1>2. Main \in Workers /\ pc'[Main] = "acquire" /\ \A v \in Workers \ {Main} : pc'[v] = "left"
  BY Zenon, <1>0, <1>1, ProgressAssumption
<1>3. \A v \in Workers : pc[v] = "left" /\ pc'[v] \in {"acquire", "left"}
  BY Zenon, <1>1, <1>2
<1>4. \A v \in Workers : /\ ~Inside(v) /\ ~Inside(v)' /\ ~InPublication(v) /\ ~InPublication(v)'
                         /\ ~MaxRead(v)' /\ \A k \in Kind : ~CountRead(v, k)'
  BY Zenon, <1>3 DEF Inside, InPublication, MaxRead, CountRead
<1>5. ReportTypes'
  BY Zenon, <1>1 DEF ReportInvariant, ReportTypes
<1>6. Holding'
  BY Zenon, <1>1, <1>4 DEF ReportInvariant, Holding
<1>7. Resting'
  BY Zenon, <1>1, <1>3 DEF ReportInvariant, Resting
<1>8. Alone'
  BY Zenon, <1>1, <1>2 DEF ReportInvariant, Alone
<1>9. KindsKnown'
  BY <1>1, <1>4 DEF ReportInvariant, KindsKnown
<1>10. CountsAddUp'
  <2> SUFFICES ASSUME NEW k \in Kind
               PROVE  /\ IsFiniteSet(Waiting(k))'
                      /\ (started[k] = shared[k] + Cardinality(Waiting(k)))'
                      /\ (started[k] = published[k] + Cardinality(Publishing(k)))'
    BY Zenon DEF CountsAddUp
  <2>1. \A v \in Workers : Unflushed(v, k)' = Unflushed(v, k)
    BY Zenon, <1>1, <1>3 DEF Unflushed
  <2>2. Waiting(k)' = Waiting(k)
    BY Zenon, <2>1 DEF Waiting
  <2>3. Publishing(k)' = Publishing(k)
    BY Zenon, <1>1 DEF Publishing
  <2> QED BY Zenon, <1>1, <2>2, <2>3 DEF ReportInvariant, CountsAddUp
<1>11. MaxAddsUp'
  BY Zenon, <1>1, <1>3 DEF ReportInvariant, MaxAddsUp
<1>12. SnapshotFits'
  BY Zenon, <1>1, <1>4 DEF ReportInvariant, SnapshotFits
<1>13. ExactMeansExact'
  BY Zenon, <1>1 DEF ReportInvariant, ExactMeansExact
<1> QED BY <1>1, <1>5, <1>6, <1>7, <1>8, <1>9, <1>10, <1>11, <1>12, <1>13 DEF ReportInvariant

(* The invariant does not look at the clock.                               *)
LEMMA TimeKeepsReports ==
    ASSUME ReportInvariant, Tick \/ Returned \/ UNCHANGED vars
    PROVE  ReportInvariant' /\ UNCHANGED report
<1>1. UNCHANGED <<flushEvery, pc, back, at, local, localMax, pending, shared, sharedMax, seenMax,
                  snapshot, callbackLock, report, joined, kind, started, published, deepest>>
  BY Zenon DEF Tick, Returned, vars, options, countVars, locks, history
<1>2. \A v \in Workers : /\ Inside(v)' <=> Inside(v)
                         /\ InPublication(v)' <=> InPublication(v)
                         /\ MaxRead(v)' <=> MaxRead(v)
                         /\ \A k \in Kind : /\ CountRead(v, k)' <=> CountRead(v, k)
                                            /\ Unflushed(v, k)' = Unflushed(v, k)
  BY <1>1 DEF Inside, InPublication, MaxRead, CountRead, Unflushed
<1>3. \A k \in Kind : Waiting(k)' = Waiting(k) /\ Publishing(k)' = Publishing(k)
  BY <1>1, <1>2 DEF Waiting, Publishing
<1>4. ReportTypes' /\ Holding' /\ Resting' /\ Alone' /\ KindsKnown'
  <2>1. ReportTypes'
    BY Zenon, <1>1 DEF ReportInvariant, ReportTypes
  <2>2. Holding' /\ Resting'
    BY Zenon, <1>1, <1>2 DEF ReportInvariant, Holding, Resting
  <2>3. Alone'
    BY Zenon, <1>1, <1>2, ProgressAssumption DEF ReportInvariant, Alone
  <2>4. KindsKnown'
    BY <1>1, <1>2 DEF ReportInvariant, KindsKnown
  <2> QED BY Zenon, <2>1, <2>2, <2>3, <2>4
<1>5. CountsAddUp'
  BY Zenon, <1>1, <1>3 DEF ReportInvariant, CountsAddUp
<1>6. MaxAddsUp' /\ ExactMeansExact'
  BY Zenon, <1>1 DEF ReportInvariant, MaxAddsUp, ExactMeansExact
<1>7. SnapshotFits'
  BY <1>1, <1>2 DEF ReportInvariant, SnapshotFits
<1> QED BY Zenon, <1>1, <1>4, <1>5, <1>6, <1>7 DEF ReportInvariant

=============================================================================
