--------------------------- MODULE DporAlgorithm ---------------------------
(***************************************************************************)
(* The decisions of the exploration algorithm (algo/dpor.hpp) as operators *)
(* on graphs: the next event, the revisit condition with its tiebreaker,   *)
(* the backward revisits of a send, and rescheduling a blocked receive.    *)
(***************************************************************************)
EXTENDS Consistency

CONSTANTS
    ThreadFn(_, _, _, _),   \* ThreadFn(prog, t, trace, step): label, Done or Failure
    MaxThreadEvents         \* max_thread_events; 0: unbounded

Done    == [op |-> "done"]     \* the thread function returned nullopt
Failure == [op |-> "failure"]  \* it threw: there is no step from here
NoEvent == 0                   \* "no such event id"

ASSUME BoundAssumption == MaxThreadEvents \in Nat

-----------------------------------------------------------------------------
(* compute_next_event().                                                   *)

AtEventLimit(g, t) ==
    MaxThreadEvents # 0 /\ ThreadEventCount(g, t) >= MaxThreadEvents

AskThread(prog, g, t) ==
    ThreadFn(prog, t, ThreadTrace(g, t), ThreadEventCount(g, t))

(* Threads that are asked, and that have a further event.                  *)
Runnable(prog, g) ==
    {t \in Thread : /\ ~ThreadIsTerminated(g, t)
                    /\ ~AtEventLimit(g, t)
                    /\ AskThread(prog, g, t) # Done}

(* A blocking receive that nothing can satisfy yet becomes a Block event.  *)
LabelToAdd(g, t, label) ==
    IF /\ label.op = "recv"
       /\ ~label.nonblocking
       /\ CompatibleUnreadSends(g, t, label) = {}
    THEN BlockLabel
    ELSE label

(* The first thread that has a further event, if there is one.             *)
HasNextEvent(prog, g) == Runnable(prog, g) # {}
NextThreads(prog, g) ==
    LET ready == Runnable(prog, g) IN {t \in ready : \A u \in ready : t <= u}

(* Mutant: the bound is not noticed.                                       *)
SuppressedNever(g) == FALSE

(* suppressed_by_thread_event_limit, read when there is no next event.     *)
SuppressedByLimit(g) ==
    \E t \in Thread : ~ThreadIsTerminated(g, t) /\ AtEventLimit(g, t)

(* erase_duplicate_nd_choices(): the first occurrence of each choice.      *)
EraseDuplicates(choices) ==
    LET first == {i \in DOMAIN choices :
                    \A j \in 1 .. i - 1 : choices[j] # choices[i]}
        order == Ascending(first)
    IN  [i \in DOMAIN order |-> choices[order[i]]]

-----------------------------------------------------------------------------
(* The revisit condition.  po is Porf(g).                                  *)

(* Previous = events inserted no later than e, and the porf-prefix of s.   *)
Previous(g, po, e, s) == {d \in Ids(g) : d <= e \/ <<d, s>> \in po}

KeptReaders(g, keep, s) == Readers(g, s) \cap keep

(* Mutant: the send that the receive reads now is forgotten.               *)
TieCandidatesUnread(g, keep, recv) ==
    {s \in Sends(g) \cap keep :
        /\ Matches(g, s, ThreadOf(g, recv), LabelOf(g, recv))
        /\ KeptReaders(g, keep, s) = {}}

(* Candidate sources of a blocking receive within keep: unread kept sends  *)
(* that match it, and the send it reads now.                               *)
TieCandidates(g, keep, recv) ==
    {s \in Sends(g) \cap keep :
        /\ Matches(g, s, ThreadOf(g, recv), LabelOf(g, recv))
        /\ KeptReaders(g, keep, s) \in {{}, {recv}}}

(* Sender thread first, then event id.                                     *)
TieLess(g, a, b) ==
    \/ ThreadOf(g, a) < ThreadOf(g, b)
    \/ ThreadOf(g, a) = ThreadOf(g, b) /\ a < b

FirstOf(g, S) ==
    IF S = {} THEN NoEvent
    ELSE CHOOSE a \in S : \A b \in S \ {a} : TieLess(g, a, b)

(* MaskedPorfContext::reachable_from(): reachability inside keep.          *)
MaskedPorf(g, keep) ==
    Closure({p \in PoEdges(g) \cup RfEdges(g) : p[1] \in keep /\ p[2] \in keep},
            keep)

(* fifo_rewrite_violates(): the FIFO clauses with the consumer of each     *)
(* kept send patched as if recv read candidate.                            *)
MaskedConsumer(g, keep, recv, candidate, s) ==
    IF s = candidate THEN {recv} ELSE KeptReaders(g, keep, s) \ {recv}

(* Mutant: the receives' matchers are ignored.                             *)
FifoRewriteIgnoresMatcher(g, keep, recv, candidate) ==
    \E p \in Channel(g) : p[1] \in keep /\ p[2] \in keep /\
      /\ MaskedConsumer(g, keep, recv, candidate, p[2]) # {}
      /\ MaskedConsumer(g, keep, recv, candidate, p[1]) = {}

FifoRewriteViolates(g, keep, recv, candidate) ==
    LET Consumers(s) == MaskedConsumer(g, keep, recv, candidate, s)
        Accepting(r, s) == LabelOf(g, s).val \in LabelOf(g, r).accepts
    IN  \E p \in Channel(g) : p[1] \in keep /\ p[2] \in keep /\
          \E r \in Consumers(p[2]) :
            /\ Accepting(r, p[1])
            /\ \/ Consumers(p[1]) = {}
               \/ \E q \in Consumers(p[1]) : ThreadOf(g, q) = ThreadOf(g, r) /\ r < q

(* get_cons_tiebreaker_masked(): the first candidate that stays consistent, *)
(* decided on the unrestricted graph with a mask.  NoEvent stands for the  *)
(* internal_error "no consistent source found".                            *)
TiebreakerMasked(g, keep, recv) ==
    LET reach == MaskedPorf(g, keep) IN
    FirstOf(g, {s \in TieCandidates(g, keep, recv) :
                  /\ <<recv, s>> \notin reach
                  /\ Model = "FifoP2P" => ~FifoRewriteViolates(g, keep, recv, s)})

(* get_cons_tiebreaker_masked_via_restriction(): the same decision, taken  *)
(* by building the restricted graph, rewriting it and checking it.         *)
TiebreakerByRestriction(g, keep, recv) ==
    LET small == RestrictTo(g, keep)
        r     == NewId(keep, recv)
        Ok(s) == ConsistentExcept(SetReadsFrom(small, r, NewId(keep, s)),
                                  Receives(small) \ {r})
    IN  FirstOf(g, {s \in TieCandidates(g, keep, recv) : Ok(s)})

RevisitCondition(g, po, e, s) ==
    CASE IsNonblocking(g, e) -> ReadsBottom(g, e)
      [] IsOp(g, e, "nd") ->
           \/ LabelOf(g, e).choices = <<>>
           \/ LabelOf(g, e).val = Min(ToSet(LabelOf(g, e).choices))
      [] IsReceive(g, e) /\ ~IsNonblocking(g, e) ->
           /\ g.rf[e] \in Previous(g, po, e, s)
           /\ g.rf[e] = TiebreakerMasked(g, Previous(g, po, e, s), e)
      [] OTHER -> Readers(g, e) \cap Previous(g, po, e, s) = {}

-----------------------------------------------------------------------------
(* next_backward_revisit_child().                                          *)

(* Mutant: the event right after the receive is kept.                      *)
DeletedButNext(g, po, recv, s) ==
    {d \in Ids(g) : d > recv + 1 /\ d # s /\ <<d, s>> \notin po}

(* Deleted: inserted after the receive and outside the send's prefix.      *)
Deleted(g, po, recv, s) ==
    {d \in Ids(g) : d > recv /\ d # s /\ <<d, s>> \notin po}

(* Mutants: the deleted events are not asked; a receive in the send's own  *)
(* prefix is revisited.                                                    *)
MayRevisitUnasked(g, po, recv, s) ==
    /\ LabelOf(g, s).val \in LabelOf(g, recv).accepts
    /\ <<recv, s>> \notin po
    /\ RevisitCondition(g, po, recv, s)
MayRevisitPrefix(g, po, recv, s) ==
    /\ LabelOf(g, s).val \in LabelOf(g, recv).accepts
    /\ RevisitCondition(g, po, recv, s)
    /\ \A d \in Deleted(g, po, recv, s) : RevisitCondition(g, po, d, s)

MayRevisit(g, po, recv, s) ==
    /\ LabelOf(g, s).val \in LabelOf(g, recv).accepts
    /\ <<recv, s>> \notin po
    /\ RevisitCondition(g, po, recv, s)
    /\ \A d \in Deleted(g, po, recv, s) : RevisitCondition(g, po, d, s)

RevisitChild(g, po, recv, s) ==
    LET keep == Ids(g) \ Deleted(g, po, recv, s)
    IN  SetReadsFrom(RestrictTo(g, keep), NewId(keep, recv), NewId(keep, s))

(* Mutant: the scan starts one receive too late.                           *)
NextRevisitSkips(g, s, receives, index) ==
    Min({i \in index + 1 .. Len(receives) : MayRevisit(g, Porf(g), receives[i], s)}
          \cup {Len(receives) + 1})

(* The index of the next receive that s revisits, from index on; one past  *)
(* the end if there is none.                                               *)
NextRevisit(g, s, receives, index) ==
    LET po == Porf(g) IN
    Min({i \in index .. Len(receives) : MayRevisit(g, po, receives[i], s)}
          \cup {Len(receives) + 1})

-----------------------------------------------------------------------------
(* find_blocked_receive_reschedule_child(): the first blocked thread whose *)
(* receive has become satisfiable loses its Block event.  The thread is    *)
(* asked again at the step before the Block.                               *)
AskBlocked(prog, g, t) ==
    ThreadFn(prog, t, ThreadTrace(g, t), ThreadEventCount(g, t) - 1)

Reschedulable(prog, g) ==
    {t \in Thread : /\ LastIs(g, t, {"block"})
                    /\ CompatibleUnreadSends(g, t, AskBlocked(prog, g, t)) # {}}

WithoutBlock(g, t) == RestrictTo(g, Ids(g) \ {LastEvent(g, t)})

(* Mutant: the Block event stays.                                          *)
RescheduleWithBlock(prog, g) == g

RescheduleChild(prog, g) == WithoutBlock(g, Min(Reschedulable(prog, g)))
=============================================================================
