------------------------- MODULE DepthFirstExplorer -------------------------
(***************************************************************************)
(* DepthFirstExplorer of algo/dpor.hpp: the explicit stack of contexts and *)
(* frames that walks the exploration tree of one program, with the         *)
(* executor it publishes to.  A context owns one graph that its frames     *)
(* change in place; a frame's checkpoint is the graph that rollback()      *)
(* goes back to.                                                           *)
(*                                                                         *)
(* tasks is the executor's queue.  For a program of Splits the executor    *)
(* may accept or refuse any alternative offered to it, which is what a     *)
(* pool of workers looks like to an explorer; an accepted one is explored  *)
(* later, from its own copy.  Explorers share no graph, so one at a time   *)
(* is enough.                                                              *)
(***************************************************************************)
EXTENDS DporAlgorithm

CONSTANTS
    Program,     \* the programs to verify
    MaxDepth,    \* config.max_depth
    Splits,      \* the programs whose executor has other workers
    Outcomes     \* what on_terminal_execution may answer

ASSUME ExplorerAssumption ==
    /\ MaxDepth \in Nat
    /\ Splits \subseteq Program
    /\ Outcomes \subseteq {"continue", "stop"}

VARIABLES
    prog,        \* config.program
    tasks,       \* queued ExplorationTasks
    contexts,    \* contexts_, top last
    terminals,   \* published terminal executions, in order
    stop         \* stop_requested()

evars == <<prog, tasks, contexts, terminals, stop>>

EnterFrame(depth, mode) ==
    [kind |-> "Enter", depth |-> depth, mode |-> mode, checkpoint |-> EmptyGraph,
     cursor |-> 1, event |-> NoEvent, thread |-> NoEvent, label |-> Done,
     candidates |-> <<>>, flag |-> FALSE]

NewContext(g, depth, mode) ==
    [graph |-> g, frames |-> <<EnterFrame(depth, mode)>>]

Task(g, depth, mode) == [graph |-> g, depth |-> depth, mode |-> mode]

Init ==
    /\ prog \in Program
    /\ tasks = <<Task(EmptyGraph, 0, "Visit")>>
    /\ contexts = <<>>
    /\ terminals = <<>>
    /\ stop = FALSE

-----------------------------------------------------------------------------
Context == Last(contexts)
Graph   == Context.graph
Top     == Last(Context.frames)

(* pop_top_frame(): a context without frames goes away.                    *)
PopFrame(g) ==
    IF Len(Context.frames) = 1
    THEN Front(contexts)
    ELSE Append(Front(contexts), [graph |-> g, frames |-> Front(Context.frames)])

(* The top context with a new graph and a new top frame.                   *)
Replace(g, frame) ==
    Append(Front(contexts),
           [graph |-> g, frames |-> Append(Front(Context.frames), frame)])

(* ... and a child frame above it.                                         *)
Descend(g, frame, mode) ==
    Append(Front(contexts),
           [graph  |-> g,
            frames |-> Append(Front(Context.frames), frame)
                         \o <<EnterFrame(frame.depth + 1, mode)>>])

PushContext(cs, g, depth, mode) == Append(cs, NewContext(g, depth, mode))

(* publish_terminal_execution(), with the observer's answer.               *)
Publish(g, kind) ==
    /\ terminals' = Append(terminals,
                           [graph |-> g, kind |-> kind, signature |-> Signature(g)])
    /\ \E action \in Outcomes : stop' = (stop \/ action = "stop")

NoPublish == UNCHANGED <<terminals, stop>>

-----------------------------------------------------------------------------
(* Mutant: after a stop the task goes back to the queue.                   *)
StartTaskRequeues ==
    /\ contexts = <<>>
    /\ tasks # <<>>
    /\ tasks' = IF stop THEN Append(Tail(tasks), Head(tasks)) ELSE Tail(tasks)
    /\ contexts' = IF stop THEN <<>>
                   ELSE <<NewContext(Head(tasks).graph, Head(tasks).depth,
                                     Head(tasks).mode)>>
    /\ NoPublish
    /\ UNCHANGED prog

(* process_task(): the next queued task, in a fresh explorer.              *)
StartTask ==
    /\ contexts = <<>>
    /\ tasks # <<>>
    /\ tasks' = Tail(tasks)
    /\ contexts' = IF stop THEN <<>>
                   ELSE <<NewContext(Head(tasks).graph, Head(tasks).depth,
                                     Head(tasks).mode)>>
    /\ NoPublish
    /\ UNCHANGED prog

(* run_loop() after a stop: one frame is rolled back and popped.           *)
UnwindOneStep ==
    /\ contexts # <<>>
    /\ stop
    /\ contexts' = PopFrame(IF Top.kind = "Enter" THEN Graph ELSE Top.checkpoint)
    /\ NoPublish
    /\ UNCHANGED <<prog, tasks>>

Handling(kind) == contexts # <<>> /\ ~stop /\ Top.kind = kind

-----------------------------------------------------------------------------
(* handle_enter_frame().                                                   *)

Entering == Handling("Enter")
EntersVisit == Entering /\ (Top.mode = "VisitIfConsistent" => Consistent(Graph))

EnterInconsistent ==
    /\ Entering
    /\ Top.mode = "VisitIfConsistent"
    /\ ~Consistent(Graph)
    /\ contexts' = PopFrame(Graph)
    /\ NoPublish
    /\ UNCHANGED <<prog, tasks>>

EnterDepthLimit ==
    /\ EntersVisit
    /\ Top.depth >= MaxDepth
    /\ Publish(Graph, "DepthLimit")
    /\ contexts' = PopFrame(Graph)
    /\ UNCHANGED <<prog, tasks>>

(* The frame, its mode settled, below the depth limit.                     *)
Visiting == EntersVisit /\ Top.depth < MaxDepth
Maximal  == ~HasNextEvent(prog, Graph)

EnterReschedule ==
    /\ Visiting
    /\ Maximal
    /\ Reschedulable(prog, Graph) # {}
    /\ contexts' = PushContext(PopFrame(Graph), RescheduleChild(prog, Graph),
                               Top.depth, "Visit")
    /\ NoPublish
    /\ UNCHANGED <<prog, tasks>>

TerminalKind ==
    IF SuppressedByLimit(Graph) THEN "ThreadEventLimit"
    ELSE IF HasBlockedThread(Graph) THEN "Blocked" ELSE "Full"

EnterTerminal ==
    /\ Visiting
    /\ Maximal
    /\ Reschedulable(prog, Graph) = {}
    /\ Publish(Graph, TerminalKind)
    /\ contexts' = PopFrame(Graph)
    /\ UNCHANGED <<prog, tasks>>

SettledFrame(kind) ==
    [Top EXCEPT !.kind = kind, !.mode = "Visit", !.checkpoint = Graph]

(* The next event is by thread t and has this label.                       *)
EnterError(t, label) ==
    /\ label.op = "error"
    /\ Publish(AddEvent(Graph, t, label), "Error")
    /\ contexts' = PopFrame(Graph)
    /\ UNCHANGED <<prog, tasks>>

(* A Block, or an ND label without choices: one child.                     *)
EnterLinear(t, label) ==
    /\ label.op = "block" \/ (label.op = "nd" /\ label.choices = <<>>)
    /\ contexts' = Descend(AddEvent(Graph, t, label), SettledFrame("ExitLinearChild"), "Visit")
    /\ NoPublish
    /\ UNCHANGED <<prog, tasks>>

EnterNd(t, label) ==
    /\ label.op = "nd" /\ label.choices # <<>>
    /\ contexts' = Replace(Graph,
          [SettledFrame("ResumeNd") EXCEPT
             !.thread = t,
             !.label = [label EXCEPT !.choices = EraseDuplicates(@)]])
    /\ NoPublish
    /\ UNCHANGED <<prog, tasks>>

EnterReceive(t, label) ==
    /\ label.op = "recv"
    /\ contexts' = Replace(Graph,
          [SettledFrame("ResumeReceive") EXCEPT
             !.thread = t,
             !.label = label,
             !.candidates = Ascending(CompatibleUnreadSends(Graph, t, label)),
             !.flag = label.nonblocking])
    /\ NoPublish
    /\ UNCHANGED <<prog, tasks>>

EnterSend(t, label) ==
    /\ label.op = "send"
    /\ LET extended == AddEvent(Graph, t, label)
           send     == EventCount(extended)
       IN  contexts' = Replace(extended,
              [SettledFrame("ResumeSendRevisits") EXCEPT
                 !.event = send,
                 !.candidates = ReceivesInDestination(extended, send),
                 !.flag = prog \in Splits])
    /\ NoPublish
    /\ UNCHANGED <<prog, tasks>>

(* The switch over the label of the next event.                            *)
EnterEvent ==
    /\ Visiting
    /\ \E t \in NextThreads(prog, Graph) :
       \E label \in {LabelToAdd(Graph, t, AskThread(prog, Graph, t))} :
          \/ EnterError(t, label) \/ EnterLinear(t, label) \/ EnterNd(t, label)
          \/ EnterReceive(t, label) \/ EnterSend(t, label)

-----------------------------------------------------------------------------
(* ExitLinearChild: the only child is explored.                            *)
ExitLinearChild ==
    /\ Handling("ExitLinearChild")
    /\ contexts' = PopFrame(Top.checkpoint)
    /\ NoPublish
    /\ UNCHANGED <<prog, tasks>>

(* Mutants: the cursor stays although the child was accepted; it moves on  *)
(* by two.                                                                 *)
GiveAwayTwice(g, child, cursor, mode) ==
    /\ prog \in Splits
    /\ Len(tasks) < 3
    /\ tasks' = Append(tasks, Task(child, Top.depth + 1, mode))
    /\ contexts' = Replace(g, Top)
    /\ UNCHANGED prog
    /\ NoPublish
GiveAwaySkips(g, child, cursor, mode) ==
    /\ prog \in Splits
    /\ tasks' = Append(tasks, Task(child, Top.depth + 1, mode))
    /\ contexts' = Replace(g, [Top EXCEPT !.cursor = cursor + 1])
    /\ UNCHANGED prog
    /\ NoPublish

(* try_enqueue() accepts the child: it joins the queue and the cursor      *)
(* moves on.                                                               *)
GiveAway(g, child, cursor, mode) ==
    /\ prog \in Splits
    /\ tasks' = Append(tasks, Task(child, Top.depth + 1, mode))
    /\ contexts' = Replace(g, [Top EXCEPT !.cursor = cursor])
    /\ UNCHANGED prog
    /\ NoPublish

(* handle_resume_nd_frame().                                               *)
NdChild == AddEvent(Top.checkpoint, Top.thread,
                    [Top.label EXCEPT !.val = Top.label.choices[Top.cursor]])

ResumeNd ==
    /\ Handling("ResumeNd")
    /\ Top.cursor <= Len(Top.label.choices)
    /\ contexts' = Descend(NdChild, [Top EXCEPT !.cursor = @ + 1], "Visit")
    /\ NoPublish
    /\ UNCHANGED <<prog, tasks>>

SplitNd ==
    /\ Handling("ResumeNd")
    /\ Top.cursor < Len(Top.label.choices)
    /\ GiveAway(Top.checkpoint, NdChild, Top.cursor + 1, "Visit")

(* handle_resume_receive_frame().                                          *)
ReceiveChild(source) ==
    LET g == AddEvent(Top.checkpoint, Top.thread, Top.label)
    IN  SetReadsFrom(g, EventCount(g), source)

(* Mutant: the child of a receive is entered without the consistency check. *)
ResumeReceiveUnchecked ==
    /\ Handling("ResumeReceive")
    /\ Top.cursor <= Len(Top.candidates)
    /\ contexts' = Descend(ReceiveChild(Top.candidates[Top.cursor]),
                           [Top EXCEPT !.cursor = @ + 1], "Visit")
    /\ NoPublish
    /\ UNCHANGED <<prog, tasks>>

ResumeReceive ==
    /\ Handling("ResumeReceive")
    /\ Top.cursor <= Len(Top.candidates)
    /\ contexts' = Descend(ReceiveChild(Top.candidates[Top.cursor]),
                           [Top EXCEPT !.cursor = @ + 1], "VisitIfConsistent")
    /\ NoPublish
    /\ UNCHANGED <<prog, tasks>>

SplitReceive ==
    /\ Handling("ResumeReceive")
    /\ Top.cursor < Len(Top.candidates)
         \/ (Top.cursor = Len(Top.candidates) /\ Top.flag)
    /\ GiveAway(Top.checkpoint, ReceiveChild(Top.candidates[Top.cursor]),
                Top.cursor + 1, "VisitIfConsistent")

ResumeBottom ==
    /\ Handling("ResumeReceive")
    /\ Top.cursor > Len(Top.candidates)
    /\ Top.flag
    /\ contexts' = Descend(ReceiveChild(Bottom), [Top EXCEPT !.flag = FALSE],
                           "VisitIfConsistent")
    /\ NoPublish
    /\ UNCHANGED <<prog, tasks>>

(* An ND or receive frame with no alternative left.                        *)
ResumeExhausted ==
    /\ \/ Handling("ResumeNd") /\ Top.cursor > Len(Top.label.choices)
       \/ /\ Handling("ResumeReceive")
          /\ Top.cursor > Len(Top.candidates)
          /\ ~Top.flag
    /\ contexts' = PopFrame(Top.checkpoint)
    /\ NoPublish
    /\ UNCHANGED <<prog, tasks>>

(* handle_resume_send_revisits_frame().                                    *)
RevisitIndex == NextRevisit(Graph, Top.event, Top.candidates, Top.cursor)
Revisited(i) ==
    RevisitChild(Graph, Porf(Graph), Top.candidates[i], Top.event)

(* Mutant: the revisited graph replaces the context's own.                 *)
ResumeRevisitInPlace ==
    /\ Handling("ResumeSendRevisits")
    /\ RevisitIndex <= Len(Top.candidates)
    /\ contexts' = Descend(Revisited(RevisitIndex),
                           [Top EXCEPT !.cursor = RevisitIndex + 1],
                           "VisitIfConsistent")
    /\ NoPublish
    /\ UNCHANGED <<prog, tasks>>

ResumeRevisit ==
    /\ Handling("ResumeSendRevisits")
    /\ \E i \in {RevisitIndex} \cap DOMAIN Top.candidates :
          contexts' = PushContext(Replace(Graph, [Top EXCEPT !.cursor = i + 1]),
                                  Revisited(i), Top.depth + 1, "VisitIfConsistent")
    /\ NoPublish
    /\ UNCHANGED <<prog, tasks>>

SplitRevisit ==
    /\ Handling("ResumeSendRevisits")
    /\ Top.flag
    /\ \E i \in {RevisitIndex} \cap DOMAIN Top.candidates :
          GiveAway(Graph, Revisited(i), i + 1, "VisitIfConsistent")

ContinueAfterSend ==
    /\ Handling("ResumeSendRevisits")
    /\ RevisitIndex > Len(Top.candidates)
    /\ contexts' = Descend(Graph, [Top EXCEPT !.kind = "ExitLinearChild"], "Visit")
    /\ NoPublish
    /\ UNCHANGED <<prog, tasks>>

-----------------------------------------------------------------------------
EnterStep ==
    \/ EnterInconsistent \/ EnterDepthLimit \/ EnterReschedule \/ EnterTerminal
    \/ EnterEvent

ResumeStep ==
    \/ ExitLinearChild \/ ResumeNd \/ ResumeReceive \/ ResumeBottom
    \/ ResumeExhausted \/ ResumeRevisit \/ ContinueAfterSend

SplitStep == SplitNd \/ SplitReceive \/ SplitRevisit

Finished == contexts = <<>> /\ tasks = <<>>

Next == StartTask \/ UnwindOneStep \/ EnterStep \/ ResumeStep \/ SplitStep

-----------------------------------------------------------------------------
(* Properties.                                                             *)

Exploring == contexts # <<>>

(* A frame refers to events and alternatives that exist.                   *)
FrameOK(g, f) ==
    /\ f.event \in {NoEvent} \cup Ids(g)
    /\ f.cursor \in 1 .. 1 + (IF f.kind = "ResumeNd" THEN Len(f.label.choices)
                              ELSE Len(f.candidates))
    /\ ToSet(f.candidates) \subseteq Ids(g)

(* Graph c is an earlier state of graph g.                                 *)
IsCutOf(c, g) ==
    /\ IsPrefix(c.events, g.events)
    /\ DOMAIN c.rf = DOMAIN g.rf \cap Ids(c)
    /\ \A r \in DOMAIN c.rf : c.rf[r] = g.rf[r]

(* rollback() only cuts a graph back: the checkpoint of every frame of a   *)
(* context is a prefix of the context's graph, and each is a prefix of the *)
(* checkpoints above it, whatever was explored, split off or unwound; and  *)
(* no context is without frames, nor a frame with a cursor, a candidate or *)
(* an event beyond what it may refer to.                                   *)
CheckpointsNest ==
    /\ \A i \in DOMAIN contexts :
          /\ contexts[i].frames # <<>>
          /\ \A f \in Range(contexts[i].frames) : FrameOK(contexts[i].graph, f)
    /\ Exploring =>
          LET saved == SelectSeq(Context.frames, LAMBDA f : f.kind # "Enter")
          IN  \A i \in DOMAIN saved :
                IsCutOf(saved[i].checkpoint,
                        IF i = Len(saved) THEN Graph ELSE saved[i + 1].checkpoint)

(* The comment on the continuation after a send: entering in plain Visit   *)
(* mode is sound because the graph is consistent anyway.                   *)
VisitedIsConsistent ==
    Exploring /\ Top.kind = "Enter" /\ Top.mode = "Visit" => Consistent(Graph)

(* What a thread had observed before one of its events.                    *)
TraceBefore(g, e) ==
    ThreadTrace(RestrictTo(g, {d \in Ids(g) : ThreadOf(g, d) # ThreadOf(g, e) \/ d < e}),
                ThreadOf(g, e))

(* No event outlives the observations it was computed from: after any      *)
(* sequence of revisits and reschedulings, each event of the current graph *)
(* is still what its thread function returns for the events before it, and *)
(* a thread function that replays its trace (the simulated commit) never   *)
(* meets a trace it cannot replay.                                         *)
GraphFollowsProgram ==
    Exploring =>
      /\ \A t \in Thread : ~ThreadIsTerminated(Graph, t) => AskThread(prog, Graph, t) # Failure
      /\ \A e \in Ids(Graph) :
           LET asked == ThreadFn(prog, ThreadOf(Graph, e), TraceBefore(Graph, e),
                                 EventIndex(Graph, e))
               label == LabelOf(Graph, e)
           IN  CASE label.op = "block" -> asked.op = "recv" /\ ~asked.nonblocking
                 [] label.op = "nd" /\ label.choices # <<>> ->
                      asked.op = "nd" /\ label.val \in ToSet(asked.choices)
                 [] OTHER -> label = asked

(* Optimality: no execution is published twice, on any path of revisits,   *)
(* and whichever alternatives were handed to other workers.                *)
NoDuplicates ==
    \A i, j \in DOMAIN terminals :
        terminals[i].signature = terminals[j].signature => i = j

(* A terminal that is counted as full or blocked is maximal: no thread     *)
(* could have gone on, even without max_thread_events, and no message is   *)
(* there for a blocked one.                                                *)
FullIsMaximal ==
    \A i \in DOMAIN terminals : terminals[i].kind \in {"Full", "Blocked"} =>
        LET g == terminals[i].graph IN
        /\ Reschedulable(prog, g) = {}
        /\ \A t \in Thread : ThreadIsTerminated(g, t) \/ AskThread(prog, g, t) = Done
        /\ terminals[i].kind = "Blocked" <=> \E e \in Ids(g) : IsOp(g, e, "block")

(* The events whose revisit condition next_backward_revisit_child() may    *)
(* still evaluate, with the set Previous that is kept for each.            *)
Scanned ==
    {recv \in {Top.candidates[i] : i \in Top.cursor .. Len(Top.candidates)} :
        <<recv, Top.event>> \notin Porf(Graph)}
BlockingScanned ==
    {e \in UNION {{r} \cup Deleted(Graph, Porf(Graph), r, Top.event) : r \in Scanned} :
        /\ IsReceive(Graph, e) /\ ~IsNonblocking(Graph, e)
        /\ Graph.rf[e] \in Previous(Graph, Porf(Graph), e, Top.event)}
ScansRevisits == Exploring /\ ~stop /\ Top.kind = "ResumeSendRevisits"
KeptFor(e) == Previous(Graph, Porf(Graph), e, Top.event)

(* get_cons_tiebreaker_masked() always finds a source, so it never throws  *)
(* its internal_error, and it decides on the unrestricted graph with masks *)
(* exactly what building and checking the restricted graph decides.        *)
TiebreakerIsExact ==
    ScansRevisits => \A e \in BlockingScanned :
        LET tie == TiebreakerMasked(Graph, KeptFor(e), e)
        IN  tie # NoEvent /\ tie = TiebreakerByRestriction(Graph, KeptFor(e), e)

(* A revisit that is taken leaves no kept receive without its source, and  *)
(* the child is acyclic, which rebind_rf_preserving_known_acyclicity()     *)
(* takes for granted (it keeps the known_acyclic flag unchecked).          *)
RevisitsAreWhole ==
    ScansRevisits => \A i \in {RevisitIndex} \cap DOMAIN Top.candidates :
        /\ Receives(Revisited(i)) = DOMAIN Revisited(i).rf
        /\ ~HasCausalCycle(Revisited(i))
=============================================================================
