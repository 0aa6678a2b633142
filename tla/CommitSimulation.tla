-------------------------- MODULE CommitSimulation --------------------------
(***************************************************************************)
(* The two-phase commit example as a program for the exploration           *)
(* (examples/two_phase_commit_timeout/sim/): the thread function of a node *)
(* runs the unchanged protocol object from its start against an            *)
(* environment that answers the first step operations from the thread's    *)
(* trace and stops the run at the next one, whose label it returns.  The   *)
(* operations are sends, choices (a vote, a crash) and receives; a receive *)
(* is nonblocking while a timer is active, and bottom fires the timer.     *)
(***************************************************************************)
EXTENDS DporAlgorithm, TwoPhaseProtocol

CONSTANT InjectCrash      \* Options::inject_crash

ASSUME SimulationAssumption == InjectCrash \in BOOLEAN

-----------------------------------------------------------------------------
(* sim/bridge.hpp and sim/dpor_types.hpp: messages and choices as numbers, *)
(* the tag in the low byte and the sender above it.                        *)
Tag == [Prepare |-> 1, VoteYes |-> 2, VoteNo |-> 3, DecisionCommit |-> 4,
        DecisionAbort |-> 5, Ack |-> 6, ChoiceYes |-> 7, ChoiceNo |-> 8,
        NoCrash |-> 9, Crash |-> 10]
Invalid == 0

make_value(tag, payload) == payload * 256 + tag
tag_of(value)            == value % 256
payload_of(value)        == value \div 256

encode_message(m) ==
    CASE m.type = "prepare"  -> make_value(Tag.Prepare, 0)
      [] m.type = "vote"     -> make_value(IF m.val = "yes" THEN Tag.VoteYes ELSE Tag.VoteNo,
                                           m.from)
      [] m.type = "decision" -> make_value(IF m.val = "commit" THEN Tag.DecisionCommit
                                           ELSE Tag.DecisionAbort, 0)
      [] m.type = "ack"      -> make_value(Tag.Ack, m.from)

IsMessage(value) == tag_of(value) \in Tag.Prepare .. Tag.Ack

(* The address is the node that receives.                                  *)
decode_message(value, to) ==
    LET tag == tag_of(value) IN
    CASE tag = Tag.Prepare        -> Prepare(to)
      [] tag = Tag.VoteYes        -> VoteMsg(payload_of(value), "yes")
      [] tag = Tag.VoteNo         -> VoteMsg(payload_of(value), "no")
      [] tag = Tag.DecisionCommit -> DecisionMsg(to, "commit")
      [] tag = Tag.DecisionAbort  -> DecisionMsg(to, "abort")
      [] tag = Tag.Ack            -> Ack(payload_of(value))

VoteChoices  == <<Tag.ChoiceYes, Tag.ChoiceNo>>
CrashChoices == <<Tag.NoCrash, Tag.Crash>>

participant_to_thread(p) == p + 1

-----------------------------------------------------------------------------
(***************************************************************************)
(* A run of node n is at r: the object st, the active timer, the number    *)
(* left of operations to replay, the unread rest of the trace, and whether *)
(* the crash choice was made.  The replay answers the label of the next    *)
(* operation, Done when the protocol or the crash ends the thread, or      *)
(* Failure for a SimulationFailure.                                        *)
(***************************************************************************)
AnyMessage == {encode_message(m) : m \in Message}

(* replay_choice_or_capture(): the run goes on with a choice it replays    *)
(* and otherwise ends here.  A value that is no choice makes               *)
(* decode_vote_choice() or decode_crash_choice() throw, which ends the     *)
(* handler like an error of the protocol.                                  *)
Chosen(r, choices) ==
    r.left > 0 /\ r.trace # <<>> /\ Head(r.trace) \in Range(choices)
EndsAtChoice(r, choices) ==
    IF r.left = 0 THEN NdLabel(choices, Invalid)
    ELSE IF r.trace = <<>> \/ Head(r.trace) = Bottom THEN Failure
    ELSE ErrorLabel

(* One operation is replayed with the next entry of the trace.             *)
Replayed(r) == [r EXCEPT !.left = @ - 1, !.trace = Tail(@)]

(* ReplayState::cancel_timer() and set_timer() for a step.                 *)
TimerKept(r, s) == r.timer # None /\ r.timer \notin s.cancel
TimerAfter(r, s) ==
    IF s.set # {} THEN CHOOSE t \in s.set : TRUE
    ELSE IF TimerKept(r, s) THEN r.timer ELSE None
SecondTimer(r, s) == TimerKept(r, s) /\ s.set \ {r.timer} # {}

RECURSIVE receive_step(_, _)

(* The sends of a step and what run_and_capture() does when it returns.    *)
SendsOf(n, r, s) ==
    LET next == s.out[r.left + 1] IN
    IF r.left < Len(s.out)
    THEN SendLabel(participant_to_thread(next.to), encode_message(next))
    ELSE IF SecondTimer(r, s) THEN Failure
    ELSE IF s.ends = "throw" THEN ErrorLabel
    ELSE IF s.ends = "done" THEN Done
    ELSE receive_step(n, [r EXCEPT !.st = s.st, !.timer = TimerAfter(r, s),
                                   !.left = @ - Len(s.out)])

(* Environment::send() offers the crash before the first decision.         *)
OffersCrash(n, r, s) ==
    /\ InjectCrash /\ n = kCoordinator /\ ~r.crash_injected
    /\ \E i \in DOMAIN s.out : s.out[i].type = "decision"

Perform(n, r, s) ==
    IF ~OffersCrash(n, r, s) THEN SendsOf(n, r, s)
    ELSE IF ~Chosen(r, CrashChoices) THEN EndsAtChoice(r, CrashChoices)
    ELSE IF Head(r.trace) = Tag.Crash THEN Done
    ELSE SendsOf(n, [Replayed(r) EXCEPT !.crash_injected = TRUE], s)

(* A participant asks for its vote before it answers a Prepare.            *)
Receive(n, r, m) ==
    LET vote == IF Head(r.trace) = Tag.ChoiceYes THEN "yes" ELSE "no" IN
    IF n = kCoordinator THEN Perform(n, r, CoordinatorReceive(r.st, m))
    ELSE IF r.st.state # "WaitPrepare" \/ m.type # "prepare"
    THEN Perform(n, r, ParticipantReceive(n, r.st, m, None))
    ELSE IF ~Chosen(r, VoteChoices) THEN EndsAtChoice(r, VoteChoices)
    ELSE Perform(n, Replayed(r), ParticipantReceive(n, r.st, m, vote))

(* fire_active_timer()                                                     *)
Fire(n, r) ==
    LET s == CASE r.timer = "vote"     -> on_vote_timeout(r.st)
               [] r.timer = "ack"      -> on_ack_timeout(r.st)
               [] r.timer = "decision" -> on_decision_timeout(r.st)
    IN  Perform(n, [r EXCEPT !.timer = None], s)

receive_step(n, r) ==
    LET seen == Head(r.trace)
        rest == Replayed(r)
    IN  IF r.left = 0 THEN ReceiveLabel(r.timer # None, AnyMessage)
        ELSE IF r.trace = <<>> THEN Failure
        ELSE IF seen = Bottom THEN IF r.timer = None THEN Failure ELSE Fire(n, rest)
        ELSE IF ~IsMessage(seen) THEN Failure
        ELSE Receive(n, rest, decode_message(seen, n))

(* make_coordinator_function() and make_participant_function().            *)
SimulatedNode(n, trace, step) ==
    LET r == [st |-> IF n = kCoordinator THEN NewCoordinator ELSE NewParticipant,
              timer |-> None, left |-> step, trace |-> trace, crash_injected |-> FALSE]
    IN  Perform(n, r, IF n = kCoordinator THEN CoordinatorStart ELSE ParticipantStart)
=============================================================================
