-------------------------- MODULE TwoPhaseProtocol --------------------------
(***************************************************************************)
(* The two-phase commit example, examples/two_phase_commit_timeout/        *)
(* protocol.hpp: the handlers of Coordinator and Participant as functions  *)
(* from the object's state and an input to a step.  A step records, in the *)
(* order in which the handler causes them, the timers it cancels, the      *)
(* messages it sends and the timers it sets:                               *)
(*    mid     the object while the messages are being sent,                *)
(*    st      the object when the handler returns,                         *)
(*    cancel, out, set                                                     *)
(*    ends    "more" or "done" for the value returned, "throw" for an      *)
(*            exception.                                                   *)
(* An environment decides what becomes of a step: see TwoPhaseCommit.      *)
(***************************************************************************)
EXTENDS Integers, Sequences

CONSTANTS
    NumParticipants,   \* num_participants_
    BugOnP1No          \* bug_on_p1_no_

ASSUME ProtocolAssumption == NumParticipants \in Nat /\ BugOnP1No \in BOOLEAN

kCoordinator == 0
Participants == 1 .. NumParticipants
Node         == {kCoordinator} \cup Participants

Vote     == {"yes", "no"}
Decision == {"commit", "abort"}
None     == "none"
TimerId  == {"vote", "ack", "decision"}

(***************************************************************************)
(* Messages, with the address the environment gives them.  val is the vote *)
(* or the decision.                                                        *)
(***************************************************************************)
Mail(to, type, from, val) == [to |-> to, type |-> type, from |-> from, val |-> val]
Prepare(p)        == Mail(p, "prepare", kCoordinator, None)
VoteMsg(p, v)     == Mail(kCoordinator, "vote", p, v)
DecisionMsg(p, d) == Mail(p, "decision", kCoordinator, d)
Ack(p)            == Mail(kCoordinator, "ack", p, None)

Message == {Prepare(p) : p \in Participants} \cup {Ack(p) : p \in Participants}
           \cup {VoteMsg(p, v) : p \in Participants, v \in Vote}
           \cup {DecisionMsg(p, d) : p \in Participants, d \in Decision}

Step(mid, cancel, out, set, st, ends) ==
    [mid |-> mid, cancel |-> cancel, out |-> out, set |-> set, st |-> st, ends |-> ends]
Silent(st, ends) == Step(st, {}, <<>>, {}, st, ends)

-----------------------------------------------------------------------------
(* Coordinator *)

NewCoordinator ==
    [phase |-> "CollectingVotes", all_yes |-> TRUE, votes |-> 0, acks |-> 0,
     decision |-> None, vote_seen |-> {}, ack_seen |-> {}]

CoordinatorStart ==
    Step(NewCoordinator, {}, [p \in Participants |-> Prepare(p)], {"vote"},
         NewCoordinator, "more")

(* Mutant: the vote timer is not cancelled.                                *)
broadcast_decisionKeepsTimer(c, d, cancel) ==
    LET decided == [c EXCEPT !.decision = d]
    IN  Step(decided, {}, [p \in Participants |-> DecisionMsg(p, d)], {"ack"},
             [decided EXCEPT !.phase = "CollectingAcks"], "more")

broadcast_decision(c, d, cancel) ==
    LET decided == [c EXCEPT !.decision = d]
    IN  Step(decided, cancel, [p \in Participants |-> DecisionMsg(p, d)], {"ack"},
             [decided EXCEPT !.phase = "CollectingAcks"], "more")

(* all votes collected, or not yet *)
CountVote(c, m) ==
    LET counted == [c EXCEPT !.vote_seen = @ \cup {m.from}, !.votes = @ + 1,
                             !.all_yes = @ /\ m.val = "yes"]
    IN  IF m.val = "no" /\ BugOnP1No /\ m.from = 1 THEN Silent(counted, "throw")
        ELSE IF counted.votes < NumParticipants THEN Silent(counted, "more")
        ELSE broadcast_decision(counted, IF counted.all_yes THEN "commit" ELSE "abort",
                                {"vote"})

CountAck(c, m) ==
    LET counted == [c EXCEPT !.ack_seen = @ \cup {m.from}, !.acks = @ + 1]
    IN  IF counted.acks < NumParticipants THEN Silent(counted, "more")
        ELSE LET done == [counted EXCEPT !.phase = "Done"]
             IN  Step(done, {"ack"}, <<>>, {}, done, "done")

is_valid_participant(p) == p \in Participants

(* Mutant: a second vote of a participant is counted like a first one.     *)
FreshVoteAgain(c, m) == m.type = "vote" /\ is_valid_participant(m.from)

FreshVote(c, m) ==
    m.type = "vote" /\ is_valid_participant(m.from) /\ m.from \notin c.vote_seen
FreshAck(c, m) ==
    m.type = "ack" /\ is_valid_participant(m.from) /\ m.from \notin c.ack_seen

CoordinatorReceive(c, m) ==
    CASE c.phase = "CollectingVotes" ->
             IF FreshVote(c, m) THEN CountVote(c, m) ELSE Silent(c, "more")
      [] c.phase = "CollectingAcks" ->
             IF FreshAck(c, m) THEN CountAck(c, m) ELSE Silent(c, "more")
      [] OTHER -> Silent(c, "done")

(* Mutant: the abort is sent, and votes are still counted.                 *)
on_vote_timeoutGoesOn(c) ==
    IF c.phase # "CollectingVotes" THEN Silent(c, "more")
    ELSE Step(c, {}, [p \in Participants |-> DecisionMsg(p, "abort")], {"vote"}, c, "more")

on_vote_timeout(c) ==
    IF c.phase # "CollectingVotes" THEN Silent(c, "more")
    ELSE broadcast_decision([c EXCEPT !.all_yes = FALSE], "abort", {})

on_ack_timeout(c) ==
    IF c.phase # "CollectingAcks" THEN Silent(c, "more")
    ELSE Silent([c EXCEPT !.phase = "Done"], "done")

-----------------------------------------------------------------------------
(* Participant.  The vote v is what get_vote() answers. *)

NewParticipant == [state |-> "WaitPrepare", outcome |-> None]

ParticipantStart == Silent(NewParticipant, "more")

(* Mutant: the decision timer is not set.                                  *)
ParticipantReceiveUntimed(p, s, m, v) ==
    CASE s.state = "WaitPrepare" /\ m.type = "prepare" ->
             Step(s, {}, <<VoteMsg(p, v)>>, {}, [s EXCEPT !.state = "WaitDecision"], "more")
      [] s.state = "WaitDecision" /\ m.type = "decision" ->
             LET decided == [s EXCEPT !.outcome = m.val]
             IN  Step(decided, {"decision"}, <<Ack(p)>>, {},
                      [decided EXCEPT !.state = "Done"], "done")
      [] s.state = "Done" -> Silent(s, "done")
      [] OTHER -> Silent(s, "more")

ParticipantReceive(p, s, m, v) ==
    CASE s.state = "WaitPrepare" /\ m.type = "prepare" ->
             Step(s, {}, <<VoteMsg(p, v)>>, {"decision"},
                  [s EXCEPT !.state = "WaitDecision"], "more")
      [] s.state = "WaitDecision" /\ m.type = "decision" ->
             LET decided == [s EXCEPT !.outcome = m.val]
             IN  Step(decided, {"decision"}, <<Ack(p)>>, {},
                      [decided EXCEPT !.state = "Done"], "done")
      [] s.state = "Done" -> Silent(s, "done")
      [] OTHER -> Silent(s, "more")

(* Mutant: a participant that hears nothing presumes the commit.           *)
on_decision_timeoutCommits(s) ==
    IF s.state # "WaitDecision" THEN Silent(s, "more")
    ELSE Silent([outcome |-> "commit", state |-> "Done"], "done")

on_decision_timeout(s) ==
    IF s.state # "WaitDecision" THEN Silent(s, "more")
    ELSE Silent([outcome |-> "abort", state |-> "Done"], "done")
=============================================================================
