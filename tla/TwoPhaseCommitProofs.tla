------------------------ MODULE TwoPhaseCommitProofs ------------------------
(***************************************************************************)
(* Safety of the two-phase commit example for any number of participants   *)
(* and any faults.  The invariant says where every piece of information    *)
(* came from: the coordinator's tally from the votes, a decision on the    *)
(* way or delivered from the coordinator, an outcome "commit" from a       *)
(* delivered decision.  A handler of the coordinator is Faithful when the  *)
(* step it returns keeps to that; what the network and run() make of a     *)
(* faithful step is then the same argument for all of them.                *)
(***************************************************************************)
EXTENDS TwoPhaseCommit, FiniteSetTheorems, TLAPS

CoordinatorState ==
    [phase : {"CollectingVotes", "CollectingAcks", "Done"},
     all_yes : BOOLEAN, votes : Nat, acks : Nat, decision : Decision \cup {None},
     vote_seen : SUBSET Participants, ack_seen : SUBSET Participants]

(* The tally of a coordinator object c, and what it may have decided.      *)
Tallied(c) ==
    /\ c.votes = Cardinality(c.vote_seen)
    /\ \A p \in c.vote_seen : vote[p] \in Vote
    /\ c.all_yes => \A p \in c.vote_seen : vote[p] = "yes"
    /\ c.decision = "commit" => \A p \in Participants : vote[p] = "yes"

(* While votes are collected nothing is decided.                           *)
Undecided ==
    run[kCoordinator] \in {"init", "running"} /\ coordinator.phase = "CollectingVotes"
        => coordinator.decision = None

RunsMatchStates ==
    /\ run[kCoordinator] = "init" => coordinator = NewCoordinator
    /\ run[kCoordinator] = "running" => coordinator.phase # "Done"
    /\ \A p \in Participants :
          /\ run[p] = "init" => participant[p] = NewParticipant
          /\ run[p] = "running" => participant[p].state # "Done"
          /\ run[p] \in {"init", "running"} =>
                /\ participant[p].outcome = None
                /\ participant[p].state = "WaitPrepare" => vote[p] = None
                /\ participant[p].state = "WaitDecision" => vote[p] \in Vote

VotesHonest == \A m \in msgs : m.type = "vote" => vote[m.from] = m.val

DecisionsHonest ==
    /\ \A m \in msgs : m.type = "decision" => m.val = coordinator.decision
    /\ \A p \in Participants : received[p] # None => received[p] = coordinator.decision
    /\ \A p \in Participants :
          participant[p].outcome = "commit" => received[p] = "commit"

NothingDecidedGotOut ==
    run[kCoordinator] = "crashed" =>
        /\ \A m \in msgs : m.type # "decision"
        /\ \A p \in Participants : received[p] = None

CommitInvariant ==
    /\ TypeOK
    /\ Tallied(coordinator)
    /\ Undecided
    /\ RunsMatchStates
    /\ VotesHonest
    /\ DecisionsHonest
    /\ NothingDecidedGotOut
    /\ TimersFollowPhase

(* What a step of the coordinator, begun with the timers active, must be.  *)
Faithful(s, active) ==
    /\ s.mid \in CoordinatorState /\ s.st \in CoordinatorState
    /\ Tallied(s.mid) /\ Tallied(s.st)
    /\ s.mid.decision = s.st.decision
    /\ coordinator.decision # None => s.st.decision = coordinator.decision
    /\ \E n \in Nat : DOMAIN s.out = 1 .. n
    /\ \A i \in DOMAIN s.out :
          /\ s.out[i] \in Message
          /\ s.out[i].type \in {"prepare", "decision"}
          /\ s.out[i].type = "decision" =>
                s.out[i].val = s.st.decision /\ coordinator.decision = None
    /\ s.ends = "more" =>
          /\ s.st.phase # "Done"
          /\ s.st.phase = "CollectingVotes" => s.st.decision = None
          /\ (active \ s.cancel) \cup s.set =
                IF s.st.phase = "CollectingVotes" THEN {"vote"} ELSE {"ack"}

ParticipantState == [state : {"WaitPrepare", "WaitDecision", "Done"},
                     outcome : Decision \cup {None}]

(* What a step of participant p, begun with the timers active, must be,    *)
(* together with the histories of votes and deliveries.                    *)
FaithfulAnswer(p, s, active) ==
    /\ s.mid \in ParticipantState /\ s.st \in ParticipantState
    /\ \E n \in Nat : DOMAIN s.out = 1 .. n
    /\ \A i \in DOMAIN s.out :
          /\ s.out[i] \in Message
          /\ s.out[i].type # "decision"
          /\ s.out[i].type = "vote" => s.out[i].from = p /\ vote'[p] = s.out[i].val
    /\ s.ends = "more" =>
          /\ s.st.state # "Done"
          /\ s.st.outcome = None
          /\ s.st.state = "WaitPrepare" => vote'[p] = None
          /\ s.st.state = "WaitDecision" => vote'[p] \in Vote
          /\ (active \ s.cancel) \cup s.set =
                IF s.st.state = "WaitDecision" THEN {"decision"} ELSE {}
    /\ \/ vote' = vote
       \/ vote[p] = None /\ \E v \in Vote : vote' = [vote EXCEPT ![p] = v]
    /\ \/ received' = received
       \/ \E d \in Decision : /\ received' = [received EXCEPT ![p] = d]
                              /\ d = coordinator.decision
                              /\ run[kCoordinator] # "crashed"
    /\ s.mid.outcome = s.st.outcome
    /\ s.st.outcome = "commit" => received'[p] = "commit"
    /\ s.st.outcome # participant[p].outcome =>
          /\ vote' = vote /\ vote[p] \in Vote /\ participant[p].outcome = None
          /\ s.st.outcome \in {"abort", coordinator.decision}

(* A handler of a node that has not left run(), and what became of it.     *)
CoordinatorMoves ==
    /\ run[kCoordinator] \in {"init", "running"}
    /\ \E s, active : \E net \in SUBSET msgs :
          CoordinatorDoes(s, active, net) /\ Faithful(s, active)

ParticipantMoves(p) ==
    /\ run[p] \in {"init", "running"}
    /\ \E s, active : \E net \in SUBSET msgs :
          ParticipantDoes(p, s, active, net) /\ FaithfulAnswer(p, s, active)
-----------------------------------------------------------------------------
(* Messages have their fields.                                             *)
LEMMA MessageFields ==
    \A m \in Message :
        /\ m.to \in Node
        /\ m.type \in {"prepare", "vote", "decision", "ack"}
        /\ m.type \in {"vote", "ack"} => m.to = kCoordinator /\ m.from \in Participants
        /\ m.type = "vote" => m.val \in Vote
        /\ m.type = "decision" => m.val \in Decision
BY DEF Message, Mail, Prepare, VoteMsg, DecisionMsg, Ack, Node, kCoordinator

(* What the handlers send are messages.                                    *)
LEMMA SentIsMessage ==
    \A p \in Participants :
        /\ Prepare(p) \in Message /\ Prepare(p).type = "prepare"
        /\ Ack(p) \in Message /\ Ack(p).type = "ack"
        /\ \A v \in Vote : /\ VoteMsg(p, v) \in Message /\ VoteMsg(p, v).type = "vote"
                          /\ VoteMsg(p, v).val = v /\ VoteMsg(p, v).from = p
        /\ \A d \in Decision : /\ DecisionMsg(p, d) \in Message
                              /\ DecisionMsg(p, d).type = "decision"
                              /\ DecisionMsg(p, d).val = d
<1> TAKE p \in Participants
<1>1. /\ Prepare(p) \in Message /\ Ack(p) \in Message
      /\ \A v \in Vote : VoteMsg(p, v) \in Message
      /\ \A d \in Decision : DecisionMsg(p, d) \in Message
  BY DEF Message
<1>2. Prepare(p).type = "prepare" /\ Ack(p).type = "ack"
  BY DEF Prepare, Ack, Mail
<1>3. \A v \in Vote : /\ VoteMsg(p, v).type = "vote"
                     /\ VoteMsg(p, v).val = v /\ VoteMsg(p, v).from = p
  BY DEF VoteMsg, Mail
<1>4. \A d \in Decision : DecisionMsg(p, d).type = "decision" /\ DecisionMsg(p, d).val = d
  BY DEF DecisionMsg, Mail
<1> QED
  BY <1>1, <1>2, <1>3, <1>4

(* Every participant has been counted once the count is complete.          *)
LEMMA AllCounted ==
    ASSUME NEW S \in SUBSET Participants, Cardinality(S) >= NumParticipants
    PROVE  S = Participants
<1>1. IsFiniteSet(Participants) /\ Cardinality(Participants) = NumParticipants
  BY FS_Interval, ProtocolAssumption DEF Participants
<1>2. Cardinality(S) <= Cardinality(Participants)
      /\ (Cardinality(S) = Cardinality(Participants) => S = Participants)
      /\ IsFiniteSet(S)
  BY <1>1, FS_Subset
<1>3. Cardinality(S) \in Nat
  BY <1>2, FS_CardinalityType
<1> QED
  BY <1>1, <1>2, <1>3, ProtocolAssumption

(* A vote counted for the first time adds one to the count.                *)
LEMMA OneMore ==
    ASSUME NEW S \in SUBSET Participants, NEW p \in Participants, p \notin S
    PROVE  Cardinality(S \cup {p}) = Cardinality(S) + 1 /\ Cardinality(S) \in Nat
<1>1. IsFiniteSet(Participants)
  BY FS_Interval, ProtocolAssumption DEF Participants
<1>2. IsFiniteSet(S)
  BY <1>1, FS_Subset
<1> QED
  BY <1>2, FS_AddElement, FS_CardinalityType
-----------------------------------------------------------------------------
(* Broadcasting d from a tallied, undecided coordinator object is faithful *)
(* when the timers left over are none.                                     *)
LEMMA BroadcastIsFaithful ==
    ASSUME NEW c \in CoordinatorState, Tallied(c), NEW d \in Decision,
           d = "commit" => \A p \in Participants : vote[p] = "yes",
           coordinator.decision = None,
           NEW active, NEW cancel, active \ cancel = {}
    PROVE  Faithful(broadcast_decision(c, d, cancel), active)
<1> DEFINE s == broadcast_decision(c, d, cancel)
           decided == [c EXCEPT !.decision = d]
           after == [decided EXCEPT !.phase = "CollectingAcks"]
<1>1. /\ s.mid = decided /\ s.st = after /\ s.cancel = cancel /\ s.set = {"ack"}
      /\ s.out = [p \in Participants |-> DecisionMsg(p, d)] /\ s.ends = "more"
  BY DEF broadcast_decision, Step
<1>2. /\ decided \in CoordinatorState /\ after \in CoordinatorState
      /\ decided.decision = d /\ after.decision = d /\ after.phase = "CollectingAcks"
  BY Zenon DEF CoordinatorState
<1>3. Tallied(decided) /\ Tallied(after)
  BY <1>2 DEF Tallied, CoordinatorState
<1>4. \A p \in Participants : /\ DecisionMsg(p, d) \in Message
                              /\ DecisionMsg(p, d).type = "decision"
                              /\ DecisionMsg(p, d).val = d
  BY SentIsMessage
<1>5. \A i \in DOMAIN s.out :
          s.out[i] \in Message /\ s.out[i].type = "decision" /\ s.out[i].val = d
  BY <1>1, <1>4
<1>6. (active \ cancel) \cup {"ack"} = {"ack"}
  OBVIOUS
<1>7. DOMAIN s.out = 1 .. NumParticipants /\ NumParticipants \in Nat
  BY <1>1, ProtocolAssumption DEF Participants
<1> HIDE DEF s, decided, after
<1>8. Faithful(s, active)
  BY <1>1, <1>2, <1>3, <1>5, <1>6, <1>7 DEF Faithful
<1> QED
  BY <1>8 DEF s

(* A step that sends and sets nothing is faithful when the object stays in *)
(* its phase, or when run() is left.                                       *)
LEMMA SilenceIsFaithful ==
    ASSUME NEW c \in CoordinatorState, Tallied(c), c.decision = coordinator.decision,
           NEW ends, NEW active,
           ends = "more" =>
              /\ c.phase # "Done"
              /\ c.phase = "CollectingVotes" => c.decision = None
              /\ active = IF c.phase = "CollectingVotes" THEN {"vote"} ELSE {"ack"}
    PROVE  Faithful(Silent(c, ends), active)
<1> DEFINE s == Silent(c, ends)
<1>1. /\ s.mid = c /\ s.st = c /\ s.cancel = {} /\ s.set = {} /\ s.out = <<>>
      /\ s.ends = ends
  BY DEF Silent, Step
<1>2. DOMAIN s.out = 1 .. 0 /\ DOMAIN s.out = {} /\ 0 \in Nat
  BY <1>1
<1>3. (active \ s.cancel) \cup s.set = active
  BY <1>1
<1> HIDE DEF s
<1>4. Faithful(s, active)
  BY <1>1, <1>2, <1>3 DEF Faithful
<1> QED
  BY <1>4 DEF s

(* start() *)
LEMMA StartIsFaithful ==
    ASSUME CommitInvariant, run[kCoordinator] = "init"
    PROVE  Faithful(CoordinatorStart, {})
<1>1. coordinator = NewCoordinator
  BY DEF CommitInvariant, RunsMatchStates
<1>2. NewCoordinator \in CoordinatorState
  BY <1>1 DEF CommitInvariant, TypeOK, CoordinatorState
<1>3. Tallied(NewCoordinator)
  BY <1>1 DEF CommitInvariant
<1>4. /\ CoordinatorStart.mid = NewCoordinator /\ CoordinatorStart.st = NewCoordinator
      /\ CoordinatorStart.out = [p \in Participants |-> Prepare(p)]
      /\ CoordinatorStart.cancel = {} /\ CoordinatorStart.set = {"vote"}
  BY DEF CoordinatorStart, Step
<1>5. \A i \in DOMAIN CoordinatorStart.out :
          CoordinatorStart.out[i] \in Message /\ CoordinatorStart.out[i].type = "prepare"
  BY <1>4, SentIsMessage
<1>6. NewCoordinator.phase = "CollectingVotes" /\ NewCoordinator.decision = None
  BY DEF NewCoordinator
<1>7. DOMAIN CoordinatorStart.out = 1 .. NumParticipants /\ NumParticipants \in Nat
  BY <1>4, ProtocolAssumption DEF Participants
<1> QED
  BY <1>1, <1>2, <1>3, <1>4, <1>5, <1>6, <1>7 DEF Faithful

(* The vote part of receive(): the tally is the votes cast, so a complete  *)
(* tally without a "no" is every participant's "yes".                      *)
LEMMA VoteIsFaithful ==
    ASSUME CommitInvariant, run[kCoordinator] = "running",
           coordinator.phase = "CollectingVotes",
           NEW m \in msgs, FreshVote(coordinator, m)
    PROVE  Faithful(CountVote(coordinator, m), timers[kCoordinator])
<1> DEFINE c == coordinator
           counted == [c EXCEPT !.vote_seen = @ \cup {m.from}, !.votes = @ + 1,
                                !.all_yes = @ /\ m.val = "yes"]
           active == timers[kCoordinator]
<1>1. c \in CoordinatorState /\ Tallied(c) /\ c.decision = None /\ active = {"vote"}
  BY DEF CommitInvariant, TypeOK, CoordinatorState, Undecided, TimersFollowPhase
<1>2. /\ m \in Message /\ m.type = "vote" /\ m.from \in Participants
      /\ m.from \notin c.vote_seen /\ vote[m.from] = m.val /\ m.val \in Vote
  BY MessageFields DEF CommitInvariant, TypeOK, VotesHonest, FreshVote, is_valid_participant
<1>3. c.vote_seen \in SUBSET Participants /\ c.votes \in Nat
  BY <1>1 DEF CoordinatorState
<1>4. Cardinality(c.vote_seen \cup {m.from}) = c.votes + 1
  BY <1>1, <1>2, <1>3, OneMore DEF Tallied
<1>5. /\ counted \in CoordinatorState
      /\ counted.phase = "CollectingVotes" /\ counted.decision = None
      /\ counted.vote_seen = c.vote_seen \cup {m.from} /\ counted.votes = c.votes + 1
      /\ counted.all_yes = (c.all_yes /\ m.val = "yes")
  <2> DEFINE yes == c.all_yes /\ m.val = "yes"
             seen == c.vote_seen \cup {m.from}
  <2>1. yes \in BOOLEAN /\ seen \in SUBSET Participants /\ c.votes + 1 \in Nat
    BY <1>2, <1>3
  <2> HIDE DEF yes, seen
  <2>2. /\ [c EXCEPT !.vote_seen = seen, !.votes = c.votes + 1, !.all_yes = yes]
              \in CoordinatorState
        /\ \A x : x = [c EXCEPT !.vote_seen = seen, !.votes = c.votes + 1, !.all_yes = yes]
              => /\ x.phase = c.phase /\ x.decision = c.decision
                 /\ x.vote_seen = seen /\ x.votes = c.votes + 1 /\ x.all_yes = yes
    BY Zenon, <1>1, <2>1 DEF CoordinatorState
  <2>3. counted = [c EXCEPT !.vote_seen = seen, !.votes = c.votes + 1, !.all_yes = yes]
    BY DEF yes, seen
  <2> HIDE DEF counted
  <2> QED
    BY <1>1, <2>2, <2>3 DEF yes, seen
<1>6. Tallied(counted)
  BY Zenon, <1>1, <1>2, <1>4, <1>5 DEF Tallied, None
<1>7. (c.all_yes /\ m.val = "yes") /\ ~(counted.votes < NumParticipants)
         => \A p \in Participants : vote[p] = "yes"
  <2>1. ~(counted.votes < NumParticipants) => Cardinality(counted.vote_seen) >= NumParticipants
    BY <1>3, <1>4, <1>5, ProtocolAssumption
  <2>2. counted.vote_seen \in SUBSET Participants
    BY <1>2, <1>3, <1>5
  <2>3. ~(counted.votes < NumParticipants) => counted.vote_seen = Participants
    BY <2>1, <2>2, AllCounted
  <2> QED
    BY Zenon, <2>3, <1>6, <1>5 DEF Tallied
<1>8. CASE m.val = "no" /\ BugOnP1No /\ m.from = 1
  <2>1. CountVote(coordinator, m) = Silent(counted, "throw")
    BY <1>8 DEF CountVote
  <2> HIDE DEF counted
  <2>2. Faithful(Silent(counted, "throw"), active)
    BY <1>1, <1>5, <1>6, SilenceIsFaithful
  <2> QED
    BY <2>1, <2>2
<1>9. CASE ~(m.val = "no" /\ BugOnP1No /\ m.from = 1) /\ counted.votes < NumParticipants
  <2>1. CountVote(coordinator, m) = Silent(counted, "more")
    BY <1>9 DEF CountVote
  <2> HIDE DEF counted
  <2>2. Faithful(Silent(counted, "more"), active)
    BY <1>1, <1>5, <1>6, SilenceIsFaithful
  <2> QED
    BY <2>1, <2>2
<1>10. CASE ~(m.val = "no" /\ BugOnP1No /\ m.from = 1) /\ ~(counted.votes < NumParticipants)
  <2> DEFINE d == IF counted.all_yes THEN "commit" ELSE "abort"
  <2>1. CountVote(coordinator, m) = broadcast_decision(counted, d, {"vote"})
    BY <1>10 DEF CountVote
  <2>2. d \in Decision /\ (d = "commit" => \A p \in Participants : vote[p] = "yes")
    BY Zenon, <1>5, <1>7, <1>10 DEF Decision
  <2>3. active \ {"vote"} = {}
    BY <1>1
  <2> HIDE DEF counted, d
  <2>4. Faithful(broadcast_decision(counted, d, {"vote"}), active)
    BY <1>1, <1>5, <1>6, <2>2, <2>3, BroadcastIsFaithful
  <2> QED
    BY <2>1, <2>4
<1> QED
  BY <1>8, <1>9, <1>10

(* The acknowledgement part of receive().                                  *)
LEMMA AckIsFaithful ==
    ASSUME CommitInvariant, run[kCoordinator] = "running",
           coordinator.phase = "CollectingAcks",
           NEW m \in msgs, FreshAck(coordinator, m)
    PROVE  Faithful(CountAck(coordinator, m), timers[kCoordinator])
<1> DEFINE c == coordinator
           counted == [c EXCEPT !.ack_seen = @ \cup {m.from}, !.acks = @ + 1]
           done == [counted EXCEPT !.phase = "Done"]
           active == timers[kCoordinator]
<1>1. c \in CoordinatorState /\ Tallied(c) /\ active = {"ack"}
  BY DEF CommitInvariant, TypeOK, CoordinatorState, TimersFollowPhase
<1>2. m.from \in Participants
  BY DEF FreshAck, is_valid_participant
<1>3. /\ counted \in CoordinatorState /\ done \in CoordinatorState
      /\ counted.phase = "CollectingAcks"
      /\ counted.decision = c.decision /\ done.decision = c.decision
  <2> DEFINE seen == c.ack_seen \cup {m.from}
  <2>1. seen \in SUBSET Participants /\ c.acks + 1 \in Nat
    BY <1>1, <1>2 DEF CoordinatorState
  <2> HIDE DEF seen
  <2>2. \A x : x = [c EXCEPT !.ack_seen = seen, !.acks = c.acks + 1]
          => x \in CoordinatorState /\ x.phase = c.phase /\ x.decision = c.decision
    BY Zenon, <1>1, <2>1 DEF CoordinatorState
  <2>3. counted = [c EXCEPT !.ack_seen = seen, !.acks = c.acks + 1]
    BY DEF seen
  <2>4. counted \in CoordinatorState /\ counted.phase = c.phase
        /\ counted.decision = c.decision
    BY <2>2, <2>3
  <2> HIDE DEF counted
  <2>5. done \in CoordinatorState /\ done.decision = counted.decision
    BY <2>4 DEF CoordinatorState
  <2> QED
    BY <2>4, <2>5
<1>4. Tallied(counted) /\ Tallied(done)
  <2>1. \A x \in {counted, done} : /\ x.votes = c.votes /\ x.vote_seen = c.vote_seen
                                   /\ x.all_yes = c.all_yes /\ x.decision = c.decision
    BY Zenon, <1>1, <1>3 DEF CoordinatorState
  <2> HIDE DEF counted, done
  <2> QED
    BY <1>1, <2>1 DEF Tallied
<1>5. CASE counted.acks < NumParticipants
  <2>1. CountAck(coordinator, m) = Silent(counted, "more")
    BY <1>5 DEF CountAck
  <2> HIDE DEF counted
  <2>2. Faithful(Silent(counted, "more"), active)
    BY <1>1, <1>3, <1>4, SilenceIsFaithful
  <2> QED
    BY <2>1, <2>2
<1>6. CASE ~(counted.acks < NumParticipants)
  <2> DEFINE s == Step(done, {"ack"}, <<>>, {}, done, "done")
  <2>1. CountAck(coordinator, m) = s
    BY <1>6 DEF CountAck
  <2>2. s.mid = done /\ s.st = done /\ s.out = <<>> /\ s.ends = "done"
    BY DEF Step
  <2>3. DOMAIN s.out = 1 .. 0 /\ DOMAIN s.out = {} /\ 0 \in Nat
    BY <2>2
  <2> HIDE DEF s, done, counted
  <2>4. Faithful(s, active)
    BY <1>3, <1>4, <2>2, <2>3 DEF Faithful
  <2> QED
    BY <2>1, <2>4
<1> QED
  BY <1>5, <1>6

(* receive() *)
LEMMA ReceiveIsFaithful ==
    ASSUME CommitInvariant, run[kCoordinator] = "running", NEW m \in msgs
    PROVE  Faithful(CoordinatorReceive(coordinator, m), timers[kCoordinator])
<1>1. /\ coordinator \in CoordinatorState /\ Tallied(coordinator)
      /\ coordinator.phase \in {"CollectingVotes", "CollectingAcks"}
      /\ coordinator.phase = "CollectingVotes" => coordinator.decision = None
      /\ timers[kCoordinator] =
            IF coordinator.phase = "CollectingVotes" THEN {"vote"} ELSE {"ack"}
  BY DEF CommitInvariant, TypeOK, CoordinatorState, RunsMatchStates, Undecided, TimersFollowPhase
<1>2. Faithful(Silent(coordinator, "more"), timers[kCoordinator])
  BY <1>1, SilenceIsFaithful
<1>3. CASE coordinator.phase = "CollectingVotes"
  BY <1>2, <1>3, VoteIsFaithful DEF CoordinatorReceive
<1>4. CASE coordinator.phase = "CollectingAcks"
  BY <1>2, <1>4, AckIsFaithful DEF CoordinatorReceive
<1> QED
  BY <1>1, <1>3, <1>4

(* The timers, each of which only fires in its own phase.                  *)
LEMMA TimerIsFaithful ==
    ASSUME CommitInvariant, run[kCoordinator] = "running",
           NEW t \in timers[kCoordinator]
    PROVE  Faithful(IF t = "vote" THEN on_vote_timeout(coordinator)
                                  ELSE on_ack_timeout(coordinator),
                    timers[kCoordinator] \ {t})
<1>1. /\ coordinator \in CoordinatorState /\ Tallied(coordinator)
      /\ coordinator.phase \in {"CollectingVotes", "CollectingAcks"}
      /\ coordinator.phase = "CollectingVotes" => coordinator.decision = None
      /\ timers[kCoordinator] =
            IF coordinator.phase = "CollectingVotes" THEN {"vote"} ELSE {"ack"}
  BY DEF CommitInvariant, TypeOK, CoordinatorState, RunsMatchStates, Undecided, TimersFollowPhase
<1> DEFINE no == [coordinator EXCEPT !.all_yes = FALSE]
           done == [coordinator EXCEPT !.phase = "Done"]
<1>2. CASE coordinator.phase = "CollectingVotes"
  <2>1. no \in CoordinatorState /\ Tallied(no)
    BY Zenon, <1>1 DEF CoordinatorState, Tallied
  <2>2. timers[kCoordinator] \ {t} = {} /\ t = "vote"
    BY <1>1, <1>2
  <2>3. on_vote_timeout(coordinator) = broadcast_decision(no, "abort", {})
    BY <1>2 DEF on_vote_timeout
  <2>4. "abort" \in Decision /\ "abort" # "commit"
    BY DEF Decision
  <2> HIDE DEF no
  <2>5. Faithful(broadcast_decision(no, "abort", {}), {})
    BY <1>1, <1>2, <2>1, <2>4, BroadcastIsFaithful
  <2> QED
    BY <2>2, <2>3, <2>5
<1>3. CASE coordinator.phase = "CollectingAcks"
  <2>1. done \in CoordinatorState /\ Tallied(done) /\ done.decision = coordinator.decision
    BY <1>1 DEF CoordinatorState, Tallied
  <2>2. t # "vote"
    BY <1>1, <1>3
  <2>3. on_ack_timeout(coordinator) = Silent(done, "done")
    BY <1>3 DEF on_ack_timeout
  <2> HIDE DEF done
  <2>4. Faithful(Silent(done, "done"), timers[kCoordinator] \ {t})
    BY <2>1, SilenceIsFaithful
  <2> QED
    BY <2>2, <2>3, <2>4
<1> QED
  BY <1>1, <1>2, <1>3

(* What becomes of a faithful step preserves the invariant: it is carried  *)
(* out, it fails at one of its sends, or the coordinator crashes.          *)
LEMMA CoordinatorPreserves ==
    ASSUME CommitInvariant, run[kCoordinator] \in {"init", "running"},
           NEW s, NEW active, Faithful(s, active),
           NEW net \in SUBSET msgs, CoordinatorDoes(s, active, net)
    PROVE  CommitInvariant'
<1> DEFINE sent == {s.out[i] : i \in DOMAIN s.out}
<1>1. PICK x \in {s.st, s.mid} : coordinator' = x
  BY DEF CoordinatorDoes
<1>2. /\ x \in CoordinatorState /\ Tallied(x) /\ x.decision = s.st.decision
      /\ coordinator.decision # None => x.decision = coordinator.decision
  BY <1>1 DEF Faithful
<1>3. /\ participant' = participant /\ vote' = vote /\ received' = received
      /\ \E how \in {"running", "returned", "failed", "crashed"}, set \in SUBSET TimerId :
            /\ run' = [run EXCEPT ![kCoordinator] = how]
            /\ timers' = [timers EXCEPT ![kCoordinator] = set]
            /\ how = "running" =>
                  s.ends = "more" /\ x = s.st /\ set = (active \ s.cancel) \cup s.set
            /\ how = "crashed" =>
                  msgs' = net /\ \E i \in DOMAIN s.out : s.out[i].type = "decision"
  <2>1. {} \in SUBSET TimerId
    OBVIOUS
  <2>2. s.ends = "more" => (active \ s.cancel) \cup s.set \in SUBSET TimerId
    BY DEF Faithful, TimerId
  <2>3. CASE coordinator' = s.st /\ Completed(kCoordinator, s, active, net)
    <3>1. CASE s.ends = "more"
      BY ZenonT(40), <1>1, <2>2, <2>3, <3>1 DEF Completed, CoordinatorDoes, Leaves
    <3>2. CASE s.ends # "more"
      BY <2>1, <2>3, <3>2 DEF Completed, CoordinatorDoes, Leaves
    <3> QED
      BY <3>1, <3>2
  <2>4. CASE SendFails(kCoordinator, s, net)
    BY Zenon, <2>1, <2>4 DEF SendFails, Leaves, CoordinatorDoes
  <2>5. CASE Crashes(kCoordinator, s, net)
    BY Zenon, <2>1, <2>5 DEF Crashes, Leaves, CoordinatorDoes
  <2> QED
    BY Zenon, <2>3, <2>4, <2>5 DEF CoordinatorDoes
<1>4. msgs' \in SUBSET (msgs \cup sent)
  <2>1. \A k \in DOMAIN s.out : 1 .. k - 1 \subseteq DOMAIN s.out
    BY DEF Faithful
  <2> QED
    BY <2>1 DEF CoordinatorDoes, Completed, SendFails, Crashes
<1>5. PICK how \in {"running", "returned", "failed", "crashed"}, set \in SUBSET TimerId :
            /\ run' = [run EXCEPT ![kCoordinator] = how]
            /\ timers' = [timers EXCEPT ![kCoordinator] = set]
            /\ how = "running" =>
                  s.ends = "more" /\ x = s.st /\ set = (active \ s.cancel) \cup s.set
            /\ how = "crashed" =>
                  msgs' = net /\ \E i \in DOMAIN s.out : s.out[i].type = "decision"
  BY Zenon, <1>3
<1>6. /\ kCoordinator \in Node /\ Participants \subseteq Node
      /\ \A p \in Participants : p # kCoordinator
  BY ProtocolAssumption DEF Node, kCoordinator, Participants
<1>7. /\ run'[kCoordinator] = how /\ timers'[kCoordinator] = set
      /\ \A p \in Participants : run'[p] = run[p] /\ timers'[p] = timers[p]
  BY <1>5, <1>6 DEF CommitInvariant, TypeOK
<1>8. how = "running" => /\ x.phase # "Done"
                         /\ x.phase = "CollectingVotes" => x.decision = None
                         /\ set = IF x.phase = "CollectingVotes" THEN {"vote"} ELSE {"ack"}
  BY <1>5 DEF Faithful
<1>9. \A m \in sent : /\ m \in Message /\ m.type \in {"prepare", "decision"}
                      /\ m.type = "decision" => m.val = x.decision
  BY <1>2 DEF Faithful
<1>10. TypeOK'
  BY Zenon, <1>1, <1>2, <1>3, <1>4, <1>5, <1>9 DEF CommitInvariant, TypeOK,
     CoordinatorState
<1>11. Tallied(coordinator)'
  BY <1>1, <1>2, <1>3 DEF Tallied
<1>12. Undecided'
  BY <1>1, <1>7, <1>8 DEF Undecided
<1>13. RunsMatchStates'
  BY <1>1, <1>3, <1>7, <1>8 DEF CommitInvariant, RunsMatchStates
<1>14. VotesHonest'
  BY <1>3, <1>4, <1>9 DEF CommitInvariant, VotesHonest
<1>15. DecisionsHonest'
  <2>1. \A m \in msgs : m.type = "decision" => coordinator.decision # None
    BY MessageFields DEF CommitInvariant, TypeOK, DecisionsHonest, Decision, None
  <2> QED
    BY <1>1, <1>2, <1>3, <1>4, <1>9, <2>1 DEF CommitInvariant, DecisionsHonest
<1>16. NothingDecidedGotOut'
  <2>1. CASE how = "crashed"
    <3>1. coordinator.decision = None
      BY Zenon, <1>5, <2>1 DEF Faithful
    <3>2. \A m \in msgs : m.type # "decision"
      BY <3>1, MessageFields DEF CommitInvariant, TypeOK, DecisionsHonest, Decision, None
    <3>3. \A p \in Participants : received[p] = None
      BY <3>1 DEF CommitInvariant, DecisionsHonest
    <3> QED
      BY Zenon, <1>3, <1>5, <2>1, <3>2, <3>3 DEF NothingDecidedGotOut
  <2>2. CASE how # "crashed"
    BY <1>7, <2>2 DEF NothingDecidedGotOut
  <2> QED
    BY <2>1, <2>2
<1>17. TimersFollowPhase'
  BY ZenonT(40), <1>1, <1>3, <1>7, <1>8 DEF CommitInvariant, TimersFollowPhase
<1> QED
  BY <1>10, <1>11, <1>12, <1>13, <1>14, <1>15, <1>16, <1>17 DEF CommitInvariant

(* The start and the timer of a participant change nothing the coordinator *)
(* knows; a participant that answers a Prepare casts its only vote, and an *)
(* outcome "commit" is a decision that was delivered.                      *)
LEMMA ParticipantPreserves ==
    ASSUME CommitInvariant, NEW p \in Participants, run[p] \in {"init", "running"},
           NEW s, NEW active, NEW net \in SUBSET msgs, ParticipantDoes(p, s, active, net),
           FaithfulAnswer(p, s, active)
    PROVE  CommitInvariant'
<1> USE DEF FaithfulAnswer, ParticipantState
<1> DEFINE sent == {s.out[i] : i \in DOMAIN s.out}
<1>1. PICK x \in {s.st, s.mid} : participant' = [participant EXCEPT ![p] = x]
  BY DEF ParticipantDoes
<1>2. x \in ParticipantState /\ (x.outcome = "commit" => received'[p] = "commit")
  BY <1>1
<1>3. /\ coordinator' = coordinator
      /\ \E how \in {"running", "returned", "failed"}, set \in SUBSET TimerId :
            /\ run' = [run EXCEPT ![p] = how]
            /\ timers' = [timers EXCEPT ![p] = set]
            /\ how = "running" =>
                  /\ s.ends = "more" /\ set = (active \ s.cancel) \cup s.set
                  /\ participant' = [participant EXCEPT ![p] = s.st]
  <2>1. {} \in SUBSET TimerId
    OBVIOUS
  <2>2. s.ends = "more" => (active \ s.cancel) \cup s.set \in SUBSET TimerId
    BY DEF TimerId
  <2>3. CASE participant' = [participant EXCEPT ![p] = s.st] /\ Completed(p, s, active, net)
    <3>1. CASE s.ends = "more"
      BY Zenon, <2>2, <2>3, <3>1 DEF Completed, ParticipantDoes, Leaves
    <3>2. CASE s.ends # "more"
      BY Zenon, <2>1, <2>3, <3>2 DEF Completed, ParticipantDoes, Leaves
    <3> QED
      BY Zenon, <3>1, <3>2
  <2>4. CASE SendFails(p, s, net)
    BY Zenon, <2>1, <2>4 DEF SendFails, Leaves, ParticipantDoes
  <2> QED
    BY Zenon, <2>3, <2>4 DEF ParticipantDoes
<1>4. msgs' \in SUBSET (msgs \cup sent)
  <2>1. \A k \in DOMAIN s.out : 1 .. k - 1 \subseteq DOMAIN s.out
    OBVIOUS
  <2> QED
    BY <2>1 DEF ParticipantDoes, Completed, SendFails
<1>5. PICK how \in {"running", "returned", "failed"}, set \in SUBSET TimerId :
            /\ run' = [run EXCEPT ![p] = how]
            /\ timers' = [timers EXCEPT ![p] = set]
            /\ how = "running" =>
                  /\ s.ends = "more" /\ set = (active \ s.cancel) \cup s.set
                  /\ participant' = [participant EXCEPT ![p] = s.st]
  BY Zenon, <1>3
<1>6. /\ kCoordinator \in Node /\ Participants \subseteq Node
      /\ \A q \in Participants : q # kCoordinator
  BY ProtocolAssumption DEF Node, kCoordinator, Participants
<1>7. /\ run'[p] = how /\ timers'[p] = set /\ participant'[p] = x
      /\ run'[kCoordinator] = run[kCoordinator] /\ timers'[kCoordinator] = timers[kCoordinator]
      /\ \A q \in Participants \ {p} : /\ run'[q] = run[q] /\ timers'[q] = timers[q]
                                       /\ participant'[q] = participant[q]
                                       /\ vote'[q] = vote[q] /\ received'[q] = received[q]
  BY <1>1, <1>5, <1>6 DEF CommitInvariant, TypeOK
<1>8. how = "running" => /\ x.state # "Done"
                         /\ x.outcome = None
                         /\ x.state = "WaitPrepare" => vote'[p] = None
                         /\ x.state = "WaitDecision" => vote'[p] \in Vote
                         /\ set = IF x.state = "WaitDecision" THEN {"decision"} ELSE {}
  <2>1. how = "running" => x = s.st
    BY Zenon, <1>5, <1>7 DEF CommitInvariant, TypeOK
  <2> QED
    BY Zenon, <1>5, <2>1
<1>9. \A m \in sent : /\ m \in Message /\ m.type # "decision"
                      /\ m.type = "vote" => m.from = p /\ vote'[p] = m.val
  OBVIOUS
<1>10. \A q \in Participants : vote[q] \in Vote => vote'[q] = vote[q]
  BY Zenon DEF CommitInvariant, TypeOK, Vote, None
<1>11. TypeOK'
  <2>1. vote' \in [Participants -> Vote \cup {None}]
    BY DEF CommitInvariant, TypeOK
  <2>2. received' \in [Participants -> Decision \cup {None}]
    BY DEF CommitInvariant, TypeOK
  <2>3. msgs' \subseteq Message
    BY Zenon, <1>4, <1>9 DEF CommitInvariant, TypeOK
  <2>4. participant' \in [Participants -> ParticipantState]
    BY Zenon, <1>1, <1>2 DEF CommitInvariant, TypeOK
  <2> QED
    BY Zenon, <1>3, <1>5, <2>1, <2>2, <2>3, <2>4 DEF CommitInvariant, TypeOK
<1>12. Tallied(coordinator)'
  <2>1. coordinator.vote_seen \subseteq Participants
    BY Zenon DEF CommitInvariant, TypeOK
  <2>2. \A q \in Participants : vote[q] = "yes" => vote'[q] = "yes"
    BY Zenon, <1>10 DEF Vote
  <2> QED
    BY <1>3, <1>10, <2>1, <2>2 DEF CommitInvariant, Tallied
<1>13. Undecided' /\ TimersFollowPhase'
  <2>1. Undecided'
    BY Zenon, <1>3, <1>7 DEF CommitInvariant, Undecided
  <2>2. \A q \in Participants : run'[q] = "running" =>
           timers'[q] = IF participant'[q].state = "WaitDecision" THEN {"decision"} ELSE {}
    <3> SUFFICES ASSUME NEW q \in Participants, run'[q] = "running"
                 PROVE  timers'[q] = IF participant'[q].state = "WaitDecision"
                                     THEN {"decision"} ELSE {}
      OBVIOUS
    <3>1. CASE q = p
      BY Zenon, <1>7, <1>8, <3>1
    <3>2. CASE q # p
      BY <1>7, <3>2 DEF CommitInvariant, TimersFollowPhase
    <3> QED
      BY Zenon, <3>1, <3>2
  <2>3. run'[kCoordinator] = "running" =>
           timers'[kCoordinator] = IF coordinator'.phase = "CollectingVotes"
                                   THEN {"vote"} ELSE {"ack"}
    BY Zenon, <1>3, <1>7 DEF CommitInvariant, TimersFollowPhase
  <2> QED
    BY Zenon, <2>1, <2>2, <2>3 DEF TimersFollowPhase
<1>14. RunsMatchStates'
  BY <1>3, <1>5, <1>7, <1>8 DEF CommitInvariant, RunsMatchStates
<1>15. VotesHonest'
  <2>1. \A m \in msgs : m.type = "vote" => m.from \in Participants /\ m.val \in Vote
    BY Zenon, MessageFields DEF CommitInvariant, TypeOK
  <2> QED
    BY <1>4, <1>9, <1>10, <2>1 DEF CommitInvariant, VotesHonest
<1>16. DecisionsHonest'
  <2>1. \A q \in Participants : received'[q] # None => received'[q] = coordinator.decision
    BY DEF CommitInvariant, TypeOK, DecisionsHonest
  <2>2. \A m \in msgs' : m.type = "decision" => m.val = coordinator.decision
    BY Zenon, <1>4, <1>9 DEF CommitInvariant, DecisionsHonest
  <2>3. \A q \in Participants : participant'[q].outcome = "commit" => received'[q] = "commit"
    BY <1>2, <1>7 DEF CommitInvariant, DecisionsHonest
  <2> QED
    BY Zenon, <1>3, <2>1, <2>2, <2>3 DEF DecisionsHonest
<1>17. NothingDecidedGotOut'
  BY <1>4, <1>7, <1>9 DEF CommitInvariant, NothingDecidedGotOut
<1> QED
  BY <1>11, <1>12, <1>13, <1>14, <1>15, <1>16, <1>17 DEF CommitInvariant
-----------------------------------------------------------------------------
(* receive() of a participant.                                             *)
LEMMA ParticipantReceiveMoves ==
    ASSUME CommitInvariant, NEW p \in Participants, NEW m \in msgs,
           ParticipantReceives(p, m)
    PROVE  ParticipantMoves(p)
<1>1. PICK net \in Without(m), v \in Vote :
        /\ ParticipantDoes(p, ParticipantReceive(p, participant[p], m, v), timers[p], net)
        /\ vote' = IF Answers(p, m) THEN [vote EXCEPT ![p] = v] ELSE vote
  BY Zenon DEF ParticipantReceives
<1> DEFINE s == ParticipantReceive(p, participant[p], m, v)
           old == participant[p]
<1>2. net \in SUBSET msgs /\ run[p] = "running" /\ ParticipantDoes(p, s, timers[p], net)
  BY Zenon, <1>1 DEF Without, ParticipantReceives
<1>3. /\ old \in ParticipantState
      /\ old.state # "Done" /\ old.outcome = None
      /\ old.state = "WaitPrepare" => vote[p] = None
      /\ old.state = "WaitDecision" => vote[p] \in Vote
      /\ timers[p] = IF old.state = "WaitDecision" THEN {"decision"} ELSE {}
      /\ old.outcome = "commit" => received[p] = "commit"
  BY Zenon, <1>2 DEF CommitInvariant, TypeOK, RunsMatchStates, TimersFollowPhase,
     DecisionsHonest, ParticipantState
<1>4. m.type = "decision" => /\ m.val \in Decision /\ m.val = coordinator.decision
                             /\ run[kCoordinator] # "crashed"
  BY Zenon, MessageFields DEF CommitInvariant, TypeOK, DecisionsHonest,
     NothingDecidedGotOut
<1>5. \/ received' = received /\ (m.type = "decision" => received[p] # None)
      \/ m.type = "decision" /\ received' = [received EXCEPT ![p] = m.val]
  BY Zenon DEF ParticipantReceives
<1>6. /\ m.type = "decision" => received'[p] = m.val
      /\ received[p] = "commit" => received'[p] = "commit"
  <2>1. received \in [Participants -> Decision \cup {None}]
        /\ (received[p] # None => received[p] = coordinator.decision)
    BY Zenon DEF CommitInvariant, TypeOK, DecisionsHonest
  <2>2. received[p] = "commit" /\ m.type = "decision" => m.val = "commit"
    BY Zenon, <1>4, <2>1 DEF None
  <2> QED
    BY Zenon, <1>4, <1>5, <2>1, <2>2
<1>7. CASE Answers(p, m)
  <2> DEFINE asked == [old EXCEPT !.state = "WaitDecision"]
  <2>1. s = Step(old, {}, <<VoteMsg(p, v)>>, {"decision"}, asked, "more")
    BY <1>7 DEF Answers, ParticipantReceive
  <2>2. /\ s.mid = old /\ s.st = asked /\ s.out = <<VoteMsg(p, v)>> /\ s.ends = "more"
        /\ s.cancel = {} /\ s.set = {"decision"}
    BY <2>1 DEF Step
  <2>3. /\ asked \in ParticipantState
        /\ asked.state = "WaitDecision" /\ asked.outcome = old.outcome
    BY Zenon, <1>3 DEF ParticipantState
  <2>4. DOMAIN s.out = 1 .. 1 /\ \A i \in DOMAIN s.out : s.out[i] = VoteMsg(p, v)
    BY <2>2
  <2>5. /\ VoteMsg(p, v) \in Message /\ VoteMsg(p, v).type = "vote"
        /\ VoteMsg(p, v).val = v /\ VoteMsg(p, v).from = p
    BY SentIsMessage
  <2>6. vote[p] = None /\ vote' = [vote EXCEPT ![p] = v] /\ vote'[p] = v
    BY <1>1, <1>3, <1>7 DEF Answers, CommitInvariant, TypeOK
  <2>7. (timers[p] \ s.cancel) \cup s.set = {"decision"}
    BY Zenon, <1>3, <1>7, <2>2 DEF Answers
  <2> HIDE DEF s, asked
  <2>8. FaithfulAnswer(p, s, timers[p])
    BY Zenon, <1>3, <1>4, <1>5, <1>6, <2>2, <2>3, <2>4, <2>5, <2>6, <2>7 DEF
       FaithfulAnswer
  <2> QED
    BY <1>2, <2>8 DEF ParticipantMoves
<1>8. CASE old.state = "WaitDecision" /\ m.type = "decision"
  <2> DEFINE decided == [old EXCEPT !.outcome = m.val]
             after == [decided EXCEPT !.state = "Done"]
  <2>1. s = Step(decided, {"decision"}, <<Ack(p)>>, {}, after, "done")
    BY <1>8 DEF ParticipantReceive
  <2>2. s.mid = decided /\ s.st = after /\ s.out = <<Ack(p)>> /\ s.ends = "done"
    BY <2>1 DEF Step
  <2>3. /\ decided \in ParticipantState
        /\ after \in ParticipantState
        /\ decided.outcome = m.val /\ after.outcome = m.val
    BY Zenon, <1>3, <1>4, <1>8 DEF ParticipantState
  <2>4. DOMAIN s.out = 1 .. 1 /\ \A i \in DOMAIN s.out : s.out[i] = Ack(p)
    BY <2>2
  <2>5. Ack(p) \in Message /\ Ack(p).type = "ack"
    BY SentIsMessage
  <2>6. vote' = vote
    BY Zenon, <1>1, <1>8 DEF Answers
  <2> HIDE DEF s, decided, after
  <2>7. FaithfulAnswer(p, s, timers[p])
    BY Zenon, <1>3, <1>4, <1>5, <1>6, <1>8, <2>2, <2>3, <2>4, <2>5, <2>6 DEF
       FaithfulAnswer
  <2> QED
    BY <1>2, <2>7 DEF ParticipantMoves
<1>9. CASE ~Answers(p, m) /\ ~(old.state = "WaitDecision" /\ m.type = "decision")
  <2>1. s = Silent(old, "more")
    BY <1>3, <1>9 DEF Answers, ParticipantReceive
  <2>2. /\ s.mid = old /\ s.st = old /\ s.out = <<>> /\ s.ends = "more"
        /\ s.cancel = {} /\ s.set = {}
    BY <2>1 DEF Silent, Step
  <2>3. DOMAIN s.out = 1 .. 0 /\ DOMAIN s.out = {}
    BY <2>2
  <2>4. vote' = vote
    BY <1>1, <1>9
  <2>5. (timers[p] \ s.cancel) \cup s.set = timers[p]
    BY Zenon, <2>2
  <2> HIDE DEF s
  <2>6. FaithfulAnswer(p, s, timers[p])
    BY Zenon, <1>3, <1>4, <1>5, <1>6, <2>2, <2>3, <2>4, <2>5 DEF FaithfulAnswer
  <2> QED
    BY <1>2, <2>6 DEF ParticipantMoves
<1> QED
  BY Zenon, <1>7, <1>8, <1>9

(* The timer of a participant.                                             *)
LEMMA ParticipantTimerMoves ==
    ASSUME CommitInvariant, NEW p \in Participants, NEW t, ParticipantTimer(p, t)
    PROVE  ParticipantMoves(p)
<1> DEFINE s == on_decision_timeout(participant[p])
           gone == [outcome |-> "abort", state |-> "Done"]
<1>1. run[p] = "running" /\ ParticipantDoes(p, s, timers[p] \ {t}, msgs)
      /\ vote' = vote /\ received' = received
  BY DEF ParticipantTimer
<1>2. participant[p].state = "WaitDecision" /\ participant[p].outcome = None /\ vote[p] \in Vote
  BY Zenon, <1>1 DEF CommitInvariant, TypeOK, RunsMatchStates, TimersFollowPhase,
     ParticipantTimer
<1>3. s = Silent(gone, "done")
  BY <1>2 DEF on_decision_timeout
<1>4. s.mid = gone /\ s.st = gone /\ s.out = <<>> /\ s.ends = "done"
  BY <1>3 DEF Silent, Step
<1>5. DOMAIN s.out = 1 .. 0 /\ DOMAIN s.out = {}
  BY <1>4
<1>6. /\ gone \in ParticipantState
      /\ gone.outcome = "abort"
  BY Zenon DEF Decision, ParticipantState
<1> HIDE DEF s, gone
<1>7. FaithfulAnswer(p, s, timers[p] \ {t})
  BY <1>1, <1>2, <1>4, <1>5, <1>6 DEF FaithfulAnswer
<1> QED
  BY Zenon, <1>1, <1>7 DEF ParticipantMoves

(* The start of a participant.                                             *)
LEMMA ParticipantStartMoves ==
    ASSUME CommitInvariant, NEW p \in Participants, StartParticipant(p)
    PROVE  ParticipantMoves(p)
<1> DEFINE s == ParticipantStart
<1>1. run[p] = "init" /\ ParticipantDoes(p, s, {}, msgs) /\ vote' = vote /\ received' = received
  BY DEF StartParticipant
<1>2. /\ s.mid = NewParticipant /\ s.st = NewParticipant /\ s.out = <<>> /\ s.ends = "more"
      /\ s.cancel = {} /\ s.set = {}
  BY DEF ParticipantStart, Silent, Step
<1>3. DOMAIN s.out = 1 .. 0 /\ DOMAIN s.out = {}
  BY <1>2
<1>4. /\ NewParticipant \in ParticipantState
      /\ NewParticipant.outcome = None /\ NewParticipant.state = "WaitPrepare"
  BY Zenon DEF NewParticipant, ParticipantState, None
<1>5. participant[p] = NewParticipant /\ vote[p] = None
  BY <1>1, <1>4 DEF CommitInvariant, RunsMatchStates
<1>6. ({} \ s.cancel) \cup s.set = {}
  BY Zenon, <1>2
<1> HIDE DEF s
<1>7. FaithfulAnswer(p, s, {})
  BY Zenon, <1>1, <1>2, <1>3, <1>4, <1>5, <1>6 DEF FaithfulAnswer, None
<1> QED
  BY <1>1, <1>7 DEF ParticipantMoves

(* Every step is a faithful handler of one node.                           *)
LEMMA HandlersAreFaithful ==
    ASSUME CommitInvariant, [Next]_vars
    PROVE  CoordinatorMoves \/ (\E p \in Participants : ParticipantMoves(p)) \/ UNCHANGED vars
<1>1. CASE StartCoordinator
  BY <1>1, StartIsFaithful DEF StartCoordinator, CoordinatorMoves
<1>2. ASSUME NEW m \in msgs, CoordinatorReceives(m) PROVE CoordinatorMoves
  <2>1. PICK net \in Without(m) :
          CoordinatorDoes(CoordinatorReceive(coordinator, m), timers[kCoordinator], net)
    BY <1>2 DEF CoordinatorReceives
  <2>2. net \in SUBSET msgs
    BY DEF Without
  <2> QED
    BY <1>2, <2>1, <2>2, ReceiveIsFaithful DEF CoordinatorReceives, CoordinatorMoves
<1>3. ASSUME NEW t \in TimerId, CoordinatorTimer(t) PROVE CoordinatorMoves
  BY <1>3, TimerIsFaithful DEF CoordinatorTimer, CoordinatorMoves
<1>4. ASSUME NEW p \in Participants, StartParticipant(p) PROVE ParticipantMoves(p)
  BY <1>4, ParticipantStartMoves
<1>5. ASSUME NEW p \in Participants, NEW m \in msgs, ParticipantReceives(p, m)
      PROVE  ParticipantMoves(p)
  BY <1>5, ParticipantReceiveMoves
<1>6. ASSUME NEW p \in Participants, NEW t \in TimerId, ParticipantTimer(p, t)
      PROVE  ParticipantMoves(p)
  BY <1>6, ParticipantTimerMoves
<1> QED
  BY Zenon, <1>1, <1>2, <1>3, <1>4, <1>5, <1>6 DEF Next
-----------------------------------------------------------------------------
(* The invariant holds of every behaviour, for any number of participants, *)
(* with or without the seeded bug, crashes and an unreliable network.      *)
THEOREM CommitInvariantHolds == Spec => []CommitInvariant
<1>1. Init => CommitInvariant
  <2> SUFFICES ASSUME Init PROVE CommitInvariant
    OBVIOUS
  <2>1. Cardinality({}) = 0
    BY Zenon, FS_EmptySet
  <2>2. TypeOK
    BY Zenon DEF Init, TypeOK, NewCoordinator, NewParticipant
  <2>3. Tallied(coordinator)
    BY Zenon, <2>1 DEF Init, NewCoordinator, Tallied, None
  <2>4. RunsMatchStates /\ TimersFollowPhase
    BY Zenon DEF Init, RunsMatchStates, NewParticipant, TimersFollowPhase, Node, None
  <2>5. Undecided
    BY DEF Init, Undecided, NewCoordinator
  <2>6. VotesHonest /\ DecisionsHonest /\ NothingDecidedGotOut
    BY DEF Init, VotesHonest, DecisionsHonest, NothingDecidedGotOut, NewParticipant, None
  <2> QED
    BY <2>2, <2>3, <2>4, <2>5, <2>6 DEF CommitInvariant
<1>2. CommitInvariant /\ [Next]_vars => CommitInvariant'
  <2> SUFFICES ASSUME CommitInvariant, [Next]_vars PROVE CommitInvariant'
    OBVIOUS
  <2>1. CASE CoordinatorMoves
    BY Zenon, <2>1, CoordinatorPreserves DEF CoordinatorMoves
  <2>2. ASSUME NEW p \in Participants, ParticipantMoves(p) PROVE CommitInvariant'
    BY Zenon, <2>2, ParticipantPreserves DEF ParticipantMoves
  <2>3. CASE UNCHANGED vars
    <3>1. TypeOK' /\ Tallied(coordinator)' /\ Undecided' /\ RunsMatchStates'
      BY Zenon, <2>3 DEF vars, CommitInvariant, TypeOK, Tallied, Undecided, RunsMatchStates
    <3>2. VotesHonest' /\ DecisionsHonest' /\ NothingDecidedGotOut' /\ TimersFollowPhase'
      BY Zenon, <2>3 DEF vars, CommitInvariant, VotesHonest, DecisionsHonest,
         NothingDecidedGotOut, TimersFollowPhase
    <3> QED
      BY Zenon, <3>1, <3>2 DEF CommitInvariant
  <2> QED
    BY <2>1, <2>2, <2>3, HandlersAreFaithful
<1> QED
  BY <1>1, <1>2, PTL DEF Spec

(* Agreement for any number of participants: a decision delivered is the   *)
(* coordinator's, which broadcast_decision() sets once.                    *)
THEOREM DecisionsAgree == Spec => []Agreement
<1>1. CommitInvariant => Agreement
  BY DEF CommitInvariant, DecisionsHonest, Agreement
<1> QED
  BY <1>1, CommitInvariantHolds, PTL

(* Validity for any number of participants: receive() decides "commit"     *)
(* only on a complete tally without a "no".                                *)
THEOREM CommitsAreUnanimous == Spec => []Validity
<1>1. CommitInvariant => Validity
  BY DEF CommitInvariant, Tallied, Validity
<1> QED
  BY <1>1, CommitInvariantHolds, PTL

(* Crash safety: the crash of crash_before_decision.hpp comes before the   *)
(* first decision leaves.                                                  *)
THEOREM CrashesAreSafe == Spec => []CrashSafety
<1>1. CommitInvariant => CrashSafety
  BY Zenon DEF CommitInvariant, NothingDecidedGotOut, DecisionsHonest, CrashSafety,
     None
<1> QED
  BY <1>1, CommitInvariantHolds, PTL

(* The timers set are the one of the phase: set_timer() and cancel_timer() *)
(* calls match on every path through the handlers.                         *)
THEOREM TimersMatchPhases == Spec => []TimersFollowPhase
<1>1. CommitInvariant => TimersFollowPhase
  BY DEF CommitInvariant
<1> QED
  BY <1>1, CommitInvariantHolds, PTL

(* The refinement: a broadcast is the decision, an answered Prepare a      *)
(* vote, a delivered decision or a timeout an outcome; all other steps of  *)
(* handlers, sends, failures and timers stutter.                           *)
THEOREM CommitIsImplemented == Spec => ImplementsCommit
<1> DEFINE outcomes == [p \in Participants |-> participant[p].outcome]
<1>1. Init => Contract!Init
  BY DEF Init, Contract!Init, NewCoordinator, NewParticipant, None
<1>2. CommitInvariant /\ [Next]_vars => [Contract!Next]_(Contract!vars)
  <2> SUFFICES ASSUME CommitInvariant, [Next]_vars
               PROVE  Contract!Next \/ UNCHANGED Contract!vars
    BY DEF Contract!vars
  <2>1. CASE CoordinatorMoves
    <3>1. PICK s, active : Faithful(s, active) /\ \E net : CoordinatorDoes(s, active, net)
      BY Zenon, <2>1 DEF CoordinatorMoves
    <3>2. /\ coordinator' \in CoordinatorState /\ Tallied(coordinator')
          /\ coordinator.decision # None => coordinator'.decision = coordinator.decision
          /\ participant' = participant /\ vote' = vote
      BY Zenon, <3>1 DEF Faithful, CoordinatorDoes
    <3>3. CASE coordinator'.decision = coordinator.decision
      BY <3>2, <3>3 DEF Contract!vars
    <3>4. CASE coordinator'.decision # coordinator.decision
      <4>1. coordinator.decision = None /\ coordinator'.decision \in Decision
        BY Zenon, <3>2, <3>4 DEF CoordinatorState
      <4>2. Contract!Decide
        BY <3>2, <4>1 DEF Contract!Decide, Tallied, Decision, None
      <4> QED
        BY <4>2 DEF Contract!Next
    <3> QED
      BY Zenon, <3>3, <3>4
  <2>2. ASSUME NEW p \in Participants, ParticipantMoves(p)
        PROVE  Contract!Next \/ UNCHANGED Contract!vars
    <3>1. PICK s, active :
            FaithfulAnswer(p, s, active) /\ \E net : ParticipantDoes(p, s, active, net)
      BY Zenon, <2>2 DEF ParticipantMoves
    <3> DEFINE new == s.st.outcome
    <3>2. /\ coordinator' = coordinator
          /\ \E x \in {s.st, s.mid} : participant' = [participant EXCEPT ![p] = x]
      BY Zenon, <3>1 DEF ParticipantDoes
    <3>3. /\ participant'[p].outcome = new
          /\ \A q \in Participants \ {p} : participant'[q] = participant[q]
      BY <3>1, <3>2 DEF FaithfulAnswer, CommitInvariant, TypeOK
    <3>4. outcomes' = [outcomes EXCEPT ![p] = new]
      BY Zenon, <3>3
    <3>5. CASE new # participant[p].outcome
      <4>1. /\ vote' = vote /\ vote[p] \in Vote /\ outcomes[p] = None
            /\ new \in {"abort", coordinator.decision} /\ new # None
        BY Zenon, <3>1, <3>5 DEF FaithfulAnswer
      <4>2. Contract!Settle(p, new)
        BY Zenon, <3>2, <3>4, <4>1 DEF Contract!Settle, Vote, None
      <4>3. Contract!Learn(p) \/ Contract!GiveUp(p)
        <5>1. CASE new = "abort"
          BY Zenon, <4>2, <5>1 DEF Contract!GiveUp
        <5>2. CASE new = coordinator.decision
          <6>1. coordinator.decision # "none"
            BY Zenon, <4>1, <5>2 DEF None
          <6> QED
            BY Zenon, <4>2, <5>2, <6>1 DEF Contract!Learn, Contract!Settle
        <5> QED
          BY Zenon, <4>1, <5>1, <5>2
      <4> QED
        BY <4>3 DEF Contract!Next
    <3>6. CASE new = participant[p].outcome
      <4>1. outcomes' = outcomes
        BY <3>3, <3>6
      <4>2. CASE vote' = vote
        BY <3>2, <4>1, <4>2 DEF Contract!vars
      <4>3. CASE vote[p] = None /\ \E v \in Vote : vote' = [vote EXCEPT ![p] = v]
        <5>1. Contract!CastVote(p)
          BY Zenon, <3>2, <4>1, <4>3 DEF Contract!CastVote, Vote, None
        <5> QED
          BY <5>1 DEF Contract!Next
      <4> QED
        BY <3>1, <4>2, <4>3 DEF FaithfulAnswer
    <3> QED
      BY <3>5, <3>6
  <2>3. CASE UNCHANGED vars
    BY <2>3 DEF vars, Contract!vars
  <2> QED
    BY Zenon, <2>1, <2>2, <2>3, HandlersAreFaithful
<1> QED
  BY <1>1, <1>2, CommitInvariantHolds, PTL DEF Spec, Contract!Spec, ImplementsCommit
=============================================================================
