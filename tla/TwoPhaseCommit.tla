--------------------------- MODULE TwoPhaseCommit ---------------------------
(***************************************************************************)
(* Coordinator and participants over datagrams.  Every node is driven by   *)
(* UdpEnvironment::run() (examples/.../udp_network.hpp): start(), then due *)
(* timers and datagrams, one at a time, until the protocol is done or      *)
(* something throws.  Time is abstract: a timer that is set may fire at    *)
(* any moment.                                                             *)
(*                                                                         *)
(* A datagram may be lost (never received), late, overtaken or, where      *)
(* Unreliable, delivered more than once; there sendto() may also fail in   *)
(* the middle of a broadcast.  MayCrash is the fault that the simulation   *)
(* injects (sim/crash_before_decision.hpp): the coordinator disappears     *)
(* before the first decision is sent.                                      *)
(***************************************************************************)
EXTENDS TwoPhaseProtocol, FiniteSets

CONSTANTS
    MayCrash,      \* Options::inject_crash
    Unreliable     \* duplicated datagrams and failing sends

ASSUME FaultAssumption == MayCrash \in BOOLEAN /\ Unreliable \in BOOLEAN

VARIABLES
    coordinator,   \* the Coordinator object
    participant,   \* the Participant objects
    run,           \* how far each node's run() is
    timers,        \* active_timers_ of each node
    msgs,          \* datagrams sent and not yet gone
    vote,          \* history: what get_vote() answered
    received       \* history: the first decision delivered to a participant

vars == <<coordinator, participant, run, timers, msgs, vote, received>>

TypeOK ==
    /\ coordinator \in [phase : {"CollectingVotes", "CollectingAcks", "Done"},
                        all_yes : BOOLEAN, votes : Nat, acks : Nat,
                        decision : Decision \cup {None},
                        vote_seen : SUBSET Participants, ack_seen : SUBSET Participants]
    /\ participant \in [Participants -> [state : {"WaitPrepare", "WaitDecision", "Done"},
                                         outcome : Decision \cup {None}]]
    /\ run \in [Node -> {"init", "running", "returned", "failed", "crashed"}]
    /\ timers \in [Node -> SUBSET TimerId]
    /\ msgs \subseteq Message
    /\ vote \in [Participants -> Vote \cup {None}]
    /\ received \in [Participants -> Decision \cup {None}]

Init ==
    /\ coordinator = NewCoordinator
    /\ participant = [p \in Participants |-> NewParticipant]
    /\ run = [n \in Node |-> "init"]
    /\ timers = [n \in Node |-> {}]
    /\ msgs = {}
    /\ vote = [p \in Participants |-> None]
    /\ received = [p \in Participants |-> None]

-----------------------------------------------------------------------------
(***************************************************************************)
(* What run() makes of a step of node n, begun with the timers active and  *)
(* the datagrams net: it is carried out, it fails at its k-th send, or the *)
(* simulation's crash cuts it off at the first decision.  When run() is    *)
(* left, normally or by an exception, the timers are reset.                *)
(***************************************************************************)
Leaves(n, how) ==
    /\ run' = [run EXCEPT ![n] = how]
    /\ timers' = [timers EXCEPT ![n] = {}]

Completed(n, s, active, net) ==
    /\ msgs' = net \cup {s.out[i] : i \in DOMAIN s.out}
    /\ \/ /\ s.ends = "more"
          /\ run' = [run EXCEPT ![n] = "running"]
          /\ timers' = [timers EXCEPT ![n] = (active \ s.cancel) \cup s.set]
       \/ s.ends = "done" /\ Leaves(n, "returned")
       \/ s.ends = "throw" /\ Leaves(n, "failed")

SendFails(n, s, net) ==
    /\ Unreliable
    /\ \E k \in DOMAIN s.out : msgs' = net \cup {s.out[i] : i \in 1 .. k - 1}
    /\ Leaves(n, "failed")

(* Mutant: the crash comes after the first decision has been sent.         *)
CrashesMidway(n, s, net) ==
    /\ MayCrash
    /\ \E i \in DOMAIN s.out : s.out[i].type = "decision"
    /\ msgs' = net \cup {s.out[1]}
    /\ Leaves(n, "crashed")

Crashes(n, s, net) ==
    /\ MayCrash
    /\ \E i \in DOMAIN s.out : s.out[i].type = "decision"
    /\ msgs' = net
    /\ Leaves(n, "crashed")

CoordinatorDoes(s, active, net) ==
    /\ \/ coordinator' = s.st /\ Completed(kCoordinator, s, active, net)
       \/ coordinator' = s.mid /\ SendFails(kCoordinator, s, net)
       \/ coordinator' = s.mid /\ Crashes(kCoordinator, s, net)
    /\ UNCHANGED <<participant, vote, received>>

ParticipantDoes(p, s, active, net) ==
    /\ \/ participant' = [participant EXCEPT ![p] = s.st] /\ Completed(p, s, active, net)
       \/ participant' = [participant EXCEPT ![p] = s.mid] /\ SendFails(p, s, net)
    /\ UNCHANGED coordinator

(***************************************************************************)
(* run(): start, receive, timers.                                          *)
(***************************************************************************)
StartCoordinator ==
    /\ run[kCoordinator] = "init"
    /\ CoordinatorDoes(CoordinatorStart, {}, msgs)

StartParticipant(p) ==
    /\ run[p] = "init"
    /\ ParticipantDoes(p, ParticipantStart, {}, msgs)
    /\ UNCHANGED <<vote, received>>

(* What is left of the datagrams once m has been received. *)
Without(m) == {msgs \ {m}} \cup (IF Unreliable THEN {msgs} ELSE {})

CoordinatorReceives(m) ==
    /\ m.to = kCoordinator /\ run[kCoordinator] = "running"
    /\ \E net \in Without(m) :
           CoordinatorDoes(CoordinatorReceive(coordinator, m), timers[kCoordinator], net)

(* A participant asks for its vote only when it answers a Prepare. *)
Answers(p, m) == participant[p].state = "WaitPrepare" /\ m.type = "prepare"

ParticipantReceives(p, m) ==
    /\ m.to = p /\ run[p] = "running"
    /\ \E net \in Without(m), v \in Vote :
           /\ ParticipantDoes(p, ParticipantReceive(p, participant[p], m, v), timers[p], net)
           /\ vote' = IF Answers(p, m) THEN [vote EXCEPT ![p] = v] ELSE vote
    /\ received' = IF m.type = "decision" /\ received[p] = None
                   THEN [received EXCEPT ![p] = m.val] ELSE received

CoordinatorTimer(t) ==
    /\ run[kCoordinator] = "running" /\ t \in timers[kCoordinator]
    /\ CoordinatorDoes(IF t = "vote" THEN on_vote_timeout(coordinator)
                                     ELSE on_ack_timeout(coordinator),
                       timers[kCoordinator] \ {t}, msgs)

ParticipantTimer(p, t) ==
    /\ run[p] = "running" /\ t \in timers[p]
    /\ ParticipantDoes(p, on_decision_timeout(participant[p]), timers[p] \ {t}, msgs)
    /\ UNCHANGED <<vote, received>>

Next ==
    \/ StartCoordinator
    \/ \E m \in msgs : CoordinatorReceives(m)
    \/ \E t \in TimerId : CoordinatorTimer(t)
    \/ \E p \in Participants : StartParticipant(p)
    \/ \E p \in Participants, m \in msgs : ParticipantReceives(p, m)
    \/ \E p \in Participants, t \in TimerId : ParticipantTimer(p, t)

Spec == Init /\ [][Next]_vars

(***************************************************************************)
(* run() waits no longer than until its next timer and dispatches due      *)
(* timers before every datagram, so a timer that stays set fires.  Nothing *)
(* makes a datagram arrive.                                                *)
(***************************************************************************)
FairSpec ==
    /\ Spec
    /\ WF_vars(\E t \in TimerId : CoordinatorTimer(t))
    /\ \A p \in Participants : WF_vars(\E t \in TimerId : ParticipantTimer(p, t))

-----------------------------------------------------------------------------
(* "Agreement: all participants that receive a decision receive the same   *)
(* one" (example README): whatever is lost, late, duplicated or cut off in *)
(* the middle of the broadcast, no two different decisions are delivered.  *)
Agreement ==
    \A p, q \in Participants :
        (received[p] # None /\ received[q] # None) => received[p] = received[q]

(* "Validity: if the decision is Commit, then every participant voted      *)
(* Yes": the coordinator counts votes, and neither a duplicated vote nor   *)
(* one that comes after its timeout may be counted for a missing one.      *)
Validity ==
    coordinator.decision = "commit" => \A p \in Participants : vote[p] = "yes"

(* "Crash safety: when the coordinator crashes between phases, no          *)
(* participant receives a decision", and none commits.                     *)
CrashSafety ==
    run[kCoordinator] = "crashed" =>
        \A p \in Participants : received[p] = None /\ participant[p].outcome # "commit"

(* A node that waits for an answer has exactly the timer of its phase: it  *)
(* cannot wait for ever, no timer of an earlier phase fires into a later   *)
(* one, and the simulation, which keeps one timer per node                 *)
(* (ReplayState::set_timer), never refuses a second one.                   *)
TimersFollowPhase ==
    /\ run[kCoordinator] = "running" =>
           timers[kCoordinator] = IF coordinator.phase = "CollectingVotes"
                                  THEN {"vote"} ELSE {"ack"}
    /\ \A p \in Participants : run[p] = "running" =>
           timers[p] = IF participant[p].state = "WaitDecision" THEN {"decision"} ELSE {}

Contract == INSTANCE CommitContract WITH
                votes <- vote,
                decision <- coordinator.decision,
                outcome <- [p \in Participants |-> participant[p].outcome]

(* The nodes implement the contract: a vote, the decision and an outcome   *)
(* are never revised, and an outcome "commit" is the coordinator's.        *)
ImplementsCommit == Contract!Spec

(* The coordinator comes to an end whatever is lost, and so does every     *)
(* participant that has voted; a participant that gets no Prepare has no   *)
(* timer and waits for ever.                                               *)
EveryWaitEnds ==
    /\ run[kCoordinator] = "running" ~> run[kCoordinator] # "running"
    /\ \A p \in Participants : vote[p] # None ~> run[p] # "running"
=============================================================================
