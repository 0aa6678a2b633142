--------------------------- MODULE VerifyContract ---------------------------
(***************************************************************************)
(* What verify() and verify_parallel() promise their caller, whatever the  *)
(* executor and the order of exploration: terminal executions are counted  *)
(* one at a time and none twice; VerifyResultKind::AllExplored means that  *)
(* all were counted; a stopped search reports exactly what it counted; and *)
(* after an exception there is no result.                                  *)
(***************************************************************************)
EXTENDS Naturals, FiniteSets

CONSTANT Terminal    \* the terminal executions of the program

VARIABLES
    seen,            \* terminal executions counted so far
    answer           \* VerifyResult: its kind and executions_explored

cvars == <<seen, answer>>

Pending == answer.kind = "none"

Init ==
    /\ seen = {}
    /\ answer = [kind |-> "none", total |-> 0]

CountOne ==
    /\ Pending
    /\ \E n \in Terminal \ seen : seen' = seen \cup {n}
    /\ UNCHANGED answer

AnswerAllExplored ==
    /\ Pending
    /\ seen = Terminal
    /\ answer' = [kind |-> "AllExplored", total |-> Cardinality(Terminal)]
    /\ UNCHANGED seen

AnswerStopped ==
    /\ Pending
    /\ answer' = [kind |-> "Stopped", total |-> Cardinality(seen)]
    /\ UNCHANGED seen

Throw ==
    /\ Pending
    /\ answer' = [kind |-> "threw", total |-> 0]
    /\ UNCHANGED seen

Next == CountOne \/ AnswerAllExplored \/ AnswerStopped \/ Throw

Spec == Init /\ [][Next]_cvars
=============================================================================
