------------------------------- MODULE MCDpor -------------------------------
(***************************************************************************)
(* Small programs for DporOracle.  A thread is a sequence of instructions; *)
(* an instruction with a nonempty set when is executed only if the thread  *)
(* last observed one of its values, and otherwise the thread is done.      *)
(***************************************************************************)
EXTENDS DporOracle, CommitSimulation

I(label)     == [label |-> label, when |-> {}]
If(S, label) == [label |-> label, when |-> S]

(* The two-phase commit of one participant as a program; thread 3 is idle. *)
Commit == <<>>

MCThreadFn(p, t, trace, step) ==
    IF p = Commit
    THEN IF t - 1 \in Node THEN SimulatedNode(t - 1, trace, step) ELSE Done
    ELSE IF step >= Len(p[t]) THEN Done
    ELSE LET i == p[t][step + 1] IN
         IF i.when = {} \/ (trace # <<>> /\ Last(trace) \in i.when)
         THEN i.label ELSE Done

MCThread == 1 .. 3
Payload  == {1, 2, 3}
MCValue  == Payload \cup AnyMessage \cup ToSet(VoteChoices) \cup ToSet(CrashChoices)

B       == I(ReceiveLabel(FALSE, Payload))
B1      == I(ReceiveLabel(FALSE, {1}))
N       == I(ReceiveLabel(TRUE, Payload))
N2      == I(ReceiveLabel(TRUE, {2}))
S(d, v) == I(SendLabel(d, v))
ND      == I(NdLabel(<<2, 1, 2>>, 1))
Skip    == I(NdLabel(<<>>, 1))
Fail(T) == If(T, ErrorLabel)

(***************************************************************************)
(* A program is written for the roles 1 (mostly receives), 2 and 3; every  *)
(* assignment of roles to thread ids gives one, since the explorer runs    *)
(* threads and breaks ties in the order of their ids.                      *)
(***************************************************************************)
Recast(p, perm) ==
    LET Inverted(t) == CHOOSE r \in MCThread : perm[r] = t
        Aimed(i) == IF i.label.op = "send" THEN [i EXCEPT !.label.dst = perm[@]] ELSE i
    IN  [t \in MCThread |-> [k \in DOMAIN p[Inverted(t)] |-> Aimed(p[Inverted(t)][k])]]

Casts == {f \in [MCThread -> MCThread] : \A a, b \in MCThread : f[a] = f[b] => a = b}
AllCasts(roles) == {Recast(p, f) : p \in roles, f \in Casts}

AsyncPrograms == {Commit} \cup AllCasts(
    {<<B>>, <<N, B>>, <<B, B>>, <<B1, N>>, <<B, If({2}, SendLabel(3, 1))>>}
    \X {<<S(1, 2)>>, <<S(1, 1), S(3, 2)>>, <<N, S(1, 1)>>}
    \X {<<S(1, 3)>>, <<B, S(1, 3)>>, <<ND, If({1}, SendLabel(1, 1)), S(1, 3)>>})

FifoPrograms == AllCasts(
    {<<B>>, <<N, B>>, <<B, B>>, <<B1, N>>, <<N2, B>>, <<N2, B1, B>>}
    \X {<<S(1, 1), S(1, 2)>>, <<S(1, 2), S(1, 1)>>, <<S(1, 1), S(1, 2), S(1, 1)>>}
    \X {<<S(1, 3)>>, <<N, S(1, 3)>>})

SplitPrograms == AllCasts(
    {<<N>>, <<B, B>>} \X {<<S(1, 2)>>} \X {<<S(1, 3)>>, <<ND, S(1, 3)>>})

CutPrograms == AllCasts(
    {<<B, Fail({2})>>, <<N, Fail({Bottom})>>, <<Skip, B, B>>, <<N, N, N>>}
    \X {<<S(1, 2), S(1, 1)>>}
    \X {<<N, S(1, 3)>>, <<B>>})

LimitPrograms == SplitPrograms \cup CutPrograms

ErrorPrograms == {<< <<N, Fail({Bottom})>>, <<S(1, 2)>>, <<>> >>}
=============================================================================
