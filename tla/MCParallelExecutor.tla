------------------------- MODULE MCParallelExecutor -------------------------
(* Instances of ParallelExecutor for TLC.                                  *)
EXTENDS ParallelExecutor, TLC

(* Nothing tells the workers of the pool apart.  Only for safety.          *)
WorkerSymmetry == Permutations(Workers)

(* A tree with every kind of node: a receive of three alternatives, one of *)
(* them inconsistent, below it a send with one backward revisit, and a     *)
(* further branch inside the revisited graph.                              *)
MixNode == {"r", "s", "x", "b", "t1", "t2", "t3", "t4"}
MixChildren ==
    [n \in MixNode |-> CASE n = "r" -> <<"s", "x", "t1">>
                         [] n = "s" -> <<"b", "t2">>
                         [] n = "b" -> <<"t3", "t4">>
                         [] OTHER   -> <<>>]
MixKind ==
    [n \in MixNode |-> CASE n \in {"r", "b"} -> "branch"
                         [] n = "s" -> "send"
                         [] n = "x" -> "pruned"
                         [] OTHER   -> "terminal"]

(* The same tree without the inconsistent alternative.                     *)
LeanNode == MixNode \ {"x"}
LeanChildren ==
    [n \in LeanNode |-> SelectSeq(MixChildren[n], LAMBDA c : c \in LeanNode)]
LeanKind == [n \in LeanNode |-> MixKind[n]]

(* A flat tree: three terminals, so that three workers may publish at once. *)
WideNode == {"r", "t1", "t2", "t3"}
WideChildren ==
    [n \in WideNode |-> IF n = "r" THEN <<"t1", "t2", "t3">> ELSE <<>>]
WideKind ==
    [n \in WideNode |-> IF n = "r" THEN "branch" ELSE "terminal"]
=============================================================================
