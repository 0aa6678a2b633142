------------------------- MODULE MCExplorationGraph -------------------------
(* Thread 1 receives, then sends or makes an ND choice; thread 2 receives. *)
(* The send can have two readers, and closes a causal cycle when thread 1  *)
(* is made to read it.                                                     *)
EXTENDS ExplorationGraph

Receive == ReceiveLabel(FALSE, Value)

TwoThreads == {1, 2}
TwoValues  == {1, 2}
TwoRoles   == 1 :> <<{Receive}, {SendLabel(1, 2), NdLabel(<<1, 2>>, 1)}>>
              @@ 2 :> <<{Receive}>>
=============================================================================
