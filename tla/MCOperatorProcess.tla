-------------------------- MODULE MCOperatorProcess --------------------------
(***************************************************************************)
(* The leaving and the coming pod of a rollout of the operator, on either  *)
(* topology.  Ticks keep the order of the times: a leader that is cut off  *)
(* gives up and then its lease expires (133 s, 137 s), or on a single node *)
(* the other way round (300 s, 270 s).                                     *)
(***************************************************************************)
EXTENDS OperatorProcess

CONSTANTS old, new

Pods == {old, new}
HighlyAvailable == "HighlyAvailable"
SingleReplica == "SingleReplica"
BothTopologies == {HighlyAvailable, SingleReplica}

Patience == [t \in BothTopologies |-> IF t = SingleReplica THEN 2 ELSE 1]
Expiry == [t \in BothTopologies |-> IF t = SingleReplica THEN 1 ELSE 2]

\* On a single node a signal is left out: it makes a hand-over of another kind.
Replacement ==
    [t \in BothTopologies |->
        [k \in Kinds |-> IF t = SingleReplica /\ k = "sigterm" THEN 0 ELSE 1]]

=============================================================================
