----------------------------- MODULE MCGateway -----------------------------
(***************************************************************************)
(* Instances of Gateway for TLC.                                           *)
(***************************************************************************)
EXTENDS Gateway, TLC

\* Every file wants one replica, and has a bag of its own and the same key.
Target1 == [f \in FileIds |-> 1]
OwnBag == CHOOSE bag \in [FileIds -> Bags] :
            \A f, g \in FileIds : bag[f] = bag[g] => f = g
OneKey == [f \in FileIds |-> CHOOSE key \in Keys : TRUE]
=============================================================================
