--------------------------- MODULE ReplicaLedger ---------------------------
(***************************************************************************)
(* What replication promises, without its workers, statements, batches and *)
(* transactions: every file has a set of replicas, the contracts that the  *)
(* replicator pool answers for.  The set grows by one new contract at a    *)
(* time, never beyond the file's target and never with a provider the file *)
(* has already, and what it loses never comes back.                        *)
(*                                                                         *)
(* Module Replication implements it.                                       *)
(***************************************************************************)
EXTENDS Integers, FiniteSets

CONSTANTS Files, Providers, TargetReplicas

VARIABLES
  replicas,        \* [Files -> set of replicas]
  next             \* the next contract id; ids are not given twice

vars == <<replicas, next>>

Replica(id, p) == [id |-> id, provider |-> p]

ProvidersIn(R) == {r.provider : r \in R}

Init ==
  /\ replicas = [f \in Files |-> {}]
  /\ next = 1

\* A provider is hired for f.  Only a file that wants more replicas than there
\* are providers may have one of them twice.
Hire(f) ==
  /\ Cardinality(replicas[f]) < TargetReplicas[f]
  /\ \E p \in Providers :
       /\ TargetReplicas[f] <= Cardinality(Providers)
            => p \notin ProvidersIn(replicas[f])
       /\ replicas' = [replicas EXCEPT ![f] = @ \cup {Replica(next, p)}]
  /\ next' = next + 1

\* A provider is fired or withdrawn; all of them when the file is deleted.
Lose(f) ==
  /\ \E R \in (SUBSET replicas[f]) \ {{}} :
       replicas' = [replicas EXCEPT ![f] = @ \ R]
  /\ UNCHANGED next

\* An admin hires by hand: the contract is not one of the pool's.
HireByHand ==
  /\ next' = next + 1
  /\ UNCHANGED replicas

Next == (\E f \in Files : Hire(f) \/ Lose(f)) \/ HireByHand

Spec == Init /\ [][Next]_vars
=============================================================================
