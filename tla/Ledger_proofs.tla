---------------------------- MODULE Ledger_proofs ----------------------------
(***************************************************************************)
(* Replication implements ReplicaLedger: the initial states map to the     *)
(* ledger's, and every step of a worker, an auditor, an admin or a user is *)
(* a hire, a loss, a hire by hand or no step of the ledger.                *)
(***************************************************************************)
EXTENDS Hiring_proofs

\* The ledger's replicas of f, as the refinement mapping has them.
Entries(f) ==
  {[id |-> c, provider |-> contracts[c].provider] : c \in OwnReplicas(f)}

Mapped == [f \in FileIds |-> Entries(f)]

LEMMA EntriesStep ==
  /\ \A f : Kept(f) => Entries(f)' \subseteq Entries(f)
  /\ \A f : Unmoved(f) => Entries(f)' = Entries(f)
<1>1. ASSUME NEW f, Kept(f)
      PROVE  Entries(f)' \subseteq Entries(f)
  BY <1>1 DEF Kept, Entries
<1>2. ASSUME NEW f, Unmoved(f)
      PROVE  Entries(f) \subseteq Entries(f)'
  BY <1>2 DEF Unmoved, Kept, Entries
<1> QED
  BY <1>1, <1>2 DEF Unmoved

\* The ledger has no more entries for a file than the file has contracts.
LEMMA EntriesCount ==
  ASSUME NEW f
  PROVE  /\ Cardinality(Entries(f)) \in Nat
         /\ Cardinality(Entries(f)) <= Cardinality(OwnReplicas(f))
<1> DEFINE S == OwnReplicas(f)
           entry == [c \in S |-> [id |-> c, provider |-> contracts[c].provider]]
<1>1. IsFiniteSet(S) /\ Cardinality(S) \in Nat
  BY OwnIds, IdsFinite
<1> HIDE DEF S
<1>2. entry \in [S -> Entries(f)]
  BY DEF Entries, S
<1>3. \A e \in Entries(f) : \E c \in S : entry[c] = e
  BY DEF Entries, S
<1>4. entry \in Surjection(S, Entries(f))
  BY <1>2, <1>3 DEF Surjection
<1>5. IsFiniteSet(Entries(f)) /\ Cardinality(Entries(f)) <= Cardinality(S)
  BY <1>1, <1>4, FS_Surjection
<1>6. Cardinality(Entries(f)) \in Nat
  BY <1>5, FS_CardinalityType
<1> QED
  BY <1>5, <1>6 DEF S

\* No file moves: the step is one of the sequence alone, or none.
LEMMA UnmovedIsByHand ==
  ASSUME \A f \in FileIds : Unmoved(f),
         nextContract' = nextContract \/ nextContract' = nextContract + 1
  PROVE  [Ledger!Next]_(Ledger!vars)
<1>1. Mapped' = Mapped
  BY EntriesStep DEF Mapped
<1>2. CASE nextContract' = nextContract
  BY <1>1, <1>2 DEF Ledger!vars, Mapped, Entries
<1>3. CASE nextContract' = nextContract + 1
  BY <1>1, <1>3 DEF Ledger!Next, Ledger!HireByHand, Mapped, Entries
<1> QED
  BY <1>2, <1>3

\* One file loses entries.
LEMMA KeptIsLose ==
  ASSUME NEW g \in FileIds, Kept(g), \A f \in FileIds \ {g} : Unmoved(f),
         nextContract' = nextContract
  PROVE  [Ledger!Next]_(Ledger!vars)
<1>1. /\ Entries(g)' \subseteq Entries(g)
      /\ \A f \in FileIds \ {g} : Entries(f)' = Entries(f)
  BY EntriesStep
<1>2. CASE Entries(g)' = Entries(g)
  <2>1. Mapped' = Mapped
    BY <1>1, <1>2 DEF Mapped
  <2> QED
    BY <2>1 DEF Ledger!vars, Mapped, Entries
<1>3. CASE Entries(g)' # Entries(g)
  <2> DEFINE R == Entries(g) \ Entries(g)'
  <2>1. R \in (SUBSET Mapped[g]) \ {{}}
    BY <1>1, <1>3 DEF Mapped
  <2>2. Mapped' = [Mapped EXCEPT ![g] = @ \ R]
    BY <1>1 DEF Mapped
  <2>3. Ledger!Lose(g)
    BY <2>1, <2>2 DEF Ledger!Lose, Mapped, Entries
  <2> QED
    BY <2>3 DEF Ledger!Next
<1> QED
  BY <1>2, <1>3

\* The ledger counts as Replication does.
LEMMA LedgerCardinality == \A S : Ledger!Cardinality(S) = Cardinality(S)
BY DEF Ledger!Cardinality, Cardinality

\* A hire of the pool is a hire of the ledger: the guard of the ledger holds
\* although the code checked none when it registered the contract.
LEMMA HireIsHire ==
  ASSUME TypeOK, FreshIds, JobsApart, NEW w \in Replicators, NEW g \in FileIds,
         PoolHire(w), HireAdds(w, g)
  PROVE  Ledger!Hire(g)
<1>1. PICK n, p : n = nextContract /\ p = rep[w].provider
  OBVIOUS
<1> DEFINE new == [id |-> n, provider |-> p]
<1>2. p \in Providers /\ nextContract' = nextContract + 1
  BY <1>1, PoolHireRows
<1>3. Cardinality(Entries(g)) < TargetReplicas[g]
  <2>1. /\ Cardinality(OwnReplicas(g)) \in Nat
        /\ Cardinality(OwnReplicas(g)') = Cardinality(OwnReplicas(g)) + 1
        /\ Cardinality(OwnReplicas(g)') <= TargetReplicas[g]
    BY HireIsCovered
  <2>2. TargetReplicas[g] \in Int
    BY TargetAssumption
  <2> QED
    BY <2>1, <2>2, EntriesCount
<1>4. TargetReplicas[g] <= Cardinality(Providers) =>
        p \notin {r.provider : r \in Entries(g)}
  BY <1>1, HireIsCovered DEF Entries, ProvidersOf
<1>5. \A f \in FileIds \ {g} : Entries(f)' = Entries(f)
  BY EntriesStep DEF HireAdds
<1>6. Entries(g)' = Entries(g) \cup {new}
  BY <1>1 DEF Entries, HireAdds
<1>7. Mapped' = [Mapped EXCEPT ![g] = @ \cup {new}]
  BY <1>5, <1>6 DEF Mapped
<1>8. Mapped[g] = Entries(g)
  BY DEF Mapped
<1> DEFINE rows == [f \in FileIds |->
                     {[id |-> c, provider |-> contracts[c].provider] :
                        c \in OwnReplicas(f)}]
<1>9. Mapped = rows /\ Mapped' = rows'
  BY DEF Mapped, Entries
<1> HIDE DEF Mapped, rows, new
<1>10. /\ Cardinality(Mapped[g]) < TargetReplicas[g]
       /\ TargetReplicas[g] <= Cardinality(Providers) =>
            p \notin Ledger!ProvidersIn(Mapped[g])
  BY <1>3, <1>4, <1>8 DEF Ledger!ProvidersIn
<1>11. Mapped' = [Mapped EXCEPT ![g] = @ \cup {Ledger!Replica(n, p)}]
  BY <1>7 DEF Ledger!Replica, new
<1>12. /\ Cardinality(rows[g]) < TargetReplicas[g]
       /\ TargetReplicas[g] <= Cardinality(Providers) =>
            p \notin Ledger!ProvidersIn(rows[g])
       /\ rows' = [rows EXCEPT ![g] = @ \cup {Ledger!Replica(nextContract, p)}]
  BY <1>1, <1>9, <1>10, <1>11
<1>13. \E q \in Providers :
         /\ TargetReplicas[g] <= Cardinality(Providers) =>
              q \notin Ledger!ProvidersIn(rows[g])
         /\ rows' = [rows EXCEPT ![g] = @ \cup {Ledger!Replica(nextContract, q)}]
  BY <1>2, <1>12
<1> QED
  BY <1>2, <1>12, <1>13, LedgerCardinality DEF Ledger!Hire, rows

LEMMA LedgerInit == Init => Ledger!Init
BY DEF Init, DBInit, Ledger!Init, OwnReplicas, ContractsOf, NoRow, Live

LEMMA LedgerStep == HiringInv /\ [Next]_vars => [Ledger!Next]_(Ledger!vars)
<1> SUFFICES ASSUME HiringInv, [Next]_vars PROVE [Ledger!Next]_(Ledger!vars)
  OBVIOUS
<1>1. TypeOK /\ FreshIds /\ RowsHaveFiles /\ AuditsApart /\ JobsApart
  BY DEF HiringInv
<1>2. CASE /\ nextContract' = nextContract \/ nextContract' = nextContract + 1
           /\ \A f \in FileIds : Unmoved(f)
  BY <1>2, UnmovedIsByHand
<1>3. CASE /\ nextContract' = nextContract
           /\ \E g \in FileIds : Kept(g) /\ \A f \in FileIds \ {g} : Unmoved(f)
  BY <1>3, KeptIsLose
<1>4. ASSUME NEW w \in Replicators, NEW g \in FileIds, PoolHire(w), HireAdds(w, g)
      PROVE  Ledger!Next
  BY <1>1, <1>4, HireIsHire DEF Ledger!Next
<1> QED
  BY <1>1, <1>2, <1>3, <1>4, OwnStep

\* Whatever the workers do with rows, batches and counts they read earlier, the
\* contracts of the pool behave as the ledger says: added one at a time, below the
\* target and with a new provider, and never back once they are lost.
THEOREM LedgerImplemented == Spec => ImplementsLedger
BY LedgerInit, LedgerStep, HiringInvariant, PTL DEF Spec, ImplementsLedger, Ledger!Spec
=============================================================================
