------------------------- MODULE EtcdPolicy_proofs --------------------------
(***************************************************************************)
(* What the quorum gates compute, for every number of members, every way   *)
(* hosts and addresses name them and every selection of targets.  The      *)
(* heart is AssessCounts: the two numbers the code subtracts its way to    *)
(* are the sizes of two sets of voters, and every gate compares such a set *)
(* with a majority.                                                        *)
(***************************************************************************)
EXTENDS EtcdPolicy, FiniteSetTheorems, TLAPS

\* The voters outside the targets that are known to be well, and those that are
\* not known to be ill.
Sure(e, T) == {m \in Voters(e) \ AtRisk(e, T) : Healthy(e, m)}
Possible(e, T) == {m \in Voters(e) \ AtRisk(e, T) : e[m].status # "errors"}

-----------------------------------------------------------------------------
(* Counting *)

\* A part of a finite set is finite and has at most as many elements.
LEMMA SubsetCount ==
    ASSUME NEW S, IsFiniteSet(S), NEW T, T \subseteq S
    PROVE  /\ IsFiniteSet(T)
           /\ Cardinality(S) \in Nat /\ Cardinality(T) \in Nat
           /\ Cardinality(T) <= Cardinality(S)
<1>1. IsFiniteSet(T) /\ Cardinality(T) <= Cardinality(S)
  BY FS_Subset
<1> QED
  BY <1>1, FS_CardinalityType

\* Taking two disjoint parts away subtracts their sizes.
LEMMA DisjointCount ==
    ASSUME NEW S, IsFiniteSet(S), NEW A, A \subseteq S, NEW B, B \subseteq S, A \cap B = {}
    PROVE  Cardinality(S \ (A \cup B)) = Cardinality(S) - (Cardinality(A) + Cardinality(B))
<1>1. IsFiniteSet(A) /\ IsFiniteSet(B) /\ IsFiniteSet(A \cup B)
  BY SubsetCount
<1>2. /\ Cardinality(A) \in Nat /\ Cardinality(B) \in Nat /\ Cardinality(S) \in Nat
  BY SubsetCount
<1>3. Cardinality(A \cup B) = Cardinality(A) + Cardinality(B)
  <2>1. Cardinality(A \cup B) = Cardinality(A) + Cardinality(B) - Cardinality(A \cap B)
    BY <1>1, FS_Union
  <2>2. Cardinality(A \cap B) = 0
    BY FS_EmptySet
  <2> QED
    BY <2>1, <2>2, <1>2
<1>4. Cardinality(S \ (A \cup B)) = Cardinality(S) - Cardinality(S \cap (A \cup B))
  BY FS_Difference
<1>5. S \cap (A \cup B) = A \cup B
  OBVIOUS
<1> QED
  BY <1>3, <1>4, <1>5

\* The voters of a list of members can be counted.
LEMMA VotersFinite ==
    ASSUME NEW e, IsMemberList(e)
    PROVE  IsFiniteSet(Voters(e)) /\ Cardinality(Voters(e)) \in Nat
<1>1. Voters(e) \subseteq Member
  BY DEF IsMemberList, Voters
<1> QED
  BY <1>1, SubsetCount, PolicyAssumption

\* What assessEtcdQuorumFacts computes.
LEMMA AssessCounts ==
    ASSUME NEW etcd_0, IsPolicyFacts(etcd_0), NEW T
    PROVE  LET e == etcd_0.members
               a == Assess(etcd_0, T)
               v == Cardinality(Voters(e))
           IN /\ v \in Nat
              /\ Cardinality(Sure(e, T)) \in Nat /\ Cardinality(Possible(e, T)) \in Nat
              /\ a.known \in BOOLEAN
              /\ a.known <=> Voters(e) # {}
              /\ a.known => /\ a.voters = v
                            /\ a.remaining = Cardinality(Sure(e, T))
                            /\ a.confirmed = Cardinality(Possible(e, T))
                            /\ a.floor = v \div 2 + 1
<1> DEFINE e == etcd_0.members
           V == Voters(e)
           A == AtRisk(e, T)
           F == Failing(e, T)
           U == Unread(e, T)
<1>1. IsMemberList(e) /\ (~etcd_0.available => V = {})
  BY DEF IsPolicyFacts, Voters
<1>2. IsFiniteSet(V) /\ Cardinality(V) \in Nat
  BY <1>1, VotersFinite
<1>3. (V = {}) <=> (Cardinality(V) = 0)
  BY <1>2, FS_EmptySet
<1>4. /\ A \subseteq V /\ F \subseteq V /\ U \subseteq V
      /\ A \cap F = {} /\ (A \cup F) \cap U = {}
      /\ Sure(e, T) \subseteq V /\ Possible(e, T) \subseteq V
  BY DEF AtRisk, Failing, Unread, Sure, Possible
<1>5. /\ Cardinality(A) \in Nat /\ Cardinality(F) \in Nat /\ Cardinality(U) \in Nat
      /\ Cardinality(Sure(e, T)) \in Nat /\ Cardinality(Possible(e, T)) \in Nat
  BY <1>2, <1>4, SubsetCount
<1>6. Possible(e, T) = V \ (A \cup F)
  BY DEF Possible, Failing
<1>7. Sure(e, T) = V \ ((A \cup F) \cup U)
  <2>1. \A m \in V : e[m].status \in {"unread", "errors", "healthy"}
    BY <1>1 DEF IsMemberList, MemberSnapshot, Voters
  <2> QED
    BY <2>1 DEF Sure, Failing, Unread, Healthy
<1>8. Cardinality(Possible(e, T)) = Cardinality(V) - (Cardinality(A) + Cardinality(F))
  BY <1>2, <1>4, <1>6, DisjointCount
<1>9. Cardinality(A \cup F) = Cardinality(A) + Cardinality(F)
  <2>1. IsFiniteSet(A) /\ IsFiniteSet(F)
    BY <1>2, <1>4, SubsetCount
  <2>2. Cardinality(A \cup F) = Cardinality(A) + Cardinality(F) - Cardinality(A \cap F)
    BY <2>1, FS_Union
  <2>3. Cardinality(A \cap F) = 0
    BY <1>4, FS_EmptySet
  <2> QED
    BY <2>2, <2>3, <1>5
<1>10. Cardinality(Sure(e, T)) = Cardinality(V) - (Cardinality(A \cup F) + Cardinality(U))
  <2>1. A \cup F \subseteq V
    BY <1>4
  <2> QED
    BY <1>2, <1>4, <1>7, <2>1, DisjointCount
<1>11. CASE V = {}
  BY <1>2, <1>3, <1>5, <1>11 DEF Assess, UnknownQuorum
<1>12. CASE V # {}
  <2>1. Assess(etcd_0, T) = KnownQuorum(e, Cardinality(V) - (Cardinality(A) + Cardinality(F) + Cardinality(U)),
                                       Cardinality(V) - (Cardinality(A) + Cardinality(F)),
                                       Cardinality(V) \div 2 + 1)
    BY <1>1, <1>3, <1>12 DEF Assess
  <2> QED
    BY <2>1, <1>2, <1>5, <1>8, <1>9, <1>10, <1>12 DEF KnownQuorum
<1> QED
  BY <1>11, <1>12

\* Comparing with the floor is asking for a majority.
LEMMA FloorIsMajority ==
    ASSUME NEW c \in Nat, NEW v \in Nat
    PROVE  c < v \div 2 + 1 <=> ~(2 * c > v)
BY SMT

-----------------------------------------------------------------------------
(* The gates, as questions about a majority *)

\* The ordinary gate (etcdQuorumBlockReasonFacts) asks whether the voters that are not
\* known to be ill are a majority.
LEMMA QuorumGate ==
    ASSUME NEW etcd_0, IsPolicyFacts(etcd_0), NEW T
    PROVE  LET e == etcd_0.members IN
           QuorumBlocked(etcd_0, T) <=>
               Voters(e) # {} /\ ~Majority(Possible(e, T), Voters(e))
<1> DEFINE e == etcd_0.members
           a == Assess(etcd_0, T)
<1>1. /\ Cardinality(Voters(e)) \in Nat
      /\ Cardinality(Possible(e, T)) \in Nat
      /\ a.known <=> Voters(e) # {}
      /\ a.known => /\ a.confirmed = Cardinality(Possible(e, T))
                    /\ a.floor = Cardinality(Voters(e)) \div 2 + 1
  BY AssessCounts
<1>2. Cardinality(Possible(e, T)) < Cardinality(Voters(e)) \div 2 + 1
      <=> ~(2 * Cardinality(Possible(e, T)) > Cardinality(Voters(e)))
  BY <1>1, FloorIsMajority
<1> QED
  BY <1>1, <1>2 DEF QuorumBlocked, CertainlyBelowQuorum, Majority

\* The reset gate (resetQuorumBlockReasonFacts) asks whether those known to be well are.
LEMMA ResetGate ==
    ASSUME NEW etcd_0, IsPolicyFacts(etcd_0), NEW T
    PROVE  LET e == etcd_0.members IN
           /\ ResetBlocked(etcd_0, T) <=>
                  Voters(e) = {} \/ ~Majority(Sure(e, T), Voters(e))
           /\ Assess(etcd_0, T).known /\ ~BelowQuorum(Assess(etcd_0, T)) <=>
                  Voters(e) # {} /\ Majority(Sure(e, T), Voters(e))
<1> DEFINE e == etcd_0.members
           a == Assess(etcd_0, T)
<1>1. /\ Cardinality(Voters(e)) \in Nat
      /\ Cardinality(Sure(e, T)) \in Nat
      /\ a.known <=> Voters(e) # {}
      /\ a.known => /\ a.remaining = Cardinality(Sure(e, T))
                    /\ a.floor = Cardinality(Voters(e)) \div 2 + 1
  BY AssessCounts
<1>2. Cardinality(Sure(e, T)) < Cardinality(Voters(e)) \div 2 + 1
      <=> ~(2 * Cardinality(Sure(e, T)) > Cardinality(Voters(e)))
  BY <1>1, FloorIsMajority
<1>3. ResetBlocked(etcd_0, T) <=> ~a.known \/ BelowQuorum(a)
  BY DEF ResetBlocked
<1> QED
  BY <1>1, <1>2, <1>3 DEF BelowQuorum, Majority

\* A set of voters that contains a majority is one.
LEMMA MajorityGrows ==
    ASSUME NEW V, IsFiniteSet(V), NEW S, NEW S2, S \subseteq S2, S2 \subseteq V, Majority(S, V)
    PROVE  Majority(S2, V)
<1>1. IsFiniteSet(S2)
  BY SubsetCount
<1>2. /\ Cardinality(S) \in Nat /\ Cardinality(S2) \in Nat /\ Cardinality(V) \in Nat
      /\ Cardinality(S) <= Cardinality(S2)
  BY <1>1, SubsetCount
<1> QED
  BY <1>2 DEF Majority
=============================================================================
