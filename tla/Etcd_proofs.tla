----------------------------- MODULE Etcd_proofs -----------------------------
(***************************************************************************)
(* The quorum gates are right for every number of members, every way hosts *)
(* and addresses name them and every selection of targets; and an etcd     *)
(* action sends what was confirmed, and a membership change leaves a       *)
(* majority, for any number of members and hosts, registered in any way,   *)
(* and any number of changes that others make meanwhile.                   *)
(***************************************************************************)
EXTENDS EtcdQuorum, EtcdAction, EtcdPolicy_proofs, WellFoundedInduction

-----------------------------------------------------------------------------
(* The gates, over every observation and selection *)

\* The observation a run works on stays well-formed.
THEOREM TypeCorrect == Spec => []TypeOK
<1>1. Init => TypeOK
  <2>1. IsPolicyFacts(Unavailable)
    BY DEF IsPolicyFacts, IsMemberList, Unavailable
  <2>2. \A e \in Listing : IsPolicyFacts([available |-> TRUE, members |-> e])
    BY ListingAssumption DEF IsPolicyFacts
  <2> QED
    BY <2>1, <2>2 DEF Init, TypeOK
<1>2. TypeOK /\ [Next]_vars => TypeOK'
  <2> SUFFICES ASSUME TypeOK, [Next]_vars
               PROVE  TypeOK'
    OBVIOUS
  <2>1. ASSUME NEW m \in Member, NEW s \in {"errors", "healthy"}, ApplyStatus(m, s)
        PROVE  TypeOK'
    <3> DEFINE e == etcd.members
    <3>1. /\ etcd = [available |-> etcd.available, members |-> e]
          /\ etcd.available \in BOOLEAN
          /\ DOMAIN e \subseteq Member /\ e \in [DOMAIN e -> MemberSnapshot]
          /\ m \in DOMAIN e
          /\ ~etcd.available => DOMAIN e = {}
      BY <2>1 DEF TypeOK, IsPolicyFacts, IsMemberList, ApplyStatus
    <3>2. etcd' = [available |-> etcd.available, members |-> [e EXCEPT ![m].status = s]]
      BY <2>1, <3>1 DEF ApplyStatus
    <3>3. [e[m] EXCEPT !.status = s] \in MemberSnapshot
      BY <3>1 DEF MemberSnapshot
    <3>4. [e EXCEPT ![m].status = s] \in [DOMAIN e -> MemberSnapshot]
      BY <3>1, <3>3
    <3> QED
      BY <2>1, <3>1, <3>2, <3>4 DEF TypeOK, IsPolicyFacts, IsMemberList, ApplyStatus
  <2>2. ASSUME NEW h \in Host \cup {NoHost}, SelectTarget(h)
        PROVE  TypeOK'
    BY <2>2 DEF SelectTarget, Resolves, TypeOK
  <2>3. CASE UNCHANGED vars
    BY <2>3 DEF TypeOK, vars
  <2> QED
    BY <2>1, <2>2, <2>3 DEF Next
<1> QED
  BY <1>1, <1>2, PTL DEF Spec

\* An ordinary node action is refused exactly when quorum is lost for certain.
THEOREM RefusalIsCertain == Spec => []RefusedIffCertain
<1>1. TypeOK => RefusedIffCertain
  <2> SUFFICES ASSUME TypeOK, Voters(etcd.members) # {}
               PROVE  QuorumBlocked(etcd, targets) <=>
                      \A R \in SUBSET Unread(etcd.members, targets) :
                          ~Majority(Survivors(R), Voters(etcd.members))
    BY DEF RefusedIffCertain
  <2> DEFINE e == etcd.members
             V == Voters(e)
  <2>1. IsPolicyFacts(etcd) /\ IsMemberList(e) /\ IsFiniteSet(V)
    BY VotersFinite DEF TypeOK, IsPolicyFacts
  <2>2. QuorumBlocked(etcd, targets) <=> ~Majority(Possible(e, targets), V)
    BY <2>1, QuorumGate
  <2>3. Survivors(Unread(e, targets)) = Possible(e, targets)
    <3>1. \A m \in V : e[m].status \in {"unread", "errors", "healthy"}
      BY <2>1 DEF IsMemberList, MemberSnapshot, Voters
    <3> QED
      BY <3>1 DEF Survivors, Possible, Unread, Healthy
  <2>4. ASSUME NEW R \in SUBSET Unread(e, targets), Majority(Survivors(R), V)
        PROVE  Majority(Possible(e, targets), V)
    <3>1. Survivors(R) \subseteq Possible(e, targets) /\ Possible(e, targets) \subseteq V
      BY <2>4 DEF Survivors, Possible, Unread, Healthy
    <3> QED
      BY <3>1, <2>1, <2>4, MajorityGrows
  <2> QED
    BY <2>2, <2>3, <2>4
<1> QED
  BY <1>1, TypeCorrect, PTL

\* A reset passes exactly when quorum survives for certain.
THEOREM ResetIsSafe == Spec => []ResetIffSafe
<1>1. TypeOK => ResetIffSafe
  <2> SUFFICES ASSUME TypeOK
               PROVE  ~ResetBlocked(etcd, targets) <=>
                      \A R \in SUBSET Unread(etcd.members, targets) :
                          Majority(Survivors(R), Voters(etcd.members))
    BY DEF ResetIffSafe
  <2> DEFINE e == etcd.members
             V == Voters(e)
  <2>1. IsPolicyFacts(etcd) /\ IsMemberList(e) /\ IsFiniteSet(V)
    BY VotersFinite DEF TypeOK, IsPolicyFacts
  <2>2. ~ResetBlocked(etcd, targets) <=> V # {} /\ Majority(Sure(e, targets), V)
    BY <2>1, ResetGate
  <2>3. Survivors({}) = Sure(e, targets)
    BY DEF Survivors, Sure
  <2>4. Majority(Sure(e, targets), V) => V # {}
    <3>1. Cardinality({}) = 0
      BY FS_EmptySet
    <3>2. V = {} => Sure(e, targets) = {}
      BY DEF Sure
    <3> QED
      BY <3>1, <3>2 DEF Majority
  <2>5. ASSUME NEW R \in SUBSET Unread(e, targets), Majority(Sure(e, targets), V)
        PROVE  Majority(Survivors(R), V)
    <3>1. Sure(e, targets) \subseteq Survivors(R) /\ Survivors(R) \subseteq V
      BY DEF Survivors, Sure
    <3> QED
      BY <3>1, <2>1, <2>5, MajorityGrows
  <2> QED
    BY <2>2, <2>3, <2>4, <2>5
<1> QED
  BY <1>1, TypeCorrect, PTL

\* A membership change that passes the gate leaves a healthy majority behind.
THEOREM ChangeIsSafe == Spec => []ChangeKeepsMajority
<1>1. TypeOK => ChangeKeepsMajority
  <2> DEFINE e == etcd.members
             V == Voters(e)
             others(id) == {m \in V \ {id} : Healthy(e, m)}
  <2> SUFFICES ASSUME TypeOK, NEW id \in DOMAIN e, NEW forced \in BOOLEAN,
                      ~MembershipBlocked(etcd, forced, id, NoHost)
               PROVE  /\ Majority(others(id), V)
                      /\ Majority(others(id), V \ {id})
                      /\ forced => ~Healthy(e, id)
    BY DEF ChangeKeepsMajority
  <2>1. IsPolicyFacts(etcd) /\ IsMemberList(e) /\ IsFiniteSet(V)
    BY VotersFinite DEF TypeOK, IsPolicyFacts
  <2>2. id # NoMember
    BY <2>1, PolicyAssumption DEF IsMemberList
  <2>3. id \in Resolve(e, id, NoHost)
    BY <2>2 DEF Resolve
  <2> DEFINE T == {MembershipTarget(e, id)}
  <2>4. /\ forced => ~Healthy(e, id)
        /\ Assess(etcd, T).known /\ ~BelowQuorum(Assess(etcd, T))
    BY <2>3 DEF MembershipBlocked
  <2>5. Majority(Sure(e, T), V)
    BY <2>1, <2>4, ResetGate
  <2>6. Sure(e, T) \subseteq others(id)
    BY DEF Sure, AtRisk, MatchesAny, MembershipTarget
  <2>7. Majority(others(id), V)
    <3>1. others(id) \subseteq V
      OBVIOUS
    <3> QED
      BY <2>1, <2>5, <2>6, <3>1, MajorityGrows
  <2>8. Majority(others(id), V \ {id})
    <3>1. /\ Cardinality(others(id)) \in Nat /\ Cardinality(V) \in Nat
          /\ Cardinality(V \ {id}) \in Nat /\ Cardinality(V \ {id}) <= Cardinality(V)
      <4>1. others(id) \subseteq V /\ V \ {id} \subseteq V
        OBVIOUS
      <4> QED
        BY <2>1, <4>1, SubsetCount
    <3>2. 2 * Cardinality(others(id)) > Cardinality(V)
      BY <2>7 DEF Majority
    <3> HIDE DEF others, V
    <3>3. 2 * Cardinality(others(id)) > Cardinality(V \ {id})
      BY <3>1, <3>2
    <3> QED
      BY <3>3 DEF Majority
  <2> QED
    BY <2>4, <2>7, <2>8
<1> QED
  BY <1>1, TypeCorrect, PTL

-----------------------------------------------------------------------------
(* What a step does to the gates *)

\* The gates follow the two sets of voters.
LEMMA GatesFollow ==
    ASSUME NEW e1, IsPolicyFacts(e1), NEW T1, NEW e2, IsPolicyFacts(e2), NEW T2,
           Voters(e1.members) = Voters(e2.members)
    PROVE  /\ Possible(e2.members, T2) \subseteq Possible(e1.members, T1)
              => (QuorumBlocked(e1, T1) => QuorumBlocked(e2, T2))
           /\ Sure(e2.members, T2) \subseteq Sure(e1.members, T1)
              => (ResetBlocked(e1, T1) => ResetBlocked(e2, T2))
<1> DEFINE V == Voters(e1.members)
<1>1. IsFiniteSet(V) /\ V = Voters(e2.members)
  BY VotersFinite DEF IsPolicyFacts
<1>2. Possible(e1.members, T1) \subseteq V /\ Sure(e1.members, T1) \subseteq V
  BY DEF Possible, Sure
<1>3. ASSUME Possible(e2.members, T2) \subseteq Possible(e1.members, T1), QuorumBlocked(e1, T1)
      PROVE  QuorumBlocked(e2, T2)
  <2>1. V # {} /\ ~Majority(Possible(e1.members, T1), V)
    BY <1>3, QuorumGate
  <2>2. ~Majority(Possible(e2.members, T2), V)
    BY <1>1, <1>2, <1>3, <2>1, MajorityGrows
  <2> QED
    BY <1>1, <2>1, <2>2, QuorumGate
<1>4. ASSUME Sure(e2.members, T2) \subseteq Sure(e1.members, T1), ResetBlocked(e1, T1)
      PROVE  ResetBlocked(e2, T2)
  <2>1. V = {} \/ ~Majority(Sure(e1.members, T1), V)
    BY <1>4, ResetGate
  <2>2. V = {} \/ ~Majority(Sure(e2.members, T2), V)
    BY <1>1, <1>2, <1>4, <2>1, MajorityGrows
  <2> QED
    BY <1>1, <2>2, ResetGate
<1> QED
  BY <1>3, <1>4

\* An answer leaves the voters and what names them alone.
LEMMA AnswerStep ==
    ASSUME TypeOK, NEW m \in Member, NEW s \in {"errors", "healthy"}, ApplyStatus(m, s)
    PROVE  /\ targets' = targets
           /\ Voters(etcd.members)' = Voters(etcd.members)
           /\ Possible(etcd.members, targets)' \subseteq Possible(etcd.members, targets)
           /\ Sure(etcd.members, targets) \subseteq Sure(etcd.members, targets)'
<1> DEFINE e == etcd.members
<1>1. /\ DOMAIN e \subseteq Member /\ e \in [DOMAIN e -> MemberSnapshot]
      /\ m \in DOMAIN e /\ e[m].status = "unread"
      /\ etcd' = [available |-> etcd.available, members |-> [e EXCEPT ![m] = [@ EXCEPT !.status = s]]]
      /\ targets' = targets
  <2>1. etcd = [available |-> etcd.available, members |-> etcd.members]
    BY DEF TypeOK, IsPolicyFacts
  <2> QED
    BY <2>1 DEF TypeOK, IsPolicyFacts, IsMemberList, ApplyStatus
<1>2. /\ DOMAIN e' = DOMAIN e
      /\ \A x \in DOMAIN e : /\ e'[x].host = e[x].host /\ e'[x].urls = e[x].urls
                             /\ e'[x].learner = e[x].learner
                             /\ x # m => e'[x].status = e[x].status
      /\ e'[m].status = s
  <2>1. e' = [e EXCEPT ![m] = [e[m] EXCEPT !.status = s]]
    BY <1>1
  <2>2. \A x \in DOMAIN e : e'[x] = IF x = m THEN [e[m] EXCEPT !.status = s] ELSE e[x]
    BY <2>1, <1>1
  <2>3. e[m] \in MemberSnapshot
    BY <1>1
  <2>4. [e[m] EXCEPT !.status = s] = [host |-> e[m].host, urls |-> e[m].urls, learner |-> e[m].learner,
                                      leader |-> e[m].leader, status |-> s]
    BY <2>3 DEF MemberSnapshot
  <2> QED
    BY <2>1, <2>2, <2>4, <1>1
<1>3. Voters(e)' = Voters(e)
  BY <1>2 DEF Voters
<1>4. AtRisk(e, targets)' = AtRisk(e, targets)
  BY <1>1, <1>2, <1>3 DEF AtRisk, MatchesAny, Voters
<1>5. Possible(e, targets)' \subseteq Possible(e, targets)
  BY <1>1, <1>2, <1>3, <1>4 DEF Possible, Voters
<1>6. Sure(e, targets) \subseteq Sure(e, targets)'
  BY <1>1, <1>2, <1>3, <1>4 DEF Sure, Healthy, Voters
<1> QED
  BY <1>1, <1>3, <1>5, <1>6

\* Selecting more never opens a gate, learning more only settles doubts.
THEOREM GatesAreMonotone == Spec => GatesMonotone
<1> DEFINE Step == /\ QuorumBlocked(etcd, targets) => QuorumBlocked(etcd, targets)'
                   /\ etcd' = etcd => (ResetBlocked(etcd, targets) => ResetBlocked(etcd, targets)')
                   /\ targets' = targets => (ResetBlocked(etcd, targets)' => ResetBlocked(etcd, targets))
<1>1. TypeOK /\ TypeOK' /\ [Next]_vars => [Step]_vars
  <2> SUFFICES ASSUME TypeOK, TypeOK', Next
               PROVE  Step
    OBVIOUS
  <2>1. IsPolicyFacts(etcd) /\ IsPolicyFacts(etcd')
    BY DEF TypeOK
  <2>2. ASSUME NEW m \in Member, NEW s \in {"errors", "healthy"}, ApplyStatus(m, s)
        PROVE  Step
    <3>1. /\ targets' = targets
          /\ Voters(etcd'.members) = Voters(etcd.members)
          /\ Possible(etcd'.members, targets') \subseteq Possible(etcd.members, targets)
          /\ Sure(etcd.members, targets) \subseteq Sure(etcd'.members, targets')
      BY <2>2, AnswerStep
    <3>2. QuorumBlocked(etcd, targets) => QuorumBlocked(etcd', targets')
      BY <2>1, <3>1, GatesFollow
    <3>3. ResetBlocked(etcd', targets') => ResetBlocked(etcd, targets)
      BY <2>1, <3>1, GatesFollow
    <3>4. etcd' # etcd
      BY <2>2 DEF ApplyStatus, TypeOK, IsPolicyFacts, IsMemberList, MemberSnapshot
    <3> QED
      BY <3>2, <3>3, <3>4
  <2>3. ASSUME NEW h \in Host \cup {NoHost}, SelectTarget(h)
        PROVE  Step
    <3>1. etcd' = etcd /\ targets' = targets \cup {h} /\ h \notin targets
      BY <2>3 DEF SelectTarget
    <3>2. AtRisk(etcd.members, targets) \subseteq AtRisk(etcd.members, targets')
      BY <3>1 DEF AtRisk, MatchesAny
    <3>3. /\ Possible(etcd.members, targets') \subseteq Possible(etcd.members, targets)
          /\ Sure(etcd.members, targets') \subseteq Sure(etcd.members, targets)
      BY <3>2 DEF Possible, Sure
    <3>4. /\ QuorumBlocked(etcd, targets) => QuorumBlocked(etcd, targets')
          /\ ResetBlocked(etcd, targets) => ResetBlocked(etcd, targets')
      BY <2>1, <3>3, GatesFollow
    <3> QED
      BY <3>1, <3>4
  <2> QED
    BY <2>2, <2>3 DEF Next
<1> QED
  BY <1>1, TypeCorrect, PTL DEF Spec, GatesMonotone

-----------------------------------------------------------------------------
(* An etcd action: the invariant *)

Target == [kind : Kind, node : Host \cup {NoHost}, id : Member \cup {NoMember},
           host : Host \cup {NoHost}]

WellTyped ==
    /\ membership \in [Member -> {"absent", "learner", "voter"}]
    /\ health \in [Member -> {"up", "ill"}]
    /\ inventory \in [Host -> {"absent", "control", "worker"}]
    /\ nodes \in [Host -> {"absent", "control", "worker"}]
    /\ request \in Target
    /\ pc # "idle" => request.node \in Host

\* The reads are behind it: what they found stands.
Settled == pc = "rpc" \/ rpc.sent

Phases ==
    /\ pc \in {"idle", "confirm"} => stage = "prepare"
    /\ stage \in {"prepare", "recheck", "again"}
    /\ rpc.sent => pc \in {"sent", "done"}
    /\ rpc.applied => rpc.sent
    /\ stage = "prepare" => pc \in {"idle", "nodes", "members", "confirm", "done"} /\ ~rpc.sent

\* A plan is canonical, an execution follows it, and the last read of a membership
\* change is one under a verified snapshot.
Follows ==
    /\ pc = "members" => NeedsMember
    /\ pc = "confirm" \/ stage # "prepare" => 
           (NeedsMember => request.id = prepared.member /\ request.id \in Member)
    /\ pc = "snapshot" \/ Settled => facts = prepared /\ ~facts.blocked
    /\ Destructive /\ pc = "snapshot" => facts.source # NoHost
    /\ Destructive /\ Settled => stage = "again"
    /\ stage = "again" => /\ Destructive
                          /\ facts = prepared
                          /\ snapshot = facts.source /\ snapshot # NoHost

VotersBut(gone) == {m \in Member : membership[m] = "voter"} \ gone
UpBut(gone) == {m \in VotersBut(gone) : health[m] = "up"}

\* The members an RPC to host h may take out.
Leaving(h) == IF request.kind = "remove" THEN {request.id}
              ELSE {m \in Member : HostOf[m] = h /\ membership[m] # "absent"}

\* A voter that is up and stays runs on host h.
Stays(h) == \E v \in Member \ {request.id} :
                HostOf[v] = h /\ membership[v] = "voter" /\ health[v] = "up"

\* While the cluster is as the last read found it.
Judged ==
    Settled /\ Destructive /\ quiet =>
        IF rpc.applied
        THEN Majority(UpBut({}), VotersBut({}))
        ELSE /\ Stays(facts.source)
             /\ \A m \in Leaving(facts.rpc) : Majority(UpBut({m}), VotersBut({m}))

\* The RPC went where the facts say.
Addressed == \/ rpc = NoRpc
             \/ rpc \in [sent : {TRUE}, applied : BOOLEAN, to : {facts.rpc}]

ActionInv == WellTyped /\ Phases /\ Follows /\ Judged /\ Addressed

-----------------------------------------------------------------------------
(* What a read sees *)

Below == {ss \in Nat \X Nat : ss[1] < ss[2]}

\* The first host of some is one of them.
LEMMA LeastIsIn ==
    ASSUME NEW S, S \subseteq Nat, S # {}
    PROVE  Least(S) \in S
<1>1. IsWellFoundedOn(Below, Nat)
  BY NatLessThanWellFounded DEF OpToRel, Below
<1>2. PICK x \in S : \A y \in S : <<y, x>> \notin Below
  BY <1>1, WFMin
<1>3. \A y \in S : x <= y
  <2> SUFFICES ASSUME NEW y \in S, y < x
               PROVE  FALSE
    OBVIOUS
  <2>1. <<y, x>> \in Below
    BY DEF Below
  <2> QED
    BY <1>2, <2>1
<1> QED
  BY <1>2, <1>3 DEF Least

\* A list of etcdReader.List shows the members as they are; a healthy one has answered.
LEMMA ListIsTrue ==
    ASSUME WellTyped, NEW e \in Lists
    PROVE  /\ IsMemberList(e)
           /\ DOMAIN e = {m \in Member : membership[m] # "absent"}
           /\ \A m \in DOMAIN e :
                  /\ e[m].host = HostOf[m] /\ HostOf[m] \in Host
                  /\ e[m].learner <=> membership[m] = "learner"
                  /\ Healthy(e, m) => health[m] = "up" /\ nodes[HostOf[m]] = "control"
<1> DEFINE present == {m \in Member : membership[m] # "absent"}
           asked == {m \in present : nodes[HostOf[m]] = "control"}
           status(m, silent) == IF m \notin asked \/ HostOf[m] \in silent THEN "unread"
                                ELSE IF health[m] = "up" THEN "healthy" ELSE "errors"
           list(silent, leader) ==
               [m \in present |-> [host |-> HostOf[m], urls |-> {},
                                  learner |-> membership[m] = "learner",
                                  leader |-> m = leader, status |-> status(m, silent)]]
           quiets == {S \in SUBSET {HostOf[m] : m \in asked} : Cardinality(S) <= MaxSilent}
           leaders == IF request.kind = "forfeit" THEN present ELSE {NoMember}
<1>1. PICK silent \in quiets, leader \in leaders : e = list(silent, leader)
  <2>1. Lists = {list(silent, leader) : silent \in quiets, leader \in leaders}
    BY DEF Lists
  <2> HIDE DEF list, quiets, leaders
  <2> QED
    BY <2>1
<1>2. \A m \in present : HostOf[m] \in Host
  BY ActionAssumption
<1>3. DOMAIN e = present /\ \A m \in present :
          /\ e[m] = [host |-> HostOf[m], urls |-> {}, learner |-> membership[m] = "learner",
                     leader |-> m = leader, status |-> status(m, silent)]
          /\ e[m] \in MemberSnapshot
  BY <1>1, <1>2 DEF MemberSnapshot
<1>4. e \in [DOMAIN e -> MemberSnapshot]
  BY <1>1, <1>3
<1>5. ASSUME NEW m \in present, Healthy(e, m)
      PROVE  health[m] = "up" /\ nodes[HostOf[m]] = "control"
  <2>1. e[m].status = status(m, silent)
    BY <1>1
  <2>2. status(m, silent) = "healthy"
    BY <1>5, <2>1 DEF Healthy
  <2> QED
    BY <2>2
<1>6. IsMemberList(e)
  BY <1>3, <1>4 DEF IsMemberList
<1>7. \A m \in present : e[m].host = HostOf[m] /\ (e[m].learner <=> membership[m] = "learner")
  BY <1>1
<1> HIDE DEF asked, status, list, quiets, leaders
<1> QED
  BY <1>2, <1>3, <1>5, <1>6, <1>7

\* A change that is not blocked leaves a majority of what stays, whichever member on
\* the host of m it takes out.
LEMMA ChangeLeavesMajority ==
    ASSUME WellTyped, NEW e \in Lists, NEW m \in DOMAIN e, NEW forced, NEW id, NEW host,
           Resolve(e, id, host) = {m},
           ~MembershipBlocked([available |-> TRUE, members |-> e], forced, id, host),
           NEW g \in DOMAIN e, HostOf[g] = HostOf[m]
    PROVE  /\ Majority(UpBut({g}), VotersBut({g}))
           /\ \E v \in Voters(e) : Healthy(e, v) /\ e[v].host # e[m].host
<1> DEFINE read == [available |-> TRUE, members |-> e]
           T == {MembershipTarget(e, m)}
           V == Voters(e)
<1>1. /\ IsMemberList(e)
      /\ DOMAIN e = {x \in Member : membership[x] # "absent"}
      /\ \A x \in DOMAIN e :
             /\ e[x].host = HostOf[x] /\ HostOf[x] \in Host
             /\ e[x].learner <=> membership[x] = "learner"
             /\ Healthy(e, x) => health[x] = "up"
  BY ListIsTrue
<1>2. T = {HostOf[m]}
  BY <1>1, PolicyAssumption DEF MembershipTarget
<1>3. IsPolicyFacts(read) /\ read.members = e
  BY <1>1 DEF IsPolicyFacts
<1>4. Assess(read, T).known /\ ~BelowQuorum(Assess(read, T))
  BY <1>3 DEF MembershipBlocked
<1>5. Majority(Sure(e, T), V)
  BY <1>3, <1>4, ResetGate
<1>6. V = VotersBut({})
  BY <1>1 DEF Voters, VotersBut, WellTyped
<1>7. \A v \in Sure(e, T) : v \in V /\ Healthy(e, v) /\ HostOf[v] # HostOf[m]
  BY <1>1, <1>2 DEF Sure, AtRisk, MatchesAny, Voters
<1>8. Sure(e, T) \subseteq UpBut({g})
  BY <1>1, <1>6, <1>7 DEF UpBut, VotersBut, Voters
<1>9. /\ UpBut({g}) \subseteq V /\ VotersBut({g}) \subseteq V
  BY <1>6 DEF UpBut, VotersBut
<1>10. IsFiniteSet(V)
  BY <1>1, VotersFinite
<1>11. /\ Cardinality(Sure(e, T)) \in Nat /\ Cardinality(UpBut({g})) \in Nat
       /\ Cardinality(VotersBut({g})) \in Nat /\ Cardinality(V) \in Nat
       /\ Cardinality(Sure(e, T)) <= Cardinality(UpBut({g}))
       /\ Cardinality(VotersBut({g})) <= Cardinality(V)
  <2>1. IsFiniteSet(UpBut({g}))
    BY <1>9, <1>10, SubsetCount
  <2> QED
    BY <1>8, <1>9, <1>10, <2>1, SubsetCount
<1>12. Majority(UpBut({g}), VotersBut({g}))
  BY <1>5, <1>11 DEF Majority
<1>13. Sure(e, T) # {}
  <2> SUFFICES ASSUME Sure(e, T) = {}
               PROVE  FALSE
    OBVIOUS
  <2>1. Cardinality(Sure(e, T)) = 0
    BY FS_EmptySet
  <2> QED
    BY <1>5, <1>11, <2>1 DEF Majority
<1>14. \E v \in V : Healthy(e, v) /\ HostOf[v] # HostOf[m]
  BY <1>7, <1>13
<1>15. \A v \in V : e[v].host = HostOf[v]
  BY <1>1 DEF Voters
<1> QED
  BY <1>1, <1>12, <1>14, <1>15

\* Where such a voter was seen, the snapshot comes from one.
LEMMA SourceStays ==
    ASSUME WellTyped, NEW e \in Lists, NEW m \in DOMAIN e, request.id = m,
           \E v \in Voters(e) : Healthy(e, v) /\ e[v].host # e[m].host
    PROVE  Stays(Source(e, m))
<1> DEFINE others == {v \in Voters(e) : /\ Healthy(e, v)
                                       /\ ~(request.id \in {NoMember, v} /\ e[v].host = e[m].host)}
           hosts == {e[v].host : v \in others}
<1>1. /\ DOMAIN e = {x \in Member : membership[x] # "absent"}
      /\ \A x \in DOMAIN e :
             /\ e[x].host = HostOf[x] /\ HostOf[x] \in Host
             /\ e[x].learner <=> membership[x] = "learner"
             /\ Healthy(e, x) => health[x] = "up" /\ nodes[HostOf[x]] = "control"
  BY ListIsTrue
<1>2. m \in Member /\ m # NoMember
  BY <1>1, PolicyAssumption
<1>3. \A v \in others : /\ v \in Member \ {request.id} /\ e[v].host = HostOf[v]
                        /\ membership[v] = "voter" /\ health[v] = "up"
                        /\ HostOf[v] \in ControlPlane
  BY <1>1, <1>2 DEF Voters, ControlPlane, WellTyped
<1>4. others # {}
  <2>1. PICK v \in Voters(e) : Healthy(e, v) /\ e[v].host # e[m].host
    OBVIOUS
  <2>2. v \in others
    BY <2>1
  <2> QED
    BY <2>2
<1>5. hosts # {} /\ hosts \subseteq ControlPlane /\ hosts \subseteq Nat
  <2>1. \A h \in hosts : h \in ControlPlane
    BY <1>3
  <2>2. ControlPlane \subseteq Nat
    BY PolicyAssumption DEF ControlPlane
  <2>3. hosts # {}
    BY <1>4
  <2> QED
    BY <2>1, <2>2, <2>3
<1>6. Least(hosts) \in hosts
  BY <1>5, LeastIsIn
<1>7. Source(e, m) = Least(hosts)
  BY <1>5, <1>6 DEF Source
<1> QED
  BY ZenonT(40), <1>3, <1>6, <1>7 DEF Stays

\* The facts of a node and of a member change, field by field.
LEMMA NodeFactsAre ==
    ASSUME NEW inv
    PROVE  /\ NodeFacts(inv).member = NoMember /\ ~NodeFacts(inv).blocked
           /\ NodeFacts(inv).rpc = request.node
BY DEF NodeFacts, NoFacts

\* The facts about a member name it and its host.
LEMMA MemberIsNamed ==
    ASSUME NEW e, NEW m
    PROVE  /\ MemberFacts(e, m).member = m
           /\ MemberFacts(e, m).host = e[m].host
BY DEF MemberFacts, NodeFacts, NoFacts

\* What is established about a member before it is removed or told to leave.
LEMMA ChangeFactsAre ==
    ASSUME NEW e, NEW m, Destructive
    PROVE  /\ MemberFacts(e, m).source = Source(e, m)
           /\ MemberFacts(e, m).rpc = Gateway(e, m)
           /\ MemberFacts(e, m).blocked =
                  MembershipBlocked([available |-> TRUE, members |-> e], request.kind = "remove",
                                    request.id, request.host)
BY DEF MemberFacts, NodeFacts, NoFacts, Destructive

\* A membership change that a read lets pass leaves a majority.
LEMMA ReadJudges ==
    ASSUME WellTyped, Destructive, NEW e \in Lists, NEW m \in DOMAIN e, MemberAccepted(e, m),
           request.id = m, ~MemberFacts(e, m).blocked
    PROVE  /\ Stays(MemberFacts(e, m).source)
           /\ \A g \in Leaving(MemberFacts(e, m).rpc) : Majority(UpBut({g}), VotersBut({g}))
<1>1. /\ DOMAIN e = {x \in Member : membership[x] # "absent"}
      /\ \A x \in DOMAIN e : e[x].host = HostOf[x]
  BY ListIsTrue
<1>2. /\ Resolve(e, request.id, request.host) = {m}
      /\ ~MembershipBlocked([available |-> TRUE, members |-> e], request.kind = "remove",
                            request.id, request.host)
  BY ChangeFactsAre DEF MemberAccepted
<1>3. \A g \in DOMAIN e : HostOf[g] = HostOf[m] =>
          /\ Majority(UpBut({g}), VotersBut({g}))
          /\ \E v \in Voters(e) : Healthy(e, v) /\ e[v].host # e[m].host
  BY <1>2, ChangeLeavesMajority
<1>4. Stays(MemberFacts(e, m).source)
  BY <1>3, SourceStays, ChangeFactsAre
<1>5. ASSUME NEW g \in Leaving(MemberFacts(e, m).rpc)
      PROVE  g \in DOMAIN e /\ HostOf[g] = HostOf[m]
  <2>1. CASE request.kind = "remove"
    BY <1>5, <2>1 DEF Leaving
  <2>2. CASE request.kind # "remove"
    <3>1. MemberFacts(e, m).rpc = HostOf[m]
      <4>1. MemberFacts(e, m).rpc = Gateway(e, m)
        BY ChangeFactsAre
      <4>2. Gateway(e, m) = e[m].host
        BY <2>2 DEF Gateway
      <4> QED
        BY <1>1, <4>1, <4>2
    <3> QED
      BY <1>1, <1>5, <2>2, <3>1 DEF Leaving
  <2> QED
    BY <2>1, <2>2
<1> QED
  BY <1>3, <1>4, <1>5

-----------------------------------------------------------------------------
(* Every step of an action preserves the invariant *)

\* The variables keep their types.
LEMMA TypeStep ==
    ASSUME WellTyped, Phases, [ActionNext]_actionVars
    PROVE  WellTyped'
<1>0. \A e \in Lists : \A m \in DOMAIN e : m \in Member /\ e[m].host \in Host
  BY ZenonT(40), ListIsTrue
<1> USE DEF WellTyped
<1>1. ASSUME NEW r \in Request, Prepare(r)
      PROVE  WellTyped'
  BY <1>1, ActionAssumption DEF Prepare, Target, cluster
<1>2. ASSUME NEW f, Conclude(f), f.member \in Member \cup {NoMember},
             f.member # NoMember => f.host \in Host
      PROVE  request' \in Target /\ request'.node = request.node
  BY ZenonT(40), <1>2 DEF Conclude, Canonical, Target, Return, Proceed
<1>3. CASE ReadNodes
  <2>1. request' \in Target /\ (request' # request => request'.node = request.node)
    BY <1>2, <1>3, NodeFactsAre DEF ReadNodes, Return
  <2> QED
    BY <1>3, <2>1 DEF ReadNodes, cluster
<1>4. CASE ReadMembers
  <2>1. request' \in Target /\ (request' # request => request'.node = request.node)
    <3>1. PICK e \in Lists :
              IF FactsFrom(e) = {} THEN Return("changed") /\ UNCHANGED <<prepared, facts, request>>
              ELSE \E f \in FactsFrom(e) : Conclude(f)
      BY <1>4 DEF ReadMembers
    <3>2. CASE FactsFrom(e) = {}
      BY <3>1, <3>2
    <3>3. CASE FactsFrom(e) # {}
      <4>1. PICK m \in DOMAIN e : Conclude(MemberFacts(e, m))
        BY <3>1, <3>3 DEF FactsFrom
      <4>2. m \in Member /\ e[m].host \in Host
        BY <1>0
      <4> QED
        BY <1>2, <4>1, <4>2, MemberIsNamed
    <3> QED
      BY <3>2, <3>3
  <2> QED
    BY <1>4, <2>1 DEF ReadMembers, cluster
<1>5. CASE Confirm \/ ReadFails \/ StopCanceled \/ SendRpc \/ Cancel
  BY <1>5 DEF Confirm, ReadFails, StopCanceled, SendRpc, Cancel, Return, cluster, Phases
<1>6. ASSUME NEW valid \in BOOLEAN, TakeSnapshot(valid)
      PROVE  WellTyped'
  BY <1>6 DEF TakeSnapshot, cluster
<1>7. ASSUME NEW o \in {"accepted", "unconfirmed"}, RpcReturns(o)
      PROVE  WellTyped'
  BY <1>7 DEF RpcReturns, cluster
<1>8. CASE Apply
  BY <1>8 DEF Apply
<1>9. CASE Others
  BY <1>9 DEF Others
<1>10. CASE UNCHANGED actionVars
  BY <1>10 DEF actionVars, cluster
<1> QED
  BY <1>1, <1>3, <1>4, <1>5, <1>6, <1>7, <1>8, <1>9, <1>10 DEF ActionNext, ActionStep

\* Nothing is sent in the course of a preparation, and nothing is read once it is sent.
LEMMA PhaseStep ==
    ASSUME Phases, [ActionNext]_actionVars
    PROVE  Phases'
<1> USE DEF Phases
<1>1. ASSUME NEW r \in Request, Prepare(r)
      PROVE  Phases'
  BY <1>1 DEF Prepare
<1>2. ASSUME NEW f, Conclude(f), pc \in {"nodes", "members"}, UNCHANGED <<stage, rpc>>
      PROVE  Phases'
  BY <1>2 DEF Conclude, Return, Proceed
<1>3. CASE ReadNodes
  BY <1>2, <1>3 DEF ReadNodes, Return
<1>4. CASE ReadMembers
  BY <1>2, <1>4 DEF ReadMembers, Return
<1>5. CASE Confirm \/ ReadFails \/ StopCanceled \/ SendRpc \/ Cancel
  BY <1>5 DEF Confirm, ReadFails, StopCanceled, SendRpc, Cancel, Return
<1>6. ASSUME NEW valid \in BOOLEAN, TakeSnapshot(valid)
      PROVE  Phases'
  BY <1>6 DEF TakeSnapshot, Return
<1>7. ASSUME NEW o \in {"accepted", "unconfirmed"}, RpcReturns(o)
      PROVE  Phases'
  BY <1>7 DEF RpcReturns, Return
<1>8. CASE Apply
  BY <1>8 DEF Apply
<1>9. CASE Others \/ UNCHANGED actionVars
  BY <1>9 DEF Others, actionVars
<1> QED
  BY <1>1, <1>3, <1>4, <1>5, <1>6, <1>7, <1>8, <1>9 DEF ActionNext, ActionStep

\* What a read concludes follows the plan.
LEMMA ConcludeFollows ==
    ASSUME WellTyped, Phases, Follows, pc \in {"nodes", "members"}, UNCHANGED <<stage, snapshot, rpc>>,
           NEW f, Conclude(f),
           IF NeedsMember THEN f.member \in Member ELSE f.member = NoMember,
           Destructive => f.source # NoHost
    PROVE  Follows'
<1>1. ~rpc.sent /\ stage \in {"prepare", "recheck", "again"}
  BY DEF Phases
<1>2. CASE stage = "prepare"
  <2>1. /\ prepared' = f /\ request' = Canonical(f) /\ pc' = "confirm"
    BY <1>2 DEF Conclude
  <2>2. NeedsMember' => request'.id = f.member /\ request'.id \in Member
    <3>1. CASE NeedsMember
      <4>1. request' = [request EXCEPT !.id = f.member, !.host = f.host]
        BY <2>1, <3>1, PolicyAssumption DEF Canonical
      <4> QED
        BY <3>1, <4>1 DEF WellTyped, Target
    <3>2. CASE ~NeedsMember
      <4>1. request' = request
        BY <2>1, <3>2 DEF Canonical
      <4> QED
        BY <3>2, <4>1 DEF NeedsMember
    <3> QED
      BY <3>1, <3>2
  <2> QED
    BY <1>1, <1>2, <2>1, <2>2 DEF Follows, Settled
<1>3. CASE stage # "prepare" /\ (f.blocked \/ ~Same(f))
  <2>1. UNCHANGED <<prepared, request, facts, stage, snapshot, rpc>> /\ pc' = "done"
    BY <1>3 DEF Conclude, Return
  <2> QED
    BY <1>1, <1>3, <2>1 DEF Follows, Settled, Destructive, NeedsMember
<1>4. CASE stage # "prepare" /\ ~f.blocked /\ Same(f)
  <2>1. UNCHANGED <<prepared, request, stage, snapshot, rpc>> /\ facts' = f /\ Proceed
    BY <1>4 DEF Conclude
  <2>2. f = prepared /\ (stage = "again" => f = facts)
    BY <1>1, <1>4 DEF Same, Follows
  <2> QED
    BY <1>1, <1>4, <2>1, <2>2 DEF Follows, Settled, Destructive, NeedsMember, Proceed
<1> QED
  BY <1>2, <1>3, <1>4

\* So does everything else.
LEMMA FollowsStep ==
    ASSUME WellTyped, Phases, Follows, [ActionNext]_actionVars
    PROVE  Follows'
<1>1. ASSUME NEW r \in Request, Prepare(r)
      PROVE  Follows'
  BY <1>1 DEF Prepare, Phases, Follows, Settled
<1>2. CASE ReadNodes
  <2>1. CASE NodeAccepted(inventory) /\ ~NeedsMember
    <3>1. ~Destructive
      BY <2>1 DEF NeedsMember, Destructive
    <3> QED
      BY <1>2, <2>1, <3>1, ConcludeFollows, NodeFactsAre DEF ReadNodes
  <2>2. CASE ~NodeAccepted(inventory) \/ NeedsMember
    BY <1>2, <2>2 DEF ReadNodes, Return, Phases, Follows, Settled, Destructive, NeedsMember
  <2> QED
    BY <2>1, <2>2
<1>3. CASE ReadMembers
  <2>1. PICK e \in Lists :
            IF FactsFrom(e) = {} THEN Return("changed") /\ UNCHANGED <<prepared, facts, request>>
            ELSE \E f \in FactsFrom(e) : Conclude(f)
    BY <1>3 DEF ReadMembers
  <2>2. CASE FactsFrom(e) = {}
    BY <1>3, <2>1, <2>2 DEF ReadMembers, Return, Phases, Follows, Settled, Destructive, NeedsMember
  <2>3. CASE FactsFrom(e) # {}
    <3> DEFINE read == {x \in DOMAIN e : /\ MemberAccepted(e, x)
                                         /\ Destructive => Source(e, x) # NoHost}
    <3>1. PICK m \in read : Conclude(MemberFacts(e, m))
      BY <2>1, <2>3 DEF FactsFrom
    <3>2. m \in DOMAIN e /\ m \in Member
      BY ZenonT(40), ListIsTrue
    <3>3. NeedsMember
      BY <1>3 DEF ReadMembers, Follows
    <3>4. ASSUME Destructive
          PROVE  MemberFacts(e, m).source # NoHost
      <4>1. Source(e, m) # NoHost
        BY <3>4
      <4>2. MemberFacts(e, m).source = Source(e, m)
        BY <3>4, ChangeFactsAre
      <4> QED
        BY <4>1, <4>2
    <3>5. pc \in {"nodes", "members"} /\ UNCHANGED <<stage, snapshot, rpc>>
      BY <1>3 DEF ReadMembers
    <3>6. MemberFacts(e, m).member = m
      BY MemberIsNamed
    <3> DEFINE f == MemberFacts(e, m)
    <3>7. /\ Conclude(f)
          /\ IF NeedsMember THEN f.member \in Member ELSE f.member = NoMember
      BY <3>1, <3>2, <3>3, <3>6
    <3>8. Destructive => f.source # NoHost
      BY <3>4
    <3> HIDE DEF f
    <3> QED
      BY <3>5, <3>7, <3>8, ConcludeFollows
  <2> QED
    BY <2>2, <2>3
<1>4. CASE Confirm \/ ReadFails \/ StopCanceled \/ SendRpc \/ Cancel
  BY <1>4 DEF Confirm, ReadFails, StopCanceled, SendRpc, Cancel, Return, Phases, Follows, Settled,
              Destructive, NeedsMember
<1>5. ASSUME NEW valid \in BOOLEAN, TakeSnapshot(valid)
      PROVE  Follows'
  BY <1>5 DEF TakeSnapshot, Verified, Return, Phases, Follows, Settled, Destructive, NeedsMember
<1>6. ASSUME NEW o \in {"accepted", "unconfirmed"}, RpcReturns(o)
      PROVE  Follows'
  BY <1>6 DEF RpcReturns, Return, Phases, Follows, Settled, Destructive, NeedsMember
<1>7. CASE Apply
  BY <1>7 DEF Apply, Follows, Settled, Destructive, NeedsMember
<1>8. CASE Others \/ UNCHANGED actionVars
  BY <1>8 DEF Others, actionVars, Follows, Settled, Destructive, NeedsMember
<1> QED
  BY <1>1, <1>2, <1>3, <1>4, <1>5, <1>6, <1>7, <1>8 DEF ActionNext, ActionStep

\* The cluster stays as it was judged where nobody touches it.
LEMMA JudgedFrame ==
    ASSUME Judged, UNCHANGED <<membership, health, request, facts>>,
           quiet' => quiet, rpc.applied' <=> rpc.applied, Settled' => Settled
    PROVE  Judged'
<1>1. \A gone : VotersBut(gone)' = VotersBut(gone)
  BY DEF VotersBut
<1>2. \A gone : UpBut(gone)' = UpBut(gone)
  BY <1>1 DEF UpBut
<1>3. \A h : (Leaving(h)' = Leaving(h)) /\ (Stays(h)' <=> Stays(h))
  BY DEF Leaving, Stays
<1> QED
  BY <1>1, <1>2, <1>3 DEF Judged, Destructive, Majority

\* A membership change is judged by its last read.
LEMMA ConcludeJudges ==
    ASSUME WellTyped, Phases, Follows, ReadMembers
    PROVE  Judged'
<1>1. SUFFICES ASSUME Settled', Destructive', quiet'
               PROVE  /\ ~rpc.applied'
                      /\ Stays(facts.source)'
                      /\ \A g \in Leaving(facts.rpc)' : Majority(UpBut({g}), VotersBut({g}))'
  BY DEF Judged
<1>2. ~rpc.sent /\ ~rpc.applied /\ UNCHANGED <<membership, health, rpc, stage>> /\ pc' = "rpc"
  BY <1>1 DEF ReadMembers, Phases, Settled, cluster
<1>3. PICK e \in Lists :
          IF FactsFrom(e) = {} THEN Return("changed") /\ UNCHANGED <<prepared, facts, request>>
          ELSE \E f \in FactsFrom(e) : Conclude(f)
  BY DEF ReadMembers
<1>4. PICK m \in {x \in DOMAIN e : /\ MemberAccepted(e, x)
                                   /\ Destructive => Source(e, x) # NoHost} :
          Conclude(MemberFacts(e, m))
  BY <1>2, <1>3 DEF FactsFrom, Return
<1>5. m \in DOMAIN e /\ m \in Member /\ MemberAccepted(e, m)
  BY ZenonT(40), ListIsTrue
<1> DEFINE f == MemberFacts(e, m)
<1>6. Conclude(f) /\ f.member = m
  BY <1>4, MemberIsNamed
<1> HIDE DEF f
<1>7. /\ stage # "prepare" /\ ~f.blocked /\ Same(f)
      /\ facts' = f /\ UNCHANGED <<prepared, request>>
      /\ request.kind # "snapshot" /\ stage # "recheck"
  BY <1>1, <1>2, <1>6 DEF Conclude, Return, Proceed, Destructive
<1>8. Destructive /\ NeedsMember
  BY <1>1, <1>7 DEF Destructive, NeedsMember
<1>9. stage = "again" /\ f = prepared /\ request.id = m
  BY <1>6, <1>7, <1>8 DEF Phases, Follows, Same
<1>10. /\ Stays(f.source)
       /\ \A g \in Leaving(f.rpc) : Majority(UpBut({g}), VotersBut({g}))
  BY <1>5, <1>7, <1>8, <1>9, ReadJudges DEF f
<1>11. \A gone : VotersBut(gone)' = VotersBut(gone)
  BY <1>2 DEF VotersBut
<1>12. \A gone : UpBut(gone)' = UpBut(gone)
  BY <1>2, <1>11 DEF UpBut
<1>13. \A h : (Leaving(h)' = Leaving(h)) /\ (Stays(h)' <=> Stays(h))
  BY <1>2, <1>7 DEF Leaving, Stays
<1> QED
  BY <1>2, <1>7, <1>10, <1>11, <1>12, <1>13 DEF Majority

\* A call that was sent went to the node of the facts it was confirmed on.
LEMMA SentTo ==
    ASSUME Addressed, rpc.sent
    PROVE  /\ rpc \in [sent : {TRUE}, applied : BOOLEAN, to : {facts.rpc}]
           /\ rpc.to = facts.rpc
<1>1. ~NoRpc.sent
  BY DEF NoRpc
<1>2. rpc # NoRpc
  BY <1>1
<1>3. rpc \in [sent : {TRUE}, applied : BOOLEAN, to : {facts.rpc}]
  BY <1>2 DEF Addressed
<1> QED
  BY <1>3

\* The change takes one member out, and leaves what was judged.
LEMMA ApplyJudges ==
    ASSUME WellTyped, Judged, Addressed, Apply
    PROVE  Judged'
<1>1. SUFFICES ASSUME Settled', Destructive', quiet'
               PROVE  rpc.applied' /\ Majority(UpBut({}), VotersBut({}))'
  BY DEF Judged
<1>2. /\ rpc.sent /\ ~rpc.applied /\ rpc'.applied
      /\ UNCHANGED <<health, request, facts, quiet, pc>>
  BY SentTo DEF Apply
<1>3. Destructive /\ quiet /\ Settled
  BY <1>1, <1>2 DEF Destructive, Settled
<1>4. PICK m \in Departing : membership' = [membership EXCEPT ![m] = "absent"]
  BY <1>3 DEF Apply
<1>5. m \in Leaving(facts.rpc)
  <2>1. rpc.to = facts.rpc
    BY <1>2, SentTo
  <2> QED
    BY <1>4, <2>1 DEF Departing, Leaving
<1>6. Majority(UpBut({m}), VotersBut({m}))
  BY <1>2, <1>3, <1>5 DEF Judged
<1>7. VotersBut({})' = VotersBut({m})
  BY <1>4 DEF VotersBut, WellTyped
<1>8. UpBut({})' = UpBut({m})
  BY <1>2, <1>7 DEF UpBut
<1> QED
  BY <1>2, <1>6, <1>7, <1>8 DEF Majority

\* What was judged stays so, until someone else touches the cluster.
LEMMA JudgedStep ==
    ASSUME WellTyped, Phases, Follows, Judged, Addressed, [ActionNext]_actionVars
    PROVE  Judged'
<1>1. ASSUME NEW r \in Request, Prepare(r)
      PROVE  Judged'
  <2>1. ~Settled'
    BY <1>1 DEF Prepare, Phases, Settled
  <2> QED
    BY <2>1 DEF Judged
<1>2. CASE ReadNodes
  <2>1. CASE NodeAccepted(inventory) /\ ~NeedsMember
    <3>1. ~Settled' \/ ~Destructive'
      <4>1. Conclude(NodeFacts(inventory)) /\ pc = "nodes" /\ UNCHANGED rpc
        BY <1>2, <2>1 DEF ReadNodes
      <4>2. ~Destructive
        BY <2>1 DEF NeedsMember, Destructive
      <4>3. UNCHANGED request
        BY <4>1, NodeFactsAre DEF Conclude, Canonical
      <4> QED
        BY <4>2, <4>3 DEF Destructive
    <3> QED
      BY <3>1 DEF Judged
  <2>2. CASE ~NodeAccepted(inventory) \/ NeedsMember
    <3>1. ~Settled'
      BY <1>2, <2>2 DEF ReadNodes, Return, Phases, Settled
    <3> QED
      BY <3>1 DEF Judged
  <2> QED
    BY <2>1, <2>2
<1>3. CASE ReadMembers
  BY <1>3, ConcludeJudges
<1>4. CASE ReadFails \/ StopCanceled \/ Confirm \/ Cancel
  <2>1. Settled' => Settled
    BY <1>4 DEF ReadFails, StopCanceled, Confirm, Cancel, Return, Phases, Settled
  <2> QED
    BY <1>4, <2>1, JudgedFrame DEF ReadFails, StopCanceled, Confirm, Cancel, cluster
<1>5. ASSUME NEW valid \in BOOLEAN, TakeSnapshot(valid)
      PROVE  Judged'
  <2>1. ~Settled'
    BY <1>5 DEF TakeSnapshot, Return, Phases, Settled
  <2> QED
    BY <2>1 DEF Judged
<1>6. CASE SendRpc
  <2>1. Settled /\ ~rpc.applied /\ ~rpc'.applied
    BY <1>6 DEF SendRpc, Settled, Phases
  <2> QED
    BY <1>6, <2>1, JudgedFrame DEF SendRpc, cluster
<1>7. ASSUME NEW o \in {"accepted", "unconfirmed"}, RpcReturns(o)
      PROVE  Judged'
  <2>1. Settled' => Settled
    BY <1>7 DEF RpcReturns, Return, Settled
  <2> QED
    BY <1>7, <2>1, JudgedFrame DEF RpcReturns, cluster
<1>8. CASE Apply
  BY <1>8, ApplyJudges
<1>9. CASE Others
  BY <1>9 DEF Others, Judged
<1>10. CASE UNCHANGED actionVars
  BY <1>10, JudgedFrame DEF actionVars, cluster, Settled
<1> QED
  BY <1>1, <1>2, <1>3, <1>4, <1>5, <1>6, <1>7, <1>8, <1>9, <1>10 DEF ActionNext, ActionStep

\* The RPC went where the facts say, which no later step changes.
LEMMA AddressedStep ==
    ASSUME Phases, Addressed, [ActionNext]_actionVars
    PROVE  Addressed'
<1>1. CASE ReadNodes \/ ReadMembers
  <2>1. rpc = NoRpc
    BY <1>1 DEF ReadNodes, ReadMembers, Phases, Addressed
  <2> QED
    BY <1>1, <2>1 DEF ReadNodes, ReadMembers, Addressed, NoRpc
<1>2. CASE SendRpc
  BY <1>2 DEF SendRpc, Addressed
<1>3. CASE Apply
  <2>1. rpc \in [sent : {TRUE}, applied : BOOLEAN, to : {facts.rpc}]
    BY <1>3, SentTo DEF Apply
  <2>2. rpc' = [rpc EXCEPT !.applied = TRUE] /\ facts' = facts
    BY <1>3 DEF Apply
  <2>3. rpc' \in [sent : {TRUE}, applied : BOOLEAN, to : {facts'.rpc}]
    BY <2>1, <2>2
  <2> QED
    BY <2>3 DEF Addressed
<1>4. CASE UNCHANGED <<rpc, facts>>
  BY <1>4 DEF Addressed, NoRpc
<1>5. ASSUME NEW r \in Request, Prepare(r)
      PROVE  UNCHANGED <<rpc, facts>>
  BY <1>5 DEF Prepare
<1>6. ASSUME NEW valid \in BOOLEAN, TakeSnapshot(valid)
      PROVE  UNCHANGED <<rpc, facts>>
  BY <1>6 DEF TakeSnapshot
<1>7. ASSUME NEW o \in {"accepted", "unconfirmed"}, RpcReturns(o)
      PROVE  UNCHANGED <<rpc, facts>>
  BY <1>7 DEF RpcReturns
<1>8. ASSUME ReadFails \/ StopCanceled \/ Confirm \/ Cancel \/ Others \/ UNCHANGED actionVars
      PROVE  UNCHANGED <<rpc, facts>>
  BY <1>8 DEF ReadFails, StopCanceled, Confirm, Cancel, Others, actionVars
<1> QED
  BY <1>1, <1>2, <1>3, <1>4, <1>5, <1>6, <1>7, <1>8 DEF ActionNext, ActionStep

-----------------------------------------------------------------------------
(* The theorems about an action *)

\* The invariant holds of every reachable state: every action keeps every part of it,
\* for any members, any registration of them and any number of changes by others.
THEOREM Inductive == ActionSpec => []ActionInv
<1>1. ActionInit => ActionInv
  <2> SUFFICES ASSUME ActionInit
               PROVE  ActionInv
    OBVIOUS
  <2> USE DEF ActionInit
  <2>1. WellTyped
    BY ActionAssumption DEF WellTyped, NoRequest, Target, Kind
  <2>2. Phases /\ Follows /\ Judged /\ Addressed
    BY DEF Phases, Follows, Judged, Addressed, Settled, NoRpc, NoRequest, Destructive
  <2> QED
    BY <2>1, <2>2 DEF ActionInv
<1>2. ActionInv /\ [ActionNext]_actionVars => ActionInv'
  BY TypeStep, PhaseStep, FollowsStep, JudgedStep, AddressedStep DEF ActionInv
<1> QED
  BY <1>1, <1>2, PTL DEF ActionSpec

\* What goes out is what the operator confirmed, after a verified snapshot taken from a
\* healthy voter that stays: for any members and hosts, also a host registered twice.
THEOREM ConfirmedIsSent == ActionSpec => []ConfirmedIsCurrent
<1>1. ActionInv => ConfirmedIsCurrent
  <2> SUFFICES ASSUME ActionInv, rpc.sent
               PROVE  ConfirmedIsCurrent
    BY DEF ConfirmedIsCurrent
  <2>1. Settled /\ stage # "prepare"
    BY DEF ActionInv, Settled, Phases
  <2>2. /\ facts = prepared /\ ~facts.blocked
        /\ NeedsMember => request.id = prepared.member
    BY <2>1 DEF ActionInv, Follows
  <2>3. ASSUME ~rpc.applied, Destructive
        PROVE  /\ snapshot = facts.source /\ snapshot # NoHost
               /\ quiet => Stays(snapshot)
    <3>1. snapshot = facts.source /\ snapshot # NoHost
      BY <2>1, <2>3 DEF ActionInv, Follows
    <3>2. quiet => Stays(facts.source)
      BY <2>1, <2>3 DEF ActionInv, Judged
    <3> QED
      BY <3>1, <3>2
  <2> QED
    BY <2>2, <2>3 DEF ConfirmedIsCurrent, Stays
<1> QED
  BY <1>1, Inductive, PTL

\* If nobody else touches the cluster after the last read began, the members that are up
\* are a majority of what the change leaves, whichever member on the host it takes out:
\* the gate of MembershipBlocked in any cluster, of any size.
THEOREM ChangeKeepsQuorum == ActionSpec => []SafeChange
<1>1. ActionInv => SafeChange
  <2> SUFFICES ASSUME ActionInv, rpc.sent, Destructive, quiet,
                      NEW gone \in IF rpc.applied THEN {{}} ELSE {{m} : m \in Departing}
               PROVE  2 * Cardinality(UpBut(gone)) > Cardinality(VotersBut(gone))
    BY DEF SafeChange, UpBut, VotersBut
  <2>1. Settled
    BY DEF Settled
  <2>2. CASE rpc.applied
    BY <2>1, <2>2 DEF ActionInv, Judged, Majority
  <2>3. CASE ~rpc.applied
    <3>1. PICK m \in Departing : gone = {m}
      BY <2>3
    <3>2. rpc.to = facts.rpc
      BY SentTo DEF ActionInv
    <3>3. m \in Leaving(facts.rpc)
      BY <3>1, <3>2 DEF Departing, Leaving
    <3> QED
      BY <2>1, <2>3, <3>1, <3>3 DEF ActionInv, Judged, Majority
  <2> QED
    BY <2>2, <2>3
<1> QED
  BY <1>1, Inductive, PTL
=============================================================================
