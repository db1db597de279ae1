----------------------------- MODULE EtcdPolicy -----------------------------
(***************************************************************************)
(* The quorum policy of internal/application/action_policy.go: what an     *)
(* observation of the etcd members says about touching some of them.  Pure *)
(* definitions, used by the modules that read observations and act.        *)
(*                                                                         *)
(* An observation is a function from member IDs to what one read found.    *)
(***************************************************************************)
EXTENDS Naturals, FiniteSets

CONSTANTS Member,   \* etcd member IDs
          Host,     \* identities of nodes: names and addresses, ordered
          NoMember, \* the zero MemberID of a request
          NoHost    \* the empty hostname

ASSUME PolicyAssumption ==
    /\ IsFiniteSet(Member)
    /\ Host \subseteq Nat
    /\ NoMember \notin Member
    /\ NoHost \notin Host

\* "unread": StatusKnown is false.  "urls": the hosts of the client and peer URLs.
MemberSnapshot == [host    : Host \cup {NoHost},
                   urls    : SUBSET Host,
                   learner : BOOLEAN,
                   leader  : BOOLEAN,
                   status  : {"unread", "errors", "healthy"}]

\* Lists of members, and EtcdPolicyFacts.
IsMemberList(e) == DOMAIN e \subseteq Member /\ e \in [DOMAIN e -> MemberSnapshot]

IsPolicyFacts(etcd) ==
    /\ etcd = [available |-> etcd.available, members |-> etcd.members]
    /\ etcd.available \in BOOLEAN
    /\ IsMemberList(etcd.members)
    /\ ~etcd.available => DOMAIN etcd.members = {}

Unavailable == [available |-> FALSE, members |-> [m \in {} |-> NoHost]]

-----------------------------------------------------------------------------
(* Members *)

Voters(e) == {m \in DOMAIN e : ~e[m].learner}

Healthy(e, m) == e[m].status = "healthy"

\* memberMatchesAnyTarget.  A target may also be a member ID in digits.
MatchesAny(e, m, targets) ==
    \E t \in targets : t = e[m].host \/ t = m \/ t \in e[m].urls

\* resolveEtcdMember: the members that agree with every identity part supplied.
\* One is required.
Resolve(e, id, host) ==
    {m \in DOMAIN e : /\ id # NoMember \/ host # NoHost
                      /\ id \in {NoMember, m}
                      /\ host \in {NoHost, e[m].host}}

\* membershipTargetForMember.
MembershipTarget(e, m) == IF e[m].host # NoHost THEN e[m].host ELSE m

-----------------------------------------------------------------------------
(* Quorum *)

AtRisk(e, targets)  == {m \in Voters(e) : MatchesAny(e, m, targets)}
Failing(e, targets) == {m \in Voters(e) \ AtRisk(e, targets) : e[m].status = "errors"}
Unread(e, targets)  == {m \in Voters(e) \ AtRisk(e, targets) : e[m].status = "unread"}

\* etcdQuorumAssessment; its reason is left out.
QuorumAssessment == [known : BOOLEAN, voters : Nat, remaining : Nat, confirmed : Nat, floor : Nat]

UnknownQuorum == [known |-> FALSE, voters |-> 0, remaining |-> 0, confirmed |-> 0, floor |-> 0]

KnownQuorum(e, remaining, confirmed, floor) ==
    [known |-> TRUE, voters |-> Cardinality(Voters(e)), remaining |-> remaining,
     confirmed |-> confirmed, floor |-> floor]

\* Mutants of Assess: half of the voters suffice; only the targets are lost.
AssessHalf(etcd, targets) ==
    LET e == etcd.members
        touched == Cardinality(AtRisk(e, targets)) + Cardinality(Failing(e, targets))
        voters == Cardinality(Voters(e))
    IN IF ~etcd.available \/ voters = 0 THEN UnknownQuorum
       ELSE KnownQuorum(e, voters - (touched + Cardinality(Unread(e, targets))),
                        voters - touched, (voters + 1) \div 2)

AssessTargetsOnly(etcd, targets) ==
    LET e == etcd.members
        voters == Cardinality(Voters(e))
        left == voters - Cardinality(AtRisk(e, targets))
    IN IF ~etcd.available \/ voters = 0 THEN UnknownQuorum
       ELSE KnownQuorum(e, left, left, voters \div 2 + 1)

\* assessEtcdQuorumFacts: the voters left when the targets are gone, those that
\* report errors count as gone, and unread ones do too (remaining) or do not
\* (confirmed).
Assess(etcd, targets) ==
    LET e == etcd.members
        touched == Cardinality(AtRisk(e, targets)) + Cardinality(Failing(e, targets))
        voters == Cardinality(Voters(e))
    IN IF ~etcd.available \/ voters = 0 THEN UnknownQuorum
       ELSE KnownQuorum(e, voters - (touched + Cardinality(Unread(e, targets))),
                        voters - touched, voters \div 2 + 1)

BelowQuorum(a) == a.known /\ a.remaining < a.floor
CertainlyBelowQuorum(a) == a.known /\ a.confirmed < a.floor

-----------------------------------------------------------------------------
(* The gates *)

\* etcdQuorumBlockReasonFacts is not empty: reboot, shutdown, rollback, upgrade.
QuorumBlocked(etcd, targets) == CertainlyBelowQuorum(Assess(etcd, targets))

\* Mutant: a reset is gated like the other node actions.
ResetBlockedIfCertain(etcd, targets) == CertainlyBelowQuorum(Assess(etcd, targets))

\* resetQuorumBlockReasonFacts is not empty, for targets on the control plane.
ResetBlocked(etcd, targets) ==
    LET a == Assess(etcd, targets) IN ~a.known \/ BelowQuorum(a)

\* etcdMembershipBlockReasonFacts is not empty.  "forced": EtcdActionRemoveMember.
MembershipBlocked(etcd, forced, id, host) ==
    LET e == etcd.members
        found == Resolve(e, id, host)
    IN \/ ~etcd.available
       \/ Cardinality(found) # 1
       \/ \E m \in found :
              LET a == Assess(etcd, {MembershipTarget(e, m)})
              IN (forced /\ Healthy(e, m)) \/ ~a.known \/ BelowQuorum(a)

\* etcdMembershipWarningFacts: the change leaves no fault tolerance.
NoTolerance(etcd, m) ==
    LET a == Assess(etcd, {MembershipTarget(etcd.members, m)})
    IN m \in Voters(etcd.members) /\ (~a.known \/ a.remaining <= a.floor)

\* etcdLeadershipWarningFacts: the leader has no healthy follower.
NoSuccessor(e, host) ==
    /\ \E m \in DOMAIN e : e[m].host = host /\ e[m].status # "unread" /\ e[m].leader
    /\ \A m \in Voters(e) : e[m].host # host => ~Healthy(e, m)

-----------------------------------------------------------------------------
(* What the gates are to guard *)

Majority(S, of) == 2 * Cardinality(S) > Cardinality(of)
=============================================================================
