----------------------------- MODULE EtcdQuorum -----------------------------
(***************************************************************************)
(* The quorum gates over every observation a read can deliver: the Talos   *)
(* adapter lists the members first and then fills in each status as its    *)
(* node answers (internal/adapters/talos/etcd.go), while the set of nodes  *)
(* an operator would act on grows.                                         *)
(***************************************************************************)
EXTENDS EtcdPolicy

CONSTANTS Listing   \* the membership lists etcd may return, every status unread

ASSUME ListingAssumption ==
    \A e \in Listing : /\ IsMemberList(e)
                       /\ \A m \in DOMAIN e : e[m].status = "unread"

VARIABLES etcd,     \* the observation, an EtcdPolicyFacts
          targets   \* the nodes selected for an action

vars == <<etcd, targets>>

\* The list cannot be had, or fetchMembership has it.
Init ==
    /\ \/ etcd = Unavailable
       \/ \E e \in Listing : etcd = [available |-> TRUE, members |-> e]
    /\ targets = {}

\* applyStatus, for the answer about member m.
ApplyStatus(m, s) ==
    /\ m \in DOMAIN etcd.members
    /\ etcd.members[m].status = "unread"
    /\ etcd' = [etcd EXCEPT !.members[m].status = s]
    /\ UNCHANGED targets

\* resolveNodeTarget needs a canonical identity.
Resolves(h) == h # NoHost

\* One more node joins the selection.
SelectTarget(h) ==
    /\ Resolves(h)
    /\ h \notin targets
    /\ targets' = targets \cup {h}
    /\ UNCHANGED etcd

Next ==
    \/ \E m \in Member, s \in {"errors", "healthy"} : ApplyStatus(m, s)
    \/ \E h \in Host \cup {NoHost} : SelectTarget(h)

Spec == Init /\ [][Next]_vars

-----------------------------------------------------------------------------
(* Properties *)

\* The voters that an action on the targets leaves, if the unread peers in R
\* turn out to be well and the others do not.
Survivors(R) ==
    LET e == etcd.members
    IN {m \in Voters(e) \ AtRisk(e, targets) : Healthy(e, m) \/ m \in R}

TypeOK == IsPolicyFacts(etcd) /\ targets \subseteq Host

\* A reboot, shutdown, rollback or upgrade is refused exactly when etcd loses
\* its quorum whatever the unread peers turn out to be.
RefusedIffCertain ==
    Voters(etcd.members) # {} =>
        ( QuorumBlocked(etcd, targets) <=>
          \A R \in SUBSET Unread(etcd.members, targets) :
              ~Majority(Survivors(R), Voters(etcd.members)) )

\* A reset is let through exactly when the quorum survives whatever the unread
\* peers turn out to be, and never on unknown membership.
ResetIffSafe ==
    ~ResetBlocked(etcd, targets) <=>
        \A R \in SUBSET Unread(etcd.members, targets) :
            Majority(Survivors(R), Voters(etcd.members))

\* A member may leave or be removed only if healthy voters other than it are a
\* majority of the voters, before the change and after it, even when another
\* member is registered under the same host; and a healthy member is not
\* removed by force.
ChangeKeepsMajority ==
    \A id \in DOMAIN etcd.members, forced \in BOOLEAN :
        LET e == etcd.members
            others == {m \in Voters(e) \ {id} : Healthy(e, m)}
        IN ~MembershipBlocked(etcd, forced, id, NoHost) =>
               /\ Majority(others, Voters(e))
               /\ Majority(others, Voters(e) \ {id})
               /\ forced => ~Healthy(e, id)

\* More targets never open a gate; and an answer never lifts the ordinary
\* refusal nor closes the gate of a reset, so that waiting for slow nodes only
\* turns doubts into certainties.
GatesMonotone ==
    [][ /\ QuorumBlocked(etcd, targets) => QuorumBlocked(etcd, targets)'
        /\ etcd' = etcd => (ResetBlocked(etcd, targets) => ResetBlocked(etcd, targets)')
        /\ targets' = targets => (ResetBlocked(etcd, targets)' => ResetBlocked(etcd, targets)) ]_vars

\* docs/src/content/docs/security.md: "Learners do not vote, so removing one is
\* never quorum-blocked".  Even of a cluster whose voters have all answered.
LearnerNeverQuorumBlocked ==
    LET e == etcd.members IN
    Voters(e) # {} /\ (\A m \in Voters(e) : e[m].status # "unread") =>
        \A id \in DOMAIN e \ Voters(e) :
            ~Healthy(e, id) => ~MembershipBlocked(etcd, TRUE, id, NoHost)

\* docs/src/content/docs/security.md: "Any node-level action that would drop etcd
\* below quorum is refused, not merely warned about".  Whether it would may hang
\* on the peers that did not answer; those in R are well, the others are down.
UnsafeActionRefused ==
    LET e == etcd.members IN
    \A R \in SUBSET {m \in Voters(e) : e[m].status = "unread"} :
        LET up == {m \in Voters(e) : Healthy(e, m) \/ m \in R} IN
        Majority(up, Voters(e)) /\ ~Majority(up \ AtRisk(e, targets), Voters(e))
        => QuorumBlocked(etcd, targets)
=============================================================================
