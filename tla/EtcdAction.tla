----------------------------- MODULE EtcdAction -----------------------------
(***************************************************************************)
(* One etcd action from its preparation to its RPC (etcd_actions.go):      *)
(* prepare reads the nodes and the members, an operator confirms, execute  *)
(* reads again under the mutation lease, a membership change then takes a  *)
(* snapshot and reads a third time, and only then does the RPC go out.     *)
(*                                                                         *)
(* Other t9s processes, administrators and failures change the cluster     *)
(* between any two of these steps (at most MaxChanges times, to bound the  *)
(* state space): SessionLease excludes other calls of this process only.   *)
(***************************************************************************)
EXTENDS EtcdPolicy

CONSTANTS HostOf,       \* the host each member is registered under
          Request,      \* the requests an operator may prepare
          Start,        \* the clusters it may begin with
          MaxChanges, MaxSilent

Kind == {"snapshot", "remove", "leave", "forfeit", "maintain"}

ASSUME ActionAssumption ==
    /\ HostOf \in [Member -> Host]
    /\ Request \subseteq [kind : Kind, node : Host, id : Member \cup {NoMember},
                          host : Host \cup {NoHost}]
    /\ Start \subseteq [membership : [Member -> {"absent", "learner", "voter"}],
                        health : [Member -> {"up", "ill"}],
                        inventory : [Host -> {"absent", "control", "worker"}]]
    /\ MaxChanges \in Nat /\ MaxSilent \in Nat

VARIABLES
    membership, \* per member ID: "absent", "learner" or "voter"
    health,     \* per member ID: "up" or "ill"
    inventory,  \* per host, what discovery knows: "absent", "control" or "worker"
    changes,    \* how often others changed the cluster
    pc, stage,  \* where the action stands, and which of its three reads it is at
    request,
    nodes,      \* the inventory last read
    prepared,   \* plan.state.etcdFacts
    facts,      \* the facts last read, or NoFacts
    snapshot,   \* the host whose verified snapshot this call holds, or NoHost
    canceled,   \* operationCtx.Err() is not nil
    rpc,        \* the mutation RPC
    outcome,    \* what the operator is told
    quiet       \* history: the cluster is as it was when the last read began

cluster == <<membership, health, inventory, changes>>
actionVars == <<cluster, pc, stage, request, nodes, prepared, facts, snapshot, canceled, rpc,
                outcome, quiet>>

\* etcdActionFacts.  "discovered" stands for the node ID, which only a node that
\* was discovered has; "member" is NoMember without hasMember.
Facts == [node : Host \cup {NoHost}, discovered : BOOLEAN, member : Member \cup {NoMember},
          host : Host \cup {NoHost}, source : Host \cup {NoHost}, rpc : Host \cup {NoHost},
          warning : BOOLEAN, quorum : QuorumAssessment, blocked : BOOLEAN]

NoFacts == [node |-> NoHost, discovered |-> FALSE, member |-> NoMember, host |-> NoHost,
            source |-> NoHost, rpc |-> NoHost, warning |-> FALSE, quorum |-> UnknownQuorum,
            blocked |-> FALSE]

NoRpc == [sent |-> FALSE, applied |-> FALSE, to |-> NoHost]

NoRequest == [kind |-> "maintain", node |-> NoHost, id |-> NoMember, host |-> NoHost]

ActionInit ==
    /\ \E c \in Start : /\ membership = c.membership
                        /\ health = c.health
                        /\ inventory = c.inventory
    /\ changes = 0
    /\ pc = "idle" /\ stage = "prepare"
    /\ request = NoRequest
    /\ nodes = [h \in Host |-> "absent"]
    /\ prepared = NoFacts /\ facts = NoFacts
    /\ snapshot = NoHost
    /\ canceled = FALSE
    /\ rpc = NoRpc
    /\ outcome = "none"
    /\ quiet = FALSE

Destructive == request.kind \in {"remove", "leave"}

\* validatesMember of readEtcdActionFacts.
NeedsMember ==
    \/ request.kind \in {"remove", "leave", "forfeit"}
    \/ request.kind = "snapshot" /\ (request.id # NoMember \/ request.host # NoHost)

-----------------------------------------------------------------------------
(* Observing *)

Least(S) == CHOOSE h \in S : \A g \in S : h <= g

\* The lists etcdReader.List can return: the members as they are, and the status
\* of those on discovered control-plane nodes, unless their node stays silent.
\* Only a forfeit looks at the leader, which may be anyone.
Lists ==
    LET present == {m \in Member : membership[m] # "absent"}
        asked == {m \in present : nodes[HostOf[m]] = "control"}
        status(m, silent) == IF m \notin asked \/ HostOf[m] \in silent THEN "unread"
                             ELSE IF health[m] = "up" THEN "healthy" ELSE "errors"
    IN {[m \in present |-> [host |-> HostOf[m], urls |-> {}, learner |-> membership[m] = "learner",
                            leader |-> m = leader, status |-> status(m, silent)]]
        : silent \in {S \in SUBSET {HostOf[m] : m \in asked} : Cardinality(S) <= MaxSilent},
          leader \in IF request.kind = "forfeit" THEN present ELSE {NoMember}}

ControlPlane == {h \in Host : nodes[h] = "control"}

\* The node of the request resolves to a control-plane node; to force a member
\* out, it may also resolve to nothing.
NodeAccepted(inv) ==
    \/ inv[request.node] = "control"
    \/ inv[request.node] = "absent" /\ request.kind = "remove"

\* readEtcdActionFacts goes on with member m.
MemberAccepted(e, m) ==
    /\ ControlPlane # {}
    /\ Resolve(e, request.id, request.host) = {m}
    /\ IF request.kind = "remove"
       THEN nodes[request.node] = "absent" => request.node = e[m].host
       ELSE nodes[e[m].host] = "control" /\ e[m].host = request.node

\* The node to take the snapshot from, NoHost if there is none: the first
\* healthy voter other than m (m itself, if there is none), then the first one of
\* them that is a known node, then the first other control-plane node.
Source(e, m) ==
    LET others == {v \in Voters(e) : /\ Healthy(e, v)
                                     /\ ~(request.id \in {NoMember, v} /\ e[v].host = e[m].host)}
        hosts == {e[v].host : v \in others}
        preferred == IF hosts = {} THEN e[m].host ELSE Least(hosts)
        routable == hosts \cap ControlPlane
        fallback == ControlPlane \ {e[m].host}
    IN IF preferred \in ControlPlane THEN preferred
       ELSE IF routable # {} THEN Least(routable)
       ELSE IF fallback # {} THEN Least(fallback)
       ELSE NoHost

\* The facts of the node alone.
NodeFacts(inv) ==
    [NoFacts EXCEPT !.node = request.node, !.rpc = request.node,
                    !.discovered = inv[request.node] = "control"]

\* rpcNode: a member that leaves does so itself, one that is forced out is removed
\* through the node of the snapshot.
Gateway(e, m) == IF request.kind = "remove" THEN Source(e, m) ELSE e[m].host

\* readEtcdActionFacts for member m of list e.
MemberFacts(e, m) ==
    LET base == [NodeFacts(nodes) EXCEPT !.member = m, !.host = e[m].host]
        etcd == [available |-> TRUE, members |-> e]
        full == [base EXCEPT
                    !.quorum = Assess(etcd, {e[m].host}),
                    !.blocked = MembershipBlocked(etcd, request.kind = "remove", request.id, request.host),
                    !.warning = NoTolerance(etcd, m),
                    !.source = Source(e, m),
                    !.rpc = Gateway(e, m)]
    IN CASE request.kind = "snapshot" -> base
         [] request.kind = "forfeit"  -> [base EXCEPT !.quorum = full.quorum,
                                                      !.warning = NoSuccessor(e, e[m].host)]
         [] OTHER                     -> full

\* What a read finds: a set with the facts, empty when the read refuses
\* (ErrAssessmentChanged).
FactsFrom(e) ==
    {MemberFacts(e, m) : m \in {x \in DOMAIN e : MemberAccepted(e, x)
                                                 /\ (Destructive => Source(e, x) # NoHost)}}

-----------------------------------------------------------------------------
(* The reads *)

Prepare(r) ==
    /\ pc = "idle"
    /\ request' = r
    /\ pc' = "nodes"
    /\ UNCHANGED <<cluster, stage, nodes, prepared, facts, snapshot, canceled, rpc, outcome, quiet>>

\* The plan names the member the read resolved by both its ID and its host.
Canonical(f) == IF f.member = NoMember THEN request
                ELSE [request EXCEPT !.id = f.member, !.host = f.host]

Return(o) == pc' = "done" /\ outcome' = o

\* Mutant: the third read is not compared with anything.
SameAtFirst(f) == stage = "recheck" => f = prepared

\* sameEtcdActionFacts, with the facts of the plan and, after the snapshot, with
\* the ones read before it.
Same(f) == IF stage = "recheck" THEN f = prepared ELSE f = facts

\* Where an execution goes when a read has confirmed the facts.
Proceed == pc' = IF request.kind = "snapshot" \/ (Destructive /\ stage = "recheck")
                 THEN "snapshot" ELSE "rpc"

\* The end of PrepareEtcdAction, or the checks of ExecuteEtcdAction on what it
\* has read.  A plan that is blocked is still returned, for the prompt to say so.
Conclude(f) ==
    IF stage = "prepare"
    THEN /\ prepared' = f
         /\ facts' = f
         /\ request' = Canonical(f)
         /\ pc' = "confirm"
         /\ UNCHANGED outcome
    ELSE /\ UNCHANGED <<prepared, request>>
         /\ IF f.blocked \/ ~Same(f)
            THEN Return(IF f.blocked THEN "blocked" ELSE "changed") /\ UNCHANGED facts
            ELSE facts' = f /\ Proceed /\ UNCHANGED outcome

\* readNodes; the actions that concern no member need nothing else.
ReadNodes ==
    /\ pc = "nodes" /\ ~canceled
    /\ nodes' = inventory
    /\ quiet' = TRUE
    /\ IF ~NodeAccepted(inventory)
       THEN Return("changed") /\ UNCHANGED <<prepared, facts, request>>
       ELSE IF NeedsMember
       THEN pc' = "members" /\ UNCHANGED <<prepared, facts, request, outcome>>
       ELSE Conclude(NodeFacts(inventory))
    /\ UNCHANGED <<cluster, stage, snapshot, canceled, rpc>>

\* EtcdReader.List, whose many status requests count as one step here.
ReadMembers ==
    /\ pc = "members" /\ ~canceled
    /\ \E e \in Lists :
           LET found == FactsFrom(e) IN
           IF found = {}
           THEN Return("changed") /\ UNCHANGED <<prepared, facts, request>>
           ELSE \E f \in found : Conclude(f)
    /\ UNCHANGED <<cluster, stage, nodes, snapshot, canceled, rpc, quiet>>

\* A read fails, or times out (unaryReadTimeout).
ReadFails ==
    /\ pc \in {"nodes", "members"}
    /\ Return("failed")
    /\ UNCHANGED <<cluster, stage, request, nodes, prepared, facts, snapshot, canceled, rpc, quiet>>

-----------------------------------------------------------------------------
(* Executing *)

\* The operator confirms a plan that is not blocked, and Session.admit agrees.
Confirm ==
    /\ pc = "confirm"
    /\ ~prepared.blocked
    /\ pc' = "nodes" /\ stage' = "recheck"
    /\ UNCHANGED <<cluster, request, nodes, prepared, facts, snapshot, canceled, rpc, outcome, quiet>>

\* The operation context ends: its deadline, the caller or the session.
Cancel ==
    /\ stage # "prepare" /\ pc # "done"
    /\ ~canceled
    /\ canceled' = TRUE
    /\ UNCHANGED <<cluster, pc, stage, request, nodes, prepared, facts, snapshot, rpc, outcome, quiet>>

\* The checks of operationCtx.Err() between the stages.
StopCanceled ==
    /\ pc \in {"nodes", "members", "snapshot", "rpc"} /\ canceled
    /\ Return("failed")
    /\ UNCHANGED <<cluster, stage, request, nodes, prepared, facts, snapshot, canceled, rpc, quiet>>

\* Mutant: the result of the snapshot is not looked at.
AnyReceipt(valid) == TRUE

\* executeEtcdSnapshot has no error and a receipt for this node and path.
Verified(valid) == valid

\* executeEtcdSnapshot, from the source or from the node that was asked for.
TakeSnapshot(valid) ==
    LET host == IF Destructive THEN facts.source ELSE request.node IN
    /\ pc = "snapshot"
    /\ snapshot' = IF valid THEN host ELSE snapshot
    /\ IF ~Verified(valid)
       THEN Return("unconfirmed") /\ UNCHANGED stage
       ELSE IF Destructive
       THEN pc' = "nodes" /\ stage' = "again" /\ UNCHANGED outcome
       ELSE Return("completed") /\ UNCHANGED stage
    /\ UNCHANGED <<cluster, request, nodes, prepared, facts, canceled, rpc, quiet>>

\* The RPC goes to current.rpcNode.
SendRpc ==
    /\ pc = "rpc" /\ ~canceled
    /\ rpc' = [sent |-> TRUE, applied |-> FALSE, to |-> facts.rpc]
    /\ pc' = "sent"
    /\ UNCHANGED <<cluster, stage, request, nodes, prepared, facts, snapshot, canceled, outcome, quiet>>

\* The members an RPC may take out: the one named, or whoever runs on the node.
Departing == IF request.kind = "remove" THEN {request.id}
             ELSE {m \in Member : HostOf[m] = rpc.to /\ membership[m] # "absent"}

\* Talos carries the request out, at any time after it was sent.
Apply ==
    /\ rpc.sent /\ ~rpc.applied
    /\ rpc' = [rpc EXCEPT !.applied = TRUE]
    /\ IF Destructive
       THEN \E m \in Departing : membership' = [membership EXCEPT ![m] = "absent"]
       ELSE UNCHANGED membership
    /\ UNCHANGED <<health, inventory, changes, pc, stage, request, nodes, prepared, facts,
                   snapshot, canceled, outcome, quiet>>

\* The RPC succeeds, or fails or is cut off: Talos may have acted, or still will.
RpcReturns(o) ==
    /\ pc = "sent"
    /\ o \in {"accepted", "unconfirmed"}
    /\ o = "accepted" => rpc.applied
    /\ Return(o)
    /\ UNCHANGED <<cluster, stage, request, nodes, prepared, facts, snapshot, canceled, rpc, quiet>>

-----------------------------------------------------------------------------
(* Everyone else *)

Others ==
    /\ changes < MaxChanges
    /\ changes' = changes + 1
    /\ quiet' = FALSE
    /\ \/ \E m \in Member : /\ health' = [health EXCEPT ![m] = IF @ = "up" THEN "ill" ELSE "up"]
                            /\ UNCHANGED <<membership, inventory>>
       \/ \E m \in Member, r \in {"absent", "learner", "voter"} :
              /\ r # membership[m]
              /\ membership' = [membership EXCEPT ![m] = r]
              /\ UNCHANGED <<health, inventory>>
       \/ \E h \in Host, r \in {"absent", "control", "worker"} :
              /\ r # inventory[h]
              /\ inventory' = [inventory EXCEPT ![h] = r]
              /\ UNCHANGED <<membership, health>>
    /\ UNCHANGED <<pc, stage, request, nodes, prepared, facts, snapshot, canceled, rpc, outcome>>

-----------------------------------------------------------------------------
ActionStep ==
    \/ ReadNodes \/ ReadMembers \/ ReadFails
    \/ StopCanceled
    \/ \E valid \in BOOLEAN : TakeSnapshot(valid)
    \/ SendRpc
    \/ \E o \in {"accepted", "unconfirmed"} : RpcReturns(o)

ActionNext ==
    \/ \E r \in Request : Prepare(r)
    \/ Confirm
    \/ ActionStep
    \/ Cancel \/ Apply \/ Others

ActionSpec == ActionInit /\ [][ActionNext]_actionVars

-----------------------------------------------------------------------------
(* Properties *)

\* What goes out is what the operator confirmed: the facts last read, after a
\* snapshot of ten minutes as well, are those of the plan, and none of them blocks;
\* and no membership change goes out before this call holds a verified snapshot,
\* taken from a healthy voter that stays, even if its host is registered twice.
ConfirmedIsCurrent ==
    /\ rpc.sent => /\ facts = prepared /\ ~facts.blocked
                   /\ NeedsMember => request.id = prepared.member
    /\ rpc.sent /\ ~rpc.applied /\ Destructive =>
        /\ snapshot = facts.source /\ snapshot # NoHost
        /\ quiet => \E m \in Member \ {request.id} :
                        HostOf[m] = snapshot /\ membership[m] = "voter" /\ health[m] = "up"

\* If nobody else touched the cluster since the last read began, the members that
\* are up are a majority of what the change leaves, whichever member it takes out.
SafeChange ==
    LET voters(gone) == {m \in Member : membership[m] = "voter"} \ gone
        up(gone) == {m \in voters(gone) : health[m] = "up"}
    IN rpc.sent /\ Destructive /\ quiet =>
           \A gone \in IF rpc.applied THEN {{}} ELSE {{m} : m \in Departing} :
               2 * Cardinality(up(gone)) > Cardinality(voters(gone))
=============================================================================
