----------------------------- MODULE NodeAction -----------------------------
(***************************************************************************)
(* One action on nodes, or on a service of a node, from its preparation to *)
(* its RPCs (node_actions.go, node_destructive_actions.go and              *)
(* service_operations.go): prepare resolves the targets and reads what the *)
(* action puts at risk, an operator confirms, execute reads all of it again *)
(* and sends one RPC to every target at once.                              *)
(*                                                                         *)
(* Discovery, the disks and etcd change between any two of these steps (at *)
(* most MaxChanges times, to bound the state space).  "reboot" stands for  *)
(* reboot, shutdown and rollback, which the code gates alike, "stopEtcd"   *)
(* for stopping or restarting the service etcd, "service" for the rest.    *)
(***************************************************************************)
EXTENDS EtcdPolicy

CONSTANTS NameOf,     \* the hostname discovery has for a machine, or NoHost
          AddressOf,  \* the address of a machine
          MemberHost, \* the hostname a machine is registered under in etcd
          Device,     \* device names
          Serial,     \* what tells disks of one name apart
          Request,    \* the requests an operator may state
          Start,      \* the worlds it may begin with
          Disks,      \* the disk inventories a machine may come to have
          MaxChanges, MaxSilent

Machine == Member   \* a machine is known by its node ID
Identity == Host \cup Machine
Kind == {"reboot", "reset", "wipe", "stopEtcd", "service"}
Role == {"absent", "control", "worker", "unknown"}
Disk == [name : Device, serial : Serial, system : BOOLEAN, readonly : BOOLEAN]

ASSUME NodeActionAssumption ==
    /\ NameOf \in [Machine -> Host \cup {NoHost}]
    /\ AddressOf \in [Machine -> Host] /\ MemberHost \in [Machine -> Host]
    /\ Request \subseteq [kind : Kind, targets : SUBSET Identity, devices : SUBSET Device,
                          mode : {"none", "system", "user", "all"}]
    /\ \A r \in Request : IsFiniteSet(r.targets)
    /\ Disks \subseteq SUBSET Disk
    /\ Start \subseteq [inventory : [Machine -> Role], etcd : [Machine -> {"none", "up", "ill"}],
                        disks : [Machine -> SUBSET Disk]]
    /\ MaxChanges \in Nat /\ MaxSilent \in Nat

VARIABLES
    inventory, \* per machine, its role as discovery has it
    etcd,      \* per machine, its voter: "none", "up" or "ill"
    disks,     \* per machine, its disks
    changes,   \* how often the world changed
    pc, stage, \* where the action stands, and which of its two reads it is at
    request,
    nodes,     \* the inventory last read
    seen,      \* the etcd facts last read
    todo,      \* the targets whose disks are still to be read
    facts,     \* the facts being read, or read last
    prepared,  \* plan.state.nodeFacts
    canceled,  \* operationCtx.Err() is not nil
    rpc,       \* per target: "none", "sent" or "applied"
    result,    \* per target, its TargetResult
    outcome,   \* what the call returns
    hits,      \* history: the machines the RPCs acted on
    erased,    \* history: the disks they erased
    quiet      \* history: the world is as it was when the last read began

world == <<inventory, etcd, disks, changes>>
sending == <<rpc, result, hits, erased>>
vars == <<world, pc, stage, request, nodes, seen, todo, facts, prepared, canceled, outcome,
          sending, quiet>>

\* nodeActionFacts, without the version.  "warning" is the assessment as far as
\* the text shows it.
Facts == [nodes : SUBSET [target : Host, id : Machine, role : Role],
          warning : QuorumAssessment, quorum : QuorumAssessment, blocked : BOOLEAN,
          scope : SUBSET [node : Host, disk : Disk], devices : SUBSET Device]

NoFacts == [nodes |-> {}, warning |-> UnknownQuorum, quorum |-> UnknownQuorum,
            blocked |-> FALSE, scope |-> {}, devices |-> {}]

NoRequest == [kind |-> "service", targets |-> {}, devices |-> {}, mode |-> "none"]

Init ==
    /\ \E w \in Start : inventory = w.inventory /\ etcd = w.etcd /\ disks = w.disks
    /\ changes = 0
    /\ pc = "idle" /\ stage = "prepare"
    /\ request = NoRequest
    /\ nodes = [m \in Machine |-> "absent"] /\ seen = Unavailable /\ todo = {}
    /\ facts = NoFacts /\ prepared = NoFacts
    /\ canceled = FALSE
    /\ rpc = [h \in Host |-> "none"] /\ result = [h \in Host |-> "none"]
    /\ outcome = "none"
    /\ hits = {} /\ erased = {}
    /\ quiet = FALSE

\* What the code takes for granted about other programs: discovery and etcd agree
\* on the hostname of a machine, and a device name names one disk of a machine.
NamesUnique(list) == \A d, k \in list : d.name = k.name => d = k

ASSUME EnvironmentAssumption ==
    /\ \A m \in Machine : NameOf[m] # NoHost => MemberHost[m] = NameOf[m]
    /\ \A list \in Disks : NamesUnique(list)
    /\ \A w \in Start : \A m \in Machine : NamesUnique(w.disks[m])

-----------------------------------------------------------------------------
(* Targets *)

\* Mutant: a node without a hostname has no target.
TargetByName(m) == NameOf[m]

\* NodeSnapshot.Target.
Target(m) == IF NameOf[m] # NoHost THEN NameOf[m] ELSE AddressOf[m]

\* nodeMatchesIdentity.
Identifies(h, m) == h \in {m, NameOf[m], AddressOf[m]}

Found(inv) == {m \in Machine : inv[m] # "absent"}

\* resolveNodeTarget: the only machine h identifies, if no other one answers to
\* its target.
ResolveTarget(inv, h) ==
    {m \in Found(inv) : \A k \in Found(inv) : /\ Identifies(h, k) <=> k = m
                                              /\ Identifies(Target(m), k) => k = m}

\* knownNodeActionRole; a service action takes any node.
RoleAccepted(role) == role \in {"control", "worker"} \/ request.kind \in {"stopEtcd", "service"}

\* The machines the targets resolve to.
Resolved(inv) == UNION {ResolveTarget(inv, h) : h \in request.targets}

\* resolveNodeActionTargets, and the same checks of ExecuteNodeAction.
TargetsAccepted(inv) ==
    /\ \A h \in request.targets : ResolveTarget(inv, h) # {}
    /\ \A m \in Resolved(inv) : RoleAccepted(inv[m])

\* validateNodeActionRequest; images, force and its token are left out.
Valid(r) ==
    /\ r.targets # {}
    /\ r.kind \in {"wipe", "stopEtcd", "service"} => Cardinality(r.targets) = 1
    /\ IF r.kind = "reset"
       THEN IF r.mode = "system" THEN r.devices = {}
            ELSE r.mode # "none" /\ Cardinality(r.targets) = 1
       ELSE r.mode = "none" /\ Cardinality(r.devices) = IF r.kind = "wipe" THEN 1 ELSE 0

-----------------------------------------------------------------------------
(* Facts *)

HasControlPlane == \E m \in Resolved(nodes) : nodes[m] = "control"

\* Whether the action looks at etcd at all.
AsksEtcd == request.kind = "stopEtcd" \/ (HasControlPlane /\ request.kind \in {"reboot", "reset"})

\* The lists etcdReader.List can return, and its failure.  The status comes from
\* the discovered control-plane nodes that answer.
EtcdReads ==
    LET voters == {m \in Machine : etcd[m] # "none"}
        asked == {m \in voters : nodes[m] = "control"}
        status(m, silent) == IF m \notin asked \ silent THEN "unread"
                             ELSE IF etcd[m] = "up" THEN "healthy" ELSE "errors"
        list(silent) == [m \in voters |-> [host |-> MemberHost[m], urls |-> {AddressOf[m]},
                                           learner |-> FALSE, leader |-> FALSE,
                                           status |-> status(m, silent)]]
    IN {Unavailable} \cup
       IF \A m \in Machine : nodes[m] # "control" THEN {}
       ELSE {[available |-> TRUE, members |-> list(silent)]
             : silent \in {S \in SUBSET asked : Cardinality(S) <= MaxSilent}}

\* etcdQuorumWarningFacts: the numbers are shown only below the quorum.
WarningFacts(a) ==
    IF ~a.known THEN UnknownQuorum
    ELSE IF BelowQuorum(a) THEN [a EXCEPT !.confirmed = 0]
    ELSE [UnknownQuorum EXCEPT !.known = TRUE]

NodeFacts(inv) ==
    [NoFacts EXCEPT !.nodes = {[target |-> Target(m), id |-> m, role |-> inv[m]] : m \in Resolved(inv)}]

\* Mutant: each target is assessed as if it were the only one.
EtcdRiskEach(found, e) ==
    [found EXCEPT
        !.warning = UnknownQuorum,
        !.blocked = \E h \in request.targets : IF request.kind = "reset" THEN ResetBlocked(e, {h})
                                               ELSE QuorumBlocked(e, {h})]

\* The end of readNodeActionFacts and of readServiceActionFacts.
EtcdRisk(found, e) ==
    LET a == Assess(e, request.targets) IN
    [found EXCEPT
        !.warning = WarningFacts(a),
        !.quorum = IF request.kind = "reset" THEN a ELSE UnknownQuorum,
        !.blocked = IF request.kind = "reset" THEN ResetBlocked(e, request.targets)
                    ELSE QuorumBlocked(e, request.targets)]

\* captureResetDiskScope: the disks a reset erases, and whether it is refused.
ResetScope(list) ==
    LET systems == {d \in list : d.system}
        users == {d \in list : ~d.system /\ ~d.readonly}
        named(x) == {d \in users : d.name = x}
        selected == CASE request.mode = "system" -> {}
                      [] request.mode # "system" /\ request.devices = {} -> users
                      [] OTHER -> UNION {named(x) : x \in request.devices}
    IN [disks |-> selected \cup (IF request.mode = "user" THEN {} ELSE systems),
        refused |-> \/ Cardinality(systems) # 1
                    \/ request.mode # "user" /\ \E d \in systems : d.readonly
                    \/ \E x \in request.devices : Cardinality(named(x)) # 1
                    \/ request.mode = "user" /\ selected = {}]

\* captureDeviceWipeScope, with assessDeviceWipeFacts.
WipeScope(list) ==
    LET matches == {d \in list : d.name \in request.devices}
    IN [disks |-> matches,
        refused |-> Cardinality(matches) # 1 \/ \E d \in matches : d.system \/ d.readonly]

Scope(list) == IF request.kind = "reset" THEN ResetScope(list) ELSE WipeScope(list)

\* One turn of the loop of readDestructiveDiskFacts.
DiskFacts(found, h, list) ==
    LET scope == Scope(list) IN
    IF scope.refused THEN [found EXCEPT !.blocked = TRUE]
    ELSE [found EXCEPT !.scope = @ \cup {[node |-> h, disk |-> d] : d \in scope.disks},
                       !.devices = @ \cup {d.name : d \in {x \in scope.disks : ~x.system}}]

\* Mutants: only the disks are compared, or the disks by name only.
SameDisks(f) == f.scope = prepared.scope /\ f.devices = prepared.devices

SameNames(f) ==
    LET names(g) == {<<s.node, s.disk.name>> : s \in g.scope}
    IN names(f) = names(prepared) /\ [f EXCEPT !.scope = {}] = [prepared EXCEPT !.scope = {}]

\* sameNodeActionFacts, sameServiceActionFacts.
Same(f) == f = prepared

-----------------------------------------------------------------------------
(* The reads *)

Return(o) == pc' = "done" /\ outcome' = o

Prepare(r) ==
    /\ pc = "idle"
    /\ IF Valid(r) THEN pc' = "nodes" /\ request' = r /\ UNCHANGED outcome
                   ELSE Return("invalid") /\ UNCHANGED request
    /\ UNCHANGED <<world, stage, nodes, seen, todo, facts, prepared, canceled, sending, quiet>>

\* The end of PrepareNodeAction, or the checks of ExecuteNodeAction.  A plan that
\* is blocked is still returned, for the prompt to say so.
Conclude(f) ==
    /\ facts' = f
    /\ IF stage = "prepare"
       THEN prepared' = f /\ pc' = "confirm" /\ UNCHANGED outcome
       ELSE /\ UNCHANGED prepared
            /\ IF f.blocked THEN Return("blocked")
               ELSE IF ~Same(f) THEN Return("changed")
               ELSE pc' = "dispatch" /\ UNCHANGED outcome

\* The disks are read last, by a reset and a device wipe only.
DisksOrConclude(f) ==
    IF request.kind \in {"reset", "wipe"}
    THEN pc' = "disks" /\ facts' = f /\ UNCHANGED <<prepared, outcome>>
    ELSE Conclude(f)

\* resolveNodeActionTargets: two identities of one machine are one target.
Canonical(targets, inv) == {Target(m) : m \in UNION {ResolveTarget(inv, h) : h \in targets}}

\* readNodes, and the targets it resolves.
ReadNodes ==
    /\ pc = "nodes" /\ ~canceled
    /\ nodes' = inventory
    /\ quiet' = TRUE
    /\ IF ~TargetsAccepted(inventory)
       THEN Return("changed") /\ UNCHANGED <<request, todo, facts, prepared>>
       ELSE LET targets == IF stage = "prepare" THEN Canonical(request.targets, inventory)
                           ELSE request.targets IN
            /\ request' = [request EXCEPT !.targets = targets]
            /\ todo' = targets
            /\ facts' = NodeFacts(inventory)
            /\ pc' = "risk" /\ UNCHANGED <<prepared, outcome>>
    /\ UNCHANGED <<world, stage, seen, canceled, sending>>

\* Without a control-plane node nothing but the nodes is at risk.
NoRisk ==
    /\ pc = "risk" /\ ~canceled
    /\ ~AsksEtcd
    /\ DisksOrConclude(facts)
    /\ UNCHANGED <<world, stage, request, nodes, seen, todo, canceled, sending, quiet>>

\* EtcdReader.List; its failure is taken for an unknown quorum.
ReadEtcd ==
    /\ pc = "risk" /\ ~canceled
    /\ AsksEtcd
    /\ \E e \in EtcdReads : seen' = e /\ DisksOrConclude(EtcdRisk(facts, e))
    /\ UNCHANGED <<world, stage, request, nodes, todo, canceled, sending, quiet>>

\* The machines that answer to a target.
Reached(h) == {m \in Found(inventory) : Identifies(h, m)}

\* DiskReader.List for one target, or its failure, which blocks the action.
ReadDisks(h) ==
    /\ pc = "disks" /\ ~canceled
    /\ h \in todo
    /\ todo' = todo \ {h}
    /\ \E f \in {DiskFacts(facts, h, disks[m]) : m \in Reached(h)}
                \cup {[facts EXCEPT !.blocked = TRUE]} :
           IF todo' = {} THEN Conclude(f)
           ELSE facts' = f /\ UNCHANGED <<pc, prepared, outcome>>
    /\ UNCHANGED <<world, stage, request, nodes, seen, canceled, sending, quiet>>

\* A read fails in a way that ends the call, or times out (unaryReadTimeout).
ReadFails ==
    /\ pc \in {"nodes", "risk", "disks"}
    /\ Return("failed")
    /\ UNCHANGED <<world, stage, request, nodes, seen, todo, facts, prepared, canceled, sending, quiet>>

-----------------------------------------------------------------------------
(* Executing *)

\* The operator confirms a plan that is not blocked, and Session.admit agrees.
Confirm ==
    /\ pc = "confirm"
    /\ ~prepared.blocked
    /\ pc' = "nodes" /\ stage' = "recheck"
    /\ UNCHANGED <<world, request, nodes, seen, todo, facts, prepared, canceled, outcome, sending, quiet>>

\* The operation context ends: its deadline, the caller or the session.
Cancel ==
    /\ stage = "recheck" /\ pc # "done"
    /\ ~canceled
    /\ canceled' = TRUE
    /\ UNCHANGED <<world, pc, stage, request, nodes, seen, todo, facts, prepared, outcome, sending, quiet>>

Answered(h) == result[h] # "none"

\* The goroutine of target h sends its RPC, unless the context has ended.
Send(h) ==
    /\ pc = "dispatch" /\ h \in request.targets
    /\ ~canceled
    /\ rpc[h] = "none" /\ ~Answered(h)
    /\ rpc' = [rpc EXCEPT ![h] = "sent"]
    /\ UNCHANGED <<world, pc, stage, request, nodes, seen, todo, facts, prepared, canceled, outcome,
                   result, hits, erased, quiet>>

NotSent(h) ==
    /\ pc = "dispatch" /\ h \in request.targets
    /\ canceled
    /\ rpc[h] = "none" /\ ~Answered(h)
    /\ result' = [result EXCEPT ![h] = "notSent"]
    /\ UNCHANGED <<world, pc, stage, request, nodes, seen, todo, facts, prepared, canceled, outcome,
                   rpc, hits, erased, quiet>>

\* What a machine erases when told the mode and the devices.
Erases(list) ==
    {d \in list : \/ d.system /\ request.mode \in {"system", "all"}
                  \/ d.name \in facts.devices}

\* Talos carries the request out, at any time after it was sent.
Apply(h) ==
    /\ rpc[h] = "sent"
    /\ rpc' = [rpc EXCEPT ![h] = "applied"]
    /\ \E m \in Reached(h) :
           /\ hits' = hits \cup {<<h, m>>}
           /\ erased' = erased \cup {<<m, d>> : d \in IF request.kind \in {"reset", "wipe"}
                                                     THEN Erases(disks[m]) ELSE {}}
    /\ UNCHANGED <<world, pc, stage, request, nodes, seen, todo, facts, prepared, canceled, outcome,
                   result, quiet>>

\* Mutant: a call that was cut off is taken for one that was never made.
CutOffIsNotSent(o) == IF canceled /\ o = "unconfirmed" THEN "notSent" ELSE o

\* dispatchNodeAction, dispatchPreparedNodeAction: an error says nothing.
Reported(o) == o

\* The RPC succeeds, or fails or is cut off: Talos may have acted, or still will.
RpcReturns(h, o) ==
    /\ pc = "dispatch" /\ rpc[h] # "none" /\ ~Answered(h)
    /\ o = "accepted" => rpc[h] = "applied"
    /\ result' = [result EXCEPT ![h] = Reported(o)]
    /\ UNCHANGED <<world, pc, stage, request, nodes, seen, todo, facts, prepared, canceled, outcome,
                   rpc, hits, erased, quiet>>

\* The call returns when every target has answered.
Finish ==
    /\ pc = "dispatch"
    /\ \A h \in request.targets : Answered(h)
    /\ Return("results")
    /\ UNCHANGED <<world, stage, request, nodes, seen, todo, facts, prepared, canceled, sending, quiet>>

\* The checks of readCtx.Err() and operationCtx.Err() before the RPCs.
StopCanceled ==
    /\ pc \in {"nodes", "risk", "disks"} /\ canceled
    /\ Return("failed")
    /\ UNCHANGED <<world, stage, request, nodes, seen, todo, facts, prepared, canceled, sending, quiet>>

-----------------------------------------------------------------------------
(* Everyone else: discovery, etcd and the disks, as far as the request looks *)
(* at them.                                                                  *)

Others ==
    /\ pc \notin {"idle", "done"} \/ \E h \in Host : rpc[h] = "sent"
    /\ changes < MaxChanges
    /\ changes' = changes + 1
    /\ quiet' = FALSE
    /\ \/ \E m \in Machine, r \in Role : /\ r # inventory[m]
                                         /\ inventory' = [inventory EXCEPT ![m] = r]
                                         /\ UNCHANGED <<etcd, disks>>
       \/ \E m, k \in Machine : /\ inventory[m] # inventory[k]
                              /\ inventory' = [inventory EXCEPT ![m] = inventory[k],
                                                               ![k] = inventory[m]]
                              /\ UNCHANGED <<etcd, disks>>
       \/ \E m \in Machine, v \in {"none", "up", "ill"} :
              /\ request.kind \in {"reboot", "reset", "stopEtcd"}
              /\ v # etcd[m]
              /\ etcd' = [etcd EXCEPT ![m] = v]
              /\ UNCHANGED <<inventory, disks>>
       \/ \E m \in Machine, list \in Disks :
              /\ request.kind \in {"reset", "wipe"}
              /\ list # disks[m]
              /\ disks' = [disks EXCEPT ![m] = list]
              /\ UNCHANGED <<inventory, etcd>>
    /\ UNCHANGED <<pc, stage, request, nodes, seen, todo, facts, prepared, canceled, outcome, sending>>

-----------------------------------------------------------------------------
Next ==
    \/ \E r \in Request : Prepare(r)
    \/ ReadNodes \/ NoRisk \/ ReadEtcd \/ ReadFails
    \/ Confirm \/ Cancel \/ StopCanceled \/ Finish
    \/ \E h \in Host : \/ ReadDisks(h) \/ Send(h) \/ NotSent(h) \/ Apply(h)
                       \/ \E o \in {"accepted", "unconfirmed"} : RpcReturns(h, o)
    \/ Others

Spec == Init /\ [][Next]_vars

-----------------------------------------------------------------------------
(* Properties *)

\* Only targets of the plan are ever sent anything, and only after the recheck.
TypeOK ==
    /\ inventory \in [Machine -> Role] /\ nodes \in [Machine -> Role]
    /\ etcd \in [Machine -> {"none", "up", "ill"}]
    /\ disks \in [Machine -> SUBSET Disk]
    /\ changes \in 0 .. MaxChanges
    /\ pc \in {"idle", "nodes", "risk", "disks", "confirm", "dispatch", "done"}
    /\ stage \in {"prepare", "recheck"}
    /\ request \in [kind : Kind, targets : SUBSET Identity, devices : SUBSET Device,
                    mode : {"none", "system", "user", "all"}]
    /\ IsPolicyFacts(seen)
    /\ todo \subseteq request.targets
    /\ facts \in Facts /\ prepared \in Facts
    /\ canceled \in BOOLEAN /\ quiet \in BOOLEAN
    /\ rpc \in [Host -> {"none", "sent", "applied"}]
    /\ result \in [Host -> {"none", "notSent", "accepted", "unconfirmed"}]
    /\ outcome \in {"none", "invalid", "changed", "blocked", "failed", "results"}
    /\ \A h \in Host : rpc[h] # "none" => h \in request.targets /\ stage = "recheck"

\* As long as nothing changed since the recheck began, every machine acted on is
\* one the operator was shown under that name, with the same node ID and role,
\* even if the name has come to mean another machine meanwhile; and no machine is
\* acted on twice, although it may have been named by hostname and by address.
ActsAsShown ==
    quiet => /\ \A x \in hits : [target |-> x[1], id |-> x[2], role |-> inventory[x[2]]]
                                    \in prepared.nodes
             /\ \A x, y \in hits : x[2] = y[2] => x = y

\* As long as nothing changed since the recheck began, every disk erased is one
\* the operator was shown, by name and serial, and it is a disk the request names
\* or the mode includes: a wipe and a reset of user disks spare the system disk.
ErasesAsShown ==
    quiet => \A x \in erased :
                 /\ [node |-> Target(x[1]), disk |-> x[2]] \in prepared.scope
                 /\ ~x[2].readonly
                 /\ x[2].system => request.kind = "reset" /\ request.mode # "user"

\* As long as nothing changed since the recheck began, the voters that are left
\* when all the targets are gone are a quorum: for a reset of control-plane nodes
\* those that are up, for a reboot or a stop those that are up or were not read.
QuorumKept ==
    LET voters == {m \in Machine : etcd[m] # "none"}
        left == voters \ UNION {Reached(h) : h \in request.targets}
        spared == {m \in left : \/ etcd[m] = "up"
                                \/ request.kind # "reset" /\ seen.members[m].status = "unread"}
        assessed == IF request.kind = "reset" THEN HasControlPlane
                    ELSE AsksEtcd /\ seen.available /\ voters # {}
    IN quiet /\ assessed /\ (\E h \in Host : rpc[h] # "none") => Majority(spared, voters)

\* A target that is reported as never sent was not sent anything, one reported as
\* accepted was acted on, a call that returns without results sent nothing, and
\* one that returns results accounts for every target.
ReportedTruly ==
    /\ \A h \in Host : /\ result[h] = "notSent" => rpc[h] = "none"
                       /\ result[h] = "accepted" => rpc[h] = "applied"
    /\ pc = "done" => IF outcome = "results" THEN \A h \in request.targets : Answered(h)
                      ELSE \A h \in Host : rpc[h] = "none"
=============================================================================
