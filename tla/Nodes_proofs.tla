---------------------------- MODULE Nodes_proofs -----------------------------
(***************************************************************************)
(* Node and service actions keep their promises for every set of machines, *)
(* names, addresses, requests and disks, and for any number of changes     *)
(* that others make meanwhile.  The live views keep theirs for every set   *)
(* of views, any length of the rows kept, and any number of sessions,      *)
(* requests, batches and lines.                                            *)
(***************************************************************************)
EXTENDS NodeAction, LifecycleStream, EtcdPolicy_proofs, SequenceTheorems

-----------------------------------------------------------------------------
(* The invariant *)

\* The RPCs have begun, or may begin.
Started == pc = "dispatch" \/ \E h \in Host : rpc[h] # "none"

\* Nothing is sent before the dispatch, which only the second read leads to.
Phases ==
    /\ pc \in {"idle", "confirm"} => stage = "prepare"
    /\ pc = "idle" => todo = {}
    /\ pc = "dispatch" => stage = "recheck"
    /\ pc \notin {"dispatch", "done"} =>
           /\ \A h \in Host : rpc[h] = "none" /\ result[h] = "none"
           /\ hits = {} /\ erased = {}

-----------------------------------------------------------------------------
(* Types *)

\* Every machine has a target.
LEMMA TargetType ==
    ASSUME NEW m \in Machine
    PROVE  Target(m) \in Host
BY NodeActionAssumption DEF Target

\* An assessment is well-formed (assessEtcdQuorumFacts).
LEMMA AssessType ==
    ASSUME NEW e, IsPolicyFacts(e), NEW T
    PROVE  Assess(e, T) \in QuorumAssessment
<1> DEFINE a == Assess(e, T)
           V == Voters(e.members)
<1>1. /\ Cardinality(V) \in Nat
      /\ a.known \in BOOLEAN
      /\ a.known => /\ a.voters \in Nat /\ a.remaining \in Nat
                    /\ a.confirmed \in Nat /\ a.floor \in Nat
  BY AssessCounts
<1>2. \/ a = UnknownQuorum
      \/ \E r, c, f : a = KnownQuorum(e.members, r, c, f)
  BY DEF Assess
<1>3. CASE a = UnknownQuorum
  BY <1>3 DEF UnknownQuorum, QuorumAssessment
<1>4. CASE \E r, c, f : a = KnownQuorum(e.members, r, c, f)
  BY <1>1, <1>4 DEF KnownQuorum, QuorumAssessment
<1> QED
  BY <1>2, <1>3, <1>4

\* So is what a warning shows of it.
LEMMA WarningType ==
    ASSUME NEW a \in QuorumAssessment
    PROVE  WarningFacts(a) \in QuorumAssessment
BY DEF WarningFacts, QuorumAssessment, UnknownQuorum

\* Reading the nodes leaves well-formed facts.
LEMMA NodeFactsType ==
    ASSUME NEW inv \in [Machine -> Role]
    PROVE  NodeFacts(inv) \in Facts
<1>1. \A m \in Resolved(inv) : m \in Machine
  BY DEF Resolved, ResolveTarget, Found
<1>2. \A m \in Resolved(inv) : [target |-> Target(m), id |-> m, role |-> inv[m]]
                                   \in [target : Host, id : Machine, role : Role]
  BY <1>1, TargetType
<1> QED
  BY <1>2 DEF NodeFacts, NoFacts, Facts, UnknownQuorum, QuorumAssessment

\* So does reading etcd.
LEMMA EtcdRiskType ==
    ASSUME NEW f \in Facts, NEW e, IsPolicyFacts(e)
    PROVE  EtcdRisk(f, e) \in Facts
<1> DEFINE a == Assess(e, request.targets)
<1>1. a \in QuorumAssessment /\ WarningFacts(a) \in QuorumAssessment
  BY AssessType, WarningType
<1>2. UnknownQuorum \in QuorumAssessment
  BY DEF UnknownQuorum, QuorumAssessment
<1>3. ResetBlocked(e, request.targets) \in BOOLEAN /\ QuorumBlocked(e, request.targets) \in BOOLEAN
  BY DEF ResetBlocked, QuorumBlocked, CertainlyBelowQuorum
<1> QED
  BY <1>1, <1>2, <1>3 DEF EtcdRisk, Facts

\* Every answer to a read of etcd is a well-formed observation.
LEMMA EtcdReadsType ==
    ASSUME TypeOK, NEW e \in EtcdReads
    PROVE  IsPolicyFacts(e)
<1>1. IsPolicyFacts(Unavailable)
  BY DEF IsPolicyFacts, IsMemberList, Unavailable
<1> DEFINE voters == {m \in Machine : etcd[m] # "none"}
           asked == {m \in voters : nodes[m] = "control"}
           status(m, silent) == IF m \notin asked \ silent THEN "unread"
                                ELSE IF etcd[m] = "up" THEN "healthy" ELSE "errors"
           list(silent) == [m \in voters |-> [host |-> MemberHost[m], urls |-> {AddressOf[m]},
                                              learner |-> FALSE, leader |-> FALSE,
                                              status |-> status(m, silent)]]
<1>2. ASSUME NEW silent PROVE IsMemberList(list(silent))
  <2>1. \A m \in voters : [host |-> MemberHost[m], urls |-> {AddressOf[m]},
                           learner |-> FALSE, leader |-> FALSE,
                           status |-> status(m, silent)] \in MemberSnapshot
    BY NodeActionAssumption DEF MemberSnapshot, Machine
  <2>2. DOMAIN list(silent) = voters /\ voters \subseteq Member
    BY DEF Machine
  <2> QED
    BY <2>1, <2>2 DEF IsMemberList
<1>3. e = Unavailable \/ \E silent : e = [available |-> TRUE, members |-> list(silent)]
  BY DEF EtcdReads
<1> HIDE DEF list
<1>4. ASSUME NEW silent, e = [available |-> TRUE, members |-> list(silent)]
      PROVE  IsPolicyFacts(e)
  BY <1>2, <1>4 DEF IsPolicyFacts
<1> QED
  BY <1>1, <1>3, <1>4

\* The scope of an action on a machine is a part of its disks.
LEMMA ScopeType ==
    ASSUME NEW list \in SUBSET Disk
    PROVE  Scope(list).disks \subseteq list
<1>1. ResetScope(list).disks \subseteq list
  BY DEF ResetScope
<1>2. WipeScope(list).disks \subseteq list
  BY DEF WipeScope
<1> QED
  BY <1>1, <1>2 DEF Scope

\* Reading the disks of a target leaves well-formed facts.
LEMMA DiskFactsType ==
    ASSUME NEW f \in Facts, NEW h \in Host, NEW list \in SUBSET Disk
    PROVE  DiskFacts(f, h, list) \in Facts
<1>1. Scope(list).disks \subseteq Disk
  BY ScopeType
<1>2. /\ {[node |-> h, disk |-> d] : d \in Scope(list).disks} \subseteq [node : Host, disk : Disk]
      /\ {d.name : d \in {x \in Scope(list).disks : ~x.system}} \subseteq Device
  BY <1>1 DEF Disk
<1> QED
  BY <1>2 DEF DiskFacts, Facts

-----------------------------------------------------------------------------
(* Types and phases are preserved *)

\* Where a step that ends a read may lead.
LEMMA ConcludeEffect ==
    ASSUME TypeOK, NEW f \in Facts, Conclude(f) \/ DisksOrConclude(f)
    PROVE  /\ facts' = f /\ prepared' \in {prepared, f}
           /\ pc' \in {"disks", "confirm", "dispatch", "done"}
           /\ outcome' \in {outcome, "blocked", "changed"}
           /\ stage = "prepare" => pc' \in {"disks", "confirm"} /\ outcome' = outcome
           /\ stage = "recheck" => /\ prepared' = prepared /\ pc' # "confirm"
                                   /\ pc' = "done" => outcome' # "results"
                                   /\ pc' = "dispatch" => ~f.blocked /\ f = prepared
           /\ pc' = "disks" => prepared' = prepared /\ request.kind \in {"reset", "wipe"}
           /\ pc' = "confirm" => prepared' = f
BY DEF Conclude, DisksOrConclude, Return, Same, TypeOK

\* The fields of a request, and of the request with other targets.
LEMMA RequestType ==
    ASSUME TypeOK, NEW T \in SUBSET Identity
    PROVE  LET r == [request EXCEPT !.targets = T] IN
           /\ r \in [kind : Kind, targets : SUBSET Identity, devices : SUBSET Device,
                      mode : {"none", "system", "user", "all"}]
           /\ r.targets = T /\ r.kind = request.kind
           /\ r.mode = request.mode /\ r.devices = request.devices
BY DEF TypeOK

\* A read of the disks of a target leaves well-formed facts.
LEMMA DisksReadType ==
    ASSUME TypeOK, NEW h \in Host, ReadDisks(h)
    PROVE  \E f \in Facts :
               /\ f \in {DiskFacts(facts, h, disks[m]) : m \in Reached(h)}
                        \cup {[facts EXCEPT !.blocked = TRUE]}
               /\ IF todo' = {} THEN Conclude(f)
                  ELSE facts' = f /\ UNCHANGED <<pc, prepared, outcome>>
<1>1. PICK f : /\ f \in {DiskFacts(facts, h, disks[m]) : m \in Reached(h)}
                        \cup {[facts EXCEPT !.blocked = TRUE]}
               /\ IF todo' = {} THEN Conclude(f)
                  ELSE facts' = f /\ UNCHANGED <<pc, prepared, outcome>>
  BY DEF ReadDisks
<1>2. \A m \in Reached(h) : DiskFacts(facts, h, disks[m]) \in Facts
  BY DiskFactsType DEF TypeOK, Reached, Found
<1>3. [facts EXCEPT !.blocked = TRUE] \in Facts
  BY DEF TypeOK, Facts
<1> QED
  BY <1>1, <1>2, <1>3

\* Every step keeps the types.
LEMMA TypeStep ==
    ASSUME TypeOK, Phases, [Next]_vars
    PROVE  TypeOK'
<1> USE DEF world, sending
<1>1. ASSUME NEW r \in Request, Prepare(r) PROVE TypeOK'
  <2>1. stage = "prepare" /\ todo = {} /\ \A h \in Host : rpc[h] = "none"
    BY <1>1 DEF Prepare, Phases
  <2> QED
    BY <1>1, <2>1, NodeActionAssumption DEF TypeOK, Prepare, Return
<1>2. CASE ReadNodes
  <2>1. stage = "prepare" => \A h \in Host : rpc[h] = "none"
    BY DEF TypeOK
  <2>2. PICK T \in {Canonical(request.targets, inventory), request.targets, {}} :
            \/ UNCHANGED <<request, todo, facts, prepared>> /\ pc' = "done" /\ outcome' = "changed"
            \/ /\ request' = [request EXCEPT !.targets = T] /\ todo' = T
               /\ facts' = NodeFacts(inventory) /\ pc' = "risk"
               /\ UNCHANGED <<prepared, outcome>>
               /\ stage = "recheck" => T = request.targets
    BY <1>2 DEF ReadNodes, Return, TypeOK
  <2>3. T \in SUBSET Identity
    <3>1. \A m \in UNION {ResolveTarget(inventory, h) : h \in request.targets} : Target(m) \in Host
      BY TargetType DEF ResolveTarget, Found
    <3>2. Canonical(request.targets, inventory) \subseteq Host
      BY <3>1 DEF Canonical
    <3> QED
      BY <3>2 DEF Identity, TypeOK
  <2>4. NodeFacts(inventory) \in Facts
    BY NodeFactsType DEF TypeOK
  <2>5. UNCHANGED <<world, stage, seen, canceled, sending>> /\ nodes' = inventory /\ quiet' = TRUE
    BY <1>2 DEF ReadNodes
  <2>6. CASE UNCHANGED <<request, todo, facts, prepared>> /\ pc' = "done" /\ outcome' = "changed"
    BY <2>5, <2>6 DEF TypeOK
  <2>7. CASE /\ request' = [request EXCEPT !.targets = T] /\ todo' = T
             /\ facts' = NodeFacts(inventory) /\ pc' = "risk"
             /\ UNCHANGED <<prepared, outcome>>
             /\ stage = "recheck" => T = request.targets
    <3>1. /\ request' \in [kind : Kind, targets : SUBSET Identity, devices : SUBSET Device,
                           mode : {"none", "system", "user", "all"}]
          /\ request'.targets = T
      BY <2>3, <2>7, RequestType
    <3>2. \A h \in Host : rpc'[h] # "none" => h \in request'.targets /\ stage' = "recheck"
      BY <2>1, <2>5, <2>7, <3>1 DEF TypeOK
    <3> QED
      BY <2>4, <2>5, <2>7, <3>1, <3>2 DEF TypeOK
  <2> QED
    BY <2>2, <2>6, <2>7
<1>3. CASE NoRisk
  <2>1. facts \in Facts /\ DisksOrConclude(facts)
        /\ UNCHANGED <<world, stage, request, nodes, seen, todo, canceled, sending, quiet>>
    BY <1>3 DEF NoRisk, TypeOK
  <2>2. facts' \in Facts /\ prepared' \in Facts
        /\ pc' \in {"disks", "confirm", "dispatch", "done"}
        /\ outcome' \in {outcome, "blocked", "changed"}
    BY <2>1, ConcludeEffect DEF TypeOK
  <2> QED
    BY <2>1, <2>2 DEF TypeOK
<1>4. CASE ReadEtcd
  <2>1. PICK e \in EtcdReads : seen' = e /\ DisksOrConclude(EtcdRisk(facts, e))
    BY <1>4 DEF ReadEtcd
  <2>2. IsPolicyFacts(e)
    BY EtcdReadsType
  <2>3. EtcdRisk(facts, e) \in Facts
    BY <2>2, EtcdRiskType DEF TypeOK
  <2>4. facts' \in Facts /\ prepared' \in Facts
        /\ pc' \in {"disks", "confirm", "dispatch", "done"}
        /\ outcome' \in {outcome, "blocked", "changed"}
    BY <2>1, <2>3, ConcludeEffect DEF TypeOK
  <2> QED
    BY <1>4, <2>1, <2>2, <2>4 DEF TypeOK, ReadEtcd
<1>5. CASE ReadFails \/ Confirm \/ Cancel \/ StopCanceled \/ Finish
  BY ZenonT(40), <1>5 DEF TypeOK, ReadFails, Confirm, Cancel, StopCanceled, Finish, Return
<1>6. ASSUME NEW h \in Host, ReadDisks(h) PROVE TypeOK'
  <2>1. PICK f \in Facts : IF todo' = {} THEN Conclude(f)
                           ELSE facts' = f /\ UNCHANGED <<pc, prepared, outcome>>
    BY <1>6, DisksReadType
  <2>3. facts' \in Facts /\ prepared' \in Facts
        /\ pc' \in {pc, "disks", "confirm", "dispatch", "done"}
        /\ outcome' \in {outcome, "blocked", "changed"}
    BY <2>1, ConcludeEffect DEF TypeOK
  <2>4. todo' \subseteq todo
    BY <1>6 DEF ReadDisks
  <2> QED
    BY <1>6, <2>3, <2>4 DEF TypeOK, ReadDisks
<1>7. ASSUME NEW h \in Host, Send(h) \/ NotSent(h) PROVE TypeOK'
  BY <1>7 DEF TypeOK, Send, NotSent, Phases
<1>8. ASSUME NEW h \in Host, Apply(h) PROVE TypeOK'
  BY <1>8 DEF TypeOK, Apply
<1>9. ASSUME NEW h \in Host, NEW o \in {"accepted", "unconfirmed"}, RpcReturns(h, o) PROVE TypeOK'
  BY <1>9 DEF TypeOK, RpcReturns, Reported
<1>10. CASE Others
  <2>1. UNCHANGED <<pc, stage, request, nodes, seen, todo, facts, prepared, canceled, outcome, sending>>
        /\ quiet' = FALSE
    BY <1>10 DEF Others
  <2>2. changes' \in 0 .. MaxChanges
    BY <1>10, NodeActionAssumption DEF Others, TypeOK
  <2>3. inventory' \in [Machine -> Role] /\ etcd' \in [Machine -> {"none", "up", "ill"}]
    BY <1>10 DEF Others, TypeOK
  <2>4. disks' \in [Machine -> SUBSET Disk]
    BY <1>10, NodeActionAssumption DEF Others, TypeOK
  <2> QED
    BY <2>1, <2>2, <2>3, <2>4, ZenonT(60) DEF TypeOK
<1>11. CASE UNCHANGED vars
  BY <1>11 DEF TypeOK, vars
<1> QED
  BY <1>1, <1>2, <1>3, <1>4, <1>5, <1>6, <1>7, <1>8, <1>9, <1>10, <1>11 DEF Next

\* The steps of a read that follow the read of the nodes.
LaterRead == NoRisk \/ ReadEtcd \/ \E h \in Host : ReadDisks(h)

\* These steps send nothing and leave what the nodes said alone.  The second read
\* ends in the dispatch only with the facts of the first, and unblocked.
LEMMA LaterReadEffect ==
    ASSUME TypeOK, LaterRead
    PROVE  /\ pc \in {"risk", "disks"}
           /\ UNCHANGED <<inventory, etcd, disks, stage, request, nodes, rpc, result, hits, erased, quiet>>
           /\ facts' \in Facts /\ facts'.nodes = facts.nodes
           /\ stage = "prepare" => pc' \in {"disks", "confirm"}
           /\ stage = "recheck" => prepared' = prepared /\ pc' \in {"disks", "dispatch", "done"}
           /\ pc' = "disks" => prepared' = prepared
           /\ pc' = "confirm" => prepared' = facts'
           /\ pc' = "dispatch" => facts' = prepared' /\ ~facts'.blocked
           /\ pc' = "done" => outcome' # "results"
<1> DEFINE Ends(f) == /\ facts' = f
                      /\ stage = "prepare" => pc' \in {"disks", "confirm"}
                      /\ stage = "recheck" => prepared' = prepared /\ pc' \in {"disks", "dispatch", "done"}
                      /\ pc' = "disks" => prepared' = prepared
                      /\ pc' = "confirm" => prepared' = f
                      /\ pc' = "dispatch" => f = prepared' /\ ~f.blocked
                      /\ pc' = "done" => outcome' # "results"
<1> USE DEF world, sending
<1>1. stage \in {"prepare", "recheck"} /\ facts \in Facts
  BY DEF TypeOK
<1>2. ASSUME NEW f \in Facts, Conclude(f) \/ DisksOrConclude(f)
      PROVE  Ends(f)
  BY <1>1, <1>2, ConcludeEffect DEF TypeOK
<1>3. CASE NoRisk
  <2>1. Ends(facts)
    BY <1>1, <1>2, <1>3 DEF NoRisk
  <2> QED
    BY <1>1, <1>3, <2>1 DEF NoRisk
<1>4. CASE ReadEtcd
  <2>1. PICK e \in EtcdReads : seen' = e /\ DisksOrConclude(EtcdRisk(facts, e))
    BY <1>4 DEF ReadEtcd
  <2>2. EtcdRisk(facts, e) \in Facts /\ EtcdRisk(facts, e).nodes = facts.nodes
    BY <1>1, EtcdReadsType, EtcdRiskType DEF EtcdRisk, Facts
  <2>3. Ends(EtcdRisk(facts, e))
    BY <1>2, <2>1, <2>2
  <2> QED
    BY <1>4, <2>2, <2>3 DEF ReadEtcd
<1>5. CASE \E h \in Host : ReadDisks(h)
  <2>1. PICK h \in Host : ReadDisks(h)
    BY <1>5
  <2>2. PICK f \in Facts : /\ f \in {DiskFacts(facts, h, disks[m]) : m \in Reached(h)}
                                   \cup {[facts EXCEPT !.blocked = TRUE]}
                          /\ IF todo' = {} THEN Conclude(f)
                             ELSE facts' = f /\ UNCHANGED <<pc, prepared, outcome>>
    BY <2>1, DisksReadType
  <2>3. f.nodes = facts.nodes
    BY <1>1, <2>2 DEF DiskFacts, Facts
  <2>4. Ends(f)
    <3>1. CASE Conclude(f)
      BY <1>2, <3>1
    <3>2. CASE facts' = f /\ UNCHANGED <<pc, prepared, outcome>>
      BY <2>1, <3>2 DEF ReadDisks
    <3> QED
      BY <2>2, <3>1, <3>2
  <2> QED
    BY <2>1, <2>2, <2>3, <2>4 DEF ReadDisks
<1> QED
  BY <1>3, <1>4, <1>5 DEF LaterRead

\* Every step keeps the phases and the truth of the results.
LEMMA PhaseStep ==
    ASSUME TypeOK, Phases, ReportedTruly, [Next]_vars
    PROVE  Phases' /\ ReportedTruly'
<1> USE DEF world, sending
<1>1. ASSUME NEW r \in Request, Prepare(r) PROVE Phases' /\ ReportedTruly'
  BY <1>1 DEF Prepare, Phases, ReportedTruly, Return
<1>2. CASE LaterRead
  BY <1>2, LaterReadEffect DEF Phases, ReportedTruly, TypeOK
<1>11. CASE ReadNodes \/ ReadFails
  BY <1>11 DEF ReadNodes, ReadFails, Return, Phases, ReportedTruly, TypeOK
<1>3. CASE Confirm \/ Cancel \/ StopCanceled
  BY <1>3 DEF Confirm, Cancel, StopCanceled, Return, Phases, ReportedTruly
<1>4. CASE Finish
  BY <1>4 DEF Finish, Return, Phases, ReportedTruly, Answered
<1>5. ASSUME NEW h \in Host, Send(h) PROVE Phases' /\ ReportedTruly'
  BY <1>5 DEF Send, Phases, ReportedTruly, TypeOK, Answered
<1>6. ASSUME NEW h \in Host, NotSent(h) PROVE Phases' /\ ReportedTruly'
  BY <1>6 DEF NotSent, Phases, ReportedTruly, TypeOK, Answered
<1>7. ASSUME NEW h \in Host, Apply(h) PROVE Phases' /\ ReportedTruly'
  BY <1>7 DEF Apply, Phases, ReportedTruly, TypeOK, Answered
<1>8. ASSUME NEW h \in Host, NEW o \in {"accepted", "unconfirmed"}, RpcReturns(h, o)
      PROVE  Phases' /\ ReportedTruly'
  BY <1>8 DEF RpcReturns, Reported, Phases, ReportedTruly, TypeOK, Answered
<1>9. CASE Others
  BY <1>9 DEF Others, Phases, ReportedTruly, Answered
<1>10. CASE UNCHANGED vars
  BY <1>10 DEF vars, Phases, ReportedTruly, Answered
<1> QED
  BY <1>1, <1>2, <1>3, <1>4, <1>5, <1>6, <1>7, <1>8, <1>9, <1>10, <1>11 DEF Next, LaterRead

\* What the steps outside of the reads leave alone.
Calm == /\ UNCHANGED <<stage, request, nodes, seen, todo, facts, prepared>>
        /\ pc' \in {pc, "done"}
        /\ Started' => Started
        /\ quiet' => quiet /\ UNCHANGED <<inventory, etcd, disks>>

OtherStep == \/ ReadFails \/ Cancel \/ StopCanceled \/ Finish \/ Others \/ UNCHANGED vars
             \/ \E h \in Host : \/ Send(h) \/ NotSent(h) \/ Apply(h)
                               \/ \E o \in {"accepted", "unconfirmed"} : RpcReturns(h, o)

\* Steps outside of the reads leave the facts alone, and do not begin the dispatch.
LEMMA KeptEffect ==
    ASSUME TypeOK, Phases, OtherStep
    PROVE  Calm /\ ((\A h \in Host : ~Apply(h)) => UNCHANGED <<hits, erased>>)
<1> USE DEF world, sending
<1>1. CASE ReadFails \/ Cancel \/ StopCanceled \/ Finish
  BY <1>1 DEF ReadFails, Cancel, StopCanceled, Finish, Return, Calm, Started, Phases
<1>2. CASE Others
  BY <1>2 DEF Others, Calm, Started
<1>3. ASSUME NEW h \in Host, Send(h) PROVE Calm /\ UNCHANGED <<hits, erased>>
  BY <1>3 DEF Send, Calm, Started
<1>4. ASSUME NEW h \in Host, NotSent(h) PROVE Calm /\ UNCHANGED <<hits, erased>>
  BY <1>4 DEF NotSent, Calm, Started
<1>5. ASSUME NEW h \in Host, Apply(h) PROVE Calm
  BY <1>5 DEF Apply, Calm, Started, TypeOK
<1>6. ASSUME NEW h \in Host, NEW o \in {"accepted", "unconfirmed"}, RpcReturns(h, o)
      PROVE  Calm /\ UNCHANGED <<hits, erased>>
  BY <1>6 DEF RpcReturns, Calm, Started
<1>7. CASE UNCHANGED vars
  BY <1>7 DEF vars, Calm, Started
<1> QED
  BY <1>1, <1>2, <1>3, <1>4, <1>5, <1>6, <1>7 DEF OtherStep

\* The cases of a step, for the lemmas below.
LEMMA StepCases ==
    ASSUME [Next]_vars
    PROVE  \/ \E r \in Request : Prepare(r)
           \/ ReadNodes \/ LaterRead \/ Confirm \/ OtherStep
BY DEF Next, LaterRead, OtherStep

-----------------------------------------------------------------------------
(* The nodes of the second read are those the operator was shown *)

\* The second read found the nodes, or the RPCs rest on it.
SecondRead == stage = "recheck" /\ (pc \in {"risk", "disks"} \/ Started)

\* As long as nothing changed the inventory is the one last read.  Every target
\* names a machine in it, and the facts list these machines.
NodesRead ==
    /\ quiet => inventory = nodes
    /\ SecondRead => /\ \A h \in request.targets : ResolveTarget(nodes, h) # {}
                     /\ facts.nodes = NodeFacts(nodes).nodes

\* The targets are those of the nodes that the first read found.
NamedBy(f) == {n.target : n \in f.nodes}

NodesNamed ==
    /\ stage = "prepare" /\ pc \in {"risk", "disks"} => NamedBy(facts) = request.targets
    /\ pc = "confirm" \/ stage = "recheck" => NamedBy(prepared) = request.targets

Decided == Started => facts = prepared /\ ~facts.blocked

Agreed == NodesRead /\ NodesNamed /\ Decided

\* The facts list the machines that the targets resolve to, by their targets.
LEMMA NamedNodeFacts ==
    ASSUME NEW inv
    PROVE  /\ NodeFacts(inv).nodes = {[target |-> Target(m), id |-> m, role |-> inv[m]]
                                      : m \in Resolved(inv)}
           /\ NamedBy(NodeFacts(inv)) = {Target(m) : m \in Resolved(inv)}
<1> DEFINE shown(m) == [target |-> Target(m), id |-> m, role |-> inv[m]]
           R == Resolved(inv)
<1>1. NodeFacts(inv).nodes = {shown(m) : m \in R}
  BY DEF NodeFacts, NoFacts
<1>2. \A m : shown(m).target = Target(m)
  OBVIOUS
<1>3. {n.target : n \in {shown(m) : m \in R}} = {Target(m) : m \in R}
  <2> HIDE DEF shown, R
  <2> QED
    BY <1>2
<1> QED
  BY <1>1, <1>3 DEF NamedBy

\* Every step keeps the agreement between the inventory, the targets and the facts.
LEMMA AgreedStep ==
    ASSUME TypeOK, Phases, Agreed, [Next]_vars
    PROVE  Agreed'
<1> USE DEF world, sending
<1>1. ASSUME NEW r \in Request, Prepare(r) PROVE Agreed'
  BY <1>1 DEF Prepare, Return, Phases, Agreed, NodesRead, NodesNamed, Decided, SecondRead, Started
<1>2. CASE ReadNodes
  <2>1. /\ pc = "nodes" /\ nodes' = inventory /\ ~Started
        /\ UNCHANGED <<inventory, stage, rpc>>
    BY <1>2 DEF ReadNodes, Phases, Started
  <2>2. ~Started' /\ pc' \in {"done", "risk"}
    BY <1>2, <2>1 DEF ReadNodes, Started, Return
  <2>3. CASE ~TargetsAccepted(inventory)
    <3>1. UNCHANGED <<request, facts, prepared>> /\ pc' = "done"
      BY <1>2, <2>3 DEF ReadNodes, Return
    <3> QED
      BY <2>1, <2>2, <3>1 DEF Agreed, NodesRead, NodesNamed, NamedBy, Decided, SecondRead
  <2>4. CASE TargetsAccepted(inventory)
    <3> DEFINE T == IF stage = "prepare" THEN Canonical(request.targets, inventory)
                    ELSE request.targets
    <3>1. /\ request' = [request EXCEPT !.targets = T]
          /\ facts' = NodeFacts(inventory)
          /\ pc' = "risk" /\ UNCHANGED prepared
      BY <1>2, <2>4 DEF ReadNodes
    <3>2. request'.targets = T
      BY <3>1 DEF TypeOK
    <3>3. NodesRead'
      <4>1. stage = "recheck" => request'.targets = request.targets
        BY <3>2
      <4>2. stage = "recheck" => NodeFacts(nodes)' = NodeFacts(inventory)
        BY <2>1, <4>1 DEF NodeFacts, Resolved
      <4> QED
        BY <2>1, <2>2, <2>4, <3>1, <4>1, <4>2 DEF NodesRead, SecondRead, TargetsAccepted
    <3>4. NodesNamed'
      <4>1. NamedBy(NodeFacts(inventory)) = Canonical(request.targets, inventory)
        BY NamedNodeFacts DEF Canonical, Resolved
      <4> QED
        BY <2>1, <3>1, <3>2, <4>1 DEF Agreed, NodesNamed, NamedBy, TypeOK
    <3> QED
      BY <2>2, <3>3, <3>4 DEF Agreed, Decided
  <2> QED
    BY <2>3, <2>4
<1>3. CASE LaterRead
  <2>1. /\ pc \in {"risk", "disks"} /\ pc' \in {"disks", "confirm", "dispatch", "done"}
        /\ UNCHANGED <<inventory, stage, request, nodes, rpc, quiet>>
        /\ facts'.nodes = facts.nodes
        /\ stage = "prepare" => pc' \in {"disks", "confirm"}
        /\ stage = "recheck" => prepared' = prepared /\ pc' # "confirm"
        /\ pc' = "disks" => prepared' = prepared
        /\ pc' = "confirm" => prepared' = facts'
        /\ pc' = "dispatch" => facts' = prepared' /\ ~facts'.blocked
    BY <1>3, LaterReadEffect DEF TypeOK
  <2>2. ~Started /\ (Started' => pc' = "dispatch")
    BY <2>1 DEF Started, Phases
  <2>3. NodeFacts(nodes)' = NodeFacts(nodes)
    BY <2>1 DEF NodeFacts, Resolved
  <2>4. NodesRead'
    BY <2>1, <2>2, <2>3 DEF Agreed, NodesRead, SecondRead
  <2>5. NodesNamed'
    BY <2>1 DEF Agreed, NodesNamed, NamedBy, TypeOK
  <2> QED
    BY <2>1, <2>2, <2>4, <2>5 DEF Agreed, Decided
<1>4. CASE Confirm
  BY <1>4 DEF Confirm, Phases, Agreed, NodesRead, NodesNamed, NamedBy, Decided, SecondRead, Started
<1>5. CASE OtherStep
  <2>1. Calm
    BY <1>5, KeptEffect
  <2>2. NodeFacts(nodes)' = NodeFacts(nodes)
    BY <2>1 DEF Calm, NodeFacts, Resolved
  <2>3. SecondRead' => SecondRead
    BY <2>1 DEF Calm, SecondRead
  <2>4. NodesRead'
    BY <2>1, <2>2, <2>3 DEF Calm, Agreed, NodesRead
  <2>5. NodesNamed'
    BY <2>1 DEF Calm, Agreed, NodesNamed, NamedBy
  <2>6. Decided'
    BY <2>1 DEF Calm, Agreed, Decided
  <2> QED
    BY <2>4, <2>5, <2>6 DEF Agreed
<1> QED
  BY <1>1, <1>2, <1>3, <1>4, <1>5, StepCases

-----------------------------------------------------------------------------
(* Who is acted on *)

\* While nothing changes, a target means one machine, which was shown under it.
LEMMA TargetMeans ==
    ASSUME TypeOK, Phases, Agreed, Started, quiet,
           NEW h \in request.targets, h \in Host, NEW m \in Reached(h)
    PROVE  /\ h = Target(m)
           /\ [target |-> Target(m), id |-> m, role |-> inventory[m]] \in prepared.nodes
           /\ \A k \in Reached(h) : k = m
<1>1. SecondRead /\ stage = "recheck" /\ inventory = nodes /\ prepared = facts
  BY DEF TypeOK, Phases, Started, SecondRead, Agreed, NodesRead, Decided
<1>2. PICK k \in ResolveTarget(nodes, h) : TRUE
  BY <1>1 DEF Agreed, NodesRead
<1>3. \A j \in Reached(h) : j = k
  BY <1>1, <1>2 DEF ResolveTarget, Reached
<1>4. m \in Resolved(nodes)
  BY <1>2, <1>3 DEF Resolved
<1>5. /\ prepared.nodes = {[target |-> Target(x), id |-> x, role |-> nodes[x]] : x \in Resolved(nodes)}
      /\ request.targets = {Target(x) : x \in Resolved(nodes)}
  BY <1>1, NamedNodeFacts DEF Agreed, NodesRead, NodesNamed, NamedBy
<1>6. h = Target(m)
  <2>1. PICK x \in Resolved(nodes) : h = Target(x)
    BY <1>5
  <2>2. x \in Found(nodes) /\ Identifies(h, x)
    BY <2>1 DEF Resolved, ResolveTarget, Target, Identifies
  <2>3. x = k
    BY <1>2, <2>2 DEF ResolveTarget
  <2> QED
    BY <1>3, <2>1, <2>3
<1> QED
  BY <1>1, <1>3, <1>4, <1>5, <1>6

StandsByShown ==
    quiet => \A x \in hits :
                 /\ x = <<Target(x[2]), x[2]>>
                 /\ [target |-> Target(x[2]), id |-> x[2], role |-> inventory[x[2]]] \in prepared.nodes

\* Every step keeps the machines acted on among those shown.
LEMMA ShownStep ==
    ASSUME TypeOK, Phases, Agreed, StandsByShown, [Next]_vars
    PROVE  StandsByShown'
<1> USE DEF world, sending
<1>1. ASSUME NEW r \in Request, Prepare(r) PROVE StandsByShown'
  BY <1>1 DEF Prepare, Return, StandsByShown
<1>2. CASE ReadNodes
  BY <1>2 DEF ReadNodes, Phases, StandsByShown
<1>3. CASE LaterRead
  BY <1>3, LaterReadEffect DEF Phases, StandsByShown
<1>4. CASE Confirm
  BY <1>4 DEF Confirm, StandsByShown
<1>5. CASE OtherStep /\ \A h \in Host : ~Apply(h)
  BY <1>5, KeptEffect DEF Calm, StandsByShown
<1>6. ASSUME NEW h \in Host, Apply(h) PROVE StandsByShown'
  <2>1. Calm
    BY <1>6, KeptEffect DEF OtherStep
  <2>2. Started /\ h \in request.targets
    BY <1>6 DEF Apply, Started, TypeOK
  <2>3. PICK m \in Reached(h) : hits' = hits \cup {<<h, m>>}
    BY <1>6 DEF Apply
  <2>4. quiet => /\ h = Target(m)
                 /\ [target |-> Target(m), id |-> m, role |-> inventory[m]] \in prepared.nodes
    BY <2>2, <2>3, TargetMeans
  <2> QED
    BY <2>1, <2>3, <2>4 DEF Calm, StandsByShown
<1> QED
  BY <1>1, <1>2, <1>3, <1>4, <1>5, <1>6, StepCases

-----------------------------------------------------------------------------
(* The quorum *)

Gated(e) == IF request.kind = "reset" THEN ResetBlocked(e, request.targets)
            ELSE QuorumBlocked(e, request.targets)

\* An action that is not blocked has passed its gate on what the second read saw.
Judged ==
    SecondRead /\ pc # "risk" /\ AsksEtcd => /\ quiet => seen \in EtcdReads
                                             /\ ~facts.blocked => ~Gated(seen)

\* Every step keeps the gate passed on what the second read saw.
LEMMA JudgedStep ==
    ASSUME TypeOK, Phases, Judged, [Next]_vars
    PROVE  Judged'
<1> USE DEF world, sending
<1>1. ASSUME NEW r \in Request, Prepare(r) PROVE Judged'
  BY <1>1 DEF Prepare, Return, Phases, Judged, SecondRead, Started
<1>2. CASE ReadNodes
  <2>1. ~Started' /\ pc' \in {"done", "risk"}
    BY <1>2 DEF ReadNodes, Started, Return, Phases
  <2> QED
    BY <2>1 DEF Judged, SecondRead
<1>3. CASE NoRisk
  <2>1. UNCHANGED <<request, nodes>> /\ ~AsksEtcd
    BY <1>3 DEF NoRisk
  <2>2. ~AsksEtcd'
    BY <2>1 DEF AsksEtcd, HasControlPlane, Resolved
  <2> QED
    BY <2>2 DEF Judged
<1>4. CASE ReadEtcd
  <2>1. PICK e \in EtcdReads : seen' = e /\ DisksOrConclude(EtcdRisk(facts, e))
    BY <1>4 DEF ReadEtcd
  <2>2. UNCHANGED <<etcd, nodes, request>>
    BY <1>4 DEF ReadEtcd
  <2>3. facts' = EtcdRisk(facts, e)
    BY <2>1 DEF DisksOrConclude, Conclude
  <2>4. facts'.blocked = Gated(e)
    BY <2>3 DEF EtcdRisk, Gated, TypeOK, Facts
  <2>5. Gated(seen)' = Gated(e)
    BY <2>1, <2>2 DEF Gated
  <2>6. EtcdReads' = EtcdReads
    BY <2>2 DEF EtcdReads
  <2> QED
    BY <2>1, <2>4, <2>5, <2>6 DEF Judged
<1>5. ASSUME NEW h \in Host, ReadDisks(h) PROVE Judged'
  <2>1. /\ UNCHANGED <<etcd, nodes, request, seen, stage, rpc, quiet>> /\ pc = "disks"
    BY <1>5 DEF ReadDisks
  <2>2. ~facts'.blocked => ~facts.blocked
    <3>1. PICK f \in Facts :
              /\ f \in {DiskFacts(facts, h, disks[m]) : m \in Reached(h)}
                       \cup {[facts EXCEPT !.blocked = TRUE]}
              /\ IF todo' = {} THEN Conclude(f)
                 ELSE facts' = f /\ UNCHANGED <<pc, prepared, outcome>>
      BY <1>5, DisksReadType
    <3>2. facts' = f
      BY <3>1 DEF Conclude
    <3>3. \A m : DiskFacts(facts, h, disks[m]).blocked \in {TRUE, facts.blocked}
      BY DEF DiskFacts, TypeOK, Facts
    <3>4. [facts EXCEPT !.blocked = TRUE].blocked = TRUE
      BY DEF TypeOK, Facts
    <3>5. f.blocked \in {TRUE, facts.blocked}
      BY <3>1, <3>3, <3>4
    <3> QED
      BY <3>2, <3>5
  <2>3. Gated(seen)' = Gated(seen) /\ EtcdReads' = EtcdReads /\ AsksEtcd' = AsksEtcd
    BY <2>1 DEF Gated, EtcdReads, AsksEtcd, HasControlPlane, Resolved
  <2>4. SecondRead' => SecondRead
    BY <2>1 DEF SecondRead
  <2> QED
    BY <2>1, <2>2, <2>3, <2>4 DEF Judged
<1>6. CASE Confirm
  BY <1>6 DEF Confirm, Phases, Judged, SecondRead, Started
<1>7. CASE OtherStep
  <2>1. Calm
    BY <1>7, KeptEffect
  <2>2. Gated(seen)' = Gated(seen) /\ AsksEtcd' = AsksEtcd
    BY <2>1 DEF Calm, Gated, AsksEtcd, HasControlPlane, Resolved
  <2>3. quiet' => quiet /\ EtcdReads' = EtcdReads
    BY <2>1 DEF Calm, EtcdReads
  <2>4. SecondRead' /\ pc' # "risk" => SecondRead /\ pc # "risk"
    <3>1. pc = "risk" => ~Started
      BY DEF Started, Phases
    <3> QED
      BY <2>1, <3>1 DEF Calm, SecondRead
  <2> QED
    BY <2>1, <2>2, <2>3, <2>4 DEF Calm, Judged
<1> QED
  BY <1>1, <1>2, <1>3, <1>4, <1>5, <1>6, <1>7, StepCases DEF LaterRead

\* What a read that found the members says of them.
LEMMA EtcdReadMeans ==
    ASSUME TypeOK, NEW e \in EtcdReads, e.available
    PROVE  /\ DOMAIN e.members = {m \in Machine : etcd[m] # "none"}
           /\ Voters(e.members) = {m \in Machine : etcd[m] # "none"}
           /\ \A m \in DOMAIN e.members :
                  /\ e.members[m].host = MemberHost[m] /\ e.members[m].urls = {AddressOf[m]}
                  /\ e.members[m].status = "healthy" => etcd[m] = "up"
                  /\ e.members[m].status \in {"healthy", "errors", "unread"}
<1> DEFINE voters == {m \in Machine : etcd[m] # "none"}
           asked == {m \in voters : nodes[m] = "control"}
           status(m, silent) == IF m \notin asked \ silent THEN "unread"
                                ELSE IF etcd[m] = "up" THEN "healthy" ELSE "errors"
           list(silent) == [m \in voters |-> [host |-> MemberHost[m], urls |-> {AddressOf[m]},
                                              learner |-> FALSE, leader |-> FALSE,
                                              status |-> status(m, silent)]]
<1>0. e = Unavailable \/ \E silent : e = [available |-> TRUE, members |-> list(silent)]
  BY DEF EtcdReads
<1>1. PICK silent : e = [available |-> TRUE, members |-> list(silent)]
  <2>1. ~Unavailable.available
    BY DEF Unavailable
  <2> HIDE DEF list
  <2> QED
    BY <1>0, <2>1
<1>2. e.members = list(silent)
  <2> HIDE DEF list
  <2> QED
    BY <1>1
<1>3. DOMAIN list(silent) = voters
  OBVIOUS
<1>4. \A m \in voters :
          /\ list(silent)[m].host = MemberHost[m] /\ list(silent)[m].urls = {AddressOf[m]}
          /\ list(silent)[m].learner = FALSE
          /\ list(silent)[m].status = status(m, silent)
  OBVIOUS
<1>5. \A m \in voters : /\ status(m, silent) = "healthy" => etcd[m] = "up"
                        /\ status(m, silent) \in {"healthy", "errors", "unread"}
  OBVIOUS
<1> HIDE DEF list, status, voters
<1>6. Voters(e.members) = voters
  BY <1>2, <1>3, <1>4 DEF Voters
<1> QED
  BY <1>2, <1>3, <1>4, <1>5, <1>6 DEF voters

\* Passing the gate on a read of the present world leaves a quorum.
LEMMA QuorumFollows ==
    ASSUME TypeOK, Phases, Agreed, Judged
    PROVE  QuorumKept
<1> DEFINE voters == {m \in Machine : etcd[m] # "none"}
           left == voters \ UNION {Reached(h) : h \in request.targets}
           spared == {m \in left : \/ etcd[m] = "up"
                                   \/ request.kind # "reset" /\ seen.members[m].status = "unread"}
           assessed == IF request.kind = "reset" THEN HasControlPlane
                       ELSE AsksEtcd /\ seen.available /\ voters # {}
<1> SUFFICES ASSUME quiet, assessed, NEW g \in Host, rpc[g] # "none"
             PROVE  Majority(spared, voters)
  BY DEF QuorumKept
<1>1. Started /\ SecondRead /\ pc # "risk" /\ AsksEtcd /\ ~facts.blocked
  BY DEF TypeOK, Started, SecondRead, Phases, Agreed, Decided, AsksEtcd
<1>2. seen \in EtcdReads /\ ~Gated(seen) /\ IsPolicyFacts(seen)
  BY <1>1 DEF Judged, TypeOK
<1> DEFINE e == seen.members
           T == request.targets
<1>3. seen.available /\ (request.kind = "reset" => Voters(e) # {} /\ Majority(Sure(e, T), Voters(e)))
  <2>1. CASE request.kind = "reset"
    <3>1. Voters(e) # {} /\ Majority(Sure(e, T), Voters(e))
      BY <1>2, <2>1, ResetGate DEF Gated
    <3> QED
      BY <1>2, <3>1 DEF IsPolicyFacts, Voters
  <2>2. CASE request.kind # "reset"
    BY <2>2
  <2> QED
    BY <2>1, <2>2
<1>4. /\ DOMAIN e = voters /\ Voters(e) = voters
      /\ \A m \in voters : /\ e[m].host = MemberHost[m] /\ e[m].urls = {AddressOf[m]}
                           /\ e[m].status = "healthy" => etcd[m] = "up"
                           /\ e[m].status \in {"healthy", "errors", "unread"}
  BY <1>2, <1>3, EtcdReadMeans
<1>5. request.kind # "reset" => Majority(Possible(e, T), Voters(e))
  BY <1>2, <1>4, QuorumGate DEF Gated
<1>6. T \subseteq Host
  <2>1. T = NamedBy(facts)
    BY <1>1 DEF Agreed, NodesNamed, Decided, SecondRead
  <2> QED
    BY <2>1 DEF NamedBy, TypeOK, Facts
<1>7. voters \ AtRisk(e, T) \subseteq left
  <2> SUFFICES ASSUME NEW m \in voters \ AtRisk(e, T), NEW h \in T, m \in Reached(h)
               PROVE  FALSE
    OBVIOUS
  <2>1. h # MemberHost[m] /\ h # m /\ h # AddressOf[m]
    BY <1>4 DEF AtRisk, MatchesAny
  <2>2. h \in {m, NameOf[m], AddressOf[m]} /\ h # NoHost
    BY <1>6, PolicyAssumption DEF Reached, Identifies
  <2> QED
    BY <2>1, <2>2, EnvironmentAssumption
<1>8. Sure(e, T) \subseteq spared
  BY <1>4, <1>7 DEF Sure, Healthy
<1>9. request.kind # "reset" => Possible(e, T) \subseteq spared
  BY <1>4, <1>7 DEF Possible
<1>10. IsFiniteSet(voters) /\ spared \subseteq voters
  BY <1>2, <1>4, VotersFinite DEF IsPolicyFacts
<1> HIDE DEF voters, spared, e, T
<1> QED
  BY <1>3, <1>4, <1>5, <1>8, <1>9, <1>10, MajorityGrows

-----------------------------------------------------------------------------
(* The disks *)

\* What a valid request says of the disks, with its targets as stated or as they
\* were resolved.
WellStated ==
    LET one == \A x, y \in request.targets : x = y
    IN /\ request.kind = "reset" => request.mode # "none" /\ (request.mode # "system" => one)
       /\ request.kind = "wipe" => request.mode = "none" /\ one

DisksUnique == \A m \in Machine : NamesUnique(disks[m])

\* Every step keeps the request valid and the device names unique.
LEMMA StatedStep ==
    ASSUME TypeOK, WellStated, DisksUnique, [Next]_vars
    PROVE  WellStated' /\ DisksUnique'
<1> USE DEF world
<1>1. ASSUME NEW r \in Request, Prepare(r) PROVE WellStated' /\ DisksUnique'
  <2>1. UNCHANGED disks
    BY <1>1 DEF Prepare
  <2>2. CASE Valid(r)
    <3>1. Cardinality(r.targets) = 1 => \A x, y \in r.targets : x = y
      <4>1. IsFiniteSet(r.targets)
        BY NodeActionAssumption
      <4>2. Cardinality(r.targets) = 1 => \E x : r.targets = {x}
        BY <4>1, FS_Singleton
      <4> QED
        BY <4>2
    <3>2. request' = r
      BY <1>1, <2>2 DEF Prepare
    <3>3. WellStated'
      BY <2>2, <3>1, <3>2 DEF Valid, WellStated
    <3> QED
      BY <2>1, <3>3 DEF DisksUnique
  <2>3. CASE ~Valid(r)
    BY <1>1, <2>1, <2>3 DEF Prepare, WellStated, DisksUnique
  <2> QED
    BY <2>2, <2>3
<1>2. CASE ReadNodes
  <2>1. UNCHANGED disks
    BY <1>2 DEF ReadNodes
  <2>2. request' = request \/ \E T \in {Canonical(request.targets, inventory), request.targets} :
                                  request' = [request EXCEPT !.targets = T]
    BY <1>2 DEF ReadNodes, Return
  <2>3. (\A x, y \in request.targets : x = y) =>
            \A x, y \in Canonical(request.targets, inventory) : x = y
    BY DEF Canonical, ResolveTarget
  <2>4. WellStated'
    BY <2>2, <2>3 DEF WellStated, TypeOK
  <2> QED
    BY <2>1, <2>4 DEF DisksUnique
<1>3. CASE LaterRead
  BY <1>3, LaterReadEffect DEF WellStated, DisksUnique
<1>4. CASE Confirm
  BY <1>4 DEF Confirm, WellStated, DisksUnique
<1>5. CASE Others
  <2>1. UNCHANGED request
    BY <1>5 DEF Others
  <2>2. DisksUnique'
    BY <1>5, EnvironmentAssumption DEF Others, DisksUnique, TypeOK
  <2> QED
    BY <2>1, <2>2 DEF WellStated
<1>6. CASE OtherStep /\ ~Others
  <2>1. UNCHANGED <<request, disks>>
    BY <1>6 DEF OtherStep, ReadFails, Cancel, StopCanceled, Finish, Send, NotSent, Apply, RpcReturns, vars
  <2> QED
    BY <2>1 DEF WellStated, DisksUnique
<1> QED
  BY <1>1, <1>2, <1>3, <1>4, <1>5, <1>6, StepCases

\* What is in the scope of an action that the disks of a machine do not refuse.
LEMMA ScopeMeans ==
    ASSUME WellStated, request.kind \in {"reset", "wipe"},
           request.mode \in {"none", "system", "user", "all"},
           NEW list, ~Scope(list).refused
    PROVE  /\ \A d \in Scope(list).disks :
                  ~d.readonly /\ (d.system => request.kind = "reset" /\ request.mode # "user")
           /\ \A d \in list : d.system /\ request.mode \in {"system", "all"} => d \in Scope(list).disks
           /\ request.mode = "system" => \A d \in Scope(list).disks : d.system
<1>1. CASE request.kind = "wipe"
  BY <1>1 DEF Scope, WipeScope, WellStated
<1>2. CASE request.kind = "reset"
  <2> DEFINE systems == {d \in list : d.system}
             users == {d \in list : ~d.system /\ ~d.readonly}
             named(x) == {d \in users : d.name = x}
             selected == CASE request.mode = "system" -> {}
                           [] request.mode # "system" /\ request.devices = {} -> users
                           [] OTHER -> UNION {named(x) : x \in request.devices}
  <2>1. /\ Scope(list).disks = selected \cup (IF request.mode = "user" THEN {} ELSE systems)
        /\ request.mode # "user" => \A d \in systems : ~d.readonly
    BY <1>2 DEF Scope, ResetScope
  <2>2. selected \subseteq users /\ (request.mode = "system" => selected = {})
    OBVIOUS
  <2> HIDE DEF selected
  <2> QED
    BY <1>2, <2>1, <2>2 DEF WellStated
<1> QED
  BY <1>1, <1>2

\* While nothing changes, the second read has found the disks of every target it
\* is done with, and the devices it will name are among them.
DisksFound ==
    LET done == request.targets \ todo
    IN /\ \A h \in done : \A m \in Reached(h) :
              /\ ~Scope(disks[m]).refused
              /\ \A d \in Scope(disks[m]).disks : [node |-> h, disk |-> d] \in facts.scope
       /\ \A n \in facts.devices : \E h \in done : \E m \in Reached(h) :
              \E d \in Scope(disks[m]).disks : ~d.system /\ d.name = n

Covered ==
    /\ pc = "risk" => todo = request.targets /\ facts.devices = {}
    /\ SecondRead /\ pc # "risk" /\ request.kind \in {"reset", "wipe"} =>
           /\ Started => todo = {}
           /\ quiet /\ ~facts.blocked => DisksFound

\* A target of the second read means at most one machine.
LEMMA ReachedOnce ==
    ASSUME NodesRead, SecondRead, quiet,
           NEW h \in request.targets, NEW m \in Reached(h), NEW k \in Reached(h)
    PROVE  m = k
BY DEF NodesRead, Reached, ResolveTarget

\* The turn of the loop that reads the disks of a target.
LEMMA DisksStep ==
    ASSUME TypeOK, Phases, Agreed, Covered, NEW h \in Host, ReadDisks(h)
    PROVE  Covered'
<1> USE DEF world, sending
<1>1. /\ UNCHANGED <<inventory, disks, request, stage, rpc, quiet>>
      /\ pc = "disks" /\ h \in todo /\ todo' = todo \ {h} /\ h \in request.targets
  BY DEF ReadDisks, TypeOK
<1>2. PICK f \in Facts : /\ f \in {DiskFacts(facts, h, disks[m]) : m \in Reached(h)}
                                  \cup {[facts EXCEPT !.blocked = TRUE]}
                         /\ IF todo' = {} THEN Conclude(f)
                            ELSE facts' = f /\ UNCHANGED <<pc, prepared, outcome>>
  BY DisksReadType
<1>3. facts' = f /\ pc' # "risk"
  BY <1>1, <1>2 DEF Conclude, Return
<1>4. ~Started /\ (SecondRead' => SecondRead)
  BY <1>1 DEF Started, Phases, SecondRead
<1>5. Started' => todo' = {}
  <2>1. todo' # {} => pc' = "disks"
    BY <1>1, <1>2
  <2> QED
    BY <1>1, <1>4, <2>1 DEF Started
<1>6. ASSUME SecondRead, request.kind \in {"reset", "wipe"}, quiet, ~facts'.blocked
      PROVE  DisksFound'
  <2>1. PICK m \in Reached(h) : f = DiskFacts(facts, h, disks[m])
    <3>1. [facts EXCEPT !.blocked = TRUE].blocked
      BY DEF TypeOK, Facts
    <3> QED
      BY <1>2, <1>3, <1>6, <3>1
  <2> DEFINE scope == Scope(disks[m])
  <2>2. /\ ~scope.refused /\ ~facts.blocked
        /\ facts'.scope = facts.scope \cup {[node |-> h, disk |-> d] : d \in scope.disks}
        /\ facts'.devices = facts.devices \cup {d.name : d \in {x \in scope.disks : ~x.system}}
    BY <1>3, <1>6, <2>1 DEF DiskFacts, TypeOK, Facts
  <2>3. DisksFound
    BY <1>1, <1>6, <2>2 DEF Covered
  <2>4. /\ \A list : Scope(list)' = Scope(list)
        /\ \A g : Reached(g)' = Reached(g)
    BY <1>1 DEF Scope, ResetScope, WipeScope, Reached
  <2>5. \A k \in Reached(h) : k = m
    BY <1>1, <1>6, ReachedOnce DEF Agreed
  <2>6. request'.targets \ todo' = (request.targets \ todo) \cup {h}
    BY <1>1
  <2> DEFINE done == request.targets \ todo
  <2>7. ASSUME NEW g \in done \cup {h}, NEW k \in Reached(g)
        PROVE  /\ ~Scope(disks[k]).refused
               /\ \A d \in Scope(disks[k]).disks : [node |-> g, disk |-> d] \in facts'.scope
    BY <2>2, <2>3, <2>5, <2>7 DEF DisksFound
  <2>8. ASSUME NEW n \in facts'.devices
        PROVE  \E g \in done \cup {h} : \E k \in Reached(g) :
                   \E d \in Scope(disks[k]).disks : ~d.system /\ d.name = n
    <3>1. CASE n \in facts.devices
      BY <2>3, <3>1 DEF DisksFound
    <3>2. CASE n \in {d.name : d \in {x \in scope.disks : ~x.system}}
      BY <2>1, <3>2
    <3> QED
      BY <2>2, <2>8, <3>1, <3>2
  <2> HIDE DEF done
  <2>9. done \cup {h} = (request.targets \ todo)'
    BY <2>6 DEF done
  <2> QED
    BY <1>1, <2>4, <2>7, <2>8, <2>9 DEF DisksFound
<1> QED
  BY <1>1, <1>3, <1>4, <1>5, <1>6 DEF Covered

\* Every step keeps the disks found by the second read within the facts.
LEMMA CoveredStep ==
    ASSUME TypeOK, Phases, Agreed, Covered, [Next]_vars
    PROVE  Covered'
<1> USE DEF world, sending
<1>1. ASSUME NEW r \in Request, Prepare(r) PROVE Covered'
  BY <1>1 DEF Prepare, Return, Phases, Covered, SecondRead, Started
<1>2. CASE ReadNodes
  <2>1. ~Started' /\ pc' \in {"done", "risk"}
    BY <1>2 DEF ReadNodes, Started, Return, Phases
  <2>2. pc' = "risk" => todo' = request'.targets /\ facts'.devices = {}
    BY <1>2 DEF ReadNodes, Return, NodeFacts, NoFacts, TypeOK
  <2> QED
    BY <2>1, <2>2 DEF Covered, SecondRead
<1>3. CASE NoRisk \/ ReadEtcd
  <2>1. PICK f : /\ DisksOrConclude(f) /\ f.devices = facts.devices
    <3>1. CASE NoRisk
      BY <3>1 DEF NoRisk
    <3>2. CASE ReadEtcd
      <4>1. PICK e \in EtcdReads : DisksOrConclude(EtcdRisk(facts, e))
        BY <3>2 DEF ReadEtcd
      <4>2. EtcdRisk(facts, e).devices = facts.devices
        BY DEF EtcdRisk, TypeOK, Facts
      <4> QED
        BY <4>1, <4>2
    <3> QED
      BY <1>3, <3>1, <3>2
  <2>2. /\ pc = "risk" /\ UNCHANGED <<request, todo, stage, rpc>>
    BY <1>3 DEF NoRisk, ReadEtcd
  <2>3. facts'.devices = {} /\ todo' = request'.targets
    BY <2>1, <2>2 DEF DisksOrConclude, Conclude, Covered
  <2>4. pc' # "risk" /\ (request.kind \in {"reset", "wipe"} => pc' = "disks")
    BY <2>1 DEF DisksOrConclude, Conclude, Return
  <2>5. request.kind \in {"reset", "wipe"} => ~Started'
    BY <2>2, <2>4 DEF Started, Phases
  <2>6. DisksFound'
    BY <2>3 DEF DisksFound
  <2> QED
    BY <2>2, <2>4, <2>5, <2>6 DEF Covered
<1>4. ASSUME NEW h \in Host, ReadDisks(h) PROVE Covered'
  BY <1>4, DisksStep
<1>5. CASE Confirm
  BY <1>5 DEF Confirm, Phases, Covered, SecondRead, Started
<1>6. CASE OtherStep
  <2>1. Calm
    BY <1>6, KeptEffect
  <2>2. SecondRead' /\ pc' # "risk" => SecondRead /\ pc # "risk"
    <3>1. pc = "risk" => ~Started
      BY DEF Started, Phases
    <3> QED
      BY <2>1, <3>1 DEF Calm, SecondRead
  <2>3. quiet' => DisksFound' = DisksFound
    BY <2>1 DEF Calm, DisksFound, Reached, Scope, ResetScope, WipeScope
  <2> QED
    BY <2>1, <2>2, <2>3 DEF Calm, Covered
<1> QED
  BY <1>1, <1>2, <1>3, <1>4, <1>5, <1>6, StepCases DEF LaterRead

\* Every step keeps the disks erased among those shown.
LEMMA ErasedStep ==
    ASSUME TypeOK, Phases, Agreed, WellStated, DisksUnique, Covered, ErasesAsShown, [Next]_vars
    PROVE  ErasesAsShown'
<1> USE DEF world, sending
<1>1. ASSUME NEW r \in Request, Prepare(r) PROVE ErasesAsShown'
  BY <1>1 DEF Prepare, Phases, ErasesAsShown
<1>2. CASE ReadNodes
  BY <1>2 DEF ReadNodes, Phases, ErasesAsShown
<1>3. CASE LaterRead
  BY <1>3, LaterReadEffect DEF Phases, ErasesAsShown
<1>4. CASE Confirm
  BY <1>4 DEF Confirm, ErasesAsShown
<1>5. CASE OtherStep /\ \A h \in Host : ~Apply(h)
  BY <1>5, KeptEffect DEF Calm, ErasesAsShown
<1>6. ASSUME NEW h \in Host, Apply(h) PROVE ErasesAsShown'
  <2>1. Calm
    BY <1>6, KeptEffect DEF OtherStep
  <2>2. Started /\ SecondRead /\ pc # "risk" /\ h \in request.targets
    BY <1>6 DEF Apply, Started, SecondRead, TypeOK, Phases
  <2>3. PICK m \in Reached(h) :
            erased' = erased \cup {<<m, d>> : d \in IF request.kind \in {"reset", "wipe"}
                                                     THEN Erases(disks[m]) ELSE {}}
    BY <1>6 DEF Apply
  <2>4. ASSUME quiet, request.kind \in {"reset", "wipe"}, NEW d \in Erases(disks[m])
        PROVE  /\ [node |-> Target(m), disk |-> d] \in prepared.scope
               /\ ~d.readonly
               /\ d.system => request.kind = "reset" /\ request.mode # "user"
    <3>1. h = Target(m) /\ \A k \in Reached(h) : k = m
      BY <2>2, <2>3, <2>4, TargetMeans
    <3>2. facts = prepared /\ ~facts.blocked /\ todo = {} /\ DisksFound
      BY <2>2, <2>4 DEF Agreed, Decided, Covered
    <3>3. /\ ~Scope(disks[m]).refused
          /\ \A x \in Scope(disks[m]).disks : [node |-> Target(m), disk |-> x] \in prepared.scope
      BY <2>2, <2>3, <3>1, <3>2 DEF DisksFound
    <3>4. request.mode \in {"none", "system", "user", "all"} /\ m \in Machine
          /\ Scope(disks[m]).disks \subseteq disks[m]
      BY <2>3, ScopeType DEF TypeOK, Reached, Found
    <3>5. d \in Scope(disks[m]).disks
      <4>1. CASE d.system /\ request.mode \in {"system", "all"}
        BY <2>4, <3>3, <3>4, <4>1, ScopeMeans DEF Erases
      <4>2. CASE d.name \in facts.devices
        <5>1. PICK g \in request.targets :
                  \E k \in Reached(g) : \E x \in Scope(disks[k]).disks : ~x.system /\ x.name = d.name
          BY <3>2, <4>2 DEF DisksFound
        <5>2. PICK k \in Reached(g) : \E x \in Scope(disks[k]).disks : ~x.system /\ x.name = d.name
          BY <5>1
        <5>3. PICK x \in Scope(disks[k]).disks : ~x.system /\ x.name = d.name
          BY <5>2
        <5>4. ~Scope(disks[k]).refused
          BY <3>2, <5>2 DEF DisksFound
        <5>5. request.mode # "system"
          BY <2>4, <3>4, <5>3, <5>4, ScopeMeans
        <5>6. g = h
          BY <2>2, <2>4, <5>5 DEF WellStated
        <5>7. k = m
          BY <3>1, <5>2, <5>6
        <5>8. x = d
          BY <2>4, <3>4, <5>3, <5>7 DEF DisksUnique, NamesUnique, Erases
        <5> QED
          BY <5>3, <5>7, <5>8
      <4> QED
        BY <2>4, <4>1, <4>2 DEF Erases
    <3> QED
      BY <2>4, <3>3, <3>4, <3>5, ScopeMeans
  <2> QED
    BY <2>1, <2>3, <2>4 DEF Calm, ErasesAsShown
<1> QED
  BY <1>1, <1>2, <1>3, <1>4, <1>5, <1>6, StepCases

-----------------------------------------------------------------------------
(* The theorems *)

IInv == /\ TypeOK /\ Phases /\ ReportedTruly
        /\ Agreed /\ StandsByShown /\ Judged
        /\ WellStated /\ DisksUnique /\ Covered /\ ErasesAsShown

\* The invariant holds in every reachable state.
THEOREM Inductive == Spec => []IInv
<1>1. Init => IInv
  <2> SUFFICES ASSUME Init
               PROVE  IInv
    OBVIOUS
  <2> USE DEF Init
  <2>1. TypeOK
    <3>1. NoFacts \in Facts /\ IsPolicyFacts(Unavailable)
      BY DEF NoFacts, Facts, UnknownQuorum, QuorumAssessment, IsPolicyFacts, IsMemberList, Unavailable
    <3>2. /\ inventory \in [Machine -> Role] /\ etcd \in [Machine -> {"none", "up", "ill"}]
          /\ disks \in [Machine -> SUBSET Disk] /\ changes \in 0 .. MaxChanges
      BY NodeActionAssumption
    <3>3. request \in [kind : Kind, targets : SUBSET Identity, devices : SUBSET Device,
                       mode : {"none", "system", "user", "all"}]
      BY DEF NoRequest, Kind
    <3>4. nodes \in [Machine -> Role]
      BY DEF Role
    <3> QED
      BY <3>1, <3>2, <3>3, <3>4 DEF TypeOK
  <2>2. Phases /\ ReportedTruly
    BY DEF Phases, ReportedTruly
  <2>3. ~Started /\ ~SecondRead
    BY DEF Started, SecondRead
  <2>4. Agreed /\ Judged /\ Covered
    BY <2>3 DEF Agreed, NodesRead, NodesNamed, Decided, Judged, Covered
  <2>5. StandsByShown /\ ErasesAsShown
    BY DEF StandsByShown, ErasesAsShown
  <2>6. WellStated /\ DisksUnique
    BY EnvironmentAssumption DEF WellStated, NoRequest, DisksUnique
  <2> QED
    BY <2>1, <2>2, <2>4, <2>5, <2>6 DEF IInv
<1>2. IInv /\ [Next]_vars => IInv'
  BY TypeStep, PhaseStep, AgreedStep, ShownStep, JudgedStep, StatedStep, CoveredStep, ErasedStep
     DEF IInv
<1> QED
  BY <1>1, <1>2, PTL DEF Spec

\* The variables keep their types, and only resolved targets are sent anything.
THEOREM TypeCorrect == Spec => []TypeOK
<1>1. IInv => TypeOK
  BY DEF IInv
<1> QED
  BY <1>1, Inductive, PTL

\* Every target's result says what happened to it.
THEOREM Truthful == Spec => []ReportedTruly
<1>1. IInv => ReportedTruly
  BY DEF IInv
<1> QED
  BY <1>1, Inductive, PTL

\* In a world that has been quiet since the recheck only machines that were shown
\* are acted on, each of them once.
THEOREM ActsOnShown == Spec => []ActsAsShown
<1>1. IInv => ActsAsShown
  <2> SUFFICES ASSUME StandsByShown, quiet, NEW x \in hits, NEW y \in hits
               PROVE  /\ [target |-> x[1], id |-> x[2], role |-> inventory[x[2]]] \in prepared.nodes
                      /\ x[2] = y[2] => x = y
    BY DEF IInv, ActsAsShown
  <2>1. /\ x = <<Target(x[2]), x[2]>> /\ y = <<Target(y[2]), y[2]>>
        /\ [target |-> Target(x[2]), id |-> x[2], role |-> inventory[x[2]]] \in prepared.nodes
    BY DEF StandsByShown
  <2>2. x[1] = Target(x[2])
    BY <2>1
  <2> QED
    BY <2>1, <2>2
<1> QED
  BY <1>1, Inductive, PTL

\* In such a world only disks that were shown are erased.
THEOREM ErasesOnlyShown == Spec => []ErasesAsShown
<1>1. IInv => ErasesAsShown
  BY DEF IInv
<1> QED
  BY <1>1, Inductive, PTL

\* In such a world the voters outside the targets are a quorum.
THEOREM QuorumIsKept == Spec => []QuorumKept
<1>1. IInv => QuorumKept
  BY QuorumFollows DEF IInv
<1> QED
  BY <1>1, Inductive, PTL

-----------------------------------------------------------------------------
(* Rows of the live views *)

Lines == Stream \X Nat

\* So many rows go.
Surplus(all) == IF all > MaxRows THEN all - MaxRows ELSE 0

\* The rows r are those of both sequences without the first ones.
LastOf(r, rows, batch, drop) ==
    \A i \in 1 .. Len(r) :
        /\ drop + i \in 1 .. Len(rows) + Len(batch)
        /\ drop + i <= Len(rows) => r[i] = rows[drop + i]
        /\ ~(drop + i <= Len(rows)) => r[i] = batch[drop + i - Len(rows)]

\* What is appended to a view, row by row: the last rows of both sequences.
LEMMA AppendedRows ==
    ASSUME NEW rows \in Seq(Lines), NEW batch \in Seq(Lines)
    PROVE  \A r, all, drop :
           /\ r = Appended(rows, batch)
           /\ all = Len(rows) + Len(batch)
           /\ drop = Surplus(all)
           =>
           /\ r \in Seq(Lines) /\ drop \in Nat /\ drop <= all
           /\ Len(r) = all - drop
           /\ LastOf(r, rows, batch, drop)
<1> SUFFICES ASSUME NEW r, r = Appended(rows, batch),
                    NEW all, all = Len(rows) + Len(batch),
                    NEW drop, drop = Surplus(all)
             PROVE  /\ r \in Seq(Lines) /\ drop \in Nat /\ drop <= all
                    /\ Len(r) = all - drop
                    /\ LastOf(r, rows, batch, drop)
  OBVIOUS
<1> DEFINE both == rows \o batch
<1>1. /\ Len(rows) \in Nat /\ Len(batch) \in Nat /\ all \in Nat
      /\ MaxRows \in Nat /\ MaxRows > 0
  BY StreamAssumption
<1>2. both \in Seq(Lines) /\ Len(both) = all
  OBVIOUS
<1>3. \A i \in 1 .. all : both[i] = IF i <= Len(rows) THEN rows[i] ELSE batch[i - Len(rows)]
  BY ConcatProperties
<1>4. drop \in Nat /\ drop <= all
  BY <1>1 DEF Surplus
<1>5. r = SubSeq(both, drop + 1, all)
  <2>1. r = SubSeq(both, IF all > MaxRows THEN all - MaxRows + 1 ELSE 1, all)
    BY <1>2 DEF Appended
  <2>2. drop + 1 = IF all > MaxRows THEN all - MaxRows + 1 ELSE 1
    BY <1>1 DEF Surplus
  <2> QED
    BY <2>1, <2>2
<1> HIDE DEF both
<1>6. /\ r \in Seq(Lines)
      /\ Len(r) = all - drop
      /\ \A i \in 1 .. all - drop : r[i] = both[drop + 1 + i - 1]
  <2> DEFINE m == drop + 1
  <2>1. m \in Int /\ all \in Int
    BY <1>1, <1>4
  <2>2. \A i \in m .. all : both[i] \in Lines
    <3>1. \A i \in m .. all : i \in 1 .. Len(both)
      BY <1>1, <1>2, <1>4
    <3> QED
      BY <1>2, <3>1
  <2> HIDE DEF m
  <2>3. /\ r \in Seq(Lines)
        /\ Len(r) = IF m <= all THEN all - m + 1 ELSE 0
        /\ \A i \in 1 .. all - m + 1 : r[i] = both[m + i - 1]
    <3>1. r = SubSeq(both, m, all)
      BY <1>5 DEF m
    <3> QED
      BY <2>1, <2>2, <3>1, SubSeqProperties
  <2>4. all - m + 1 = all - drop /\ (m <= all \/ all - drop = 0)
    BY <1>1, <1>4 DEF m
  <2>5. Len(r) = all - drop
    BY <2>3, <2>4, <1>1, <1>4 DEF m
  <2> QED
    BY <2>3, <2>4, <2>5 DEF m
<1>7. ASSUME NEW i \in 1 .. Len(r)
      PROVE  /\ drop + i \in 1 .. all
             /\ drop + i <= Len(rows) => r[i] = rows[drop + i]
             /\ ~(drop + i <= Len(rows)) => r[i] = batch[drop + i - Len(rows)]
  <2>1. i \in 1 .. all - drop
    BY <1>6
  <2>2. drop + i \in 1 .. all /\ drop + 1 + i - 1 = drop + i
    BY <1>1, <1>4, <2>1
  <2>3. r[i] = both[drop + i]
    BY <1>6, <2>1, <2>2
  <2>k. PICK k : k = drop + i
    OBVIOUS
  <2>4. k \in 1 .. all /\ k \in Nat /\ r[i] = both[k]
    BY <1>1, <2>2, <2>3, <2>k
  <2>5. both[k] = IF k <= Len(rows) THEN rows[k] ELSE batch[k - Len(rows)]
    BY <1>3, <2>4
  <2>6. /\ k <= Len(rows) => r[i] = rows[k]
        /\ ~(k <= Len(rows)) => r[i] = batch[k - Len(rows)]
    BY <1>1, <2>4, <2>5
  <2>7. drop + i \in 1 .. all
    BY <2>4, <2>k
  <2>8. drop + i <= Len(rows) => r[i] = rows[drop + i]
    BY <2>6, <2>k, Zenon
  <2>9. ~(drop + i <= Len(rows)) => r[i] = batch[drop + i - Len(rows)]
    <3>1. drop \in Nat /\ i \in Nat /\ Len(rows) \in Nat
      BY <1>1, <1>4, <2>1
    <3>2. PICK j : j = k - Len(rows)
      OBVIOUS
    <3>3. drop + i - Len(rows) = j
      BY <2>k, <3>1, <3>2
    <3> QED
      BY <2>6, <2>k, <3>2, <3>3, Zenon
  <2> QED
    BY <2>7, <2>8, <2>9
<1> QED
  BY <1>4, <1>6, <1>7 DEF LastOf

\* The batch is the lines of h that follow the last one.
LinesFrom(batch, h, last, count) ==
    /\ batch \in Seq(Lines) /\ Len(batch) = count
    /\ \A i \in 1 .. count : batch[i] = <<h, last + i>>

\* The rows r go on with lines of h, "past" of which were shown before.
GoesOn(r, rows, h, past, total, end) ==
    /\ r \in Seq(Lines)
    /\ EndsWith(r, h, total, end)
    /\ Len(rows) = Kept(past) => Len(r) = Kept(total)
    /\ \A i \in DOMAIN r : r[i][1] = h \/ \E j \in DOMAIN rows : r[i] = rows[j]

\* A batch that continues the stream of a view leaves the view with its last lines.
LEMMA AppendedKeeps ==
    ASSUME NEW rows \in Seq(Lines), NEW h \in Stream,
           NEW past \in Nat, NEW last \in Nat, NEW count \in Nat,
           NEW total, total = past + count, NEW end, end = last + count,
           EndsWith(rows, h, past, last),
           NEW batch, LinesFrom(batch, h, last, count)
    PROVE  GoesOn(Appended(rows, batch), rows, h, past, total, end)
<1>l. /\ batch \in Seq(Lines) /\ Len(batch) = count
      /\ \A i \in 1 .. count : batch[i] = <<h, last + i>>
  BY DEF LinesFrom
<1>r. PICK r : r = Appended(rows, batch)
  OBVIOUS
<1>0. \A x, all, drop :
         /\ x = Appended(rows, batch)
         /\ all = Len(rows) + Len(batch)
         /\ drop = Surplus(all)
         =>
         /\ x \in Seq(Lines) /\ drop \in Nat /\ drop <= all
         /\ Len(x) = all - drop
         /\ LastOf(x, rows, batch, drop)
  BY <1>l, AppendedRows, Zenon
<1>a. PICK all : all = Len(rows) + Len(batch)
  OBVIOUS
<1>b. PICK drop : drop = Surplus(all)
  OBVIOUS
<1>1. MaxRows \in Nat /\ MaxRows > 0 /\ Len(rows) \in Nat
  BY StreamAssumption
<1>2. /\ r \in Seq(Lines) /\ drop \in Nat /\ drop <= all
      /\ Len(r) = all - drop
      /\ LastOf(r, rows, batch, drop)
  BY <1>0, <1>a, <1>b, <1>r, Zenon
<1>3. /\ Kept(past) \in Nat /\ Kept(past) <= past /\ Kept(past) <= MaxRows
      /\ Kept(past) = past \/ Kept(past) = MaxRows
  BY <1>1 DEF Kept
<1>4. /\ Kept(past + count) \in Nat
      /\ Kept(past + count) <= past + count /\ Kept(past + count) <= MaxRows
      /\ Kept(past + count) = past + count \/ Kept(past + count) = MaxRows
  BY <1>1 DEF Kept
<1> DEFINE old == Kept(past)
           new == Kept(past + count)
<1>5. /\ old <= Len(rows)
      /\ \A i \in 1 .. Len(rows) :
            IF Len(rows) - i < old THEN rows[i] = <<h, last - (Len(rows) - i)>>
            ELSE rows[i][1] # h
  <2>1. DOMAIN rows = 1 .. Len(rows)
    OBVIOUS
  <2> QED
    BY <2>1 DEF EndsWith
<1> DEFINE before(i) == Len(r) - i
<1> HIDE DEF old, new
<1>6. /\ old \in Nat /\ old <= past /\ old <= MaxRows /\ (old = past \/ old = MaxRows)
      /\ new \in Nat /\ new <= past + count /\ new <= MaxRows
      /\ new = past + count \/ new = MaxRows
  BY <1>3, <1>4 DEF old, new
<1>7. new <= Len(r)
  BY <1>l, <1>1, <1>2, <1>5, <1>6, <1>a, <1>b, SMTT(60) DEF Surplus
<1>8. Len(rows) = old => Len(r) = new
  BY <1>l, <1>1, <1>2, <1>6, <1>a, <1>b, SMTT(60) DEF Surplus
<1>9. ASSUME NEW i \in 1 .. Len(r)
      PROVE  /\ IF before(i) < new THEN r[i] = <<h, last + count - before(i)>>
                ELSE r[i][1] # h
             /\ r[i][1] = h \/ \E j \in DOMAIN rows : r[i] = rows[j]
  <2> DEFINE k == drop + i
             b == Len(r) - i
  <2>1. k \in 1 .. all /\ i \in Nat /\ all = Len(rows) + count
    BY <1>1, <1>2, <1>a, <1>l DEF LastOf
  <2>2. b = all - k /\ b \in Nat /\ b < MaxRows
    <3>1. drop \in Nat /\ Len(r) = all - drop /\ all - drop <= MaxRows
      BY <1>1, <1>2, <1>a, <1>b, <2>1 DEF Surplus
    <3> QED
      BY <1>1, <2>1, <3>1
  <2>4. /\ k <= Len(rows) => r[i] = rows[k]
        /\ ~(k <= Len(rows)) => r[i] = batch[k - Len(rows)]
    BY <1>2 DEF LastOf
  <2> HIDE DEF k, b
  <2>5. CASE k <= Len(rows)
    <3>1. r[i] = rows[k] /\ k \in 1 .. Len(rows)
      BY <1>1, <2>1, <2>4, <2>5
    <3>2. /\ Len(rows) - k = b - count
          /\ last - (b - count) = last + count - b
          /\ b - count < old <=> b < new
      BY <1>1, <1>6, <2>1, <2>2, <2>5, SMTT(30)
    <3>3. IF b < new THEN rows[k] = <<h, last + count - b>> ELSE rows[k][1] # h
      BY <1>5, <3>1, <3>2
    <3>4. DOMAIN rows = 1 .. Len(rows)
      OBVIOUS
    <3> QED
      BY <3>1, <3>3, <3>4 DEF b
  <2>6. CASE ~(k <= Len(rows))
    <3> DEFINE j == k - Len(rows)
    <3>1. r[i] = batch[j] /\ j \in 1 .. count
      BY <1>1, <2>1, <2>4, <2>6
    <3>2. last + j = last + count - b /\ b < new
      BY <1>1, <1>6, <2>1, <2>2, <2>6
    <3>3. r[i] = <<h, last + count - b>>
      BY <1>l, <3>1, <3>2
    <3>4. r[i][1] = h
      BY <3>3
    <3> QED
      BY <3>2, <3>3, <3>4 DEF b
  <2> QED
    BY <2>5, <2>6
<1>10. DOMAIN r = 1 .. Len(r)
  BY <1>2
<1>11. EndsWith(r, h, past + count, last + count)
  BY <1>7, <1>9, <1>10 DEF EndsWith, new
<1>12. Len(rows) = Kept(past) => Len(r) = Kept(past + count)
  BY <1>8 DEF old, new
<1>13. \A i \in DOMAIN r : r[i][1] = h \/ \E j \in DOMAIN rows : r[i] = rows[j]
  BY <1>9, <1>10
<1>14. GoesOn(r, rows, h, past, total, end)
  BY <1>2, <1>11, <1>12, <1>13 DEF GoesOn
<1> QED
  BY <1>r, <1>14

-----------------------------------------------------------------------------
(* The invariant of the live views *)

Handles == Stream \cup {NoStream}

Conns == [slot : Slots \cup {"none"}, gen : Nat, canceled : BOOLEAN,
          pc : {"idle", "queued", "opening", "opened", "failed", "done"},
          upstream : {"none", "open", "closed"},
          next : {"none", "queued", "receiving", "posted"}, sent : Nat, count : Nat,
          end : {"none", "eof", "error"}, own : BOOLEAN]

LiveViews == [request : Handles, stream : Handles,
              status : {"closed", "loading", "ready", "failed"},
              eof : BOOLEAN, verdict : {"none", "server", "own"},
              rows : Seq(Lines), seen : Nat]

StreamTyped ==
    /\ generation \in Nat /\ view \in [Slots -> Nat] /\ slot \in [Slots -> Handles]
    /\ ui \in [Slots -> LiveViews] /\ conn \in [Stream -> Conns]
    /\ serial \in 0 .. MaxStream
    /\ cleanup \in [step : Nat, streams : [Slots -> Handles]]

\* What refers to a request refers to one that was begun for this view.
Of(s, h) == h # NoStream => h <= serial /\ conn[h].slot = s

\* A slot's request is the view's, and no row is of a request to come.
Named(s) ==
    /\ Of(s, slot[s]) /\ Of(s, ui[s].request) /\ Of(s, ui[s].stream)
    /\ Of(s, cleanup.streams[s])
    /\ slot[s] # NoStream => ui[s].request = slot[s]
    /\ \A i \in DOMAIN ui[s].rows : ui[s].rows[i][1] <= serial

\* The request of this view goes on.
At(s) == slot[s] # NoStream /\ ~RequestEnded(slot[s])

\* Then only its own last Next has closed its stream, none of its batches is the
\* work of this program, and the view shows it.
Upright(c) ==
    /\ c.upstream = "closed" => c.next = "posted" /\ c.end # "none"
    /\ c.next = "posted" => ~c.own

Streaming(s, u, h, c) ==
    /\ Upright(c)
    /\ EndsWith(u.rows, h, u.seen, LastShown(c))
    /\ s # "events" => Len(u.rows) = Kept(u.seen)

\* A command runs, or its message waits.
Pending(c) == c.pc \in {"queued", "opening", "opened", "failed"} \/ c.next # "none"

\* Nothing ended a view that is live before the program quits.
Attended(s) ==
    /\ ui[s].status \in {"loading", "ready"} => ui[s].request # NoStream
    /\ running /\ cleanup.step = 0 /\ Live(s) => At(s) /\ Pending(conn[slot[s]])

\* Followed events are in view, in an open session, and no list of recent events
\* is on its way.
Followed(s) ==
    s = "events" =>
        /\ ui[s].status \in {"closed", "ready"}
        /\ ui[s].status = "ready" => view[s] > 0 /\ session /\ ~snapshot
        /\ slot[s] # NoStream => ui[s].status = "ready"

SlotInv(s) ==
    /\ Named(s) /\ Attended(s) /\ Followed(s)
    /\ At(s) => Streaming(s, ui[s], slot[s], conn[slot[s]])
    /\ ui[s].verdict # "own"

\* A request that is not begun yet, or of a view; its Next comes after its open.
ConnInv(h) ==
    /\ h > serial => conn[h] = Idle
    /\ h <= serial => conn[h].slot \in Slots
    /\ conn[h].next # "none" => conn[h].pc = "done"
    /\ conn[h].count <= conn[h].sent

\* Before the program quits nobody cancels the root.
RootKept == running /\ cleanup.step = 0 => ~rootCanceled

StreamInv ==
    /\ StreamTyped /\ RootKept
    /\ \A s \in Slots : SlotInv(s)
    /\ \A h \in Stream : ConnInv(h)

-----------------------------------------------------------------------------
(* Views that a step does not concern *)

LEMMA StreamFacts ==
    /\ \A h : h \in Stream <=> h \in Nat /\ 1 <= h /\ h <= MaxStream
    /\ MaxStream \in Nat /\ NoStream \notin Stream /\ NoStream = 0
BY StreamAssumption DEF Stream, NoStream

\* Requests keep their views, so a reference stays one.
LEMMA OfKept ==
    ASSUME NEW s \in Slots, NEW h \in Handles, Of(s, h),
           serial \in Nat, serial' \in Nat, serial <= serial',
           \A k \in Stream : k <= serial => conn'[k].slot = conn[k].slot
    PROVE  Of(s, h)'
BY StreamFacts DEF Of, Handles, NoStream

\* A step leaves the request, the model and the place of a view alone.
Spared(s) ==
    /\ slot'[s] = slot[s] /\ ui'[s] = ui[s]
    /\ slot[s] # NoStream => conn'[slot[s]] = conn[slot[s]]
    /\ view[s] > 0 => view'[s] > 0
    /\ view'[s] > 0 /\ ui[s].status \in {"loading", "ready"} => view[s] > 0
    /\ cleanup'.streams[s] \in {cleanup.streams[s], NoStream}
    /\ generation' = generation /\ rootCanceled' = rootCanceled
    /\ running' /\ cleanup'.step = 0 => running /\ cleanup.step = 0
    /\ s = "events" => (session => session') /\ (snapshot' => snapshot)

LEMMA Undisturbed ==
    ASSUME StreamTyped, NEW s \in Slots, SlotInv(s), Spared(s),
           serial' \in Nat, serial <= serial',
           \A k \in Stream : k <= serial => conn'[k].slot = conn[k].slot
    PROVE  SlotInv(s)'
<1> USE DEF Spared
<1>1. /\ serial \in Nat /\ slot[s] \in Handles /\ ui[s] \in LiveViews
      /\ ui[s].request \in Handles /\ ui[s].stream \in Handles
      /\ cleanup.streams[s] \in Handles
  BY DEF StreamTyped, LiveViews
<1>2. Named(s)'
  <2>1. /\ Of(s, slot[s])' /\ Of(s, ui[s].request)' /\ Of(s, ui[s].stream)'
    BY <1>1, OfKept DEF SlotInv, Named, Of
  <2>2. Of(s, cleanup.streams[s])'
    BY <1>1, StreamFacts DEF SlotInv, Named, Of, Handles
  <2>3. (\A i \in DOMAIN ui[s].rows : ui[s].rows[i][1] <= serial)'
    <3>1. ui[s].rows \in Seq(Lines)
      BY <1>1 DEF LiveViews
    <3>2. \A i \in DOMAIN ui[s].rows : ui[s].rows[i][1] \in Nat
      BY <3>1, StreamFacts DEF Lines
    <3> QED
      BY <1>1, <3>2 DEF SlotInv, Named
  <2> QED
    BY <2>1, <2>2, <2>3 DEF SlotInv, Named
<1>3. At(s)' <=> At(s)
  BY DEF At, RequestEnded
<1>4. (At(s) => Streaming(s, ui[s], slot[s], conn[slot[s]]))'
  BY <1>3 DEF SlotInv, At
<1>5. Attended(s)'
  BY <1>3 DEF SlotInv, Attended, Live, At
<1>6. Followed(s)'
  BY DEF SlotInv, Followed
<1> QED
  BY <1>2, <1>4, <1>5, <1>6 DEF SlotInv

\* A view keeps what it needs no request for.
Detached(s) ==
    /\ ui'[s].request = ui[s].request
    /\ ui'[s].stream \in {ui[s].stream, NoStream}
    /\ ui'[s].verdict # "own"
    /\ \A i \in DOMAIN ui'[s].rows : ui'[s].rows[i][1] <= serial
    /\ ui'[s].status \in {"loading", "ready"} => ui[s].request # NoStream
    /\ ~(running /\ cleanup.step = 0 /\ Live(s))'
    /\ Followed(s)'
    /\ cleanup'.streams[s] \in {cleanup.streams[s], NoStream}

\* A view whose request gives up the slot.
LEMMA GivenUp ==
    ASSUME StreamTyped, NEW s \in Slots, SlotInv(s), Detached(s),
           slot'[s] = NoStream, serial' = serial,
           \A k \in Stream : k <= serial => conn'[k].slot = conn[k].slot
    PROVE  SlotInv(s)'
<1> USE DEF Detached
<1>1. /\ serial \in Nat /\ slot[s] \in Handles /\ ui[s] \in LiveViews
      /\ ui[s].request \in Handles /\ ui[s].stream \in Handles
      /\ cleanup.streams[s] \in Handles
  BY DEF StreamTyped, LiveViews
<1>2. Of(s, slot[s])' /\ Of(s, ui[s].request)'
  BY <1>1, OfKept DEF SlotInv, Named, Of
<1>3. Of(s, ui[s].stream)' /\ Of(s, cleanup.streams[s])'
  BY <1>1, StreamFacts DEF SlotInv, Named, Of, Handles
<1>4. Named(s)'
  <2>1. (\A i \in DOMAIN ui[s].rows : ui[s].rows[i][1] <= serial)'
    BY DEF SlotInv, Named
  <2> QED
    BY <1>2, <1>3, <2>1 DEF Named
<1>5. ~At(s)'
  BY DEF At
<1>6. Attended(s)'
  BY DEF Attended
<1> QED
  BY <1>4, <1>5, <1>6 DEF SlotInv

-----------------------------------------------------------------------------
(* Commands *)

\* A step that changes one request and its stream.
LEMMA OneConn ==
    ASSUME conn \in [Stream -> Conns], \A k \in Stream : ConnInv(k),
           NEW h \in Stream, NEW c \in Conns, conn' = [conn EXCEPT ![h] = c],
           c.slot = conn[h].slot, c.next # "none" => c.pc = "done",
           c.count <= c.sent, h <= serial, serial' = serial, serial \in Nat
    PROVE  /\ conn' \in [Stream -> Conns] /\ conn'[h] = c
           /\ \A k \in Stream : k # h => conn'[k] = conn[k]
           /\ \A k \in Stream : conn'[k].slot = conn[k].slot
           /\ \A k \in Stream : ConnInv(k)'
<1>1. /\ conn' \in [Stream -> Conns] /\ conn'[h] = c
      /\ \A k \in Stream : k # h => conn'[k] = conn[k]
  OBVIOUS
<1>2. \A k \in Stream : conn'[k].slot = conn[k].slot
  BY <1>1
<1>3. ASSUME NEW k \in Stream PROVE ConnInv(k)'
  <2>1. CASE k = h
    BY <1>1, <2>1, StreamFacts DEF ConnInv
  <2>2. CASE k # h
    BY <1>1, <2>2 DEF ConnInv
  <2> QED
    BY <2>1, <2>2
<1> QED
  BY <1>1, <1>2, <1>3

\* What a command or a dropped message may make of a request: one that is current
\* stays so, goes on, and has shown what it had shown.
Steady(h, c) ==
    /\ c \in Conns /\ c.slot = conn[h].slot /\ c.gen = conn[h].gen
    /\ conn[h].canceled => c.canceled
    /\ c.next # "none" => c.pc = "done"
    /\ c.count <= c.sent
    /\ Current(h) => /\ Upright(c) /\ Pending(c) /\ c.canceled = conn[h].canceled
                     /\ LastShown(c) = LastShown(conn[h])

OthersKept == UNCHANGED <<running, rootCanceled, generation, session, view, slot, ui,
                          snapshot, serial, cleanup>>

\* The views when such a step leaves everything else alone.
LEMMA CommandKeeps ==
    ASSUME StreamInv, NEW h \in Stream, NEW c, Steady(h, c),
           conn' = [conn EXCEPT ![h] = c], conn[h] # Idle, OthersKept
    PROVE  StreamInv'
<1> USE DEF Steady, OthersKept
<1>1. /\ conn \in [Stream -> Conns] /\ serial \in Nat /\ serial \in 0 .. MaxStream
      /\ slot \in [Slots -> Handles] /\ h <= serial
  BY StreamFacts DEF StreamInv, StreamTyped, ConnInv
<1>2. /\ conn' \in [Stream -> Conns] /\ conn'[h] = c
      /\ \A k \in Stream : k # h => conn'[k] = conn[k]
      /\ \A k \in Stream : conn'[k].slot = conn[k].slot
      /\ \A k \in Stream : ConnInv(k)'
  BY <1>1, OneConn DEF StreamInv
<1>3. StreamTyped'
  BY <1>2 DEF StreamInv, StreamTyped
<1>4. RootKept'
  BY DEF StreamInv, RootKept
<1>5. ASSUME NEW s \in Slots PROVE SlotInv(s)'
  <2>1. CASE slot[s] # h
    <3>1. slot[s] # NoStream => conn'[slot[s]] = conn[slot[s]]
      BY <1>1, <1>2, <2>1 DEF Handles
    <3>2. Spared(s)
      BY <3>1 DEF Spared
    <3> QED
      BY <1>1, <1>2, <3>2, Undisturbed DEF StreamInv, StreamTyped
  <2>2. CASE slot[s] = h
    <3>1. SlotInv(s) /\ slot'[s] = h /\ ui'[s] = ui[s] /\ conn[h].slot = s
      BY <2>2, StreamFacts DEF StreamInv, SlotInv, Named, Of
    <3>2. Named(s)'
      BY <1>1, <1>2, <3>1 DEF SlotInv, Named, Of, Handles, StreamTyped, StreamInv, LiveViews
    <3>3. At(s)' => At(s)
      BY <1>2, <2>2, <3>1 DEF At, RequestEnded
    <3>4. At(s) => /\ Upright(c) /\ Pending(c) /\ LastShown(c) = LastShown(conn[h])
                   /\ c.canceled = conn[h].canceled
      BY <2>2, <3>1 DEF At, Current
    <3>5. At(s) => At(s)'
      BY <1>2, <2>2, <3>1, <3>4 DEF At, RequestEnded
    <3>6. (At(s) => Streaming(s, ui[s], slot[s], conn[slot[s]]))'
      BY <1>2, <2>2, <3>1, <3>3, <3>4 DEF SlotInv, Streaming
    <3>7. Attended(s)'
      BY <1>2, <2>2, <3>1, <3>4, <3>5 DEF SlotInv, Attended, Live
    <3>8. Followed(s)'
      BY <2>2, <3>1 DEF SlotInv, Followed
    <3> QED
      BY <3>1, <3>2, <3>6, <3>7, <3>8 DEF SlotInv
  <2> QED
    BY <2>1, <2>2
<1> QED
  BY <1>2, <1>3, <1>4, <1>5 DEF StreamInv

LEMMA ConnFacts ==
    ASSUME StreamInv, NEW h \in Stream
    PROVE  /\ conn[h] \in Conns /\ DOMAIN conn = Stream
           /\ conn[h].next # "none" => conn[h].pc = "done"
           /\ conn[h].count <= conn[h].sent
           /\ conn[h].sent \in Nat /\ conn[h].count \in Nat
BY DEF StreamInv, StreamTyped, ConnInv, Conns

\* A current request has the slot of its view, which shows it.
LEMMA CurrentAt ==
    ASSUME StreamInv, NEW h \in Stream, conn[h] # Idle
    PROVE  /\ conn[h].slot \in Slots /\ h <= serial
           /\ Current(h) => /\ slot[conn[h].slot] = h /\ At(conn[h].slot)
                            /\ ui[conn[h].slot].request = h
                            /\ Streaming(conn[h].slot, ui[conn[h].slot], h, conn[h])
<1>1. h <= serial /\ conn[h].slot \in Slots /\ h # NoStream
  BY StreamFacts DEF StreamInv, StreamTyped, ConnInv
<1> QED
  BY <1>1 DEF StreamInv, SlotInv, Named, Current, At

LEMMA SkipOpenSafe ==
    ASSUME StreamInv, NEW h \in Stream, SkipOpen(h)
    PROVE  StreamInv'
<1>1. PICK c : c = [conn[h] EXCEPT !.pc = "done"]
  OBVIOUS
<1>2. Steady(h, c)
  BY <1>1, ConnFacts DEF SkipOpen, Steady, Current, Conns
<1>3. conn' = [conn EXCEPT ![h] = c] /\ conn[h] # Idle /\ OthersKept
  BY <1>1 DEF SkipOpen, OthersKept, Idle
<1> QED
  BY <1>2, <1>3, CommandKeeps

LEMMA StartOpenSafe ==
    ASSUME StreamInv, NEW h \in Stream, StartOpen(h)
    PROVE  StreamInv'
<1>1. PICK c : c = [conn[h] EXCEPT !.pc = "opening"]
  OBVIOUS
<1>2. conn' = [conn EXCEPT ![h] = c] /\ conn[h] # Idle /\ OthersKept
  BY <1>1 DEF StartOpen, OthersKept, Idle
<1>3. /\ c \in Conns /\ c.slot = conn[h].slot /\ c.gen = conn[h].gen
      /\ c.canceled = conn[h].canceled /\ c.pc = "opening" /\ c.upstream = conn[h].upstream
      /\ c.next = "none" /\ conn[h].next = "none" /\ c.sent = conn[h].sent
      /\ c.count = conn[h].count
  BY <1>1, ConnFacts DEF StartOpen, Conns
<1>4. Current(h) => Upright(c) /\ Pending(c) /\ LastShown(c) = LastShown(conn[h])
  BY <1>2, <1>3, CurrentAt DEF Streaming, Upright, Pending, LastShown
<1>5. Steady(h, c)
  BY <1>3, <1>4, ConnFacts DEF Steady
<1> QED
  BY <1>2, <1>5, CommandKeeps

LEMMA OpenReturnsSafe ==
    ASSUME StreamInv, NEW h \in Stream, OpenReturns(h)
    PROVE  StreamInv'
<1>1. PICK c : /\ conn' = [conn EXCEPT ![h] = c]
               /\ \/ c = [conn[h] EXCEPT !.pc = "failed"]
                  \/ RequestEnded(h) /\ c = [conn[h] EXCEPT !.pc = "failed", !.upstream = "closed"]
                  \/ ~RequestEnded(h) /\ c = [conn[h] EXCEPT !.pc = "opened", !.upstream = "open"]
  BY ConnFacts DEF OpenReturns
<1>2. conn[h] # Idle /\ OthersKept
  BY DEF OpenReturns, OthersKept, Idle
<1>3. /\ c \in Conns /\ c.slot = conn[h].slot /\ c.gen = conn[h].gen
      /\ c.canceled = conn[h].canceled /\ c.pc \in {"failed", "opened"}
      /\ c.next = "none" /\ conn[h].next = "none" /\ c.sent = conn[h].sent
      /\ c.count = conn[h].count
  BY <1>1, ConnFacts DEF OpenReturns, Conns
<1>4. ~RequestEnded(h) => c.upstream = conn[h].upstream \/ c.upstream = "open"
  BY <1>1, ConnFacts DEF Conns
<1>5. Current(h) => Upright(c) /\ Pending(c) /\ LastShown(c) = LastShown(conn[h])
  BY <1>2, <1>3, <1>4, CurrentAt DEF Current, Streaming, Upright, Pending, LastShown
<1>6. Steady(h, c)
  BY <1>3, <1>5, ConnFacts DEF Steady
<1> QED
  BY <1>1, <1>2, <1>6, CommandKeeps

LEMMA ContextClosesSafe ==
    ASSUME StreamInv, NEW h \in Stream, ContextCloses(h)
    PROVE  StreamInv'
<1>1. PICK c : c = [conn[h] EXCEPT !.upstream = "closed"]
  OBVIOUS
<1>2. conn' = [conn EXCEPT ![h] = c] /\ conn[h] # Idle /\ OthersKept
  BY <1>1 DEF ContextCloses, Closed, OthersKept, Idle
<1>3. Steady(h, c)
  BY <1>1, <1>2, ConnFacts DEF ContextCloses, Steady, Conns, Current
<1> QED
  BY <1>2, <1>3, CommandKeeps

LEMMA SkipNextSafe ==
    ASSUME StreamInv, NEW h \in Stream, SkipNext(h)
    PROVE  StreamInv'
<1>1. PICK c : c = [conn[h] EXCEPT !.next = "none"]
  OBVIOUS
<1>2. conn' = [conn EXCEPT ![h] = c] /\ conn[h] # Idle /\ OthersKept
  BY <1>1 DEF SkipNext, OthersKept, Idle
<1>3. Steady(h, c)
  BY <1>1, <1>2, ConnFacts DEF SkipNext, Steady, Conns, Current
<1> QED
  BY <1>2, <1>3, CommandKeeps

LEMMA StartNextSafe ==
    ASSUME StreamInv, NEW h \in Stream, StartNext(h)
    PROVE  StreamInv'
<1>1. PICK c : c = [conn[h] EXCEPT !.next = "receiving"]
  OBVIOUS
<1>2. conn' = [conn EXCEPT ![h] = c] /\ conn[h] # Idle /\ OthersKept
  BY <1>1 DEF StartNext, OthersKept, Idle
<1>3. Steady(h, c)
  BY <1>1, <1>2, ConnFacts, CurrentAt
     DEF StartNext, Steady, Conns, Streaming, Upright, Pending, LastShown
<1> QED
  BY <1>2, <1>3, CommandKeeps

\* A Next that returns, as the server or the end of the call has it.
LEMMA PostedSafe ==
    ASSUME StreamInv, NEW h \in Stream, conn[h].next = "receiving",
           NEW n \in Nat, NEW end \in {"none", "eof", "error"}, NEW own \in BOOLEAN,
           own => StreamEnded(h), Posted(h, n, end, own), OthersKept
    PROVE  StreamInv'
<1> DEFINE old == conn[h]
<1>1. PICK final \in {"none", "eof", "error"} :
        final = IF end = "none" /\ StreamEnded(h) THEN "error" ELSE end
  OBVIOUS
<1>2. PICK stream \in {"none", "open", "closed"} :
        stream = IF final # "none" /\ old.upstream = "open" THEN "closed" ELSE old.upstream
  BY ConnFacts DEF Conns
<1>3. PICK c : c = [old EXCEPT !.upstream = stream, !.next = "posted", !.sent = @ + n,
                               !.count = n, !.end = final, !.own = own]
  OBVIOUS
<1>4. conn' = [conn EXCEPT ![h] = c]
  <2>1. CASE final # "none" /\ old.upstream = "open"
    <3>1. conn' = [[conn EXCEPT ![h].upstream = "closed"] EXCEPT
                      ![h].next = "posted", ![h].sent = @ + n, ![h].count = n,
                      ![h].end = final, ![h].own = own]
      BY <1>1, <2>1 DEF Posted, Closed
    <3> QED
      BY <1>2, <1>3, <2>1, <3>1, ConnFacts, ZenonT(60) DEF Conns
  <2>2. CASE ~(final # "none" /\ old.upstream = "open")
    <3>1. conn' = [conn EXCEPT ![h].next = "posted", ![h].sent = @ + n, ![h].count = n,
                               ![h].end = final, ![h].own = own]
      BY <1>1, <2>2 DEF Posted, Closed
    <3> QED
      BY <1>2, <1>3, <2>2, <3>1, ConnFacts, ZenonT(60) DEF Conns
  <2> QED
    BY <2>1, <2>2
<1>5. /\ c.slot = old.slot /\ c.gen = old.gen
      /\ c.canceled = old.canceled /\ c.pc = old.pc /\ c.upstream = stream
      /\ c.next = "posted" /\ c.sent = old.sent + n /\ c.count = n /\ c.end = final
      /\ c.own = own
  BY <1>3, ConnFacts DEF Conns
<1>6. c \in Conns
  <2>1. /\ old.slot \in Slots \cup {"none"} /\ old.gen \in Nat /\ old.sent + n \in Nat
        /\ old.pc \in {"idle", "queued", "opening", "opened", "failed", "done"}
    BY ConnFacts DEF Conns
  <2>2. old.canceled \in BOOLEAN
    BY ConnFacts DEF Conns
  <2>3. c = [slot |-> old.slot, gen |-> old.gen, canceled |-> old.canceled, pc |-> old.pc,
             upstream |-> stream, next |-> "posted", sent |-> old.sent + n, count |-> n,
             end |-> final, own |-> own]
    BY <1>3, ConnFacts, ZenonT(60) DEF Conns
  <2> QED
    BY <2>1, <2>2, <2>3 DEF Conns
<1>7. c.count <= c.sent /\ LastShown(c) = LastShown(old) /\ old.pc = "done" /\ old # Idle
  BY <1>5, ConnFacts DEF LastShown, Idle
<1>8. Current(h) => Upright(c) /\ Pending(c)
  <2>1. Current(h) => old.upstream # "closed" /\ ~RequestEnded(h)
    BY <1>7, CurrentAt DEF Current, Streaming, Upright
  <2> QED
    BY <1>1, <1>2, <1>5, <2>1 DEF StreamEnded, Upright, Pending
<1>9. Steady(h, c)
  BY <1>5, <1>6, <1>7, <1>8 DEF Steady
<1> QED
  BY <1>4, <1>7, <1>9, CommandKeeps

LEMMA ServerAnswersSafe ==
    ASSUME StreamInv, NEW h \in Stream, ServerAnswers(h)
    PROVE  StreamInv'
<1>1. conn[h].next = "receiving" /\ OthersKept
  BY DEF ServerAnswers, OthersKept
<1>2. PICK n \in Nat, end \in {"none", "eof", "error"} : Posted(h, n, end, FALSE)
  <2>1. PICK n \in 0 .. MaxLine - conn[h].sent :
           \E end \in {"none", "eof", "error"} : Posted(h, n, end, FALSE)
    BY Zenon DEF ServerAnswers
  <2>2. n \in Nat
    BY StreamAssumption, ConnFacts
  <2> QED
    BY <2>1, <2>2
<1> QED
  BY <1>1, <1>2, PostedSafe, Zenon

LEMMA OwnCancelAnswersSafe ==
    ASSUME StreamInv, NEW h \in Stream, OwnCancelAnswers(h)
    PROVE  StreamInv'
<1>1. conn[h].next = "receiving" /\ StreamEnded(h) /\ OthersKept
  BY DEF OwnCancelAnswers, OthersKept
<1>2. PICK end \in {"none", "eof", "error"} : Posted(h, 0, end, TRUE)
  BY Zenon DEF OwnCancelAnswers
<1> QED
  BY <1>1, <1>2, PostedSafe, Zenon

LEMMA CommandSafe ==
    ASSUME StreamInv, NEW h \in Stream, Command(h)
    PROVE  StreamInv'
BY SkipOpenSafe, StartOpenSafe, OpenReturnsSafe, ContextClosesSafe, SkipNextSafe,
   StartNextSafe, ServerAnswersSafe, OwnCancelAnswersSafe, Zenon DEF Command

-----------------------------------------------------------------------------
(* Closing *)

\* References to streams, each of its view.
References(streams) ==
    streams \in [Slots -> Handles] /\ \A s \in Slots : Of(s, streams[s])

\* The streams of other views stay as they are.
ClosedTo(d, S) ==
    /\ d \in [Stream -> Conns]
    /\ \A k \in Stream : /\ d[k].slot = conn[k].slot /\ d[k].pc = conn[k].pc
                         /\ d[k].next = conn[k].next /\ d[k].sent = conn[k].sent
                         /\ d[k].count = conn[k].count
    /\ \A k \in Stream : k > serial => d[k] = Idle
    /\ \A t \in Slots \ S : slot[t] # NoStream => d[slot[t]] = conn[slot[t]]

LEMMA ClosedConn ==
    ASSUME StreamInv, NEW S \in SUBSET Slots, NEW streams, References(streams)
    PROVE  ClosedTo(ClosedSlots(conn, S, streams), S)
<1>0. PICK d : d = ClosedSlots(conn, S, streams)
  OBVIOUS
<1>1. /\ serial \in Nat /\ slot \in [Slots -> Handles]
      /\ \A s \in Slots : Of(s, slot[s]) /\ Of(s, streams[s])
      /\ streams \in [Slots -> Handles]
  BY StreamFacts DEF StreamInv, StreamTyped, SlotInv, Named, References
<1>2. ASSUME NEW k \in Stream
      PROVE  /\ d[k] \in Conns
             /\ d[k].slot = conn[k].slot /\ d[k].pc = conn[k].pc
             /\ d[k].next = conn[k].next /\ d[k].sent = conn[k].sent
             /\ d[k].count = conn[k].count
             /\ ~(\E s \in S : slot[s] = k) /\ ~(\E s \in S : streams[s] = k) => d[k] = conn[k]
  <2>1. PICK c \in Conns : c = conn[k]
    BY ConnFacts
  <2>2. PICK x \in BOOLEAN : x = (c.canceled \/ \E s \in S : slot[s] = k)
    OBVIOUS
  <2>3. PICK y \in {"none", "open", "closed"} :
           y = IF c.upstream = "open" /\ \E s \in S : streams[s] = k THEN "closed"
               ELSE c.upstream
    BY <2>1 DEF Conns
  <2>4. d[k] = [c EXCEPT !.canceled = x, !.upstream = y]
    BY <1>0, <2>1, <2>2, <2>3 DEF ClosedSlots
  <2>5. d[k] \in Conns
    BY <2>1, <2>4, ZenonT(60) DEF Conns
  <2>6. /\ d[k].slot = conn[k].slot /\ d[k].pc = conn[k].pc
        /\ d[k].next = conn[k].next /\ d[k].sent = conn[k].sent
        /\ d[k].count = conn[k].count
    BY <2>1, <2>4 DEF Conns
  <2>7. ASSUME ~(\E s \in S : slot[s] = k), ~(\E s \in S : streams[s] = k)
        PROVE  d[k] = conn[k]
    <3>1. x = c.canceled /\ y = c.upstream
      BY <2>1, <2>2, <2>3, <2>7 DEF Conns
    <3> QED
      BY <2>1, <2>4, <3>1 DEF Conns
  <2> QED
    BY <2>5, <2>6, <2>7
<1>3. d \in [Stream -> Conns]
  <2>1. d = [k \in Stream |-> d[k]]
    BY <1>0 DEF ClosedSlots
  <2> QED
    BY <1>2, <2>1
<1>4. ASSUME NEW k \in Stream, k > serial PROVE d[k] = Idle
  <2>1. ~(\E s \in S : slot[s] = k) /\ ~(\E s \in S : streams[s] = k)
    BY <1>1, <1>4, StreamFacts DEF Of
  <2>2. conn[k] = Idle
    BY <1>4 DEF StreamInv, ConnInv
  <2> QED
    BY <1>2, <2>1, <2>2
<1>5. ASSUME NEW t \in Slots \ S, slot[t] # NoStream PROVE d[slot[t]] = conn[slot[t]]
  <2>1. slot[t] \in Stream /\ conn[slot[t]].slot = t
    BY <1>1, <1>5 DEF Handles, Of
  <2>2. ~(\E s \in S : slot[s] = slot[t]) /\ ~(\E s \in S : streams[s] = slot[t])
    BY <1>1, <1>5, <2>1 DEF Of
  <2> QED
    BY <1>2, <2>1, <2>2
<1>6. ClosedTo(d, S)
  BY <1>2, <1>3, <1>4, <1>5 DEF ClosedTo
<1> QED
  BY <1>0, <1>6

\* What a step does to the views when it closes the streams of S.
Leaving(S) ==
    /\ slot' = Emptied(S) /\ serial' = serial /\ RootKept'
    /\ ui' \in [Slots -> LiveViews] /\ view' \in [Slots -> Nat] /\ generation' \in Nat
    /\ cleanup' \in [step : Nat, streams : [Slots -> Handles]]
    /\ \A s \in S : Detached(s)
    /\ \A t \in Slots \ S :
          slot'[t] = slot[t] /\ (slot[t] # NoStream => conn'[slot[t]] = conn[slot[t]])
          => Spared(t)

\* The views when the streams of S are closed and their requests give up the slots.
LEMMA ClosedKeeps ==
    ASSUME StreamInv, NEW S \in SUBSET Slots, NEW streams, References(streams),
           conn' = ClosedSlots(conn, S, streams), Leaving(S)
    PROVE  StreamInv'
<1> USE DEF Leaving
<1>1. PICK d : d = ClosedSlots(conn, S, streams)
  OBVIOUS
<1>2. ClosedTo(d, S)
  BY <1>1, ClosedConn
<1>3. conn' = d
  BY <1>1
<1>4. /\ serial \in 0 .. MaxStream /\ slot \in [Slots -> Handles] /\ StreamTyped
      /\ serial \in Nat
  BY StreamFacts DEF StreamInv, StreamTyped
<1>5. \A s \in Slots : slot'[s] = IF s \in S THEN NoStream ELSE slot[s]
  BY DEF Emptied
<1>6. slot' \in [Slots -> Handles]
  BY <1>4 DEF Emptied, Handles
<1>7. StreamTyped'
  BY <1>2, <1>3, <1>4, <1>6 DEF ClosedTo, StreamTyped
<1>8. ASSUME NEW k \in Stream PROVE ConnInv(k)'
  BY <1>2, <1>3 DEF ClosedTo, StreamInv, ConnInv
<1>9. ASSUME NEW s \in Slots PROVE SlotInv(s)'
  <2>1. SlotInv(s)
    BY DEF StreamInv
  <2>2. CASE s \in S
    BY <1>2, <1>3, <1>4, <1>5, <2>1, <2>2, GivenUp DEF ClosedTo
  <2>3. CASE s \notin S
    <3>1. Spared(s)
      BY <1>2, <1>3, <1>5, <2>3 DEF ClosedTo
    <3> QED
      BY <1>2, <1>3, <1>4, <2>1, <3>1, Undisturbed DEF ClosedTo
  <2> QED
    BY <2>2, <2>3
<1> QED
  BY <1>7, <1>8, <1>9 DEF StreamInv

\* What a view's model refers to, and how closing leaves it.
LEMMA ViewFacts ==
    ASSUME StreamInv, NEW s \in Slots
    PROVE  /\ ui[s] \in LiveViews /\ SlotInv(s) /\ slot[s] \in Handles
           /\ Held \in [Slots -> Handles] /\ Of(s, Held[s]) /\ Of(s, NoStream)
           /\ LetGo(s) \in LiveViews /\ LetGo(s).stream = NoStream
           /\ LetGo(s).request = ui[s].request /\ LetGo(s).rows = ui[s].rows
           /\ LetGo(s).verdict = ui[s].verdict /\ LetGo(s).seen = ui[s].seen
           /\ LetGo(s).status = (IF s = "events" THEN "closed" ELSE ui[s].status)
<1>1. /\ ui[s] \in LiveViews /\ SlotInv(s) /\ slot[s] \in Handles
      /\ ui \in [Slots -> LiveViews]
  BY DEF StreamInv, StreamTyped
<1>2. Held \in [Slots -> Handles] /\ Of(s, Held[s]) /\ Of(s, NoStream)
  BY <1>1 DEF Held, LiveViews, SlotInv, Named, Of
<1> QED
  BY <1>1, <1>2 DEF LetGo, LiveViews, Handles

LEMMA HeldReferences == ASSUME StreamInv PROVE References(Held)
BY ViewFacts DEF References, Held, StreamInv, StreamTyped, LiveViews

\* The views S are left, or the events are followed no more.
LEMMA CloseSafe ==
    ASSUME StreamInv, NEW S \in SUBSET Slots, NEW after \in [Slots -> Nat],
           view' = after, Close(S),
           UNCHANGED <<running, rootCanceled, generation, session, snapshot, serial, cleanup>>,
           \A s \in S : s = "events" \/ after[s] = 0,
           \A t \in Slots \ S :
               /\ view[t] > 0 => after[t] > 0
               /\ after[t] > 0 /\ ui[t].status \in {"loading", "ready"} => view[t] > 0
    PROVE  StreamInv'
<1>1. /\ conn' = ClosedSlots(conn, S, Held) /\ slot' = Emptied(S)
      /\ ui' = [s \in Slots |-> IF s \in S THEN LetGo(s) ELSE ui[s]]
  BY DEF Close
<1>2. /\ \A s \in S : ui'[s] = LetGo(s)
      /\ \A t \in Slots \ S : ui'[t] = ui[t]
      /\ ui' \in [Slots -> LiveViews]
  BY <1>1, ViewFacts
<1>3. ASSUME NEW s \in S PROVE Detached(s)
  <2>1. /\ SlotInv(s) /\ ui'[s] = LetGo(s) /\ LetGo(s).stream = NoStream
        /\ LetGo(s).request = ui[s].request /\ LetGo(s).rows = ui[s].rows
        /\ LetGo(s).verdict = ui[s].verdict
        /\ LetGo(s).status = IF s = "events" THEN "closed" ELSE ui[s].status
    BY <1>2, ViewFacts
  <2>2. CASE s = "events"
    <3>1. ui'[s].status = "closed"
      BY <2>1, <2>2
    <3>2. ~Live(s)' /\ Followed(s)'
      BY <1>1, <2>2, <3>1 DEF Live, Followed, Emptied
    <3> QED
      BY <2>1, <3>2 DEF Detached, SlotInv, Named, Attended
  <2>3. CASE s # "events"
    <3>1. ~(view'[s] > 0)
      BY <2>3
    <3>2. ~Live(s)' /\ Followed(s)'
      BY <2>3, <3>1 DEF Live, Followed
    <3> QED
      BY <2>1, <2>3, <3>2 DEF Detached, SlotInv, Named, Attended
  <2> QED
    BY <2>2, <2>3
<1>4. ASSUME NEW t \in Slots \ S, slot'[t] = slot[t],
             slot[t] # NoStream => conn'[slot[t]] = conn[slot[t]]
      PROVE  Spared(t)
  BY <1>2, <1>4 DEF Spared
<1>5. /\ generation' \in Nat /\ view' \in [Slots -> Nat]
      /\ cleanup' \in [step : Nat, streams : [Slots -> Handles]] /\ RootKept'
  BY DEF StreamInv, StreamTyped, RootKept
<1>6. Leaving(S)
  BY <1>1, <1>2, <1>3, <1>4, <1>5 DEF Leaving
<1> QED
  BY <1>1, <1>6, HeldReferences, ClosedKeeps

LEMMA StopFollowSafe ==
    ASSUME StreamInv, "events" \in Slots, StopFollow
    PROVE  StreamInv'
<1>1. /\ view' = view /\ view \in [Slots -> Nat] /\ Close({"events"})
      /\ UNCHANGED <<running, rootCanceled, generation, session, snapshot, serial, cleanup>>
  BY DEF StopFollow, StreamInv, StreamTyped
<1>2. {"events"} \in SUBSET Slots
  OBVIOUS
<1> QED
  BY <1>1, <1>2, CloseSafe

LEMMA ClosedViewsLeft ==
    ASSUME StreamInv, NEW after \in [Slots -> Nat], view' = after, Close(ClosedViews(after)),
           UNCHANGED <<running, rootCanceled, generation, session, snapshot, serial, cleanup>>,
           \A t \in Slots : after[t] > 0 /\ ui[t].status \in {"loading", "ready"} => view[t] > 0
    PROVE  StreamInv'
<1>1. PICK S \in SUBSET Slots : S = ClosedViews(after)
  BY DEF ClosedViews
<1>2. view \in [Slots -> Nat]
  BY DEF StreamInv, StreamTyped
<1>3. /\ \A s \in S : s = "events" \/ after[s] = 0
      /\ \A t \in Slots \ S : view[t] > 0 => after[t] > 0
  BY <1>1, <1>2 DEF ClosedViews
<1> QED
  BY <1>1, <1>3, CloseSafe

LEMMA LeaveViewSafe ==
    ASSUME StreamInv, NEW s \in Slots, LeaveView(s)
    PROVE  StreamInv'
<1>1. PICK after : after = [view EXCEPT ![s] = @ - 1]
  OBVIOUS
<1>2. view \in [Slots -> Nat] /\ view[s] > 0
  BY DEF StreamInv, StreamTyped, LeaveView
<1>3. after \in [Slots -> Nat] /\ \A t \in Slots : after[t] > 0 => view[t] > 0
  BY <1>1, <1>2
<1>4. /\ view' = after /\ Close(ClosedViews(after))
      /\ UNCHANGED <<running, rootCanceled, generation, session, snapshot, serial, cleanup>>
  BY <1>1 DEF LeaveView
<1> QED
  BY <1>3, <1>4, ClosedViewsLeft

LEMMA ReplaceRootSafe ==
    ASSUME StreamInv, ReplaceRoot(NoViews) \/ ReplaceRoot(EventsOnly)
    PROVE  StreamInv'
<1>1. PICK after \in {NoViews, EventsOnly} : ReplaceRoot(after)
  OBVIOUS
<1>2. after \in [Slots -> Nat] /\ \A t \in Slots : after[t] > 0 => t = "events"
  BY <1>1 DEF NoViews, EventsOnly
<1>3. ASSUME NEW t \in Slots, after[t] > 0, ui[t].status \in {"loading", "ready"}
      PROVE  view[t] > 0
  BY <1>2, <1>3, ViewFacts DEF SlotInv, Followed
<1>4. /\ view' = after /\ Close(ClosedViews(after))
      /\ UNCHANGED <<running, rootCanceled, generation, session, snapshot, serial, cleanup>>
  BY <1>1 DEF ReplaceRoot
<1> QED
  BY <1>2, <1>3, <1>4, ClosedViewsLeft

LEMMA SwitchSessionSafe ==
    ASSUME StreamInv, SwitchSession
    PROVE  StreamInv'
<1>1. /\ conn' = ClosedSlots(conn, Slots, Held) /\ slot' = Emptied(Slots) /\ serial' = serial
      /\ view' = NoViews /\ generation' = generation + 1 /\ generation \in Nat
      /\ UNCHANGED <<running, rootCanceled, cleanup>>
  BY DEF SwitchSession, StreamInv, StreamTyped
<1>2. ASSUME NEW s \in Slots
      PROVE  /\ ui'[s] \in LiveViews /\ ui'[s].request = ui[s].request
             /\ ui'[s].stream = NoStream /\ ui'[s].verdict = ui[s].verdict
             /\ ui'[s].rows \in {ui[s].rows, <<>>}
             /\ ui'[s].status = IF s = "events" THEN "closed" ELSE ui[s].status
  <2>1. CASE s = "events"
    <3>1. ui'[s] = [LetGo(s) EXCEPT !.rows = <<>>]
      BY <2>1 DEF SwitchSession
    <3>2. <<>> \in Seq(Lines)
      OBVIOUS
    <3> QED
      BY <2>1, <3>1, <3>2, ViewFacts, ZenonT(60) DEF LiveViews
  <2>2. CASE s # "events"
    <3>1. ui'[s] = LetGo(s)
      BY <2>2 DEF SwitchSession
    <3> QED
      BY <2>2, <3>1, ViewFacts
  <2> QED
    BY <2>1, <2>2
<1>3. ui' \in [Slots -> LiveViews]
  <2>1. ui' = [s \in Slots |-> ui'[s]]
    BY DEF SwitchSession
  <2> QED
    BY <1>2, <2>1
<1>4. ASSUME NEW s \in Slots PROVE Detached(s)
  <2>1. ~Live(s)'
    BY <1>1 DEF Live, NoViews
  <2>2. Followed(s)'
    BY <1>1, <1>2 DEF Followed, Emptied
  <2>3. \A i \in DOMAIN ui'[s].rows : ui'[s].rows[i][1] <= serial
    BY <1>2, ViewFacts DEF SlotInv, Named
  <2> QED
    BY <1>1, <1>2, <2>1, <2>2, <2>3, ViewFacts DEF Detached, SlotInv, Attended
<1>5. /\ generation' \in Nat /\ view' \in [Slots -> Nat]
      /\ cleanup' \in [step : Nat, streams : [Slots -> Handles]] /\ RootKept'
  BY <1>1 DEF NoViews, StreamInv, StreamTyped, RootKept
<1>6. Leaving(Slots)
  BY <1>1, <1>3, <1>4, <1>5 DEF Leaving
<1> QED
  BY <1>1, <1>6, HeldReferences, ClosedKeeps

\* A cleanup closes streams; what the views hold does not change.
LEMMA CleanupKeeps ==
    ASSUME StreamInv, NEW S \in SUBSET Slots, NEW streams, References(streams),
           conn' = ClosedSlots(conn, S, streams), slot' = Emptied(S),
           ~(running' /\ cleanup'.step = 0),
           rootCanceled' = rootCanceled \/ S = Slots,
           cleanup' \in [step : Nat, streams : [Slots -> Handles]],
           \A s \in Slots : cleanup'.streams[s] \in {cleanup.streams[s], NoStream},
           UNCHANGED <<generation, session, view, ui, snapshot, serial>>
    PROVE  StreamInv'
<1>1. ASSUME NEW s \in S PROVE Detached(s)
  <2>1. SlotInv(s) /\ ui'[s] = ui[s] /\ slot'[s] = NoStream
    BY ViewFacts DEF Emptied
  <2>2. Followed(s)'
    BY <2>1 DEF SlotInv, Followed
  <2> QED
    BY <2>1, <2>2 DEF Detached, SlotInv, Named, Attended
<1>2. ASSUME NEW t \in Slots \ S, slot'[t] = slot[t],
             slot[t] # NoStream => conn'[slot[t]] = conn[slot[t]]
      PROVE  Spared(t)
  BY <1>2 DEF Spared
<1>3. /\ generation' \in Nat /\ view' \in [Slots -> Nat] /\ ui' \in [Slots -> LiveViews]
      /\ RootKept'
  BY DEF StreamInv, StreamTyped, RootKept
<1>4. Leaving(S)
  BY <1>1, <1>2, <1>3 DEF Leaving
<1> QED
  BY <1>4, ClosedKeeps

LEMMA CleanupFacts ==
    ASSUME StreamInv
    PROVE  /\ cleanup \in [step : Nat, streams : [Slots -> Handles]]
           /\ References(cleanup.streams) /\ References(NoViews)
<1>1. /\ cleanup \in [step : Nat, streams : [Slots -> Handles]]
      /\ \A s \in Slots : Of(s, cleanup.streams[s])
  BY DEF StreamInv, StreamTyped, SlotInv, Named
<1>2. References(NoViews)
  BY DEF References, NoViews, Of, Handles, NoStream
<1> QED
  BY <1>1, <1>2 DEF References

LEMMA CleanupViewSafe ==
    ASSUME StreamInv, CleanupView
    PROVE  StreamInv'
<1>1. PICK s \in Slots :
        /\ conn' = ClosedSlots(conn, {s}, cleanup.streams) /\ slot' = Emptied({s})
        /\ cleanup' = [cleanup EXCEPT !.step = @ + 1, !.streams[s] = NoStream]
  BY DEF CleanupView
<1>2. /\ rootCanceled' = rootCanceled
      /\ UNCHANGED <<generation, session, view, ui, snapshot, serial>>
  BY DEF CleanupView
<1>3. PICK c : c = cleanup
  OBVIOUS
<1>4. /\ c \in [step : Nat, streams : [Slots -> Handles]] /\ References(cleanup.streams)
      /\ cleanup' = [c EXCEPT !.step = @ + 1, !.streams[s] = NoStream]
  BY <1>1, <1>3, CleanupFacts
<1>5. /\ cleanup' \in [step : Nat, streams : [Slots -> Handles]] /\ cleanup'.step = c.step + 1
      /\ \A t \in Slots : cleanup'.streams[t] \in {c.streams[t], NoStream}
  <2>1. PICK x \in [Slots -> Handles] : x = [c.streams EXCEPT ![s] = NoStream]
    BY <1>4 DEF Handles
  <2>2. cleanup' = [step |-> c.step + 1, streams |-> x]
    BY <1>4, <2>1
  <2>3. \A t \in Slots : x[t] \in {c.streams[t], NoStream}
    BY <1>4, <2>1
  <2> QED
    BY <1>4, <2>2, <2>3
<1>6. cleanup'.step # 0
  BY <1>4, <1>5
<1>7. {s} \in SUBSET Slots
  OBVIOUS
<1> QED
  BY <1>1, <1>2, <1>3, <1>4, <1>5, <1>6, <1>7, CleanupKeeps

LEMMA CleanupAllSafe ==
    ASSUME StreamInv, CleanupAll
    PROVE  StreamInv'
<1>1. PICK c : c = cleanup
  OBVIOUS
<1>2. /\ c \in [step : Nat, streams : [Slots -> Handles]] /\ References(NoViews)
      /\ cleanup' = [c EXCEPT !.step = @ + 1]
  BY <1>1, CleanupFacts DEF CleanupAll
<1>3. /\ cleanup' \in [step : Nat, streams : [Slots -> Handles]] /\ cleanup'.step # 0
      /\ \A t \in Slots : cleanup'.streams[t] \in {cleanup.streams[t], NoStream}
  BY <1>1, <1>2
<1>4. /\ conn' = ClosedSlots(conn, Slots, NoViews) /\ slot' = Emptied(Slots)
      /\ rootCanceled' = rootCanceled
      /\ UNCHANGED <<generation, session, view, ui, snapshot, serial>>
  BY DEF CleanupAll
<1> QED
  BY <1>2, <1>3, <1>4, CleanupKeeps

LEMMA ExitCleanupSafe ==
    ASSUME StreamInv, ExitCleanup
    PROVE  StreamInv'
<1>1. /\ conn' = ClosedSlots(conn, Slots, NoViews) /\ slot' = Emptied(Slots)
      /\ ~running' /\ cleanup' = cleanup
      /\ UNCHANGED <<generation, session, view, ui, snapshot, serial>>
  BY DEF ExitCleanup
<1> QED
  BY <1>1, CleanupFacts, CleanupKeeps

LEMMA CleanupRootSafe ==
    ASSUME StreamInv, CleanupRoot
    PROVE  StreamInv'
<1>1. PICK c : c = cleanup
  OBVIOUS
<1>2. /\ c \in [step : Nat, streams : [Slots -> Handles]]
      /\ cleanup' = [c EXCEPT !.step = @ + 1]
  BY <1>1, CleanupFacts DEF CleanupRoot
<1>3. /\ cleanup' \in [step : Nat, streams : [Slots -> Handles]] /\ cleanup'.step # 0
      /\ cleanup'.streams = cleanup.streams
  BY <1>1, <1>2
<1>4. /\ rootCanceled'
      /\ UNCHANGED <<running, generation, session, view, slot, ui, snapshot, conn, serial>>
  BY DEF CleanupRoot
<1>5. StreamTyped' /\ RootKept' /\ \A h \in Stream : ConnInv(h)'
  BY <1>3, <1>4 DEF StreamInv, StreamTyped, RootKept, ConnInv
<1>6. ASSUME NEW s \in Slots PROVE SlotInv(s)'
  <2>1. ~At(s)'
    BY <1>4 DEF At, RequestEnded
  <2>2. Named(s)'
    BY <1>3, <1>4 DEF StreamInv, SlotInv, Named, Of
  <2>3. Attended(s)'
    BY <1>3, <1>4 DEF StreamInv, SlotInv, Attended
  <2>4. Followed(s)'
    BY <1>4 DEF StreamInv, SlotInv, Followed
  <2> QED
    BY <1>4, <2>1, <2>2, <2>3, <2>4 DEF StreamInv, SlotInv
<1> QED
  BY <1>5, <1>6 DEF StreamInv

-----------------------------------------------------------------------------
(* Steps that leave every request alone *)

LEMMA RequestsLeft ==
    ASSUME StreamInv,
           UNCHANGED <<rootCanceled, generation, view, slot, ui, conn, serial>>,
           RootKept',
           cleanup' \in [step : Nat, streams : [Slots -> Handles]],
           \A s \in Slots : Of(s, cleanup'.streams[s]),
           running' /\ cleanup'.step = 0 => running /\ cleanup.step = 0,
           "events" \in Slots => ui["events"].status # "ready" \/ ~session
                                 \/ (session' = session /\ snapshot' = snapshot)
    PROVE  StreamInv'
<1>1. StreamTyped' /\ \A h \in Stream : ConnInv(h)'
  BY DEF StreamInv, StreamTyped, ConnInv
<1>2. ASSUME NEW s \in Slots PROVE SlotInv(s)'
  <2>1. SlotInv(s) /\ (At(s)' <=> At(s))
    BY DEF StreamInv, At, RequestEnded
  <2>2. Named(s)'
    BY <2>1 DEF SlotInv, Named, Of
  <2>3. Attended(s)'
    BY <2>1 DEF SlotInv, Attended, Live
  <2>4. Followed(s)'
    BY <2>1 DEF SlotInv, Followed
  <2> QED
    BY <2>1, <2>2, <2>3, <2>4 DEF SlotInv
<1> QED
  BY <1>1, <1>2 DEF StreamInv

LEMMA QuitSafe ==
    ASSUME StreamInv, Quit
    PROVE  StreamInv'
<1>1. /\ cleanup'.step = 1 /\ cleanup'.streams = Held
      /\ cleanup' \in [step : Nat, streams : [Slots -> Handles]]
      /\ \A s \in Slots : Of(s, Held[s])
  BY HeldReferences DEF Quit, References
<1>2. UNCHANGED <<running, rootCanceled, generation, session, view, slot, ui, snapshot,
                  conn, serial>> /\ RootKept'
  BY <1>1 DEF Quit, RootKept
<1> QED
  BY <1>1, <1>2, RequestsLeft

LEMMA StopSafe ==
    ASSUME StreamInv, Stop
    PROVE  StreamInv'
<1>1. /\ ~running' /\ RootKept'
      /\ UNCHANGED <<rootCanceled, generation, session, view, slot, ui, snapshot, conn,
                     serial, cleanup>>
  BY DEF Stop, RootKept
<1> QED
  BY <1>1, CleanupFacts, RequestsLeft DEF References

LEMMA RefreshEventsSafe ==
    ASSUME StreamInv, RefreshEvents
    PROVE  StreamInv'
<1>1. /\ ui["events"].status # "ready" /\ RootKept'
      /\ UNCHANGED <<running, rootCanceled, generation, session, view, slot, ui, conn,
                     serial, cleanup>>
  BY DEF RefreshEvents, RootKept, StreamInv
<1> QED
  BY <1>1, CleanupFacts, RequestsLeft DEF References

LEMMA SessionOpenedSafe ==
    ASSUME StreamInv, SessionOpened
    PROVE  StreamInv'
<1>1. /\ ~session /\ RootKept'
      /\ UNCHANGED <<running, rootCanceled, generation, view, slot, ui, conn, serial,
                     cleanup>>
  BY DEF SessionOpened, RootKept, StreamInv
<1> QED
  BY <1>1, CleanupFacts, RequestsLeft DEF References

-----------------------------------------------------------------------------
(* Messages and keys of one view *)

\* A step that concerns the view s alone.
OnlyView(s) ==
    /\ ui' \in [Slots -> LiveViews] /\ slot' \in [Slots -> Handles]
    /\ conn' \in [Stream -> Conns]
    /\ \A k \in Stream : conn'[k].slot = conn[k].slot /\ ConnInv(k)'
    /\ \A t \in Slots : t # s => /\ ui'[t] = ui[t] /\ slot'[t] = slot[t]
                                 /\ slot[t] # NoStream => conn'[slot[t]] = conn[slot[t]]
    /\ snapshot' => snapshot
    /\ UNCHANGED <<running, rootCanceled, generation, session, view, serial, cleanup>>

LEMMA OneViewKeeps ==
    ASSUME StreamInv, NEW s \in Slots, OnlyView(s), SlotInv(s)'
    PROVE  StreamInv'
<1>1. StreamTyped' /\ RootKept' /\ \A k \in Stream : ConnInv(k)'
  BY DEF StreamInv, StreamTyped, RootKept, OnlyView
<1>2. ASSUME NEW t \in Slots PROVE SlotInv(t)'
  <2>1. CASE t = s
    BY <2>1
  <2>2. CASE t # s
    <3>1. Spared(t)
      BY <2>2 DEF OnlyView, Spared
    <3>2. /\ serial' \in Nat /\ serial <= serial'
          /\ \A k \in Stream : k <= serial => conn'[k].slot = conn[k].slot
      BY StreamFacts DEF OnlyView, StreamInv, StreamTyped
    <3> QED
      BY <3>1, <3>2, Undisturbed DEF StreamInv
  <2> QED
    BY <2>1, <2>2
<1> QED
  BY <1>1, <1>2 DEF StreamInv

\* Nothing is kept of no lines.
LEMMA NoRows ==
    ASSUME NEW h, NEW last
    PROVE  Kept(0) = 0 /\ EndsWith(<<>>, h, 0, last) /\ Len(<<>>) = 0
BY StreamAssumption DEF Kept, EndsWith

LEMMA ClearSafe ==
    ASSUME StreamInv, NEW s \in Slots, Clear(s)
    PROVE  StreamInv'
<1>1. PICK u : u = [ui[s] EXCEPT !.rows = <<>>, !.seen = 0]
  OBVIOUS
<1>2. /\ u \in LiveViews /\ u.rows = <<>> /\ u.seen = 0
      /\ u.request = ui[s].request /\ u.stream = ui[s].stream /\ u.status = ui[s].status
      /\ u.eof = ui[s].eof /\ u.verdict = ui[s].verdict
  <2>1. <<>> \in Seq(Lines)
    OBVIOUS
  <2> QED
    BY <1>1, <2>1, ViewFacts, ZenonT(60) DEF LiveViews
<1>3. ui' = [ui EXCEPT ![s] = u] /\ ui \in [Slots -> LiveViews]
  BY <1>1 DEF Clear, StreamInv, StreamTyped
<1>4. OnlyView(s)
  BY <1>2, <1>3, ZenonT(60) DEF Clear, OnlyView, StreamInv, StreamTyped, ConnInv
<1>5. ui'[s] = u /\ SlotInv(s)
  BY <1>3, ViewFacts
<1>6. Named(s)'
  <2>1. UNCHANGED <<slot, serial, conn, cleanup>>
    BY DEF Clear
  <2> QED
    BY <1>2, <1>5, <2>1 DEF SlotInv, Named, Of
<1>7. At(s)' <=> At(s)
  BY DEF Clear, At, RequestEnded
<1>8. Attended(s)' /\ Followed(s)'
  BY <1>2, <1>5, <1>7 DEF Clear, SlotInv, Attended, Live, Followed
<1>9. (At(s) => Streaming(s, ui[s], slot[s], conn[slot[s]]))'
  BY <1>2, <1>5, <1>7, NoRows DEF Clear, SlotInv, Streaming
<1> QED
  BY <1>2, <1>4, <1>5, <1>6, <1>8, <1>9, OneViewKeeps DEF SlotInv

LEMMA SnapshotArrivesSafe ==
    ASSUME StreamInv, "events" \in Slots, SnapshotArrives
    PROVE  StreamInv'
<1> DEFINE s == "events"
<1>1. PICK u : u = [ui[s] EXCEPT !.rows = <<>>]
  OBVIOUS
<1>2. /\ u \in LiveViews /\ u.rows = <<>>
      /\ u.request = ui[s].request /\ u.stream = ui[s].stream /\ u.status = ui[s].status
      /\ u.eof = ui[s].eof /\ u.verdict = ui[s].verdict
  <2>1. <<>> \in Seq(Lines)
    OBVIOUS
  <2> QED
    BY <1>1, <2>1, ViewFacts, ZenonT(60) DEF LiveViews
<1>3. ui' = [ui EXCEPT ![s] = u] /\ ui \in [Slots -> LiveViews]
  BY <1>1 DEF SnapshotArrives, StreamInv, StreamTyped
<1>4. OnlyView(s)
  BY <1>2, <1>3, ZenonT(60) DEF SnapshotArrives, OnlyView, StreamInv, StreamTyped, ConnInv
<1>5. ui'[s] = u /\ SlotInv(s)
  BY <1>3, ViewFacts
<1>6. ui[s].status # "ready" /\ slot[s] = NoStream
  BY <1>5 DEF SnapshotArrives, SlotInv, Followed
<1>7. Named(s)'
  BY <1>2, <1>4, <1>5 DEF SnapshotArrives, SlotInv, Named, Of
<1>8. ~At(s)' /\ ~At(s)
  BY <1>6 DEF SnapshotArrives, At
<1>9. Attended(s)' /\ Followed(s)'
  BY <1>2, <1>5, <1>6, <1>8 DEF SnapshotArrives, SlotInv, Attended, Live, Followed
<1> QED
  BY <1>2, <1>4, <1>5, <1>7, <1>8, <1>9, OneViewKeeps DEF SlotInv

\* A current request of the view is wanted: the events are followed as long as one
\* has their slot.
LEMMA CurrentIsWanted ==
    ASSUME StreamInv, NEW h \in Stream, conn[h] # Idle, Current(h)
    PROVE  Wanted(h)
<1>1. /\ conn[h].slot \in Slots /\ slot[conn[h].slot] = h /\ ui[conn[h].slot].request = h
      /\ h # NoStream
  BY CurrentAt, StreamFacts
<1>2. Followed(conn[h].slot)
  BY <1>1, ViewFacts DEF SlotInv
<1> QED
  BY <1>1, <1>2 DEF Wanted, Followed

\* A request whose message arrives.
LEMMA MessageFacts ==
    ASSUME StreamInv, NEW h \in Stream, conn[h] # Idle
    PROVE  \E s \in Slots :
              /\ conn[h].slot = s /\ h <= serial /\ h # NoStream
              /\ ui[s] \in LiveViews /\ SlotInv(s)
              /\ Current(h) => slot[s] = h /\ At(s) /\ ui[s].request = h
BY CurrentAt, ViewFacts, StreamFacts

\* What a message makes of its request concerns no other view.
LEMMA MessageConn ==
    ASSUME StreamInv, NEW h \in Stream, conn[h] # Idle, NEW c \in Conns,
           conn' = [conn EXCEPT ![h] = c], c.slot = conn[h].slot,
           c.next # "none" => c.pc = "done", c.count <= c.sent, serial' = serial
    PROVE  /\ conn' \in [Stream -> Conns] /\ conn'[h] = c
           /\ \A k \in Stream : conn'[k].slot = conn[k].slot /\ ConnInv(k)'
           /\ \A t \in Slots : t # conn[h].slot /\ slot[t] # NoStream =>
                  conn'[slot[t]] = conn[slot[t]]
<1>1. /\ conn \in [Stream -> Conns] /\ serial \in Nat /\ h <= serial
      /\ \A k \in Stream : ConnInv(k)
      /\ \A t \in Slots : Of(t, slot[t]) /\ slot[t] \in Handles
  BY CurrentAt, ViewFacts, StreamFacts DEF StreamInv, StreamTyped, SlotInv, Named
<1>2. /\ conn' \in [Stream -> Conns] /\ conn'[h] = c
      /\ \A k \in Stream : k # h => conn'[k] = conn[k]
      /\ \A k \in Stream : conn'[k].slot = conn[k].slot
      /\ \A k \in Stream : ConnInv(k)'
  BY <1>1, OneConn
<1>3. ASSUME NEW t \in Slots, t # conn[h].slot, slot[t] # NoStream
      PROVE  conn'[slot[t]] = conn[slot[t]]
  BY <1>1, <1>2, <1>3 DEF Of, Handles
<1> QED
  BY <1>2, <1>3

LEMMA DropBatchSafe ==
    ASSUME StreamInv, NEW h \in Stream, DropBatch(h)
    PROVE  StreamInv'
<1>1. PICK c : c = Handled(conn[h])
  OBVIOUS
<1>2. conn' = [conn EXCEPT ![h] = c] /\ conn[h] # Idle /\ OthersKept
  BY <1>1 DEF DropBatch, OthersKept, Idle
<1>3. ~Current(h)
  BY <1>2, CurrentIsWanted, CurrentAt DEF DropBatch
<1>4. /\ c \in Conns /\ c.slot = conn[h].slot /\ c.gen = conn[h].gen
      /\ c.canceled = conn[h].canceled /\ c.next = "none" /\ c.count = 0
      /\ c.sent = conn[h].sent
  BY <1>1, ConnFacts, ZenonT(60) DEF Handled, Conns
<1>5. Steady(h, c)
  BY <1>3, <1>4, ConnFacts DEF Steady
<1> QED
  BY <1>2, <1>5, CommandKeeps

\* The current request of s ends with its message, and the view shows that.
LEMMA EndedKeeps ==
    ASSUME StreamInv, NEW s \in Slots, NEW u \in LiveViews, OnlyView(s),
           ui'[s] = u, slot'[s] = NoStream, slot[s] # NoStream,
           u.request = ui[s].request, u.stream \in {ui[s].stream, NoStream},
           u.verdict # "own",
           \A i \in DOMAIN u.rows : u.rows[i][1] <= serial,
           ~(running /\ cleanup.step = 0 /\ view[s] > 0 /\ ~u.eof
             /\ u.status \in {"loading", "ready"}),
           s = "events" => u.status \in {"closed", ui[s].status}
    PROVE  StreamInv'
<1>1. /\ SlotInv(s) /\ serial' = serial /\ StreamTyped
      /\ UNCHANGED <<running, session, view, cleanup>> /\ (snapshot' => snapshot)
      /\ \A k \in Stream : k <= serial => conn'[k].slot = conn[k].slot
  BY DEF StreamInv, OnlyView
<1>2. ui[s].request # NoStream
  BY <1>1 DEF SlotInv, Named
<1>3. Followed(s)'
  BY <1>1 DEF SlotInv, Followed
<1>4. ~(running /\ cleanup.step = 0 /\ Live(s))'
  BY <1>1 DEF Live
<1>5. Detached(s)
  BY <1>1, <1>2, <1>3, <1>4 DEF Detached
<1>6. SlotInv(s)'
  BY <1>1, <1>5, GivenUp
<1> QED
  BY <1>6, OneViewKeeps

LEMMA DisposeOpenedSafe ==
    ASSUME StreamInv, NEW h \in Stream, DisposeOpened(h)
    PROVE  StreamInv'
<1>1. /\ conn[h] # Idle /\ running
      /\ conn[h].pc \in {"opened", "failed"} /\ conn[h].next = "none"
      /\ UNCHANGED <<running, rootCanceled, generation, session, view, ui, snapshot, serial,
                     cleanup>>
  BY ConnFacts DEF DisposeOpened, Idle
<1>2. PICK stream \in {"none", "open", "closed"} :
        stream = IF conn[h].upstream = "open" THEN "closed" ELSE conn[h].upstream
  BY ConnFacts DEF Conns
<1>3. CASE ~Current(h)
  <2>1. PICK c : c = [conn[h] EXCEPT !.upstream = stream, !.pc = "done"]
    OBVIOUS
  <2>2. conn' = [conn EXCEPT ![h] = c]
    <3>1. conn' = [Closed(conn, h) EXCEPT ![h].pc = "done"]
      BY <1>3 DEF DisposeOpened
    <3> QED
      BY <1>2, <2>1, <3>1, ConnFacts DEF Closed, Conns
  <2>3. /\ c \in Conns /\ c.slot = conn[h].slot /\ c.gen = conn[h].gen
        /\ c.canceled = conn[h].canceled /\ c.next = "none" /\ c.count = conn[h].count
        /\ c.sent = conn[h].sent
    BY <1>1, <2>1, ConnFacts, ZenonT(60) DEF Conns
  <2>4. Steady(h, c)
    BY <1>3, <2>3, ConnFacts DEF Steady
  <2>5. OthersKept
    BY <1>1, <1>3 DEF DisposeOpened, OthersKept
  <2> QED
    BY <1>1, <2>2, <2>4, <2>5, CommandKeeps
<1>4. CASE Current(h)
  <2>1. PICK s \in Slots :
          /\ conn[h].slot = s /\ h <= serial /\ h # NoStream
          /\ ui[s] \in LiveViews /\ SlotInv(s) /\ slot[s] = h /\ ui[s].request = h
    BY <1>1, <1>4, MessageFacts
  <2>2. Wanted(h) /\ view[s] = 0
    BY <1>1, <1>4, <2>1, CurrentIsWanted DEF DisposeOpened
  <2>3. PICK c : c = [conn[h] EXCEPT !.canceled = TRUE, !.upstream = stream, !.pc = "done"]
    OBVIOUS
  <2>4. conn' = [conn EXCEPT ![h] = c] /\ slot' = Emptied({s})
    <3>1. conn' = [Closed([conn EXCEPT ![h].canceled = TRUE], h) EXCEPT ![h].pc = "done"]
      BY <1>4, <2>1 DEF DisposeOpened, Canceled
    <3>2. slot' = Emptied({s})
      BY <1>4, <2>1 DEF DisposeOpened
    <3> QED
      BY <1>2, <2>3, <3>1, <3>2, ConnFacts DEF Closed, Conns
  <2>5. /\ c \in Conns /\ c.slot = conn[h].slot /\ c.next = "none" /\ c.count <= c.sent
    BY <1>1, <2>3, ConnFacts, ZenonT(60) DEF Conns
  <2>6. /\ conn' \in [Stream -> Conns]
        /\ \A k \in Stream : conn'[k].slot = conn[k].slot /\ ConnInv(k)'
        /\ \A t \in Slots : t # s /\ slot[t] # NoStream => conn'[slot[t]] = conn[slot[t]]
    BY <1>1, <2>1, <2>4, <2>5, MessageConn
  <2>7. OnlyView(s)
    BY <1>1, <2>4, <2>6 DEF OnlyView, Emptied, StreamInv, StreamTyped, Handles
  <2>8. slot'[s] = NoStream /\ ui'[s] = ui[s]
    BY <1>1, <2>4 DEF Emptied
  <2>9. /\ ui[s].verdict # "own" /\ \A i \in DOMAIN ui[s].rows : ui[s].rows[i][1] <= serial
    BY <2>1 DEF SlotInv, Named
  <2> QED
    BY <2>1, <2>2, <2>7, <2>8, <2>9, EndedKeeps
<1> QED
  BY <1>3, <1>4

LEMMA OpenFailedSafe ==
    ASSUME StreamInv, NEW h \in Stream, OpenFailed(h)
    PROVE  StreamInv'
<1>1. /\ conn[h] # Idle /\ Current(h) /\ conn[h].pc = "failed" /\ conn[h].next = "none"
      /\ UNCHANGED <<running, rootCanceled, generation, session, view, snapshot, serial,
                     cleanup>>
  BY ConnFacts DEF OpenFailed, Idle, Wanted
<1>2. PICK s \in Slots :
        /\ conn[h].slot = s /\ h <= serial /\ h # NoStream
        /\ ui[s] \in LiveViews /\ SlotInv(s) /\ slot[s] = h /\ ui[s].request = h
  BY <1>1, MessageFacts
<1>3. PICK u : u = Failed(s)
  OBVIOUS
<1>4. /\ u \in LiveViews /\ u.request = ui[s].request /\ u.stream = ui[s].stream
      /\ u.rows = ui[s].rows /\ u.verdict = ui[s].verdict
      /\ u.status = IF s = "events" THEN "closed" ELSE "failed"
  BY <1>2, <1>3 DEF Failed, LiveViews
<1>5. PICK c : c = [conn[h] EXCEPT !.canceled = TRUE, !.pc = "done"]
  OBVIOUS
<1>6. conn' = [conn EXCEPT ![h] = c] /\ slot' = Emptied({s}) /\ ui' = [ui EXCEPT ![s] = u]
  BY <1>2, <1>3, <1>5, ConnFacts DEF OpenFailed, Canceled, Conns
<1>7. /\ c \in Conns /\ c.slot = conn[h].slot /\ c.next = "none" /\ c.count <= c.sent
  BY <1>1, <1>5, ConnFacts, ZenonT(60) DEF Conns
<1>8. /\ conn' \in [Stream -> Conns]
      /\ \A k \in Stream : conn'[k].slot = conn[k].slot /\ ConnInv(k)'
      /\ \A t \in Slots : t # s /\ slot[t] # NoStream => conn'[slot[t]] = conn[slot[t]]
  BY <1>1, <1>2, <1>6, <1>7, MessageConn
<1>9. OnlyView(s) /\ slot'[s] = NoStream /\ ui'[s] = u
  BY <1>1, <1>4, <1>6, <1>8 DEF OnlyView, Emptied, StreamInv, StreamTyped, Handles
<1>10. /\ u.verdict # "own" /\ \A i \in DOMAIN u.rows : u.rows[i][1] <= serial
  BY <1>2, <1>4 DEF SlotInv, Named
<1> QED
  BY <1>2, <1>4, <1>9, <1>10, EndedKeeps

\* A message that goes on with the request leaves the references in order.
LEMMA NamedKept ==
    ASSUME StreamInv, NEW s \in Slots, OnlyView(s), slot'[s] = slot[s],
           ui'[s].request = ui[s].request, Of(s, ui'[s].stream),
           \A i \in DOMAIN ui'[s].rows : ui'[s].rows[i][1] <= serial
    PROVE  Named(s)'
<1>1. /\ serial \in Nat /\ serial' = serial /\ slot[s] \in Handles
      /\ ui[s].request \in Handles /\ ui'[s].stream \in Handles
      /\ cleanup' = cleanup /\ cleanup.streams[s] \in Handles
      /\ \A k \in Stream : k <= serial => conn'[k].slot = conn[k].slot
      /\ SlotInv(s)
  BY StreamFacts DEF OnlyView, StreamInv, StreamTyped, LiveViews
<1>2. Of(s, slot[s])' /\ Of(s, ui[s].request)' /\ Of(s, ui[s].stream)'
      /\ Of(s, cleanup.streams[s])'
  BY <1>1, OfKept DEF SlotInv, Named, Of
<1> QED
  BY <1>1, <1>2 DEF SlotInv, Named

LEMMA AdoptStreamSafe ==
    ASSUME StreamInv, NEW h \in Stream, AdoptStream(h)
    PROVE  StreamInv'
<1>1. /\ conn[h] # Idle /\ Current(h) /\ Wanted(h) /\ conn[h].pc = "opened"
      /\ conn[h].next = "none"
      /\ UNCHANGED <<running, rootCanceled, generation, session, view, slot, snapshot, serial,
                     cleanup>>
  BY ConnFacts DEF AdoptStream, Idle, Wanted
<1>2. PICK s \in Slots :
        /\ conn[h].slot = s /\ h <= serial /\ h # NoStream
        /\ ui[s] \in LiveViews /\ SlotInv(s) /\ slot[s] = h /\ ui[s].request = h /\ At(s)
  BY <1>1, MessageFacts
<1>3. PICK u : u = [ui[s] EXCEPT !.stream = h, !.status = "ready"]
  OBVIOUS
<1>4. /\ u \in LiveViews /\ u.request = ui[s].request /\ u.stream = h /\ u.eof = ui[s].eof
      /\ u.rows = ui[s].rows /\ u.seen = ui[s].seen /\ u.verdict = ui[s].verdict
      /\ u.status = "ready"
  BY <1>2, <1>3 DEF LiveViews, Handles
<1>5. PICK c : c = [conn[h] EXCEPT !.pc = "done", !.next = "queued"]
  OBVIOUS
<1>6. conn' = [conn EXCEPT ![h] = c] /\ ui' = [ui EXCEPT ![s] = u]
  BY <1>2, <1>3, <1>5 DEF AdoptStream
<1>7. /\ c \in Conns /\ c.slot = conn[h].slot /\ c.next = "queued" /\ c.count <= c.sent
      /\ c.pc = "done" /\ c.gen = conn[h].gen /\ c.canceled = conn[h].canceled
      /\ c.upstream = conn[h].upstream /\ c.sent = conn[h].sent
  BY <1>1, <1>5, ConnFacts DEF Conns
<1>8. /\ conn' \in [Stream -> Conns] /\ conn'[h] = c
      /\ \A k \in Stream : conn'[k].slot = conn[k].slot /\ ConnInv(k)'
      /\ \A t \in Slots : t # s /\ slot[t] # NoStream => conn'[slot[t]] = conn[slot[t]]
  BY <1>1, <1>2, <1>6, <1>7, MessageConn
<1>9. OnlyView(s) /\ slot'[s] = h /\ ui'[s] = u
  BY <1>1, <1>2, <1>4, <1>6, <1>8 DEF OnlyView, StreamInv, StreamTyped
<1>10. Named(s)'
  <2>1. Of(s, u.stream)
    BY <1>2, <1>4 DEF Of
  <2> QED
    BY <1>2, <1>4, <1>9, <2>1, NamedKept DEF SlotInv, Named
<1>11. At(s)'
  BY <1>1, <1>2, <1>7, <1>8, <1>9 DEF At, RequestEnded
<1>12. Attended(s)'
  BY <1>2, <1>4, <1>7, <1>8, <1>9, <1>11 DEF Attended, Pending
<1>13. Followed(s)'
  BY <1>1, <1>2, <1>4, <1>9 DEF SlotInv, Followed, Wanted
<1>14. Streaming(s, u, h, c)
  BY <1>1, <1>2, <1>4, <1>7 DEF SlotInv, Streaming, Upright, LastShown
<1>15. SlotInv(s)'
  BY <1>2, <1>4, <1>8, <1>9, <1>10, <1>12, <1>13, <1>14 DEF SlotInv
<1> QED
  BY <1>9, <1>15, OneViewKeeps

LEMMA BatchIsLines ==
    ASSUME NEW h \in Stream, NEW count \in Nat, NEW last \in Nat,
           conn[h].count = count, conn[h].sent - count = last
    PROVE  LinesFrom(Batch(h), h, last, count)
<1>1. PICK batch : batch = Batch(h)
  OBVIOUS
<1>2. batch = [i \in 1 .. count |-> <<h, last + i>>]
  BY <1>1 DEF Batch
<1>3. \A i \in 1 .. count : <<h, last + i>> \in Lines
  BY DEF Lines
<1>4. batch \in [1 .. count -> Lines]
  BY <1>2, <1>3
<1>5. batch \in Seq(Lines) /\ Len(batch) = count
  BY <1>4, SeqDef, LenProperties
<1>6. LinesFrom(batch, h, last, count)
  BY <1>2, <1>5 DEF LinesFrom
<1> QED
  BY <1>1, <1>6

\* The view with the lines of its current request.
LEMMA BatchShown ==
    ASSUME StreamInv, NEW h \in Stream, NEW s \in Slots, conn[h].slot = s, h <= serial,
           SlotInv(s), At(s), slot[s] = h, ui[s] \in LiveViews, conn[h].next = "posted",
           NEW u, u = WithBatch(s, h)
    PROVE  /\ u \in LiveViews /\ u.request = ui[s].request /\ u.stream = ui[s].stream
           /\ u.status = ui[s].status /\ u.eof = ui[s].eof /\ u.verdict = ui[s].verdict
           /\ \A i \in DOMAIN u.rows : u.rows[i][1] <= serial
           /\ EndsWith(u.rows, h, u.seen, conn[h].sent)
           /\ s # "events" => Len(u.rows) = Kept(u.seen)
<1>1. PICK rows \in Seq(Lines), past \in Nat : rows = ui[s].rows /\ past = ui[s].seen
  BY DEF LiveViews
<1>2. PICK count \in Nat, sent \in Nat, last \in Nat :
        /\ count = conn[h].count /\ sent = conn[h].sent /\ last = sent - count
        /\ last + count = sent /\ count <= sent
  BY ConnFacts
<1>3. /\ EndsWith(rows, h, past, last)
      /\ s # "events" => Len(rows) = Kept(past)
      /\ \A i \in DOMAIN rows : rows[i][1] <= serial
  BY <1>1, <1>2 DEF SlotInv, Named, Streaming, LastShown
<1>4. PICK batch : batch = Batch(h) /\ LinesFrom(batch, h, last, count)
  BY <1>2, BatchIsLines
<1>5. PICK r : r = Appended(rows, batch)
  OBVIOUS
<1>6. PICK total \in Nat : total = past + count
  BY <1>1, <1>2, SMTT(60)
<1>7. GoesOn(r, rows, h, past, total, sent)
  BY <1>2, <1>3, <1>4, <1>5, <1>6, AppendedKeeps
<1>8. u = [ui[s] EXCEPT !.rows = r, !.seen = total]
  BY <1>1, <1>2, <1>4, <1>5, <1>6 DEF WithBatch
<1>9. /\ u \in LiveViews /\ u.request = ui[s].request /\ u.stream = ui[s].stream
      /\ u.status = ui[s].status /\ u.eof = ui[s].eof /\ u.verdict = ui[s].verdict
      /\ u.rows = r /\ u.seen = total
  BY <1>6, <1>7, <1>8 DEF GoesOn, LiveViews
<1>10. \A i \in DOMAIN r : r[i][1] <= serial
  BY <1>3, <1>7 DEF GoesOn
<1>11. /\ EndsWith(r, h, total, conn[h].sent)
       /\ s # "events" => Len(r) = Kept(total)
  BY <1>2, <1>3, <1>7 DEF GoesOn
<1> QED
  BY <1>9, <1>10, <1>11

LEMMA ShowBatchSafe ==
    ASSUME StreamInv, NEW h \in Stream, ShowBatch(h)
    PROVE  StreamInv'
<1>1. /\ conn[h] # Idle /\ Current(h) /\ conn[h].next = "posted"
      /\ conn[h].end = "none" /\ conn[h].pc = "done"
      /\ UNCHANGED <<running, rootCanceled, generation, session, view, slot, snapshot, serial,
                     cleanup>>
  BY ConnFacts DEF ShowBatch, Idle, Wanted
<1>2. PICK s \in Slots :
        /\ conn[h].slot = s /\ h <= serial /\ h # NoStream
        /\ ui[s] \in LiveViews /\ SlotInv(s) /\ slot[s] = h /\ ui[s].request = h /\ At(s)
  BY <1>1, MessageFacts
<1>3. PICK u : u = WithBatch(s, h)
  OBVIOUS
<1>4. /\ u \in LiveViews /\ u.request = ui[s].request /\ u.stream = ui[s].stream
      /\ u.status = ui[s].status /\ u.eof = ui[s].eof /\ u.verdict = ui[s].verdict
      /\ \A i \in DOMAIN u.rows : u.rows[i][1] <= serial
      /\ EndsWith(u.rows, h, u.seen, conn[h].sent)
      /\ s # "events" => Len(u.rows) = Kept(u.seen)
  BY <1>1, <1>2, <1>3, BatchShown
<1>5. PICK c : c = [Handled(conn[h]) EXCEPT !.next = "queued"]
  OBVIOUS
<1>6. conn' = [conn EXCEPT ![h] = c] /\ ui' = [ui EXCEPT ![s] = u]
  BY <1>2, <1>3, <1>5 DEF ShowBatch
<1>7. /\ c \in Conns /\ c.slot = conn[h].slot /\ c.next = "queued" /\ c.count = 0
      /\ c.pc = "done" /\ c.gen = conn[h].gen /\ c.canceled = conn[h].canceled
      /\ c.upstream = conn[h].upstream /\ c.sent = conn[h].sent
  BY <1>1, <1>5, ConnFacts, ZenonT(60) DEF Handled, Conns
<1>8. /\ conn' \in [Stream -> Conns] /\ conn'[h] = c
      /\ \A k \in Stream : conn'[k].slot = conn[k].slot /\ ConnInv(k)'
      /\ \A t \in Slots : t # s /\ slot[t] # NoStream => conn'[slot[t]] = conn[slot[t]]
  <2>1. c.count <= c.sent
    BY <1>7, ConnFacts
  <2> QED
    BY <1>1, <1>2, <1>6, <1>7, <2>1, MessageConn
<1>9. OnlyView(s) /\ slot'[s] = h /\ ui'[s] = u
  BY <1>1, <1>2, <1>4, <1>6, <1>8 DEF OnlyView, StreamInv, StreamTyped
<1>10. Named(s)'
  BY <1>2, <1>4, <1>9, NamedKept DEF SlotInv, Named
<1>11. At(s)'
  BY <1>1, <1>2, <1>7, <1>8, <1>9 DEF At, RequestEnded
<1>12. Attended(s)'
  BY <1>2, <1>4, <1>7, <1>8, <1>9, <1>11 DEF Attended, Pending
<1>13. Followed(s)'
  BY <1>1, <1>2, <1>4, <1>9 DEF SlotInv, Followed
<1>14. Streaming(s, u, h, c)
  <2>1. LastShown(c) = conn[h].sent
    BY <1>7, ConnFacts DEF LastShown
  <2>2. Upright(c)
    BY <1>1, <1>2, <1>7 DEF SlotInv, Streaming, Upright
  <2> QED
    BY <1>4, <2>1, <2>2 DEF Streaming
<1>15. SlotInv(s)'
  BY <1>2, <1>4, <1>8, <1>9, <1>10, <1>12, <1>13, <1>14 DEF SlotInv
<1> QED
  BY <1>9, <1>15, OneViewKeeps

LEMMA EndStreamSafe ==
    ASSUME StreamInv, NEW h \in Stream, EndStream(h)
    PROVE  StreamInv'
<1>1. /\ conn[h] # Idle /\ Current(h) /\ conn[h].next = "posted"
      /\ conn[h].end # "none"
      /\ UNCHANGED <<running, rootCanceled, generation, session, view, snapshot, serial,
                     cleanup>>
  BY ConnFacts DEF EndStream, Idle, Wanted
<1>2. PICK s \in Slots :
        /\ conn[h].slot = s /\ h <= serial /\ h # NoStream
        /\ ui[s] \in LiveViews /\ SlotInv(s) /\ slot[s] = h /\ ui[s].request = h /\ At(s)
  BY <1>1, MessageFacts
<1>3. PICK w : w = WithBatch(s, h)
  OBVIOUS
<1>4. /\ w \in LiveViews /\ w.request = ui[s].request /\ w.stream = ui[s].stream
      /\ \A i \in DOMAIN w.rows : w.rows[i][1] <= serial
  BY <1>1, <1>2, <1>3, BatchShown
<1>5. ~conn[h].own
  BY <1>1, <1>2 DEF SlotInv, Streaming, Upright
<1>6. PICK stream \in Handles, verdict \in {"none", "server"},
           status \in {"closed", "failed", "ready"} :
        /\ stream = IF IsLog(s) THEN w.stream ELSE NoStream
        /\ verdict = IF conn[h].end = "error" \/ s # "health" THEN "none" ELSE "server"
        /\ status = IF s = "events" THEN "closed"
                    ELSE IF conn[h].end = "error" THEN "failed" ELSE "ready"
  BY <1>4 DEF LiveViews, Handles
<1>7. PICK eof \in BOOLEAN : eof = (conn[h].end = "eof" /\ s # "events")
  OBVIOUS
<1>8. PICK u : u = [w EXCEPT !.stream = stream, !.eof = eof, !.verdict = verdict,
                             !.status = status]
  OBVIOUS
<1>9. /\ u \in LiveViews /\ u.request = ui[s].request
      /\ u.stream \in {ui[s].stream, NoStream}
      /\ u.status = status /\ u.eof = eof /\ u.verdict = verdict /\ u.rows = w.rows
  BY <1>4, <1>6, <1>8, ZenonT(60) DEF LiveViews
<1>10. ui' = [ui EXCEPT ![s] = u]
  BY <1>2, <1>3, <1>5, <1>6, <1>7, <1>8 DEF EndStream
<1>11. PICK streams : streams = [Held EXCEPT ![s] = IF IsLog(s) THEN NoStream ELSE @]
  OBVIOUS
<1>12. References(streams)
  BY <1>11, HeldReferences DEF References, Of, Handles
<1>13. PICK d : d = ClosedSlots(conn, {s}, streams)
  OBVIOUS
<1>14. ClosedTo(d, {s})
  <2>1. {s} \in SUBSET Slots
    OBVIOUS
  <2> QED
    BY <1>12, <1>13, <2>1, ClosedConn
<1>15. PICK c : c = Handled(d[h])
  OBVIOUS
<1>16. conn' = [d EXCEPT ![h] = c] /\ slot' = Emptied({s})
  BY <1>2, <1>11, <1>13, <1>15 DEF EndStream
<1>17. /\ c \in Conns /\ c.slot = conn[h].slot /\ c.next = "none" /\ c.count = 0
       /\ c.sent \in Nat
  <2>1. PICK x \in Conns : x = d[h] /\ x.slot = conn[h].slot
    BY <1>14 DEF ClosedTo
  <2>2. c = [x EXCEPT !.next = "none", !.count = 0, !.end = "none", !.own = FALSE]
    BY <1>15, <2>1 DEF Handled
  <2> QED
    BY <2>1, <2>2, ZenonT(60) DEF Conns
<1>18. /\ conn' \in [Stream -> Conns] /\ conn'[h] = c
       /\ \A k \in Stream : k # h => conn'[k] = d[k]
  BY <1>14, <1>16, <1>17 DEF ClosedTo
<1>19. ASSUME NEW k \in Stream PROVE conn'[k].slot = conn[k].slot /\ ConnInv(k)'
  <2>1. CASE k = h
    BY <1>1, <1>2, <1>17, <1>18, <2>1, StreamFacts DEF ConnInv, StreamInv, StreamTyped
  <2>2. CASE k # h
    BY <1>1, <1>14, <1>18, <2>2 DEF ClosedTo, ConnInv, StreamInv
  <2> QED
    BY <2>1, <2>2
<1>20. ASSUME NEW t \in Slots, t # s
       PROVE  /\ slot'[t] = slot[t] /\ ui'[t] = ui[t]
              /\ slot[t] # NoStream => conn'[slot[t]] = conn[slot[t]]
  <2>1. slot[t] # NoStream => slot[t] \in Stream /\ slot[t] # h
    BY <1>2, <1>20, ViewFacts DEF SlotInv, Named, Of, Handles
  <2> QED
    BY <1>10, <1>14, <1>16, <1>18, <1>20, <2>1 DEF ClosedTo, Emptied, StreamInv, StreamTyped
<1>21. OnlyView(s) /\ slot'[s] = NoStream /\ ui'[s] = u
  BY <1>1, <1>9, <1>10, <1>16, <1>18, <1>19, <1>20
     DEF OnlyView, Emptied, StreamInv, StreamTyped, Handles
<1>22. ~(view[s] > 0 /\ ~u.eof /\ u.status \in {"loading", "ready"})
  BY <1>1, <1>6, <1>7, <1>9, ConnFacts DEF Conns
<1> QED
  BY <1>2, <1>4, <1>6, <1>9, <1>21, <1>22, EndedKeeps

LEMMA MessageSafe ==
    ASSUME StreamInv, NEW h \in Stream, Message(h)
    PROVE  StreamInv'
BY DisposeOpenedSafe, OpenFailedSafe, AdoptStreamSafe, DropBatchSafe, ShowBatchSafe,
   EndStreamSafe, Zenon DEF Message

-----------------------------------------------------------------------------
(* New requests *)

LEMMA CanceledTo ==
    ASSUME StreamInv, NEW s \in Slots, NEW c, ClosedTo(c, {s})
    PROVE  ClosedTo(Canceled(c, slot[s]), {s})
<1>1. /\ slot[s] \in Handles /\ serial \in Nat
      /\ \A t \in Slots : Of(t, slot[t]) /\ slot[t] \in Handles
  BY ViewFacts, StreamFacts DEF StreamInv, StreamTyped, SlotInv, Named
<1>2. CASE slot[s] = NoStream
  BY <1>2 DEF Canceled
<1>3. CASE slot[s] # NoStream
  <2>1. PICK h \in Stream : h = slot[s] /\ h <= serial
    BY <1>1, <1>3 DEF Handles, Of
  <2>2. PICK x \in Conns : x = c[h]
    BY DEF ClosedTo
  <2>3. PICK y : y = [x EXCEPT !.canceled = TRUE]
    OBVIOUS
  <2>4. /\ y \in Conns /\ y.slot = x.slot /\ y.pc = x.pc /\ y.next = x.next
        /\ y.sent = x.sent /\ y.count = x.count
    BY <2>2, <2>3 DEF Conns
  <2>5. PICK e : e = [c EXCEPT ![h] = y]
    OBVIOUS
  <2>6. Canceled(c, slot[s]) = e
    BY <1>3, <2>1, <2>2, <2>3, <2>5 DEF Canceled, ClosedTo
  <2>7. /\ e \in [Stream -> Conns] /\ e[h] = y
        /\ \A k \in Stream : k # h => e[k] = c[k]
    BY <2>4, <2>5 DEF ClosedTo
  <2>8. \A k \in Stream : /\ e[k].slot = conn[k].slot /\ e[k].pc = conn[k].pc
                          /\ e[k].next = conn[k].next /\ e[k].sent = conn[k].sent
                          /\ e[k].count = conn[k].count
    BY <2>2, <2>4, <2>7 DEF ClosedTo
  <2>9. \A k \in Stream : k > serial => e[k] = Idle
    BY <1>1, <2>1, <2>7, StreamFacts DEF ClosedTo
  <2>10. \A t \in Slots \ {s} : slot[t] # NoStream => e[slot[t]] = conn[slot[t]]
    BY <1>1, <1>3, <2>1, <2>7 DEF ClosedTo, Of, Handles
  <2> QED
    BY <2>6, <2>7, <2>8, <2>9, <2>10 DEF ClosedTo
<1> QED
  BY <1>2, <1>3

\* A request of the view s is begun; its earlier one may have been closed before.
BeginsIn(s, u, c) ==
    /\ ClosedTo(c, {s}) /\ Begin(s, c) /\ ui' = [ui EXCEPT ![s] = u]
    /\ running /\ session
    /\ u.request = serial + 1 /\ u.stream = NoStream /\ u.verdict = "none" /\ u.seen = 0
    /\ u.rows = <<>> \/ (s = "events" /\ u.rows = ui[s].rows)
    /\ s = "events" => u.status = "ready" /\ view'[s] > 0 /\ ~snapshot'
    /\ view' \in [Slots -> Nat]
    /\ \A t \in Slots : t # s => view'[t] = view[t]
    /\ snapshot' => snapshot
    /\ UNCHANGED <<running, rootCanceled, generation, session, cleanup>>

LEMMA BeginKeeps ==
    ASSUME StreamInv, NEW s \in Slots, NEW u \in LiveViews, NEW c, BeginsIn(s, u, c)
    PROVE  StreamInv'
<1>1. PICK n \in Stream : n = serial + 1 /\ serial \in Nat /\ serial < n /\ n # NoStream
  <2>1. serial \in Nat /\ serial < MaxStream
    BY StreamFacts DEF StreamInv, StreamTyped, BeginsIn, Begin
  <2>2. PICK n : n = serial + 1
    OBVIOUS
  <2>3. n \in Stream /\ serial < n /\ n # NoStream
    BY <2>1, <2>2, StreamFacts
  <2> QED
    BY <2>1, <2>2, <2>3
<1>2. PICK e : e = Canceled(c, slot[s]) /\ ClosedTo(e, {s})
  BY CanceledTo DEF BeginsIn
<1>3. PICK new : new = [Idle EXCEPT !.slot = s, !.gen = generation, !.pc = "queued"]
  OBVIOUS
<1>4. /\ new \in Conns /\ new.slot = s /\ new.gen = generation /\ ~new.canceled
      /\ new.pc = "queued" /\ new.upstream = "none" /\ new.next = "none"
      /\ new.sent = 0 /\ new.count = 0
  BY <1>3 DEF Idle, Conns, StreamInv, StreamTyped
<1>5. conn' = [e EXCEPT ![n] = new]
  BY <1>1, <1>2, <1>3 DEF BeginsIn, Begin, Begun
<1>6. /\ conn' \in [Stream -> Conns] /\ conn'[n] = new
      /\ \A k \in Stream : k # n => conn'[k] = e[k]
  BY <1>2, <1>4, <1>5 DEF ClosedTo
<1>7. /\ slot' = [slot EXCEPT ![s] = n] /\ serial' = n /\ ui' = [ui EXCEPT ![s] = u]
  BY <1>1 DEF BeginsIn, Begin
<1>8. StreamTyped'
  BY <1>1, <1>6, <1>7, StreamFacts DEF StreamInv, StreamTyped, BeginsIn, Handles, Stream
<1>9. RootKept'
  BY DEF StreamInv, RootKept, BeginsIn
<1>10. ASSUME NEW k \in Stream PROVE ConnInv(k)'
  <2>1. CASE k = n
    BY <1>1, <1>4, <1>6, <1>7, <2>1, StreamFacts DEF ConnInv
  <2>2. CASE k # n
    <3>1. /\ conn'[k] = e[k] /\ ConnInv(k)
          /\ e[k].slot = conn[k].slot /\ e[k].pc = conn[k].pc
          /\ e[k].next = conn[k].next /\ e[k].sent = conn[k].sent
          /\ e[k].count = conn[k].count
          /\ k > serial => e[k] = Idle
      BY <1>2, <1>6, <2>2 DEF ClosedTo, StreamInv
    <3>2. (k <= n => k <= serial) /\ (k > n => k > serial)
      BY <1>1, <2>2, StreamFacts
    <3> QED
      BY <1>7, <3>1, <3>2 DEF ConnInv
  <2> QED
    BY <2>1, <2>2
<1>11. \A k \in Stream : k <= serial => conn'[k].slot = conn[k].slot
  BY <1>1, <1>2, <1>6, StreamFacts DEF ClosedTo
<1>12. ASSUME NEW t \in Slots, t # s PROVE SlotInv(t)'
  <2>1. SlotInv(t) /\ slot[t] \in Handles
    BY ViewFacts
  <2>2. slot'[t] = slot[t] /\ ui'[t] = ui[t]
    BY <1>7, <1>12 DEF StreamInv, StreamTyped
  <2>3. slot[t] # NoStream => conn'[slot[t]] = conn[slot[t]]
    <3>1. slot[t] # NoStream => slot[t] \in Stream /\ slot[t] # n
      BY <1>1, <2>1, StreamFacts DEF Handles, SlotInv, Named, Of
    <3> QED
      BY <1>2, <1>6, <1>12, <3>1 DEF ClosedTo
  <2>4. Spared(t)
    BY <1>12, <2>2, <2>3 DEF Spared, BeginsIn
  <2>5. serial' \in Nat /\ serial <= serial'
    BY <1>1, <1>7, StreamFacts
  <2> QED
    BY <1>11, <2>1, <2>4, <2>5, Undisturbed DEF StreamInv
<1>13. SlotInv(s)'
  <2>1. SlotInv(s) /\ slot'[s] = n /\ ui'[s] = u /\ serial' = n
    BY <1>7, ViewFacts DEF StreamInv, StreamTyped
  <2>2. u.request = n /\ u.stream = NoStream
    BY <1>1 DEF BeginsIn
  <2>3. Of(s, slot[s])' /\ Of(s, ui[s].request)' /\ Of(s, ui[s].stream)'
    BY <1>1, <1>4, <1>6, <2>1, <2>2, StreamFacts DEF Of
  <2>4. Of(s, cleanup.streams[s])'
    <3>1. cleanup' = cleanup /\ cleanup.streams[s] \in Handles /\ serial <= serial'
          /\ serial' \in Nat
      BY <1>1, <1>7, StreamFacts DEF BeginsIn, StreamInv, StreamTyped
    <3> QED
      BY <1>1, <1>11, <2>1, <3>1, OfKept DEF SlotInv, Named, Of
  <2>5. \A i \in DOMAIN u.rows : u.rows[i][1] < n
    <3>1. CASE u.rows = <<>>
      BY <3>1
    <3>2. CASE u.rows = ui[s].rows
      <4>1. \A i \in DOMAIN u.rows : u.rows[i][1] \in Nat
        BY StreamFacts DEF LiveViews, Lines
      <4> QED
        BY <1>1, <2>1, <3>2, <4>1, StreamFacts DEF SlotInv, Named
    <3> QED
      BY <3>1, <3>2 DEF BeginsIn
  <2>6. (\A i \in DOMAIN ui[s].rows : ui[s].rows[i][1] <= serial)'
    <3>1. \A i \in DOMAIN u.rows : u.rows[i][1] \in Nat
      BY StreamFacts DEF LiveViews, Lines
    <3> QED
      BY <1>1, <2>1, <2>5, <3>1, StreamFacts
  <2>7. Named(s)'
    BY <2>1, <2>2, <2>3, <2>4, <2>6 DEF Named
  <2>8. running' /\ cleanup'.step = 0 => At(s)'
    BY <1>1, <1>4, <1>6, <2>1 DEF At, RequestEnded, StreamInv, RootKept, BeginsIn
  <2>9. Attended(s)'
    BY <1>1, <1>4, <1>6, <2>1, <2>2, <2>8 DEF Attended, Pending
  <2>10. Followed(s)'
    BY <2>1 DEF Followed, BeginsIn
  <2>11. Streaming(s, u, n, new)
    <3>1. Upright(new) /\ LastShown(new) = 0
      BY <1>4 DEF Upright, LastShown
    <3>2. CASE u.rows = <<>>
      BY <3>1, <3>2, NoRows DEF Streaming, BeginsIn
    <3>3. CASE s = "events"
      <4>1. Kept(0) = 0 /\ u.seen = 0 /\ u.rows \in Seq(Lines)
        BY NoRows DEF BeginsIn, LiveViews
      <4>2. \A i \in DOMAIN u.rows : u.rows[i][1] # n /\ ~(Len(u.rows) - i < 0)
        <5>1. \A i \in DOMAIN u.rows : u.rows[i][1] \in Nat /\ ~(Len(u.rows) - i < 0)
          BY <4>1, StreamFacts DEF Lines
        <5> QED
          BY <1>1, <2>5, <5>1, StreamFacts
      <4>3. EndsWith(u.rows, n, u.seen, LastShown(new))
        BY <3>1, <4>1, <4>2 DEF EndsWith
      <4> QED
        BY <3>1, <3>3, <4>3 DEF Streaming
    <3> QED
      BY <3>2, <3>3 DEF BeginsIn
  <2>12. u.verdict # "own"
    BY DEF BeginsIn
  <2> QED
    BY <1>6, <2>1, <2>7, <2>9, <2>10, <2>11, <2>12 DEF SlotInv
<1> QED
  BY <1>8, <1>9, <1>10, <1>12, <1>13 DEF StreamInv

LEMMA ConnClosedTo ==
    ASSUME StreamInv, NEW s \in Slots
    PROVE  ClosedTo(conn, {s}) /\ ClosedTo(ClosedSlots(conn, {s}, Held), {s})
<1>1. ClosedTo(conn, {s})
  BY DEF ClosedTo, StreamInv, StreamTyped, ConnInv
<1>2. {s} \in SUBSET Slots
  OBVIOUS
<1> QED
  BY <1>1, <1>2, HeldReferences, ClosedConn

LEMMA FreshIs ==
    ASSUME StreamInv, serial < MaxStream, NEW s, NEW u, u = Fresh(s)
    PROVE  /\ u \in LiveViews /\ u.request = serial + 1 /\ u.stream = NoStream
           /\ u.verdict = "none" /\ u.seen = 0 /\ u.rows = <<>>
<1>1. PICK n : n = serial + 1
  OBVIOUS
<1>2. n \in Stream
  BY <1>1, StreamFacts DEF StreamInv, StreamTyped
<1>3. u = [Blank EXCEPT !.request = n, !.status = "loading"]
  BY <1>1 DEF Fresh
<1>4. PICK none \in Seq(Lines) : none = <<>>
  <2>1. <<>> \in Seq(Lines)
    OBVIOUS
  <2> QED
    BY <2>1
<1>5. NoStream \in Handles /\ n \in Handles
  BY <1>2 DEF Handles
<1>6. u = [request |-> n, stream |-> NoStream, status |-> "loading", eof |-> FALSE,
           verdict |-> "none", rows |-> none, seen |-> 0]
  BY <1>3, <1>4 DEF Blank
<1>7. u \in LiveViews
  BY <1>4, <1>5, <1>6 DEF LiveViews
<1>8. /\ u.request = n /\ u.stream = NoStream
      /\ u.verdict = "none" /\ u.seen = 0 /\ u.rows = none
  BY <1>6
<1> QED
  BY <1>1, <1>4, <1>7, <1>8

LEMMA OpenViewSafe ==
    ASSUME StreamInv, NEW s \in Slots \ {"events"}, OpenView(s)
    PROVE  StreamInv'
<1>1. PICK u : u = Fresh(s)
  OBVIOUS
<1>2. serial < MaxStream
  BY DEF OpenView, Begin
<1>3. /\ u \in LiveViews /\ u.request = serial + 1 /\ u.stream = NoStream
      /\ u.verdict = "none" /\ u.seen = 0 /\ u.rows = <<>>
  BY <1>1, <1>2, FreshIs
<1>4. /\ view' \in [Slots -> Nat]
      /\ \A t \in Slots : t # s => view'[t] = view[t]
  BY DEF OpenView, StreamInv, StreamTyped
<1>5. /\ Begin(s, conn) /\ ui' = [ui EXCEPT ![s] = u] /\ running /\ session
      /\ UNCHANGED <<running, rootCanceled, generation, session, cleanup>>
      /\ (snapshot' => snapshot)
  BY <1>1 DEF OpenView
<1>6. s \in Slots /\ s # "events" /\ ClosedTo(conn, {s})
  BY ConnClosedTo
<1>7. BeginsIn(s, u, conn)
  BY <1>3, <1>4, <1>5, <1>6 DEF BeginsIn
<1> QED
  BY <1>3, <1>7, BeginKeeps

LEMMA ReconnectSafe ==
    ASSUME StreamInv, NEW s \in Slots \ {"events"}, Reconnect(s)
    PROVE  StreamInv'
<1>1. PICK u : u = Fresh(s)
  OBVIOUS
<1>2. serial < MaxStream
  BY DEF Reconnect, Begin
<1>3. /\ u \in LiveViews /\ u.request = serial + 1 /\ u.stream = NoStream
      /\ u.verdict = "none" /\ u.seen = 0 /\ u.rows = <<>>
  BY <1>1, <1>2, FreshIs
<1>4. /\ view' \in [Slots -> Nat]
      /\ \A t \in Slots : t # s => view'[t] = view[t]
  BY DEF Reconnect, StreamInv, StreamTyped
<1>5. PICK c : c = ClosedSlots(conn, {s}, Held)
  OBVIOUS
<1>6. ClosedTo(c, {s}) /\ Begin(s, c)
  BY <1>5, ConnClosedTo DEF Reconnect
<1>7. /\ ui' = [ui EXCEPT ![s] = u] /\ running /\ session
      /\ UNCHANGED <<running, rootCanceled, generation, session, cleanup>>
      /\ (snapshot' => snapshot)
  BY <1>1 DEF Reconnect
<1>8. s \in Slots /\ s # "events"
  OBVIOUS
<1>9. BeginsIn(s, u, c)
  BY <1>3, <1>4, <1>6, <1>7, <1>8 DEF BeginsIn
<1> QED
  BY <1>3, <1>9, BeginKeeps

LEMMA StartFollowSafe ==
    ASSUME StreamInv, "events" \in Slots, StartFollow
    PROVE  StreamInv'
<1>1. PICK s \in Slots : s = "events"
  OBVIOUS
<1>2. PICK n \in Handles : n = serial + 1
  <2>1. serial + 1 \in Stream
    BY StreamFacts DEF StartFollow, Begin, StreamInv, StreamTyped
  <2> QED
    BY <2>1 DEF Handles
<1>3. PICK u : u = [Blank EXCEPT !.request = n, !.status = "ready", !.rows = ui[s].rows]
  OBVIOUS
<1>4. /\ u \in LiveViews /\ u.request = n /\ u.stream = NoStream /\ u.status = "ready"
      /\ u.verdict = "none" /\ u.seen = 0 /\ u.rows = ui[s].rows
  <2>1. NoStream \in Handles /\ ui[s].rows \in Seq(Lines)
    BY ViewFacts DEF Handles, LiveViews
  <2> QED
    BY <1>3, <2>1 DEF Blank, LiveViews
<1>5. ui' = [ui EXCEPT ![s] = u]
  BY <1>1, <1>2, <1>3 DEF StartFollow
<1>6. ~snapshot' /\ view' = view /\ view[s] > 0 /\ view \in [Slots -> Nat]
  BY <1>1 DEF StartFollow, SnapshotCanceled, StreamInv, StreamTyped
<1>7. BeginsIn(s, u, conn)
  BY <1>1, <1>2, <1>4, <1>5, <1>6, ConnClosedTo DEF StartFollow, BeginsIn
<1> QED
  BY <1>4, <1>7, BeginKeeps

-----------------------------------------------------------------------------
(* The live views, in every state of their program *)

LEMMA StreamStarts == StreamInit => StreamInv
<1> SUFFICES ASSUME StreamInit PROVE StreamInv
  OBVIOUS
<1> USE DEF StreamInit
<1>1. Idle \in Conns /\ Idle.next = "none" /\ Idle.count = 0 /\ Idle.sent = 0
  BY DEF Idle, Conns
<1>2. Blank \in LiveViews
  <2>1. <<>> \in Seq(Lines) /\ NoStream \in Handles
    BY DEF Handles
  <2> QED
    BY <2>1 DEF Blank, LiveViews
<1>3. StreamTyped
  BY <1>1, <1>2, StreamFacts DEF StreamTyped, Handles
<1>4. ASSUME NEW h \in Stream PROVE ConnInv(h)
  BY <1>1, StreamFacts DEF ConnInv
<1>5. ASSUME NEW s \in Slots PROVE SlotInv(s)
  BY DEF SlotInv, Named, Of, At, Attended, Followed, Live, Blank
<1> QED
  BY <1>3, <1>4, <1>5 DEF StreamInv, RootKept

LEMMA KeySafe ==
    ASSUME StreamInv, Key
    PROVE  StreamInv'
<1>1. CASE \E s \in Slots \ {"events"} :
              OpenView(s) \/ Reconnect(s) \/ Clear(s) \/ LeaveView(s)
  BY <1>1, OpenViewSafe, ReconnectSafe, ClearSafe, LeaveViewSafe, Zenon
<1>2. CASE "events" \in Slots
           /\ (StartFollow \/ StopFollow \/ RefreshEvents \/ SnapshotArrives)
  BY <1>2, StartFollowSafe, StopFollowSafe, RefreshEventsSafe, SnapshotArrivesSafe, Zenon
<1>3. CASE ReplaceRoot(NoViews) \/ ReplaceRoot(EventsOnly) \/ SwitchSession \/ SessionOpened
  BY <1>3, ReplaceRootSafe, SwitchSessionSafe, SessionOpenedSafe, Zenon
<1> QED
  BY <1>1, <1>2, <1>3, Zenon DEF Key

LEMMA StreamStep == StreamInv /\ [StreamNext]_streamVars => StreamInv'
<1> SUFFICES ASSUME StreamInv, [StreamNext]_streamVars PROVE StreamInv'
  OBVIOUS
<1>1. CASE \E h \in Stream : Command(h) \/ Message(h)
  BY <1>1, CommandSafe, MessageSafe, Zenon
<1>2. CASE Key
  BY <1>2, KeySafe
<1>3. CASE Quit \/ CleanupView \/ CleanupRoot \/ CleanupAll \/ Stop \/ ExitCleanup
  BY <1>3, QuitSafe, CleanupViewSafe, CleanupRootSafe, CleanupAllSafe, StopSafe,
     ExitCleanupSafe, Zenon
<1>4. CASE UNCHANGED streamVars
  <2>1. /\ UNCHANGED <<rootCanceled, generation, view, slot, ui, conn, serial>>
        /\ UNCHANGED <<running, session, snapshot, cleanup>>
    BY <1>4 DEF streamVars
  <2>2. RootKept'
    BY <2>1 DEF StreamInv, RootKept
  <2> QED
    BY <2>1, <2>2, CleanupFacts, RequestsLeft DEF References
<1> QED
  BY <1>1, <1>2, <1>3, <1>4, Zenon DEF StreamNext

\* The references, the streams and the views of every live view stay in order: a
\* slot's request is its view's, a current stream was closed by its own last Next
\* only, and followed events are in view of an open session
\* (directRequests, lifecycleStream, stream_commands.go).
THEOREM StreamInductive == StreamSpec => []StreamInv
<1>1. StreamSpec => StreamInit /\ [][StreamNext]_streamVars
  BY DEF StreamSpec
<1> QED
  BY <1>1, StreamStarts, StreamStep, PTL

\* A live view that the program has not quit is never left without a request under
\* way: every end of an open or of a Next reaches the view, or a key has closed it
\* (directLogsOpened, directHealthRead, closeDirectHealth, beginSessionOpen).
THEOREM NoViewAbandoned == StreamSpec => []NeverAbandoned
<1>1. StreamInv => NeverAbandoned
  <2> SUFFICES ASSUME StreamInv, running, session, cleanup.step = 0,
                      NEW s \in Slots, Live(s)
               PROVE  LET h == ui[s].request
                      IN /\ h # NoStream /\ Current(h)
                         /\ \/ conn[h].pc \in {"queued", "opening", "opened", "failed"}
                            \/ conn[h].next # "none"
    BY DEF NeverAbandoned
  <2>1. At(s) /\ Pending(conn[slot[s]]) /\ SlotInv(s)
    BY ViewFacts DEF SlotInv, Attended
  <2>2. ui[s].request = slot[s] /\ conn[slot[s]].slot = s /\ slot[s] # NoStream
    BY <2>1 DEF At, SlotInv, Named, Of
  <2> QED
    BY <2>1, <2>2 DEF At, Current, Pending
<1> QED
  BY <1>1, StreamInductive, PTL

\* "cluster is healthy" is never the end of a call that this program canceled, for
\* a batch that such an end closed is of no current request (directHealthRead).
THEOREM VerdictOfServer == StreamSpec => []VerdictIsServers
<1>1. StreamInv => VerdictIsServers
  BY ViewFacts DEF VerdictIsServers, SlotInv
<1> QED
  BY <1>1, StreamInductive, PTL

\* A live view shows the last lines of its stream, each once and in order
\* (appendBoundedLines, appendBoundedEvents, directEventsLoaded).
THEOREM RowsAreLines == StreamSpec => []RowsAreTheStream
<1>1. StreamInv => RowsAreTheStream
  <2> SUFFICES ASSUME StreamInv, NEW s \in Slots, Live(s), Current(ui[s].request)
               PROVE  LET h == ui[s].request
                      IN /\ EndsWith(ui[s].rows, h, ui[s].seen, LastShown(conn[h]))
                         /\ IsLog(s) \/ s = "health" => Len(ui[s].rows) = Kept(ui[s].seen)
    BY DEF RowsAreTheStream
  <2>1. SlotInv(s) /\ ui[s].request # NoStream
    BY ViewFacts DEF SlotInv, Attended, Live
  <2>2. conn[ui[s].request].slot = s
    BY <2>1 DEF SlotInv, Named, Of
  <2>3. At(s) /\ slot[s] = ui[s].request
    BY <2>1, <2>2 DEF At, Current
  <2> QED
    BY <2>1, <2>3 DEF SlotInv, Streaming, IsLog
<1> QED
  BY <1>1, StreamInductive, PTL

==============================================================================
