---------------------------- MODULE ClusterHealth ----------------------------
(***************************************************************************)
(* What the TUI says of the health of a cluster, and the evidence it has.  *)
(*                                                                         *)
(* Three reads feed it: nodes with their services (the Talos adapter       *)
(* inspects the members, each within 5 seconds, then lists services from   *)
(* the same observation), etcd, and the status resources of the nodes      *)
(* (internal/application/read_cluster.go, read_diagnostics.go,             *)
(* internal/adapters/talos/nodes.go, node_services.go, node_progress.go,   *)
(* services.go).  updateDirectClusterResult stores the answers, and        *)
(* EvaluateObservations (internal/application/health.go) and the header    *)
(* (internal/tui/metadata.go) judge them.  Selecting a context begins      *)
(* anew.                                                                   *)
(*                                                                         *)
(* A request that is replaced is dropped: its answer is refused, as        *)
(* ViewRequests has it.  Of each read what matters is whether it was made  *)
(* and what it says: all is well or something is not.  Kubernetes          *)
(* readiness is no part of the verdict and is left out.                    *)
(***************************************************************************)
EXTENDS Naturals, FiniteSets

CONSTANTS
    Host,          \* the machines of a cluster
    Contexts,      \* contexts that are selected, at most: each a new generation
    Refreshes,     \* refreshes of a context, at most
    Trouble        \* reads that fail or bring bad news, at most

VARIABLES
    context,       \* the generation of the selected context
    opened,        \* its session: "opening", "open", "failed"
    cluster,       \* directClusterState
    observing,     \* the read of nodes and services under way
    pending,       \* the etcd request is under way
    asked,         \* the nodes that the status request under way asks
    refreshes, trouble   \* what is left of the bounds

healthVars == <<context, opened, cluster, observing, pending, asked, refreshes, trouble>>

\* directNodeState and its kin: the status of the answer, its rows and, for
\* the properties, the context they are from.
Nothing == [h \in {} |-> "unread"]
Loading == [status |-> "loading", rows |-> Nothing, of |-> 0]

\* A node as the adapter fills it in: "ready", "down" or "unread", its services
\* "well", "bad" or "unread", whether its version was read, and its problem.
LoadingRow == [machine |-> "unread", services |-> "unread", version |-> FALSE, problem |-> FALSE]

\* The read: "rows" are the nodes inspected so far, "seen" what serviceObservation
\* holds of the services of each.
NoRead == [stage |-> "none", initial |-> FALSE, rows |-> Nothing, seen |-> Nothing]

HealthInit ==
    /\ context = 1 /\ opened = "opening"
    /\ cluster = [source \in {"nodes", "services", "etcd", "status"} |-> Loading]
    /\ observing = NoRead /\ pending = FALSE /\ asked = {}
    /\ refreshes = 0 /\ trouble = 0

\* A read that answers well costs nothing, any other one unit of trouble.
Spent(bad) == trouble' = trouble + bad /\ trouble' <= Trouble

-----------------------------------------------------------------------------
(* The adapter *)

BeginNodes(initial) == [NoRead EXCEPT !.stage = "members", !.initial = initial]

Members(listed) ==
    /\ observing.stage = "members"
    /\ observing' = [observing EXCEPT !.stage = "inspect",
                                      !.rows = [h \in listed |-> LoadingRow],
                                      !.seen = [h \in listed |-> "none"]]
    /\ UNCHANGED <<context, opened, cluster, pending, asked, refreshes, trouble>>

\* Mutant: the row of a node that was cut off carries no problem.
CutOffUnsaid(machine, services, version, cut) ==
    [machine |-> machine, services |-> services, version |-> version,
     problem |-> ~cut /\ (machine = "unread" \/ services = "unread" \/ ~version)]

\* inspectNode: each read that fails is a problem of the row.  The deadline of
\* the node ends the inspection wherever it is, before the problems are
\* joined, and is the problem then.
Inspected(machine, services, version, cut) ==
    [machine |-> machine, services |-> services, version |-> version,
     problem |-> cut \/ machine = "unread" \/ services = "unread" \/ ~version]

\* The trouble of an inspection: each read that brings bad news, and the deadline.
Troubled(machine, services, version, cut, reached) ==
    Cardinality({x \in {<<"m", machine # "ready">>, <<"s", reached /\ services # "well">>,
                        <<"v", ~version /\ ~cut>>, <<"c", cut>>} : x[2]})

\* The reads that were made, in order, before the deadline: a read that is not
\* made leaves its zero value, and the services unobserved.
InspectNode(h) ==
    /\ observing.stage = "inspect" /\ observing.rows[h] = LoadingRow
    /\ \E machine \in {"ready", "down", "unread"}, services \in {"well", "bad", "unread"},
          version, cut, reached \in BOOLEAN :
        /\ ~reached => services = "unread" /\ ~version /\ cut
        /\ Spent(Troubled(machine, services, version, cut, reached))
        /\ observing' =
            [observing EXCEPT !.rows[h] = Inspected(machine, services, version, cut),
                              !.seen[h] = IF reached THEN services ELSE "none"]
    /\ UNCHANGED <<context, opened, cluster, pending, asked, refreshes>>

\* The rows so far reach the TUI, in the first read of a session only: they
\* count as ready.
PublishProgress ==
    /\ observing.initial /\ observing.stage = "inspect" /\ observing.rows # Nothing
    /\ cluster' = [cluster EXCEPT !["nodes"] = [status |-> "ready", rows |-> observing.rows, of |-> context]]
    /\ UNCHANGED <<context, opened, observing, pending, asked, refreshes, trouble>>

\* Mutant: each of the two lists reads the services for itself.
ReadAgain(h) == {"well", "bad", "unread"}

\* serviceObservation.Services: one read of a node per answer, whoever asks.
Observed(h) == IF observing.seen[h] = "none" THEN {"well", "bad", "unread"} ELSE {observing.seen[h]}

Complete(rows) == \A h \in DOMAIN rows : ~rows[h].problem

\* directNodeServicesLoaded: nodes and services become ready or partial; an
\* error makes either failed that brought nothing.
NodesLoaded(rows, services, failed, servicesFailed) ==
    LET Stored(value, complete, none) ==
            [status |-> IF failed /\ none THEN "failed"
                        ELSE IF failed \/ ~complete THEN "partial" ELSE "ready",
             rows |-> value, of |-> context]
        well == \A h \in DOMAIN services : services[h] # "unread"
    IN  /\ cluster' = [cluster EXCEPT
              !["nodes"]    = Stored(rows, Complete(rows), rows = Nothing),
              !["services"] = Stored(services, well, servicesFailed),
              !["status"]   = IF rows = Nothing THEN @ ELSE [@ EXCEPT !.status = "loading"]]
        /\ asked' = IF rows = Nothing THEN asked ELSE DOMAIN rows
        /\ observing' = NoRead
        /\ UNCHANGED <<context, opened, pending, refreshes>>

AllInspected ==
    observing.stage = "inspect" /\ \A h \in DOMAIN observing.rows : observing.rows[h] # LoadingRow

\* detailedServiceReader.List, once every member was inspected, and the answer.
ListServices ==
    /\ AllInspected
    /\ \E services \in [DOMAIN observing.rows -> {"well", "bad", "unread"}] :
        /\ \A h \in DOMAIN services : services[h] \in Observed(h)
        /\ Spent(Cardinality({h \in DOMAIN services : observing.seen[h] = "none" /\ services[h] # "well"}))
        /\ NodesLoaded(observing.rows, services, FALSE, FALSE)

\* The members cannot be listed, or the 15 seconds of the read pass: the nodes
\* come without services once they are all inspected; until then listProgress
\* answers with what it has and List with nothing.
NodesReadFails ==
    /\ observing.stage # "none" /\ Spent(1)
    /\ LET left == [h \in DOMAIN observing.rows |->
                        IF observing.rows[h] = LoadingRow THEN [LoadingRow EXCEPT !.problem = TRUE]
                        ELSE observing.rows[h]]
       IN  \E rows \in {left, Nothing} :
              /\ observing.initial \/ AllInspected \/ rows = Nothing
              /\ observing.initial => rows = left
              /\ NodesLoaded(rows, Nothing, TRUE, TRUE)

-----------------------------------------------------------------------------
(* The other reads *)

\* What the adapter says of an etcd member.  One stands for all: the member list
\* comes from the first control plane that gives one ("none" when none does),
\* the status from the member itself ("unread"), alarms from whoever answers.
EtcdMember == {"well", "alarmed", "errors", "unread", "none"}

\* Session.Etcd and directEtcdLoaded.  The error may come with members, that of
\* the list of nodes for one.
EtcdAnswers ==
    /\ pending /\ pending' = FALSE
    /\ \E member \in EtcdMember, failed \in BOOLEAN :
        /\ member = "none" => failed
        /\ Spent(IF member # "well" \/ failed THEN 1 ELSE 0)
        /\ cluster' = [cluster EXCEPT !["etcd"] =
              [status |-> IF member = "none" THEN "failed"
                          ELSE IF failed \/ member \in {"errors", "unread"} THEN "partial" ELSE "ready",
               rows |-> IF member = "none" THEN Nothing ELSE [m \in {"member"} |-> member],
               of |-> context]]
    /\ UNCHANGED <<context, opened, observing, asked, refreshes>>

\* nodeStatusReader.List: the kinds of resource are read one by one, whatever
\* becomes of the others, and only what was read is judged; "unread" stands for
\* a kind that could not be.
NodeStatus == {"well", "bad", "unknown", "unread"}

\* Session.NodeStatuses and directNodeStatusesLoaded: an error of any node, or
\* of the admission when the session ends, makes the answer partial.
StatusAnswers ==
    /\ asked # {} /\ asked' = {}
    /\ \E statuses \in [asked -> NodeStatus] :
        /\ Spent(Cardinality({h \in DOMAIN statuses : statuses[h] # "well"}))
        /\ cluster' = [cluster EXCEPT !["status"] =
              [status |-> IF \E h \in DOMAIN statuses : statuses[h] = "unread" THEN "partial" ELSE "ready",
               rows |-> statuses, of |-> context]]
    /\ UNCHANGED <<context, opened, observing, pending, refreshes>>

-----------------------------------------------------------------------------
(* The operator *)

\* directSessionOpened and startClusterObservations.
SessionOpens ==
    /\ opened = "opening" /\ opened' = "open"
    /\ observing' = BeginNodes(TRUE) /\ pending' = TRUE
    /\ UNCHANGED <<context, cluster, asked, refreshes, trouble>>

SessionFails ==
    /\ opened = "opening" /\ opened' = "failed"
    /\ Spent(1)
    /\ cluster' = [source \in DOMAIN cluster |->
                    IF source = "status" THEN cluster[source]
                    ELSE [status |-> "failed", rows |-> Nothing, of |-> context]]
    /\ UNCHANGED <<context, observing, pending, asked, refreshes>>

\* refreshDirectSummary, on r or the heartbeat: new requests in both slots.
RefreshSummary ==
    /\ opened = "open" /\ refreshes < Refreshes /\ refreshes' = refreshes + 1
    /\ observing' = BeginNodes(FALSE) /\ pending' = TRUE
    /\ UNCHANGED <<context, opened, cluster, asked, trouble>>

\* beginSessionOpen, as far as it touches these.
SelectContext ==
    /\ context < Contexts /\ context' = context + 1
    /\ opened' = "opening" /\ observing' = NoRead /\ pending' = FALSE /\ asked' = {}
    /\ cluster' = [source \in DOMAIN cluster |-> IF source = "status" THEN cluster[source] ELSE Loading]
    /\ refreshes' = 0 /\ trouble' = 0

HealthNext ==
    \/ \E listed \in SUBSET Host : Members(listed)
    \/ \E h \in DOMAIN observing.rows : InspectNode(h)
    \/ PublishProgress \/ ListServices \/ NodesReadFails
    \/ EtcdAnswers \/ StatusAnswers
    \/ SessionOpens \/ SessionFails \/ RefreshSummary \/ SelectContext

HealthSpec == HealthInit /\ [][HealthNext]_healthVars

-----------------------------------------------------------------------------
(* The verdict *)

\* directHealthInput.
Known(source) == cluster[source].status \in {"ready", "partial"}
Evidence(source) == IF Known(source) THEN cluster[source].rows ELSE Nothing

\* Each diagnosis as its rule and its resource.  The unhealthy service is
\* sandboxd, the one service that is judged by its row as well as in the
\* counters of its node.
Diagnosed(rule, resources) == {<<rule, r>> : r \in resources}

NodeReadiness ==
    LET nodes == Evidence("nodes")
    IN  Diagnosed("node-readiness", {h \in DOMAIN nodes : nodes[h].machine # "ready"})
NodeServicesDegraded ==
    LET nodes == Evidence("nodes")
    IN  Diagnosed("node-services-degraded", {h \in DOMAIN nodes : nodes[h].services = "bad"})
EtcdMemberUnhealthy ==
    LET members == Evidence("etcd")
    IN  Diagnosed("etcd-member-unhealthy", {m \in DOMAIN members : members[m] \in {"errors", "unread"}})
EtcdMemberAlarmed ==
    LET members == Evidence("etcd")
    IN  Diagnosed("etcd-member-alarmed", {m \in DOMAIN members : members[m] = "alarmed"})
\* Peers, physical volumes and groups, arrays, volumes, trims and scrubs: each
\* in a bad state or in one the rule does not know; those never read say nothing.
StatusResources ==
    LET statuses == Evidence("status")
    IN  Diagnosed("status-resources", {h \in DOMAIN statuses : statuses[h] \in {"bad", "unknown"}})
SandboxdService ==
    LET services == Evidence("services")
    IN  Diagnosed("sandboxd-service-unhealthy", {h \in DOMAIN services : services[h] = "bad"})

\* EvaluateObservations.
Diagnoses ==
    NodeReadiness \cup NodeServicesDegraded \cup EtcdMemberUnhealthy
      \cup EtcdMemberAlarmed \cup StatusResources \cup SandboxdService

\* deriveShellMetadata: the Health of the header.
Health ==
    CASE cluster["nodes"].status = "loading" -> "Loading"
      [] cluster["nodes"].status = "failed"  -> "Unavailable"
      [] cluster["nodes"].status = "partial" -> "Degraded"
      [] OTHER -> IF \/ \E h \in DOMAIN cluster["nodes"].rows : cluster["nodes"].rows[h].machine # "ready"
                     \/ Diagnoses # {}
                  THEN "Degraded" ELSE "Healthy"

-----------------------------------------------------------------------------
(***************************************************************************)
(* Properties                                                              *)
(***************************************************************************)

\* A read of nodes and services has been answered; until then the rows are those
\* of its progress, which count as ready whatever their problems.
Answered == cluster["services"].status # "loading"

\* The header says "Healthy" of nothing that was cut off: once the first read
\* of a session is answered, each node it counts has answered every read of its
\* inspection, however the deadlines of the node and of the whole read fell,
\* and no service or status resource that was read is bad.  It cannot
\* contradict itself either: the counters of a node and the rows of the services
\* list come from one read, though a service may change between any two reads.
HealthyIsRead ==
    /\ Health = "Healthy" /\ Answered =>
        /\ \A h \in DOMAIN cluster["nodes"].rows :
              LET row == cluster["nodes"].rows[h]
              IN  row.machine = "ready" /\ row.services = "well" /\ row.version
        /\ \A source \in {"services", "status"} :
              \A h \in DOMAIN Evidence(source) : Evidence(source)[h] \notin {"bad", "unknown"}
    /\ Known("services") =>
        \A h \in DOMAIN cluster["nodes"].rows \cap DOMAIN cluster["services"].rows :
            "unread" \in {cluster["nodes"].rows[h].services, cluster["services"].rows[h]}
            \/ cluster["nodes"].rows[h].services = cluster["services"].rows[h]

\* "Context-scoped state from the previous session is not shown after the
\* switch" (docs/src/content/docs/guides/contexts.md:13): whatever the views,
\* the diagnoses and the header take for known is of the selected context.
SwitchForgets == \A source \in DOMAIN cluster : Known(source) => cluster[source].of = context
=============================================================================
