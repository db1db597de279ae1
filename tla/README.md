# TLA+ models of t9s

t9s is a terminal UI over the Talos API (Go, `internal/`): it opens a session per
cluster context, reads nodes, services, etcd and events, and, when writes are
enabled, changes the cluster (node actions, upgrades, etcd membership, services,
configuration). This directory holds models of the parts in which order and failure
matter, the TLC configurations that check them and TLAPS proofs about them.

    tlc -workers 2 -config MCSessions.cfg MCSessions
    tlapm Sessions_proofs.tla

`PROJECT.json` lists the runs, maps each definition to the source lines it stands for,
and gives for every checked property a *mutant*: a definition of the model replaced by
one with a plausible bug, under which the property must fail. The mutated forms stand
in the modules, commented "Mutant", next to what they mutate; no specification uses them.

## The system

| Component | State | Operations | Who it interacts with |
|---|---|---|---|
| Session, mutation admission (`application/session.go`, `mutation.go`, `mutation_registry.go`, `action_plan.go`) | closed, lifetime context, cluster UID, busy flag; plans with a consumed flag; process-wide counts per cluster | Prepare*, Execute*, admit, release, Close | every mutation; several sessions share the registry |
| Opening and switching (`application/client.go`, `tui/direct_model.go`, `tui/requests.go`, `cli/run.go`) | the session held, the lifecycle record, request slots, generation, root context | select a context, receive a session, quit, clean up | UI loop, one goroutine per open, cleanup goroutines |
| Etcd policy (`application/action_policy.go`, `adapters/talos/etcd.go`) | none; an observation of members and their status | quorum gates, warnings, choice of the snapshot source | etcd actions, node actions |
| Etcd actions (`application/etcd_actions.go`, `adapters/talos/etcd_operations.go`) | plan, facts of three reads, snapshot receipt | prepare, execute: recheck, snapshot, recheck, RPC | admission, policy, Talos |
| Talos upgrade (`application/upgrade_operation.go`, `adapters/talos/node_controller.go`) | lease, results channel, terminal result, cordon ownership | check, snapshot, install, cordon, drain, reboot, wait, uncordon | admission, Talos, Kubernetes, operators |
| Etcd snapshot file (`adapters/talos/etcd_operations.go`) | temporary and final file | write, hash, sync, publish, remove | etcd actions, upgrades |
| Node and service actions (`application/node_actions.go`, `node_destructive_actions.go`, `service_operations.go`) | plan with node, etcd and disk facts | prepare, recheck, dispatch to every target | admission, policy, Talos |
| Lifecycle streams (`application/streams.go`, `tui/stream_commands.go`, `tui/requests.go`) | upstream stream, closed flag; per view the request, the stream, rows, verdict | open, Next, Close, reconnect, follow, leave, end of the session | session, UI loop, one goroutine per open and Next |
| Stream adapters (`adapters/talos/logs.go`, `dmesg.go`, `events_follow.go`, `cluster_health.go`) | RPC, line decoder, one worker and a channel for the events of all nodes | receive, decode, fan in | lifecycle streams, Talos |
| Kubernetes upgrade (`application/kubernetes_upgrade.go`, `adapters/talos/kubernetes_upgrade*.go`, `tui/kubernetes_upgrade_*.go`) | inventory, staged plan, evidence of synced manifests; the dialog, its operation and stream | inspect, prepare, confirm, check, snapshot, talosctl, one kubelet after the other, cancel, leave | admission (sets the cluster UID), talosctl process, Talos, UI loop |
| Configuration (`application/configuration_apply.go`, `tui/configuration_model.go`) | patch, preview, try-mode deadline | preview, apply, discard | admission |
| TUI mutation flow (`tui/mutation_commands.go`) | prompt, operation number, batch, results | prepare, confirm, run a batch, cancel | all the mutations, by messages |
| TUI requests and views (`tui/*_commands.go`, `requests.go`, `navigation.go`, `shell.go`) | request slots, view stack, snapshots of data, streams of images and directory usage | refresh, heartbeat, drill down, back, switch | reads, UI loop, one goroutine per read |
| Lists (`tui/list_control.go`, a screen model each) | rows, filter, cursor, remembered key | refresh, append, filter, move | the keys of actions |
| Cluster reads and health (`application/read_*.go`, `health.go`, `adapters/talos/nodes.go`, `services.go`, `tui/metadata.go`) | answers per source with a status | fan-out with partial results, progress, classification | read adapters, UI loop |
| Rendering, flags, conversions | none | pure | |

What is hard here: any goroutine may present any plan; sessions are closed by four
parties, some at once; a mutation outlives the message that asked for it; what an
assessment read is stale when it is acted upon, and other processes change the cluster
meanwhile; RPCs are carried out although their caller sees an error; a node goes away
in the middle of its own upgrade. What makes each component correct:

* admission: one mutation per cluster in the process, one per session, a plan once,
  everything given back whatever ends the call;
* sessions: the one in use belongs to the last selection, no adapter leaks, none is
  closed twice;
* etcd: no action that the assessed facts say loses the quorum, and nothing that was
  assessed on other facts than those confirmed;
* upgrades: no reboot without the cleanup, no foreign cordon undone, a result that can
  always be read, a lease that always returns;
* streams: no stream outlives the interest in it, no view waits for nothing, and what a
  view shows is what its stream delivered;
* the mutation flow: what is executed is what was on screen, and the outcomes on screen
  are those of what was executed, for every target;
* configuration: nothing is sent that was not previewed, nothing that was sent is denied,
  and a payload, which holds secrets, does not outlive its plan;
* views and lists: what is shown was read for the view that shows it, the heartbeat neither
  stops nor cancels, and the row under the cursor stays the row under the cursor;
* health: what was not read does not pass for well.

`PROJECT.json`, "hazards", lists where these bite, line by line, with the properties that
watch each of them, and those that nothing watches.

## Modules

    ClusterLease          abstract: who changes which cluster, which plans are spent
      SessionLease        sessions, plans, busy flags, registry; refines ClusterLease
    SessionSwitch         opens, switches, quitting
        Sessions_proofs     theorems of both
    EtcdPolicy            the quorum gates as operators
        EtcdPolicy_proofs   what they compute
      EtcdQuorum          over every observation a read delivers
      EtcdAction          one etcd action, prepare to RPC
        Etcd_proofs         theorems of both
      NodeAction          one node or service action, prepare to RPCs
    TalosUpgrade          one Talos upgrade, admission to cleanup
    KubernetesUpgrade     Kubernetes upgrades: dialog, run, talosctl, cluster, resumption
        Upgrades_proofs     theorems of both
    MutationFlow          from the key of an action to the results on screen
        MutationFlow_proofs its theorems
    ConfigurationApply    the :config dialog: preview, review, apply
        ConfigurationApply_proofs its theorems
    LifecycleStream       the live views and their streams
        Nodes_proofs        theorems of NodeAction and LifecycleStream
    ViewRequests          the other views and the slots of their reads
    ListSelection         the row that an action will take
    ClusterHealth         reads, partial answers, the verdict
        Views_proofs        theorems of ViewRequests and ClusterHealth

    MCSessions  = SessionLease, SessionSwitch        MCEtcd  = EtcdQuorum, EtcdAction
    MCNodes     = NodeAction, LifecycleStream        MCUpgrades = TalosUpgrade, KubernetesUpgrade
    MCViews     = ViewRequests, ListSelection, ClusterHealth

An MC module puts instances of components that share no state side by side. Its variable
`part` is chosen in the initial state and says which of them takes steps; the others stay
in one initial state, so that the states add up and are not multiplied. The fairness of an
idle component asks for nothing: its steps are disabled in that initial state or, for
KubernetesUpgrade, the fairness is conditional on `part`. The remaining modules are checked
by themselves. Components that do interact are composed inside one module: the dialog, the
goroutine and the cluster in KubernetesUpgrade; the loop, the commands and the workers in
MutationFlow; the stages of a mutation are the phases of `call` in SessionLease.

**SessionLease.** A `plan` is a `preparedState`; copies of a `Prepared*` value share it.
A `call` is an `Execute*` method that reaches `Session.admit`; its phases are those of
every such method: recheck, RPC, release. What is done under one hold of a mutex is one
action, so the release is two (`FreeCluster`, `FreeSession`). `FinishPrepareUpgrade` is the
locked end of `PrepareKubernetesUpgrade`, which gives the session its cluster UID while an
earlier mutation may run under the empty scope. Contexts are flags: canceled by the
caller, by the deadline, or by the `AfterFunc` on the session's lifetime, each some time
after its cause. `ClusterOf` is a constant: the adapter of a session talks to one cluster.
What the deadlines amount to, and what the operations do, is left to their own modules.

**SessionSwitch.** An open attempt is its generation and its request at once (the code
advances both in `beginSessionOpen`). `open[o]` walks through `Client.Open` in its goroutine;
`SessionOpened` is the handler of the message, with the check of `requests.current` and of
the generation. Two cleanups may run: the command of a quit key, on a copy of the model,
and that of `cli/run.go` after the loop, on the model as built. `adapter.Close` is counted
at the call that starts its goroutine.

**EtcdPolicy, EtcdQuorum.** Members are a function from IDs to snapshots; a host is a
number (names are only compared, and `Least` takes the first of a sorted list). URLs are
reduced to their hosts. `EtcdQuorum` fills in one status after the other, as `applyStatus`
does while answers come in, and lets the selection of targets grow, so that its states
are all the inputs the gates can have and its steps are what monotonicity is about.

**EtcdAction.** One plan from `PrepareEtcdAction` to the RPC. Each of the three reads is
two steps (nodes, then members) with the world moving between them. `Others` is
everybody else: members come, go and fall ill, discovery finds a node or loses it. `Apply`
is Talos carrying the RPC out, at any time after it was sent, whatever the caller was told.

**NodeAction.** One plan from `PrepareNodeAction` (or `PrepareServiceAction`) to the RPCs, one
per target and all at once. Reboot, shutdown and rollback take the same course and are one
kind, as are the stop and the restart of the service etcd, and all other service actions.
The reads (nodes, etcd, the disks target by target) are steps, the same for both stages;
`Conclude` is where they end: in the plan, or in the comparison with it. A machine is a node
ID; hostnames and addresses are numbers, and a machine may take over the name and address of
another (`Others`). A target that two machines answer to does not resolve; two identities of
one machine become one target (`Canonical`). `Apply` is Talos acting, at any time after an
RPC was sent, on whatever machine answers to the target by then; `hits` and `erased` record
it. `quiet` says that nothing changed since the second read began: all the code can
promise, since Talos takes no precondition. Install images, the force flag and typed tokens,
and the node that a device wipe names a second time are left out.

**TalosUpgrade.** `ExecuteUpgrade`, the goroutine of `UpgradeStream` stage by stage, the
goroutine of `awaitTerminal`, whoever reads, waits and cancels, the node and its object.
`canceled` is the context of the stream, whatever canceled it. The results channel has
capacity one, so `buffer` is one result; progress is dropped, the terminal result displaces.
It composes with SessionLease by `lease`: from admission to `release`.

**LifecycleStream.** A request of a live view, its stream and its Next are one record,
`conn[h]`, named by the serial number of the request. `Command(h)` is what runs in goroutines:
`openLifecycleStream`, `lifecycleStream.Next` and the `AfterFunc` of the stream's context;
`Message(h)` the handlers of the Opened and Batch messages in `stream_commands.go`; `Key` what
the operator does. A context is ended if the request was canceled, a later session was begun
or the root was canceled (`RequestEnded`), and a stream's also once it was closed. Closing is
idempotent in the code (`once`, `stop`), so it is one change of `upstream`. The view stack is
reduced to the number of frames of each live view: a health check may lie on another one.
`status` "ready" of the events is `eventFollow.following`. Rows name their stream and line, so
that lost, repeated and foreign ones differ; recent events that came with a list are no
rows. The key C of a log posts a message without a stamp: `Clear` may meet any later request.
An answer of an adapter is a choice: lines, EOF, an error. The health adapter takes a
`Canceled` for EOF, also one that a server sends (a test asks for it), so
`VerdictIsServers` only excludes the cancellations of this program. The quit key runs
`fallbackCleanup` view by view beside the loop, on the streams its copy of the model knew.

**KubernetesUpgrade.** A version is a minor release; the control plane is the set of versions
its pods run (`components`), what its configuration asks for (`desired`) and the version the
manifests were last synced to, which no part of the program can read back. `evidence` is the
session's own record of targets whose talosctl stage it saw through; `Skippable` rests on
it. `run` is the goroutine of `runKubernetesUpgrade`, stage by stage; `wire` holds the
machine configurations that were sent and may be carried out at any later time, although
the caller was cut off. `cli` holds the talosctl processes: the run's own (`Own`) and, since each
is in a process group of its own, those that a program which ended has left behind (`Orphans`).
Nobody waits for an orphan, and it goes on beside that of a later upgrade. `dialog` and `asks` are the view and its commands and messages:
one is `live` while its request is not canceled, `mine` while the dialog waits for it.
`Quiet` is an assumption on the operator, a guard of `PressEnter` that the program does not
have: who turns to another target does so when what was sent for the last one has been carried out
and the talosctl processes of it have ended. `CompletedIsWhole` and `SkewKept` hold under it; late
effects of an upgrade to the same target, an orphaned talosctl among them, are in the model.

**MutationFlow.** A mutation is its operation number, which is how the code tells messages
apart. `commands` are the preparations under way, `worker[o]` the goroutine that executes an
operation with its channel `queue`, `await[o]` the command that waits for the next item. A
`prompt` carries the request its plan was made for and the option it shows, which the
operator may turn. The kind "snapshot" stands for the etcd actions that ask for a path
first, "etcd" for those that do not. `Report` meets a channel with or without room.

**ConfigurationApply.** The preview, its plan and the goroutine that executes it exist once per
operation number and are one record, `job[o]`. `setting` is the configuration that a machine
runs and that its dry run answers from; `machine` is which machine answers to a target.
`swapped`, `edited` and `carried` are history. `Cover` pushes another view on the dialog while
a message is on its way.

**ViewRequests.** `slots` are the requests that hold one, `commands` what runs beside the loop
and the messages not yet handled; what a view shows is named by the request that read it.
One screen stands for each sort: "list" for one read per node, "usage" and the images of
"containers" for reads that stream, "kinds", "instances", "object" for resources, "nodes" for
every screen of the cluster's own reads. `StillOpen` is the check each handler makes whether
the view that asked is there; it is not the same for all of them.

**ListSelection.** `policy` is one of seven ways in which the screens keep their selection over a
refresh; the first comment of the module says which screen has which.

**ClusterHealth.** Nodes, services, etcd and node statuses are read with partial answers; of
each read it matters whether it was made and what it says. `Inspected` is the row of a node
whose deadline may end it between any two reads, `Observed` the services that two readers
share. `Diagnoses` and `Health` are `EvaluateObservations` and the header.

## Runs

| Run | Instance | States | Shows |
|---|---|---|---|
| Sessions | 2 sessions of one cluster, a second cluster, 2 plans, 2 calls; 2 opens, 2 cleanups | 143,184 | `ClusterExclusion`, `RegistryExact`, `OneShotPlans`, `NoStraySession`; `ImplementsLease` (refinement); `MutationsDrain`, `AbandonedIsClosed` (liveness) |
| Etcd | gates: up to 4 members on 3 hosts, one host registered twice, one address that only URLs name, every set of learners; action: 3 control planes, a fourth member ID for a re-registration, 2 foreign changes, 1 silent node per read | 1,631,870 | `RefusedIffCertain`, `ResetIffSafe`, `ChangeKeepsMajority`, `ConfirmedIsCurrent`, `SafeChange` |
| Nodes | 3 control planes, a worker, a machine that can take the place of the first; 11 requests by hostname, address and ID; disks replaced, missing, read-only or renamed; 1 foreign change, 1 silent node per read. Streams: a log and the health check, 2 requests of 1 line, 1 switch | 1,549,094 | `ActsAsShown`, `ErasesAsShown`, `QuorumKept`, `ReportedTruly`, `NeverAbandoned`, `VerdictIsServers` |
| LifecycleStream | the events, followed twice, 2 lines each, 1 row retained, 1 switch | 497,006 | `RowsAreTheStream`; `StreamsReleased` (liveness) |
| Upgrades | one Talos upgrade; Kubernetes upgrades of 2 nodes over 3 minor releases with 2 adverse events | 539,803 | `LeaseSpansUpgrade`, `AppliedIsApplied`, `CompletedIsWhole`, `SkewKept`, `NeverUnattended`; `OperatorCordonKept`; `UpgradeEnds`, `Resumes` (liveness) |
| MutationFlow | 4 kinds of action, 2 nodes, 2 options, 3 operations, 1 switch | 244,924 | `ExecutedAsShown`, `ResultsAreTheBatch`; `FlowEnds` (liveness) |
| ConfigurationApply | 2 targets, one of which others change, 2 previews, 2 sessions, 1 adverse event | 450,265 | `OutcomesTruthful`, `PayloadOwned`; `AppliedAsPreviewed`; `WatchedCallEnds` (liveness) |
| Views | 2 nodes, 4 requests, 2 sessions; 4 rows, 5 filters; 2 hosts, 2 contexts, 1 refresh and 1 read that goes wrong in each; hosts symmetric | 982,936 | `ShownIsOfView`, `NothingLeftBehind`, `HealthyIsRead`; `SelectionKept`, `HeartbeatKeepsReads` |
| EtcdQuorumLearner, EtcdQuorumUnread | as Etcd | | violations: see "Findings" |
| ViewsResources, ViewsSwitch | as Views | | violations: see "Findings" |

`TypeOK` of SessionLease, EtcdQuorum and NodeAction and the invariants `UnknownRunsAlone`,
`BusyExact` and `GatesMonotone` are proved and therefore not run.

Why the bounds are enough. Exclusion, the flags and one-shot plans are about pairs of
calls, so two calls suffice to break them, on one session or on two of a cluster; two
clusters that change at once, and every larger instance, are the theorems' part. A switch
concerns the attempt left and the one taken up; a third open adds nothing that either can
see. Four voters give the even and the odd majorities, a tie and a double registration; the
theorems drop this bound too. Two foreign changes are enough to let a voter fail and another
one appear between any two steps of an action (`MaxChanges`); `MaxSilent` = 1 lets a read have
gaps, and more silent nodes only move the gates further into the refusals that EtcdQuorum
covers in full. In NodeAction one change can be any event that matters to a request (a role,
two machines trading places, a voter, a disk), and it may fall between any two steps; the
theorems hold for any number of changes, machines, targets and disks. The live views share
the cleanup and the switch, but no request: pairs of views add nothing to two requests that
follow each other, or overlap, in one view. A log and the dmesg are the same code. Two lines
and one retained row let rows be lost, repeated, reordered and dropped by the bound
(`MaxStream`, `MaxSwitch`, `MaxLine`).

Two nodes of a Kubernetes upgrade leave one done and one to do at any point where it stops;
three minor releases (`MaxVersion`) let an upgrade be redirected one step too far; with two
adverse events (`MaxTrouble`) one can stop an upgrade and the other can hit its resumption.
In MutationFlow a reset is turned and forced, an upgrade asks for its image, a snapshot for
its path, and the third operation (`MaxOp`) overlaps what is left of the first two. Two
targets of a configuration have a first and a rest; one adverse event (`MaxAdverse`) is any
failure or change, at any point, and the operator's own keys are free. Four requests of a
view (`MaxRequests`) are an opening, a refresh and a second opening while the first answer
is late; `MaxSessions` adds a switch. Four rows and five filters leave a row hidden, gone,
first and last. In ClusterHealth one read of a context goes wrong (`Trouble`); a second one
only adds a diagnosis, or makes partial what is partial already. `Contexts` and `Refreshes`
bound the contexts selected and the refreshes of each. No other counter is bounded.

Deadlock checking is off in the runs of systems that stop by nature: calls return, opens
end, targets and requests run out, an upgrade is over, the program quits.

Fairness. Timers, `AfterFunc` callbacks, deferred releases and started goroutines run:
weak fairness of each of these steps. An RPC, a factory or a resolver returns if its
context has ended, and only then; a caller need not cancel, a user need not close,
read or wait, a message need not be handled. In TalosUpgrade every stage carries a
budget of its own (30 s to 25 min in `node_controller.go`), so its goroutine is weakly fair
as a whole, while the node need never come back. In
LifecycleStream an open or a Next whose context lives may hang for ever, and the loop may stop
before any message. In MutationFlow and ConfigurationApply preparations and calls have
deadlines and Bubble Tea handles what it is sent, for as long as the program runs; all
that is finite, so one condition serves the whole. KubernetesUpgrade asks for more, and only
`Resumes` needs it: where there is no more trouble, the machines and the pods do what they
were told, the calls answer, and an operator who was refused or stopped prepares and
confirms again. It shows that the code leaves nothing behind that such an operator could
not get past; nothing there resumes by itself. No strong fairness is used.

## Findings

* **Learners can be quorum-blocked.** `security.md` (l. 156) says that removing a learner is
  never quorum-blocked. `etcdMembershipBlockReasonFacts` applies the gate to every member:
  when the voters are already short of their quorum, removing an unhealthy learner is
  refused, although it changes nothing about the quorum. (`LearnerNeverQuorumBlocked`)
* **The ordinary gate gives unread peers the benefit of the doubt.** `security.md` (l. 145)
  says that a node action which would drop etcd below quorum is refused, not merely warned
  about. `etcdQuorumBlockReasonFacts` refuses what is certain to; peers whose status could not
  be read count as well, and the action goes through with a warning. (`UnsafeActionRefused`;
  `RefusedIffCertain` is the exact statement that does hold, `ResetIffSafe` the one for resets.)
* **A resource list can stop refreshing.** `guides/processes-disks-network.md` (l. 35) says that
  the active list, a resource list too, refreshes every two seconds. `applyResourceResult` drops
  the answer of a read whose view is not on top without releasing its slot
  (`resource_commands.go:53`); once Escape brings the view back, the heartbeat takes that
  finished read for one under way and skips the list until `r` is pressed. (`ActiveListRefreshes`;
  `NothingLeftBehind` is what holds of the other views.)
* **Node statuses survive a switch of context.** `guides/contexts.md` (l. 13) says that state of the
  previous session is not shown after the switch. `beginSessionOpen` (`direct_model.go:1083`)
  resets every other answer of the cluster but `nodeStatus`, so the problems of the previous
  context's nodes are listed, and the header judged by them, until the first statuses of the
  new one arrive. (`SwitchForgets`)

Noted while reading, and in no run of their own:

* `directConfigurationExpired` is not among the messages that the loop routes at
  `direct_model.go:270`.
* The answer of a preview of an earlier session is discarded through the session of now,
  which is not its owner: its payload is not cleared (`Clear`). The palette's commands leave the
  configuration dialog without discarding its plan, which stays until the dialog is opened
  again, expires or the context is switched (`Leave`); `PayloadOwned` counts a dialog out of
  view as a holder.
* Progress of an apply that arrives while `:help` or `:bgp` covers the dialog ends the chain of
  commands that would bring the rest (`TargetShown`): the dialog stays at "applying" when it is
  uncovered. `WatchedCallEnds` is therefore about a dialog in view.
* While a configuration is applied the other write prompts are still offered; the lease
  refuses what they confirm.
* Each read of the nodes begins a new read of their statuses and cancels one under way
  (`cluster_commands.go:152`), so a status read slower than the heartbeat may never end;
  `HeartbeatKeepsReads` leaves it out. So may a read of the Kubernetes nodes under the
  BGP peers view, which is not in the module: `activeRefreshPending` (`shell.go:137`) does not wait for
  it there, and the `r` of the heartbeat (`direct_model.go:391`) begins it anew.
* In the lists of mounts, sockets and memory a refresh may move another row under the cursor;
  in those of services and events it may while a filter hides the remembered row; a failed
  batch of images leaves the cursor's bounds behind its rows until the filter is touched. `FollowsRow` names
  the screens of which `SelectionKept` does hold.
* The header says "Healthy" during the first progressive read of a session, of a cluster that lists no
  member, and of one whose etcd or node statuses could not be read, although
  `guides/health.md` (l. 59) says that missing evidence never silently reads as healthy; an alarm list that cannot
  be read hides its alarms. `HealthyIsRead` states what the verdict does rest on.

## Proofs

**Sessions_proofs**, of SessionLease, for any sets of sessions, clusters, plans and callers, from
`SessionAssumption` (every session has one cluster, the null values are distinct). The
properties are not inductive by themselves: that the registry is exact does not say that a
call under the empty scope excludes one that was admitted with a UID. `IInv` adds

* `CallsWellFormed`: a call past its admission has a session and a plan, and its scope is
  empty or the cluster of its session;
* `ScopesExclusive`: of two holders neither has the empty scope, and their scopes differ;
* `AdmittedLegitimately`: the plan of an admitted call is ready and belongs to its session;

with `UIDsTrue` (a session's UID is empty or that of its cluster) and `PlansOwned`. `ClusterExclusion` follows: two
holders have two known scopes, which are their clusters. `Inductive` goes through the
actions one by one. `Refinement` maps the holder of a cluster to the call that holds it
(unique by `Exclusion`) and the spent plans to the consumed ones; admission maps to `Start`,
`FreeCluster` to `Finish`, everything else to a stutter.

Of SessionSwitch, for any number of opens and cleanup workers: `NoStraySession` is kept by
every step but says nothing of an adapter before its message. `SwitchInv` adds `Sound`, the
account of one open (its adapter is closed once, by the open itself when it returns no session,
or by whoever closes the session), that whoever closes a session has it from an open that
returned it (`Holders`), and that the interface holds no session but that of its latest
attempt (`HeldIsCurrent`). `ClosedOnce` is the safety half of `AbandonedIsClosed`.

**Etcd_proofs**, of EtcdQuorum, for any finite set of members, from `PolicyAssumption` and
`ListingAssumption`. The gates count voters in three disjoint classes, the properties speak
of all the ways in which the unread peers may turn out. The bridge is a lemma on
cardinalities: the survivors for a set R of well peers are the healthy voters and R, so
the largest and the smallest number of survivors are `confirmed` and `remaining`.
`GatesAreMonotone` follows from the inclusion of the survivors before and after a step.

Of EtcdAction, for any members and hosts, registered in any way, from
`ActionAssumption`. The facts that are compared are a record of what a read found; the
theorems are about the cluster. `ActionInv` has `Follows` (each phase rests on the facts it
was entered with; the last read of a membership change is the one under a verified snapshot)
and `Judged`: while nobody else touches the cluster, the source of the snapshot is a healthy voter
that stays, and whichever member the RPC takes out of the host it is addressed to, those that
are up are a majority of the rest. That the read establishes `Judged` rests on a lemma on the
lists a read delivers (a member they call healthy is up) and one on the gate, by the
cardinality lemmas of EtcdPolicy_proofs; `SafeChange` needs it for the RPC that is under way and for the cluster
after it was carried out.

**Nodes_proofs**, of NodeAction, for any sets of machines, hosts, devices and requests, any number of
targets and changes, from `NodeActionAssumption` and `EnvironmentAssumption`: discovery and
etcd know a machine by the same hostname, and a device name means one disk of a machine. All
its checked invariants are proved. `IInv` says how the dispatch rests on the second read:

* `Agreed`: every target resolves in the inventory last read, the facts list the machines
  they resolve to, the targets are exactly those of the confirmed nodes, and the dispatch
  began only with facts equal to the confirmed ones;
* `Judged`: what etcd answered to the second read passed the gate;
* `Covered`: for every target whose disks were read, none was refused and the scope is in
  the facts; the devices that the RPC will name come from there;
* `Phases`, `WellStated`, `DisksUnique`: nothing is sent before the dispatch; a request that
  names devices has one target.

`TargetMeans` then gives that an RPC reaches one machine, shown under this name, as long as
`quiet` holds. `QuorumFollows` rests on EtcdPolicy_proofs: a voter that a target reaches is
`AtRisk`, so the survivors counted by the gate are among the machines left.

It also holds the theorems of LifecycleStream, for any views, any number of rows retained and
any bounds on requests, switches and lines, from `StreamAssumption`; they share no state with
those of NodeAction. Its three invariants are proved. None is inductive: that the rows go on with the next
batch needs to know which batch is posted and that no other message of the view passes for
current; that an end reaches the view needs to know who may end a context. `StreamInv` says

* `ConnInv`: requests get their numbers in order and keep their view; a Next comes after its
  open; a batch is no longer than what the stream has sent;
* `Named`: the slot, the model and the copy that the quit key took refer to requests begun
  for this view, the slot to the one of the model, and no row is of a request to come;
* `Attended`: before the quit key, the request of a live view goes on (`At`: in its slot, not
  canceled, of this session, the root alive) and a command of it runs or a message waits;
* `Streaming`, while the request goes on: only its own posted last batch has closed the
  stream, that end is not the work of this program, and the view's last rows are the lines up to the last
  batch handled;
* `Followed`: events are followed only in view, in an open session and with no list of recent
  events on its way, which is why that list cannot erase lines; `RootKept`.

Commands and messages concern one view, and `OneConn`, `OneViewKeeps` and `Undisturbed` give the
others; whatever closes streams (leaving, a switch, the quit key) rests on `ClosedTo`, which states
the effect of a close on the streams it is given. What a view appends is treated once, row by row, by
`AppendedRows` and `AppendedKeeps`.

**Upgrades_proofs**, of TalosUpgrade: `TalosInv` says who holds the lease (`LeaseHeld`), what the goroutine
knows of the node at each of its stages (`NodeKnown`), whose the cordon is (`CordonKnown`: a
cordon of ours is there only while the goroutine owns it and will undo it, or a failure or a warning is
reported), and that the terminal result is the last in the channel (`ResultIsLast`).
`ResultNotLost` is the safety half of what `UpgradeEnds` says of slow readers.

Of KubernetesUpgrade, for any numbers of nodes, versions and adverse events, from
`KubernetesAssumption`. Its properties are about the whole history of a cluster, so the proof
is an account of what every earlier upgrade may have left under way. `Upheld` has these layers, each
proved from those before it (`Proven` and `Staged` together):

* `ClusterTyped`, `ProgramTyped`: the types, and what a message of each kind carries;
* `Conversation`: of the messages under way at most one is meant for the dialog, each finds
  the dialog in a phase that it fits, and a run that nobody has canceled is the one that is shown as
  running (`Attended`, which gives `NeverUnattended`);
* `Aimed`: while there is a plan, or one is being made, all requests on their way and all talosctl
  processes have the target the operator asks for, and so does a run that is not canceled. This is
  where `PressEnter` needs `Quiet`, the assumption on the operator (see KubernetesUpgrade above): the
  theorems `VersionsKeepTogether` and `ReportsAreTrue` hold under it, as the runs do;
* `Shared`: the talosctl processes at work have one target, and it is that of a run that starts
  its own, waits for it, or goes by what it knows of the control plane;
* `Skewed`: any two versions among the pods and the configuration of the control plane are at
  most one apart, and no kubelet, image or request on its way is newer than any of them;
* `Proven`: the control plane has been at every version in `evidence`, and where it still is,
  the manifests are. `Staged`: what a run and each talosctl (`Informed`) know at each stage, from a target that `Supports` the step before
  talosctl starts to a control plane and manifests at the target behind it;
* `InTurn`: at most one node is down, or will go down when a request arrives, and the run that goes on
  is at that node; all nodes before it have the image. A request that was given up keeps its node the next
  one, since every plan goes through the nodes in one order;
* `Recorded`: what was sent to a node is in the outcomes of the run or is the request it waits for,
  and a cluster that was reported as upgraded has nothing under way that would change it.

`Min` and `Max` are choices; `MinIsLeast` and `MaxIsGreatest` justify them. The steps are
grouped by what they do to a part of the state (`WorldMoves`, `CLIMoves`, `OthersKeepRun`, `MovingMoves` and so on), so
that each layer is preserved by a handful of cases instead of thirty actions.

**MutationFlow_proofs**, for any nodes, selections, options and numbers of operations, from
`MutationFlowAssumption`. The heart of `FlowInv` is `Turns`: the number the flow is at is held by one
thing at a time, a command under way, a prompt for the image, a prompt for the plan, or a
goroutine, and everything with an earlier number is recognised as ended; a session switch makes all
of it outdated. `ShownIsPlan` says that a plan differs from what is on screen only while it has to
be prepared again, `Workers` what a goroutine may have sent, and that nobody else ends its batch.

**ConfigurationApply_proofs**, for any nodes, selections and numbers of previews, sessions and
adverse events, from `ConfigurationAssumption`. `ApplyInv` takes each job by itself and then
against the dialog. `Fits`: what a job holds fits its stage. `Reports`: while it sends, the
targets before the next one are accepted and carried out and the others untouched, which a failure and a
cancellation turn into outcomes that stay true. `Rests`: the targets it has rechecked are as it
saw them but for what others changed since, and it sees them in their order, so that the last
recheck leaves all of them covered. `Alone`: the lease. `Owned` and `Phased`: which payload the
dialog holds, and which stages its job may be at in each phase. Discarding the dialog and handling a
message only soften jobs (`Softer`): cancel, clear, hand over or forget them. `First`, a
`CHOOSE` of the least target, is justified by the well-foundedness of the naturals.

**Views_proofs**, of ClusterHealth, for any sets of hosts and contexts. `HealthInv` says of each row
that is stored or on its way what was read of its node (`Sound`: a ready row answered, and its
services are those of its column), that the sources are answered together by the first read,
and that the two lists of nodes agree on the nodes they share. `VerdictHasEvidence` follows,
since the header counts rows.

Of ViewRequests, for any nodes and any number of requests and sessions, from `ViewRequestsAssumption`.
`RequestsInv` has the shape of the stack first (`Piled`): the cluster's own reads are at the
bottom, a list or the containers second, a row third, and no two views are of one kind but the help, so that the views
that show one model are of one node and scope and were opened by one request (`OneOfEach`). On it rest

* `SlotsKept`: a request with a slot is of the open session, asks what the open views of its
  model show and is no older than they are; that of a list, the containers or the usage has its view
  open, and a streamed screen has one slot;
* `CommandsKept`: one command per request, and one for each slot that the heartbeat waits for. The
  resources are left out, since an answer that finds their view covered is dropped with its slot
  taken: this is what the run MCViewsResources shows;
* `StreamsKept`, `StreamsHeld`: a model holds the stream of the request that has the slot of
  its screen, and a stream that no model holds has the message that will hand it over or close it.

An answer is shown only if its request still has its slot (`Current`), so `SlotsKept` is what makes
`ShownIsOfView` inductive; `StillOpen` alone would not do, since a view may have been left and opened
again. Keys, the heartbeat and messages each keep the invariant by one lemma per action, and these share
the lemmas on a request that takes a slot (`AskKeeps`), on views that are left (`LeaveIs`) and on a
command that is settled (`SettledKeeps`). `HeartbeatIsPatient` is an action property: whatever a step that is
not the heartbeat asks for is of a key or reads the statuses, and the heartbeat looks first.

The inductive invariants were checked by TLC on the runs before they were proved.

Only model-checked: liveness (`MutationsDrain`, `AbandonedIsClosed`, `UpgradeEnds`, `Resumes`,
`FlowEnds`, `WatchedCallEnds`, `StreamsReleased`), since the prover does not
handle fairness with `ENABLED`; and `SelectionKept` of ListSelection, which is
about what `SelectSeq` makes of every list of rows, by induction over the list.

## Not modelled

* The etcd snapshot file: exclusive creation, hashing, fsync and the removal of a partial
  file are one sequence of system calls. A model would repeat its order, and what the file is
  worth after a crash depends on what the file system keeps; here a snapshot succeeds with a
  receipt, which may be another one, or fails.
* Other processes take no part in the registry (the documentation says that exclusion is
  local to the process); they are part of the environment of EtcdAction, NodeAction and
  TalosUpgrade.
* The BGP peers view and its `r` (`direct_model.go:391`), which reads the nodes again; its rows come
  from the node statuses.
* Texts of errors, warnings and prompts, rendering, conversions of protobuf messages, sizes,
  the sorting of lists, the command palette and its completion, flags and the file of context
  associations, the Kubernetes node reader, ports and fakes. The read adapters other than
  those of nodes, services, etcd and node statuses are one bounded call and a conversion each.
* The line decoder and the fan-in of node events below LifecycleStream: what their `Next` may
  answer is a choice there.
* The choice of the install image does not change the course of an upgrade. In TalosUpgrade
  the reads of a check are one step, since EtcdAction takes such reads apart; so are the reads
  of an inventory in KubernetesUpgrade.
* A configuration's modes (auto, try and the rest) differ in what the node answers and in the
  timer on the node, which is Talos's own.

## Plan

* The fan-in of node events with its one worker and its channel, below LifecycleStream.
