-------------------------- MODULE KubernetesUpgrade --------------------------
(***************************************************************************)
(* A Kubernetes upgrade through Talos: the dialog in which an operator     *)
(* prepares and confirms it, the goroutine of the application that runs    *)
(* it, the talosctl it starts, and the cluster, in which everything it     *)
(* asks for happens some time later.                                       *)
(*                                                                         *)
(* The run checks the confirmed plan, takes an etcd snapshot, checks the   *)
(* plan again, lets talosctl upgrade the control plane and the manifests,  *)
(* verifies the control plane, and updates one kubelet after the other by  *)
(* applying a machine configuration with another image.  Anything may stop *)
(* it half-way; the operator then prepares a new plan from what the        *)
(* cluster has become.                                                     *)
(*                                                                         *)
(* A version is the number of a minor release.  The operator edits a       *)
(* machine configuration (edits counts the edits it holds), cordons,       *)
(* cancels, leaves the dialog, or switches to a new session; calls fail.   *)
(* All of this is trouble, and there is at most MaxTrouble of it.          *)
(***************************************************************************)
EXTENDS Naturals, FiniteSets, FiniteSetsExt

CONSTANTS N,            \* nodes, in the order of the plan
          MaxVersion,   \* the newest version there is
          MaxTrouble    \* adverse events of all kinds

ASSUME KubernetesAssumption ==
    /\ N \in Nat \ {0}
    /\ MaxVersion \in Nat \ {0, 1}
    /\ MaxTrouble \in Nat

Nodes == 1 .. N
Versions == 1 .. MaxVersion

\* The talosctl of the run, and those that have outlived the program that started them,
\* each by the adverse event that ended it.
Own == 0
Orphans == 1 .. MaxTrouble
Talosctls == {Own} \cup Orphans

VARIABLES
    components,   \* versions that the control-plane pods run
    desired,      \* version that the control-plane configuration asks for
    manifests,    \* version the managed manifests were last synced to
    kubelets,     \* [Nodes -> version, image, edits, ready, cordoned]
    wire,         \* ApplyConfiguration requests the machines have yet to carry out
    cli,          \* the talosctl processes: step and target
    evidence,     \* targets whose CLI stage this session has verified
    goal,         \* the version the operator enters
    dialog,       \* phase, plan and error of the view
    asks,         \* commands and messages of the dialog under way
    run,          \* the goroutine of the upgrade
    report,       \* its result
    trouble       \* adverse events so far

world == <<components, desired, manifests, kubelets, wire>>
kubernetesVars == <<world, cli, evidence, goal, dialog, asks, run, report, trouble>>

----------------------------------------------------------------------------
(* What an inventory shows, and the plan made from it.                     *)

Config(n) == [version |-> kubelets[n].version, image |-> kubelets[n].image, edits |-> kubelets[n].edits]

\* Mutant of AllReady: a node that is not ready counts as well.
Reachable == \A n \in Nodes : kubelets[n].ready \in BOOLEAN

AllReady == \A n \in Nodes : kubelets[n].ready

ControlPlaneAt(t) == components = {t} /\ desired = t

\* Mutant of KubeletsFit: what is not at the target has the version of the
\* control plane, also when that is at the target already.
KubeletsAsControlPlane(t) == {kubelets[n].version : n \in Nodes} \subseteq {t, Min(components)}

\* The kubelets that are not at the target share one older version; it is
\* that of the control plane unless the control plane is at the target.
KubeletsFit(t) ==
    LET behind == {kubelets[n].version : n \in Nodes} \ {t}
    IN /\ \A v \in behind : v < t /\ t - v <= 3
       /\ IF components = {t} THEN Cardinality(behind) <= 1 ELSE behind \subseteq {Min(components)}

\* Mutant of ComponentsFit: any step forward.
ComponentsOlder(t) == t >= Min(components) /\ components \subseteq {Min(components), t}

\* One step forward at most, and no component that is neither old nor new.
ComponentsFit(t) ==
    /\ t \in {Min(components), Min(components) + 1}
    /\ components \subseteq {Min(components), t}

Assessable(t) == AllReady /\ ComponentsFit(t) /\ KubeletsFit(t)

\* Mutant of Skippable: versions are evidence enough.
SkippableByVersion(t) == ControlPlaneAt(t)

\* The control-plane stage is left out only on the evidence of this session.
Skippable(t) == ControlPlaneAt(t) /\ t \in evidence

PlanFor(t) == [target |-> t, source |-> Min(components), skip |-> Skippable(t),
               seen |-> [n \in Nodes |-> Config(n)],
               cordoned |-> {n \in Nodes : kubelets[n].cordoned}]

SamePlan(p) == Assessable(p.target) /\ PlanFor(p.target) = p

NoPlan == [target |-> 0]

\* A run may wait for the nodes to be ready; anything else that differs from
\* the plan, or from what the run has left behind, stops it.
Unchanged(p, base, next) ==
    /\ ControlPlaneAt(p.target)
    /\ {n \in Nodes : kubelets[n].cordoned} = p.cordoned
    /\ \A n \in Nodes : Config(n) = base[n]
    /\ \A n \in Nodes : n < next => kubelets[n].version = p.target /\ kubelets[n].image = p.target

----------------------------------------------------------------------------
NoRun == [pc |-> "idle"]
NoReport == [outcome |-> "none"]
NoCLI == [step |-> "none"]
NoOutcomes == [n \in Nodes |-> "absent"]
Editing == [phase |-> "editing", plan |-> NoPlan, err |-> FALSE, stream |-> FALSE]

KubernetesInit ==
    /\ components = {1} /\ desired = 1 /\ manifests = 1
    /\ kubelets = [n \in Nodes |-> [version |-> 1, image |-> 1, edits |-> 0, ready |-> TRUE, cordoned |-> FALSE]]
    /\ wire = {} /\ cli = [i \in Talosctls |-> NoCLI] /\ evidence = {} /\ goal = 2
    /\ dialog = Editing /\ asks = {} /\ run = NoRun /\ report = NoReport /\ trouble = 0

\* A command or message: live while its request is not canceled, mine while
\* the dialog waits for it (operation, generation and view), over when the
\* run it speaks of has ended.
Message(step, mine, plan) == [step |-> step, mine |-> mine, live |-> TRUE, over |-> FALSE, plan |-> plan]

Troubled == trouble < MaxTrouble /\ trouble' = trouble + 1
Smooth == UNCHANGED trouble

----------------------------------------------------------------------------
(* The goroutine.                                                          *)

Running(pc) == run.pc = pc /\ ~run.canceled

\* The result is set, the events are closed, the lease is still held.
Halt(outcome, nodes) ==
    /\ run' = [run EXCEPT !.pc = "ending"]
    /\ report' = [outcome |-> outcome, target |-> run.plan.target, nodes |-> nodes, sent |-> run.sent]

\* The nodes from the given one on were not attempted.
Rest(from) == [n \in Nodes |-> IF n >= from THEN "not_attempted" ELSE run.outcomes[n]]

NotStarted == Halt("not_attempted", NoOutcomes)
\* Mutant of Partial: a failed talosctl is taken for one that did nothing.
PartialAsNothing == Halt("not_attempted", run.outcomes)

Partial == Halt("unconfirmed", run.outcomes)
StopBefore(i) == Halt("unconfirmed", Rest(i))
StopAt(i, outcome) == Halt("unconfirmed", [Rest(i) EXCEPT ![i] = outcome])

Goto(pc) == run' = [run EXCEPT !.pc = pc] /\ UNCHANGED report

Check ==
    /\ Running("check")
    /\ IF SamePlan(run.plan) THEN Goto("snapshot") ELSE NotStarted
    /\ UNCHANGED <<world, cli, evidence, goal, dialog, asks>> /\ Smooth

Snapshot ==
    /\ Running("snapshot") /\ Goto("recheck")
    /\ UNCHANGED <<world, cli, evidence, goal, dialog, asks>> /\ Smooth

Recheck ==
    /\ Running("recheck")
    /\ IF SamePlan(run.plan) THEN Goto(IF run.plan.skip THEN "verify" ELSE "launch") ELSE NotStarted
    /\ UNCHANGED <<world, cli, evidence, goal, dialog, asks>> /\ Smooth

Launch ==
    /\ Running("launch")
    /\ cli' = [cli EXCEPT ![Own] = [step |-> "patch", target |-> run.plan.target]]
    /\ run' = [run EXCEPT !.pc = "cli", !.sent = @ \cup {0}]
    /\ UNCHANGED <<world, evidence, goal, dialog, asks, report>> /\ Smooth

CLIExited ==
    /\ Running("cli") /\ cli[Own].step \in {"ok", "failed"}
    /\ cli' = [cli EXCEPT ![Own] = NoCLI]
    /\ IF cli[Own].step = "ok" THEN Goto("verify") ELSE Partial
    /\ UNCHANGED <<world, evidence, goal, dialog, asks>> /\ Smooth

\* Canceled, or after thirty minutes: the process is terminated, killed if
\* need be, and waited for.  What it has asked for stays asked for.
CLIReaped ==
    /\ run.pc = "cli"
    /\ IF run.canceled THEN Smooth ELSE Troubled
    /\ cli' = [cli EXCEPT ![Own] = NoCLI] /\ Partial
    /\ UNCHANGED <<world, evidence, goal, dialog, asks>>

Verify ==
    /\ Running("verify")
    /\ IF ControlPlaneAt(run.plan.target) /\ AllReady
       THEN /\ run' = [run EXCEPT !.pc = "node", !.base = [n \in Nodes |-> Config(n)]]
            /\ evidence' = IF run.plan.skip THEN evidence ELSE evidence \cup {run.plan.target}
            /\ UNCHANGED report
       ELSE Partial /\ UNCHANGED evidence
    /\ UNCHANGED <<world, cli, goal, dialog, asks>> /\ Smooth

\* A node that is at the target is passed over, another one is updated.
NextNode ==
    /\ Running("node") /\ AllReady /\ Unchanged(run.plan, run.base, run.i)
    /\ run.i <= N
    /\ LET t == run.plan.target
       IN \/ /\ kubelets[run.i].version = t /\ kubelets[run.i].image = t
             /\ run' = [run EXCEPT !.i = @ + 1, !.outcomes[run.i] = "completed"]
             /\ UNCHANGED report
          \/ /\ kubelets[run.i].version # t /\ Goto("patch")
          \/ /\ kubelets[run.i].version = t /\ kubelets[run.i].image # t /\ StopBefore(run.i)
    /\ UNCHANGED <<world, cli, evidence, goal, dialog, asks>> /\ Smooth

NodesChanged ==
    /\ Running("node") /\ ~Unchanged(run.plan, run.base, run.i)
    /\ StopBefore(run.i)
    /\ UNCHANGED <<world, cli, evidence, goal, dialog, asks>> /\ Smooth

\* The last look at everything.
Final ==
    /\ Running("node") /\ run.i = N + 1
    /\ AllReady /\ Unchanged(run.plan, run.base, run.i)
    /\ Halt("completed", run.outcomes)
    /\ UNCHANGED <<world, cli, evidence, goal, dialog, asks>> /\ Smooth

\* UpgradeKubelet reads the configuration, pulls the image, reads the
\* scheduling state and the configuration again and patches it; it reads the
\* configuration a last time and sends the patched one.
AsPlanned(n) == Config(n) = run.base[n]

Patch ==
    /\ Running("patch")
    /\ IF AsPlanned(run.i) /\ (kubelets[run.i].cordoned <=> run.i \in run.plan.cordoned)
       THEN Goto("apply") ELSE StopAt(run.i, "unknown")
    /\ UNCHANGED <<world, cli, evidence, goal, dialog, asks>> /\ Smooth

Request == [n |-> run.i, image |-> run.plan.target, edits |-> run.base[run.i].edits]

Apply ==
    /\ Running("apply")
    /\ IF kubelets[run.i].image = run.base[run.i].image /\ kubelets[run.i].edits = run.base[run.i].edits
       THEN /\ wire' = wire \cup {Request}
            /\ run' = [run EXCEPT !.pc = "sent", !.sent = @ \cup {run.i}]
            /\ UNCHANGED report
       ELSE StopAt(run.i, "unknown") /\ UNCHANGED wire
    /\ UNCHANGED <<components, desired, manifests, kubelets, cli, evidence, goal, dialog, asks>> /\ Smooth

Answered ==
    /\ Running("sent") /\ Request \notin wire /\ Goto("kubelet")
    /\ UNCHANGED <<world, cli, evidence, goal, dialog, asks>> /\ Smooth

\* The service is healthy, the node is ready and reports the version.
KubeletBack(n) == kubelets[n].ready /\ kubelets[n].version = run.plan.target

KubeletDone ==
    /\ Running("kubelet") /\ KubeletBack(run.i)
    /\ IF kubelets[run.i].image = run.plan.target /\ kubelets[run.i].edits = run.base[run.i].edits
       THEN /\ run' = [run EXCEPT !.pc = "node", !.i = @ + 1, !.outcomes[run.i] = "completed",
                                  !.base[run.i] = Config(run.i)]
            /\ UNCHANGED report
       ELSE StopAt(run.i, "unconfirmed")
    /\ UNCHANGED <<world, cli, evidence, goal, dialog, asks>> /\ Smooth

\* A call fails, or a wait takes too long: by itself, or because the context
\* of the run has ended.  A request that was sent may be carried out later.
CallFails ==
    /\ run.pc \notin {"idle", "ending", "cli"}
    /\ IF run.canceled THEN Smooth ELSE Troubled
    /\ CASE run.pc \in {"check", "snapshot", "recheck"} -> NotStarted
         [] run.pc \in {"launch", "verify"} -> Partial
         [] run.pc = "node" -> StopBefore(run.i)
         [] run.pc \in {"patch", "apply"} -> StopAt(run.i, "unknown")
         [] run.pc \in {"sent", "kubelet"} -> StopAt(run.i, "unconfirmed")
    /\ wire' \in IF run.pc = "sent" THEN {wire, wire \ {Request}} ELSE {wire}
    /\ UNCHANGED <<components, desired, manifests, kubelets, cli, evidence, goal, dialog, asks>>

\* The lease is released and the stream is done.  The dialog gets the result,
\* unless an event arrived in another phase and ended the chain of awaits.
Release ==
    /\ run.pc = "ending" /\ run' = NoRun
    /\ \/ asks' = {[a EXCEPT !.over = TRUE] : a \in asks}
               \cup IF run.held /\ run.mine THEN {Message("finished", TRUE, NoPlan)} ELSE {}
       \/ /\ run.held /\ run.mine /\ dialog.phase # "running"
          /\ asks' = {[a EXCEPT !.over = TRUE] : a \in asks}
    /\ UNCHANGED <<world, cli, evidence, goal, dialog, report>> /\ Smooth

RunGoroutine ==
    \/ Check \/ Snapshot \/ Recheck \/ Launch \/ CLIExited \/ CLIReaped \/ Verify
    \/ NextNode \/ NodesChanged \/ Final \/ Patch \/ Apply \/ Answered \/ KubeletDone
    \/ CallFails \/ Release

----------------------------------------------------------------------------
(* talosctl and the cluster.                                               *)

\* A talosctl patches the configuration of the control plane, waits for the
\* pods, syncs the manifests and exits.
CLISteps(i) ==
    /\ \/ /\ cli[i].step = "patch" /\ desired' = cli[i].target
          /\ cli' = [cli EXCEPT ![i].step = "settle"] /\ UNCHANGED manifests
       \/ /\ cli[i].step = "settle" /\ components = {cli[i].target}
          /\ cli' = [cli EXCEPT ![i].step = "sync"] /\ UNCHANGED <<desired, manifests>>
       \/ /\ cli[i].step = "sync" /\ manifests' = cli[i].target
          /\ cli' = [cli EXCEPT ![i].step = "ok"] /\ UNCHANGED desired
    /\ UNCHANGED <<components, kubelets, wire, evidence, goal, dialog, asks, run, report>> /\ Smooth

CLIFails(i) ==
    /\ cli[i].step \in {"patch", "settle", "sync"} /\ Troubled
    /\ cli' = [cli EXCEPT ![i].step = "failed"]
    /\ UNCHANGED <<world, evidence, goal, dialog, asks, run, report>>

\* Nobody waits for an orphan.
OrphanEnds(i) ==
    /\ i # Own /\ cli[i].step \in {"ok", "failed"}
    /\ cli' = [cli EXCEPT ![i] = NoCLI]
    /\ UNCHANGED <<world, evidence, goal, dialog, asks, run, report>> /\ Smooth

PodsRestart ==
    /\ components # {desired}
    /\ components' \in {components \cup {desired}, {desired}} \ {components}
    /\ UNCHANGED <<desired, manifests, kubelets, wire, cli, evidence, goal, dialog, asks, run, report>> /\ Smooth

\* The whole configuration is replaced; another image restarts the kubelet,
\* which reports its version before it is ready.
CarriedOut(r) ==
    /\ wire' = wire \ {r}
    /\ kubelets' = [kubelets EXCEPT ![r.n].image = r.image, ![r.n].edits = r.edits,
                            ![r.n].ready = @ /\ kubelets[r.n].image = r.image]
    /\ UNCHANGED <<components, desired, manifests, cli, evidence, goal, dialog, asks, run, report>> /\ Smooth

KubeletRestarts(n) ==
    /\ ~kubelets[n].ready
    /\ IF kubelets[n].version = kubelets[n].image THEN kubelets' = [kubelets EXCEPT ![n].ready = TRUE]
                                          ELSE kubelets' = [kubelets EXCEPT ![n].version = kubelets[n].image]
    /\ UNCHANGED <<components, desired, manifests, wire, cli, evidence, goal, dialog, asks, run, report>> /\ Smooth

\* Only while a plan rests on it: before, it is just another cluster.
OperatorChanges(n) ==
    /\ dialog.plan # NoPlan /\ Troubled
    /\ \/ kubelets' = [kubelets EXCEPT ![n].edits = @ + 1]
       \/ kubelets' = [kubelets EXCEPT ![n].cordoned = ~@]
    /\ UNCHANGED <<components, desired, manifests, wire, cli, evidence, goal, dialog, asks, run, report>>

Cluster ==
    \/ PodsRestart
    \/ \E i \in Talosctls : CLISteps(i) \/ OrphanEnds(i)
    \/ \E r \in wire : CarriedOut(r)
    \/ \E n \in Nodes : KubeletRestarts(n)

----------------------------------------------------------------------------
(* The dialog.  A new operation disowns the messages of the one before and *)
(* cancels its request.                                                    *)

\* Only a run that starts or has started still has an effect.
Disowned == {[a EXCEPT !.mine = FALSE, !.live = FALSE] : a \in {b \in asks : b.step \in {"start", "opened"}}}

Canceled == IF run = NoRun THEN NoRun ELSE [run EXCEPT !.canceled = TRUE]
\* Mutant of CanceledAndDisowned: closing the dialog forgets the request.
DisownedOnly == IF run = NoRun THEN NoRun ELSE [run EXCEPT !.mine = FALSE]

CanceledAndDisowned == IF run = NoRun THEN NoRun ELSE [run EXCEPT !.canceled = TRUE, !.mine = FALSE]

\* An assumption on the operator, which nothing in the program enforces: who turns to
\* another target does so when what was sent for the last one has been carried out and
\* the talosctls of it have ended.  Upgrades to the same target may overlap.
Quiet == /\ \A r \in wire : r.image = goal
         /\ \A i \in Talosctls : cli[i].step # "none" => cli[i].target = goal

PressEnter ==
    /\ dialog.phase = "editing" /\ Quiet
    /\ dialog' = [dialog EXCEPT !.phase = "preparing", !.err = FALSE]
    /\ asks' = Disowned \cup {Message("prepare", TRUE, [target |-> goal])}
    /\ run' = CanceledAndDisowned
    /\ UNCHANGED <<world, cli, evidence, goal, report>> /\ Smooth

PrepareRuns(a) ==
    /\ a.step = "prepare"
    /\ \/ /\ asks' = (asks \ {a}) \cup {Message("prepared", a.mine, IF Assessable(a.plan.target)
                                                                  THEN PlanFor(a.plan.target) ELSE NoPlan)}
          /\ Smooth
       \/ asks' = (asks \ {a}) \cup {Message("prepared", a.mine, NoPlan)} /\ Troubled
       \/ ~a.live /\ asks' = asks \ {a} /\ Smooth
    /\ UNCHANGED <<world, cli, evidence, goal, dialog, run, report>>

\* An operator whose target is refused tries another one.
OtherGoal == IF goal = MaxVersion THEN 2 ELSE goal + 1

PreparedArrives(a) ==
    /\ a.step = "prepared" /\ asks' = asks \ {a}
    /\ IF a.plan = NoPlan
       THEN dialog' = [dialog EXCEPT !.phase = "editing", !.err = TRUE] /\ goal' = OtherGoal
       ELSE dialog' = [dialog EXCEPT !.phase = "reviewing", !.plan = a.plan, !.err = FALSE] /\ UNCHANGED goal
    /\ UNCHANGED <<world, cli, evidence, run, report>> /\ Smooth

Confirm ==
    /\ dialog.phase = "reviewing" /\ dialog.plan # NoPlan
    /\ IF dialog.err THEN Troubled ELSE Smooth
    /\ dialog' = [dialog EXCEPT !.phase = "running", !.err = FALSE]
    /\ asks' = {[a EXCEPT !.live = FALSE] : a \in asks} \cup {Message("start", TRUE, dialog.plan)}
    /\ run' = Canceled
    /\ UNCHANGED <<world, cli, evidence, goal, report>>

NewRun(a) == [pc |-> "check", plan |-> a.plan, base |-> a.plan.seen, i |-> 1, outcomes |-> NoOutcomes, sent |-> {},
              canceled |-> ~a.live, mine |-> a.mine, held |-> FALSE]

\* ExecuteKubernetesUpgrade: refused while another upgrade holds the lease,
\* or when the plan has expired.
StartRuns(a) ==
    /\ a.step = "start"
    /\ \/ /\ run = NoRun /\ run' = NewRun(a) /\ report' = NoReport
          /\ asks' = (asks \ {a}) \cup {Message("opened", a.mine, NoPlan)} /\ Smooth
       \/ /\ IF run = NoRun THEN Troubled ELSE Smooth
          /\ asks' = (asks \ {a}) \cup {Message("refused", a.mine, NoPlan)} /\ UNCHANGED <<run, report>>
       \/ ~a.live /\ asks' = asks \ {a} /\ UNCHANGED <<run, report>> /\ Smooth
    /\ UNCHANGED <<world, cli, evidence, goal, dialog>>

\* A stream that nobody waits for is canceled at once.
OpenedArrives(a) ==
    /\ a.step = "opened"
    /\ IF a.mine THEN dialog' = [dialog EXCEPT !.stream = TRUE] ELSE UNCHANGED dialog
    /\ run' = IF run = NoRun \/ a.over THEN run
              ELSE IF a.mine THEN [run EXCEPT !.held = TRUE] ELSE [run EXCEPT !.canceled = TRUE]
    /\ asks' = (asks \ {a}) \cup IF a.mine /\ a.over THEN {Message("finished", TRUE, NoPlan)} ELSE {}
    /\ UNCHANGED <<world, cli, evidence, goal, report>> /\ Smooth

RefusedArrives(a) ==
    /\ a.step = "refused" /\ asks' = asks \ {a}
    /\ dialog' = IF a.mine THEN [dialog EXCEPT !.phase = "reviewing", !.err = TRUE] ELSE dialog
    /\ UNCHANGED <<world, cli, evidence, goal, run, report>> /\ Smooth

FinishedArrives(a) ==
    /\ a.step = "finished" /\ asks' = asks \ {a}
    /\ dialog' = [dialog EXCEPT !.phase = "complete", !.stream = FALSE]
    /\ UNCHANGED <<world, cli, evidence, goal, run, report>> /\ Smooth

Escape ==
    /\ dialog.phase = "running" /\ dialog.stream /\ Troubled
    /\ run' = IF run # NoRun /\ run.held THEN Canceled ELSE run
    /\ UNCHANGED <<world, cli, evidence, goal, dialog, asks, report>>

\* The plan is discarded after a refusal; the view is left after the result.
Closed == [Editing EXCEPT !.err = dialog.err]

Dismiss ==
    /\ \/ dialog.phase = "reviewing" /\ dialog.err
       \/ dialog.phase = "complete"
    /\ dialog' = IF dialog.phase = "complete" THEN Editing ELSE Closed
    /\ asks' = {[a EXCEPT !.live = FALSE] : a \in asks} /\ run' = Canceled /\ report' = NoReport
    /\ UNCHANGED <<world, cli, evidence, goal>> /\ Smooth

Busy == dialog # Editing \/ asks # {} \/ run # NoRun

\* An unknown command closes the dialog and leaves the view where it is.
Unknown ==
    /\ Busy /\ Troubled
    /\ dialog' = Closed
    /\ asks' = {[a EXCEPT !.live = FALSE] : a \in asks} /\ run' = Canceled
    /\ UNCHANGED <<world, cli, evidence, goal, report>>

\* The operator goes to another view and comes back to a new dialog, or to
\* another context and back to a new session of this cluster.
Leave ==
    /\ Busy /\ Troubled
    /\ dialog' = Editing /\ asks' = Disowned /\ run' = CanceledAndDisowned
    /\ evidence' \in {evidence, {}}
    /\ UNCHANGED <<world, cli, goal, report>>

\* The program ends.  Its talosctl is in a process group of its own and goes on,
\* also beside that of a later upgrade.
Restart ==
    /\ Busy /\ Troubled
    /\ dialog' = Editing /\ asks' = {} /\ run' = NoRun /\ report' = NoReport /\ evidence' = {}
    /\ cli' = [cli EXCEPT ![trouble + 1] = cli[Own], ![Own] = NoCLI]
    /\ UNCHANGED <<world, goal>>

Messages == \E a \in asks : \/ PrepareRuns(a) \/ PreparedArrives(a) \/ StartRuns(a)
                            \/ OpenedArrives(a) \/ RefusedArrives(a) \/ FinishedArrives(a)
Operator == PressEnter \/ Confirm \/ Dismiss
Adverse == \/ Escape \/ Unknown \/ Leave \/ Restart
           \/ \E i \in Talosctls : CLIFails(i)
           \/ \E n \in Nodes : OperatorChanges(n)

KubernetesNext == RunGoroutine \/ Cluster \/ Messages \/ Operator \/ Adverse

KubernetesSpec == KubernetesInit /\ [][KubernetesNext]_kubernetesVars

\* Where there is no trouble, the cluster does what it was asked to, commands
\* and waits end, and an operator who is not through tries again.
KubernetesFairness ==
    /\ WF_kubernetesVars(RunGoroutine /\ Smooth)
    /\ WF_kubernetesVars(Cluster)
    /\ WF_kubernetesVars(Messages /\ Smooth)
    /\ WF_kubernetesVars(Operator /\ Smooth)

KubernetesFairSpec == KubernetesSpec /\ KubernetesFairness

----------------------------------------------------------------------------
(* Properties.                                                             *)

\* An upgrade that is reported as completed is one, of an operator who lets an upgrade to
\* another target come to rest first (Quiet): also the managed
\* manifests are those of the target, which nothing reads back; that they
\* are rests on the evidence of earlier runs and on same-target runs of
\* talosctl in a session that has none.  And what is reported as not
\* attempted, or not reported, was not sent anything by this run.
CompletedIsWhole ==
    /\ report.outcome = "completed" =>
        /\ manifests = report.target /\ components = {report.target}
        /\ \A n \in Nodes : kubelets[n].version = report.target
    /\ report.outcome = "not_attempted" => report.sent = {}
    /\ report.outcome # "none" =>
        \A n \in Nodes : report.nodes[n] \in {"absent", "not_attempted", "unknown"} => n \notin report.sent

\* However upgrades are stopped and retried, and redirected to other targets once the
\* last one has come to rest (Quiet), no kubelet is newer than a component of the
\* control plane, the control plane never spreads over more than two minor releases,
\* and kubelets restart one at a time, also when a request or a talosctl that was
\* given up takes effect during a later upgrade to the same target.
SkewKept ==
    /\ \A n \in Nodes : kubelets[n].version <= Min(components)
    /\ Max(components \cup {desired}) - Min(components) <= 1
    /\ Cardinality({n \in Nodes : ~kubelets[n].ready}) <= 1

\* No upgrade goes on that the dialog does not show as running, and allow to
\* be canceled, unless it has been canceled already.
NeverUnattended == run # NoRun /\ run.pc # "ending" /\ ~run.canceled => dialog.phase = "running"

\* An upgrade that has stopped half-way can be finished: an operator who
\* prepares again after every failure sees the cluster whole again.
Whole == \E t \in Versions : /\ ControlPlaneAt(t) /\ manifests = t
                             /\ \A n \in Nodes : kubelets[n].version = t
Resumes == []<>Whole
=============================================================================
