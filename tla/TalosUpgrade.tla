---------------------------- MODULE TalosUpgrade ----------------------------
(***************************************************************************)
(* One Talos OS upgrade after its admission: Session.ExecuteUpgrade and    *)
(* its retained stream (internal/application/upgrade_operation.go), the    *)
(* adapter's stream goroutine and the Kubernetes maintenance it runs       *)
(* (internal/adapters/talos/node_controller.go).                           *)
(*                                                                         *)
(* The node, its Kubernetes object and its operator go on by themselves:   *)
(* a reboot happens some time after it was requested, the object lags      *)
(* behind the node, an operator cordons and uncordons.  Any call may fail  *)
(* after it took effect.                                                   *)
(***************************************************************************)
EXTENDS Naturals

VARIABLES
    downtime,   \* the plan allows control-plane downtime (never changes)
    app,        \* where ExecuteUpgrade stands
    drift,      \* the cluster differs from the facts of the plan
    quiet,      \* history: it did not change since the last check or snapshot
    snapshot,   \* a verified snapshot is held
    canceled,   \* the stream's context: the caller, the session or Cancel
    lease,      \* the call still holds what Session.admit took
    worker,     \* where the goroutine of UpgradeStream stands
    err,        \* the error it will report
    owned,      \* cordonedByT9S
    found,      \* history: Cordon found the node cordoned
    terminal,   \* upgradeStream.terminal
    buffer,     \* the results channel, of capacity 1
    closed,     \* the results channel is closed
    read,       \* history: the last result a consumer took
    retained,   \* where retainedUpgradeStream.awaitTerminal stands
    waited,     \* a Wait has returned the terminal result
    node,       \* the Talos node
    object      \* its Kubernetes object

appVars    == <<downtime, app, drift, quiet, snapshot>>
streamVars == <<worker, err, owned, found, terminal, closed>>
worldVars  == <<node, object>>
vars == <<appVars, canceled, lease, streamVars, buffer, read, retained, waited, worldVars>>

\* node: "installed" says that the image on disk is the new one, "reboot" that since
\* it is a reboot was requested, is under way ("down") or is over ("up").
\* object: "cordon" says who made it unschedulable, "booted" that the boot ID is no
\* longer the one read before the reboot, "bootID" that it carries boot IDs.
\* buffer, read, terminal: "progress", or one of the outcomes "accepted", "applied",
\* "warning" and "failed".
Init ==
    /\ downtime \in BOOLEAN
    /\ app = "idle"
    /\ drift \in BOOLEAN /\ quiet = FALSE
    /\ snapshot = FALSE /\ canceled = FALSE /\ lease = FALSE
    /\ worker = "none" /\ err = "none" /\ owned = FALSE /\ found = FALSE
    /\ terminal = "none" /\ buffer = "none" /\ closed = FALSE /\ read = "none"
    /\ retained = "none" /\ waited = FALSE
    /\ node = [installed |-> FALSE, reboot |-> "none"]
    /\ object \in [cordon : {"none", "operator"}, ready : BOOLEAN, booted : {FALSE},
                   bootID : BOOLEAN]

-----------------------------------------------------------------------------
(* ExecuteUpgrade *)

\* admit, whose refusals are those of SessionLease: the upgrade holds its session
\* and its cluster.
Admit ==
    /\ app = "idle"
    /\ app' = "check" /\ lease' = TRUE
    /\ UNCHANGED <<downtime, drift, quiet, snapshot, canceled, streamVars, buffer, read, retained, waited,
                   worldVars>>

Refuse == app' = "refused" /\ lease' = FALSE

\* checkFacts: the node and its policy facts, with the blocked check, against the
\* plan.  Its reads count as one step here; EtcdAction takes such reads apart.
CheckFacts ==
    /\ app \in {"check", "recheck"}
    /\ quiet' = TRUE
    /\ \/ Refuse
       \/ /\ ~drift /\ ~canceled
          /\ app' = IF app = "check" /\ downtime THEN "snapshot" ELSE "start"
          /\ UNCHANGED lease
    /\ UNCHANGED <<downtime, drift, snapshot, canceled, streamVars, buffer, read, retained, waited,
                   worldVars>>

\* Mutant: the facts that preceded the snapshot are good enough.
StartAtOnce == app' = "start"

\* After the snapshot, which takes up to ten minutes, everything is read again.
CheckAgain == app' = "recheck"

\* executeEtcdSnapshot of a downtime upgrade.
TakeSnapshot ==
    /\ app = "snapshot"
    /\ \/ Refuse /\ UNCHANGED snapshot
       \/ snapshot' = TRUE /\ CheckAgain /\ UNCHANGED lease
    /\ quiet' = TRUE
    /\ UNCHANGED <<downtime, drift, canceled, streamVars, buffer, read, retained, waited,
                   worldVars>>

\* UpgradeStream and the goroutine of awaitTerminal start.
StartStream ==
    /\ app = "start"
    /\ IF canceled
       THEN Refuse /\ UNCHANGED <<worker, retained, buffer>>
       ELSE /\ app' = "streaming"
            /\ worker' = "version"
            /\ buffer' = "progress"
            /\ retained' = "waiting"
            /\ UNCHANGED lease
    /\ UNCHANGED <<downtime, drift, quiet, snapshot, canceled, err, owned, found, terminal, closed, read,
                   waited, worldVars>>

-----------------------------------------------------------------------------
(* The goroutine of UpgradeStream *)

\* publishProgress drops what does not fit.
Progress == buffer' = IF buffer = "none" THEN "progress" ELSE buffer

\* The next stage begins, with a progress event.
Enter(stage) == worker' = stage /\ Progress /\ UNCHANGED err

\* The stage fails; a maintenance that is under way is cleaned up first.
Fail(kind) ==
    /\ err' = kind
    /\ worker' = IF owned THEN "uncordon" ELSE "publish"
    /\ UNCHANGED buffer

Goroutine == UNCHANGED <<appVars, canceled, lease, closed, terminal, read, retained, waited>>

\* upgradeVersion and lifecycleUpgradeAPISupported, within upgradeCapabilityTimeout.
CheckVersion ==
    /\ worker = "version"
    /\ \/ Fail("failed")
       \/ ~canceled /\ Enter("install")
       \/ ~canceled /\ worker' = "legacy" /\ UNCHANGED <<err, buffer>>
    /\ Goroutine /\ UNCHANGED <<owned, found, worldVars>>

\* The legacy upgrade RPC: Talos installs and reboots on its own.
LegacyUpgrade ==
    /\ worker = "legacy"
    /\ \E done, ok \in BOOLEAN :
           /\ ok => done
           /\ node' = IF done THEN [installed |-> TRUE, reboot |-> "requested"] ELSE node
           /\ IF ok /\ ~canceled
              THEN worker' = "publish" /\ err' = "accepted" /\ UNCHANGED buffer
              ELSE Fail("failed")
    /\ Goroutine /\ UNCHANGED <<owned, found, object>>

\* lifecycleUpgrade: pull, install, exit code 0, within upgradeInstallTimeout.
Install ==
    /\ worker = "install"
    /\ \E done, ok \in BOOLEAN :
           /\ ok => done
           /\ node' = [node EXCEPT !.installed = @ \/ done]
           /\ IF ok /\ ~canceled THEN Enter("prepare") ELSE Fail("failed")
    /\ Goroutine /\ UNCHANGED <<owned, found, object>>

\* prepareUpgradeMaintenance reads the node object, the boot ID with it, and
\* runSafeUpgradeMaintenance looks at its context.
PrepareMaintenance ==
    /\ worker = "prepare"
    /\ Fail("failed") \/ (~canceled /\ Enter("cordon"))
    /\ Goroutine /\ UNCHANGED <<owned, found, worldVars>>

\* Mutant: whoever made the node unschedulable, the cleanup undoes it.
OwnsAny(unschedulable) == TRUE

\* Cordon has something to do, and the cleanup to undo.
Owns(unschedulable) == ~unschedulable

\* Cordon reads the object.
ReadCordon ==
    /\ worker = "cordon"
    /\ \/ Fail("failed") /\ UNCHANGED <<owned, found>>
       \/ /\ owned' = Owns(object.cordon # "none")
          /\ found' = (object.cordon # "none")
          /\ worker' = IF object.cordon # "none" THEN "drain" ELSE "patch"
          /\ UNCHANGED <<err, buffer>>
    /\ Goroutine /\ UNCHANGED worldVars

\* Cordon writes it.  A failed write may have been carried out; the defer is not
\* registered then.
PatchCordon ==
    /\ worker = "patch"
    /\ \E done, ok \in BOOLEAN :
           /\ ok => done
           /\ object' = IF done THEN [object EXCEPT !.cordon = "t9s"] ELSE object
           /\ IF ok
              THEN Enter("drain") /\ UNCHANGED owned
              ELSE worker' = "publish" /\ err' = "failed" /\ owned' = FALSE /\ UNCHANGED buffer
    /\ Goroutine /\ UNCHANGED <<found, node>>

\* The context is looked at before and after.
Drain ==
    /\ worker = "drain"
    /\ Fail("failed") \/ (~canceled /\ Enter("reboot"))
    /\ Goroutine /\ UNCHANGED <<owned, found, worldVars>>

\* The reboot request; then the context is looked at once more.
Reboot ==
    /\ worker = "reboot"
    /\ \E done, ok \in BOOLEAN :
           /\ ok => done
           /\ node' = IF done /\ node.reboot = "none" THEN [node EXCEPT !.reboot = "requested"]
                      ELSE node
           /\ IF ok /\ ~canceled THEN Enter("talosReady") ELSE Fail("failed")
    /\ Goroutine /\ UNCHANGED <<owned, found, object>>

\* WaitTalosReady: any answer will do, that of the node about to reboot too.
WaitTalosReady ==
    /\ worker = "talosReady"
    /\ Fail("warning") \/ (node.reboot # "down" /\ ~canceled /\ Enter("kubernetesReady"))
    /\ Goroutine /\ UNCHANGED <<owned, found, worldVars>>

\* Mutant: the object of the node before its reboot counts.
AnyReady == object.ready

\* The object is ready and, as far as boot IDs are known, that of a new boot.
Ready == object.ready /\ (object.bootID => object.booted)

\* WaitKubernetesReady.
WaitKubernetesReady ==
    /\ worker = "kubernetesReady"
    /\ \/ Fail("warning")
       \/ /\ ~canceled /\ Ready
          /\ IF owned THEN Enter("uncordon") ELSE worker' = "publish" /\ UNCHANGED <<err, buffer>>
    /\ Goroutine /\ UNCHANGED <<owned, found, worldVars>>

\* Uncordon, in the deferred cleanup, whose context outlives a cancellation but
\* not upgradeCleanupTimeout.  It retries, so it ends with the node schedulable
\* or with its time used up, perhaps on a write that went through.
Uncordon ==
    /\ worker = "uncordon"
    /\ \/ /\ object' = [object EXCEPT !.cordon = "none"]
          /\ UNCHANGED err
       \/ /\ err' = IF err = "failed" THEN "failed" ELSE "warning"
          /\ object' \in {object, [object EXCEPT !.cordon = "none"]}
    /\ worker' = "publish"
    /\ Goroutine /\ UNCHANGED <<buffer, owned, found, node>>

\* The outcome that the goroutine reports.
Outcome(e) == IF e = "none" THEN "applied" ELSE e

\* Mutants: the result waits for a reader, or is dropped like any other.
PublishBlocks(result) == buffer = "none" /\ buffer' = result
PublishIfRoom(result) == buffer' = IF buffer = "none" THEN result ELSE buffer

\* publishTerminal takes unread progress out until the result fits.
PublishTerminal(result) == buffer' = result

Publish ==
    /\ worker = "publish"
    /\ terminal' = Outcome(err)
    /\ PublishTerminal(Outcome(err))
    /\ worker' = "finish"
    /\ canceled' = TRUE
    /\ UNCHANGED <<appVars, lease, err, owned, found, closed, read, retained, waited, worldVars>>

\* finish closes the results channel and then done.
CloseResults ==
    /\ worker = "finish" /\ ~closed
    /\ closed' = TRUE
    /\ UNCHANGED <<appVars, canceled, lease, worker, err, owned, found, terminal, buffer, read, retained,
                   waited, worldVars>>

CloseDone ==
    /\ worker = "finish" /\ closed
    /\ worker' = "done"
    /\ UNCHANGED <<appVars, canceled, lease, err, owned, found, terminal, closed, buffer, read, retained,
                   waited, worldVars>>

-----------------------------------------------------------------------------
(* awaitTerminal, and those who use the stream *)

\* Mutant: it waits under the operation's context.
UpstreamOrCanceled == worker = "done" \/ canceled

\* upstream.Wait returns; its own context is never canceled.
UpstreamDone == worker = "done"

AwaitReturns ==
    /\ retained = "waiting"
    /\ UpstreamDone
    /\ retained' = "stored"
    /\ UNCHANGED <<appVars, canceled, lease, streamVars, buffer, read, waited, worldVars>>

\* release.
AwaitReleases ==
    /\ retained = "stored"
    /\ lease' = FALSE
    /\ retained' = "released"
    /\ UNCHANGED <<appVars, canceled, streamVars, buffer, read, waited, worldVars>>

\* close(s.done).
AwaitDone ==
    /\ retained = "released"
    /\ retained' = "done"
    /\ UNCHANGED <<appVars, canceled, lease, streamVars, buffer, read, waited, worldVars>>

\* Mutant: Wait hands out the result as soon as it is stored.
TerminalStored == retained \in {"stored", "released", "done"}

\* Wait sees s.done closed.
TerminalVisible == retained = "done"

Wait ==
    /\ TerminalVisible
    /\ waited' = TRUE
    /\ UNCHANGED <<appVars, canceled, lease, streamVars, buffer, read, retained, worldVars>>

\* A consumer of Results takes one.  Nobody has to.
Consume ==
    /\ buffer # "none"
    /\ read' = buffer
    /\ buffer' = "none"
    /\ UNCHANGED <<appVars, canceled, lease, streamVars, retained, waited, worldVars>>

\* Cancel of the stream, the caller's context or the session's lifetime.
Cancel ==
    /\ app # "idle" /\ ~canceled
    /\ canceled' = TRUE
    /\ UNCHANGED <<appVars, lease, streamVars, buffer, read, retained, waited, worldVars>>

-----------------------------------------------------------------------------
(* The cluster *)

World == UNCHANGED <<canceled, lease, streamVars, buffer, read, retained, waited, downtime, app,
                     snapshot>>

Drifts ==
    /\ app \in {"check", "snapshot", "recheck", "start"}
    /\ drift' = ~drift /\ quiet' = FALSE
    /\ World /\ UNCHANGED worldVars

NodeGoesDown ==
    /\ node.reboot = "requested"
    /\ node' = [node EXCEPT !.reboot = "down"]
    /\ World /\ UNCHANGED <<drift, quiet, object>>

NodeComesUp ==
    /\ node.reboot = "down"
    /\ node' = [node EXCEPT !.reboot = "up"]
    /\ World /\ UNCHANGED <<drift, quiet, object>>

\* The kubelet, or the control plane that misses it, writes the status.  What
\* happens to the object after the upgrade is left out, nobody looks at it.
StatusWritten ==
    /\ app = "streaming" /\ worker # "done"
    /\ \E ready \in BOOLEAN :
           object' = [object EXCEPT !.ready = ready, !.booted = @ \/ node.reboot = "up"]
    /\ World /\ UNCHANGED <<drift, quiet, node>>

OperatorCordons ==
    /\ app = "streaming" /\ worker # "done"
    /\ object.cordon = "none"
    /\ object' = [object EXCEPT !.cordon = "operator"]
    /\ World /\ UNCHANGED <<drift, quiet, node>>

OperatorUncordons ==
    /\ app = "streaming" /\ worker # "done"
    /\ object.cordon # "none"
    /\ object' = [object EXCEPT !.cordon = "none"]
    /\ World /\ UNCHANGED <<drift, quiet, node>>

-----------------------------------------------------------------------------
AppStep == CheckFacts \/ TakeSnapshot \/ StartStream

WorkerStep ==
    \/ CheckVersion \/ LegacyUpgrade \/ Install \/ PrepareMaintenance
    \/ ReadCordon \/ PatchCordon \/ Drain \/ Reboot \/ WaitTalosReady \/ WaitKubernetesReady
    \/ Uncordon \/ Publish \/ CloseResults \/ CloseDone

RetainedStep == AwaitReturns \/ AwaitReleases \/ AwaitDone

WorldStep ==
    Drifts \/ NodeGoesDown \/ NodeComesUp \/ StatusWritten \/ OperatorCordons \/ OperatorUncordons

Next == Admit \/ AppStep \/ WorkerStep \/ RetainedStep \/ Wait \/ Consume \/ Cancel \/ WorldStep

Spec == Init /\ [][Next]_vars

\* Every read and every stage has a time budget, so each of them ends; goroutines
\* run.  Nobody has to read results, wait or cancel, and a node that reboots may
\* stay away.
Fairness == WF_vars(AppStep) /\ WF_vars(WorkerStep) /\ WF_vars(RetainedStep)

FairSpec == Spec /\ Fairness

-----------------------------------------------------------------------------
(* Properties *)

\* From the first check to the end of the cleanup the upgrade keeps its session
\* and its cluster to itself, however it is canceled; and whoever was given its
\* result by Wait can start the next mutation.  Where it takes the control plane
\* down it has a verified snapshot, and the cluster that it starts on was compared
\* with the plan after that snapshot.
LeaseSpansUpgrade ==
    /\ worker \notin {"none", "done"} => lease
    /\ waited => ~lease
    /\ worker # "none" /\ downtime => snapshot /\ (quiet => ~drift)

\* "applied" means that the node is back up with the new image, as far as its boot
\* IDs tell, and that no cordon of this upgrade is left on it.
AppliedIsApplied ==
    terminal = "applied" =>
        /\ node.installed
        /\ object.bootID => node.reboot = "up"
        /\ object.cordon # "t9s"

\* A cordon that Cordon found on the node is nobody's to undo but its operator's.
OperatorCordonKept ==
    [][ found /\ worker' # worker => object'.cordon = object.cordon ]_vars

\* The upgrade ends and gives its lease back: with nobody reading its results,
\* with or without a cancellation, with a node that never comes back.  And
\* whoever reads the results until their end has the terminal result last, slow
\* as the reading may be.
UpgradeEnds ==
    app # "idle" ~>
        [](/\ ~lease /\ app \in {"refused", "streaming"} /\ worker \in {"none", "done"}
           /\ closed => terminal \in {read, buffer})
=============================================================================
