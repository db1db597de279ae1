--------------------------- MODULE Upgrades_proofs ---------------------------
(***************************************************************************)
(* The upgrades keep their promises in every reachable state, for any      *)
(* cluster and any amount of trouble.  A Talos upgrade: whatever fails, is *)
(* canceled or happens to the node and its object meanwhile.  A Kubernetes *)
(* upgrade: it keeps the skew of the versions, never goes on unattended    *)
(* and is whole when it is reported as completed, however often it is      *)
(* stopped, given up, repeated and turned to another target.               *)
(***************************************************************************)
EXTENDS TalosUpgrade, KubernetesUpgrade, FiniteSetTheorems, WellFoundedInduction, TLAPS

-----------------------------------------------------------------------------
(* Talos upgrades: the invariant *)

BeforeReboot == {"none", "version", "legacy", "install", "prepare", "cordon", "patch", "drain", "reboot"}
Maintaining  == {"prepare", "cordon", "patch", "drain", "reboot", "talosReady", "kubernetesReady"}
Cordoned     == {"drain", "reboot", "talosReady", "kubernetesReady", "uncordon"}
Ending       == {"uncordon", "publish", "finish", "done"}
Published    == {"finish", "done"}
Workers      == BeforeReboot \cup Maintaining \cup Cordoned \cup Ending

\* The values that the steps tell apart.
StagesTyped ==
    /\ app \in {"idle", "check", "snapshot", "recheck", "start", "streaming", "refused"}
    /\ retained \in {"none", "waiting", "stored", "released", "done"}
    /\ worker \in Workers
    /\ err \in {"none", "accepted", "failed", "warning"}

FlagsTyped ==
    /\ owned \in BOOLEAN /\ found \in BOOLEAN /\ closed \in BOOLEAN /\ waited \in BOOLEAN
    /\ lease \in BOOLEAN /\ quiet \in BOOLEAN /\ drift \in BOOLEAN /\ snapshot \in BOOLEAN
    /\ downtime \in BOOLEAN /\ canceled \in BOOLEAN

WorldTyped ==
    /\ node \in [installed : BOOLEAN, reboot : {"none", "requested", "down", "up"}]
    /\ object \in [cordon : {"none", "operator", "t9s"}, ready : BOOLEAN, booted : BOOLEAN,
                   bootID : BOOLEAN]

WellTyped == StagesTyped /\ FlagsTyped /\ WorldTyped

\* Who holds the lease: ExecuteUpgrade until its stream exists, then the goroutine
\* of awaitTerminal, which outlasts that of UpgradeStream.
LeaseHeld ==
    /\ app \in {"check", "snapshot", "recheck", "start"} => lease
    /\ app = "streaming" <=> worker # "none"
    /\ app = "streaming" <=> retained # "none"
    /\ retained \in {"waiting", "stored"} => lease
    /\ retained \in {"stored", "released", "done"} => worker = "done"
    /\ retained \in {"released", "done"} => ~lease
    /\ waited => retained = "done"

\* What the checks of ExecuteUpgrade have established before the stream starts.
Checked ==
    /\ app \in {"recheck", "start", "streaming"} /\ downtime => snapshot
    /\ app \in {"start", "streaming"} /\ quiet => ~drift

\* What the goroutine of UpgradeStream knows of the node at each of its stages.
NodeKnown ==
    /\ worker \in BeforeReboot => node.reboot = "none"
    /\ worker \in Maintaining => node.installed
    /\ object.booted => node.reboot = "up"
    /\ worker \notin Ending => err = "none"
    /\ worker \in Ending /\ err = "none" =>
           node.installed /\ (object.bootID => node.reboot = "up")

\* Whose the cordon is.
CordonKnown ==
    /\ found => ~owned
    /\ worker \in {"patch", "uncordon"} => owned
    /\ object.cordon = "t9s" =>
           (owned /\ worker \in Cordoned) \/ err \in {"failed", "warning"}

\* The terminal result is the last one in the channel.
ResultIsLast ==
    /\ closed => worker \in Published
    /\ terminal = IF worker \in Published THEN Outcome(err) ELSE "none"
    /\ worker \in Published => terminal = buffer \/ (buffer = "none" /\ terminal = read)

TalosInv == WellTyped /\ LeaseHeld /\ Checked /\ NodeKnown /\ CordonKnown /\ ResultIsLast

-----------------------------------------------------------------------------
(* Each part is preserved by every step *)

\* The variables keep their types.
LEMMA TypeStep ==
    ASSUME WellTyped, [Next]_vars
    PROVE  WellTyped'
<1> USE DEF vars, appVars, streamVars, worldVars, WellTyped, StagesTyped, FlagsTyped,
            WorldTyped, Workers, BeforeReboot, Maintaining, Cordoned, Ending
<1>1. CASE Admit
  BY <1>1 DEF Admit
<1>2. CASE CheckFacts
  <2>1. StagesTyped' /\ WorldTyped'
    BY <1>2 DEF CheckFacts, Refuse, CheckAgain
  <2>2. FlagsTyped'
    BY <1>2 DEF CheckFacts, Refuse, CheckAgain
  <2> QED
    BY <2>1, <2>2
<1>3. CASE TakeSnapshot
  <2>1. StagesTyped' /\ WorldTyped'
    BY <1>3 DEF TakeSnapshot, Refuse, CheckAgain
  <2>2. FlagsTyped'
    BY <1>3 DEF TakeSnapshot, Refuse, CheckAgain
  <2> QED
    BY <2>1, <2>2
<1>4. CASE StartStream
  <2>1. StagesTyped' /\ WorldTyped'
    BY <1>4 DEF StartStream, Refuse
  <2>2. FlagsTyped'
    BY <1>4 DEF StartStream, Refuse
  <2> QED
    BY <2>1, <2>2
<1>5. CASE CheckVersion
  BY <1>5 DEF CheckVersion, Fail, Enter, Progress, Goroutine
<1>6. CASE LegacyUpgrade
  BY <1>6 DEF LegacyUpgrade, Fail, Goroutine
<1>7. CASE Install
  BY <1>7 DEF Install, Fail, Enter, Progress, Goroutine
<1>8. CASE PrepareMaintenance
  BY <1>8 DEF PrepareMaintenance, Fail, Enter, Progress, Goroutine
<1>9. CASE ReadCordon
  <2>1. StagesTyped' /\ WorldTyped'
    BY <1>9 DEF ReadCordon, Fail, Owns, Goroutine
  <2>2. FlagsTyped'
    BY ZenonT(40), <1>9 DEF ReadCordon, Fail, Owns, Goroutine
  <2> QED
    BY <2>1, <2>2
<1>10. CASE PatchCordon
  <2>1. StagesTyped' /\ WorldTyped'
    BY <1>10 DEF PatchCordon, Enter, Progress, Goroutine
  <2>2. FlagsTyped'
    BY ZenonT(40), <1>10 DEF PatchCordon, Enter, Progress, Goroutine
  <2> QED
    BY <2>1, <2>2
<1>11. CASE Drain
  BY <1>11 DEF Drain, Fail, Enter, Progress, Goroutine
<1>12. CASE Reboot
  BY <1>12 DEF Reboot, Fail, Enter, Progress, Goroutine
<1>13. CASE WaitTalosReady
  BY <1>13 DEF WaitTalosReady, Fail, Enter, Progress, Goroutine
<1>14. CASE WaitKubernetesReady
  BY <1>14 DEF WaitKubernetesReady, Fail, Enter, Progress, Ready, Goroutine
<1>15. CASE Uncordon
  BY <1>15 DEF Uncordon, Goroutine
<1>16. CASE Publish
  BY <1>16 DEF Publish, PublishTerminal
<1>17. CASE CloseResults
  BY <1>17 DEF CloseResults
<1>18. CASE CloseDone
  BY <1>18 DEF CloseDone
<1>19. CASE AwaitReturns
  BY <1>19 DEF AwaitReturns, UpstreamDone
<1>20. CASE AwaitReleases
  <2>1. StagesTyped' /\ WorldTyped'
    BY <1>20 DEF AwaitReleases
  <2>2. FlagsTyped'
    BY <1>20 DEF AwaitReleases
  <2> QED
    BY <2>1, <2>2
<1>21. CASE AwaitDone
  BY <1>21 DEF AwaitDone
<1>22. CASE Wait
  BY <1>22 DEF Wait, TerminalVisible
<1>23. CASE Consume
  BY <1>23 DEF Consume
<1>24. CASE Cancel
  BY <1>24 DEF Cancel
<1>25. CASE Drifts
  <2>1. StagesTyped' /\ WorldTyped'
    BY <1>25 DEF Drifts, World
  <2>2. FlagsTyped'
    BY <1>25 DEF Drifts, World
  <2> QED
    BY <2>1, <2>2
<1>26. CASE NodeGoesDown
  BY <1>26 DEF NodeGoesDown, World
<1>27. CASE NodeComesUp
  BY <1>27 DEF NodeComesUp, World
<1>28. CASE StatusWritten
  <2>1. StagesTyped' /\ FlagsTyped'
    BY <1>28 DEF StatusWritten, World
  <2>2. WorldTyped'
    BY <1>28 DEF StatusWritten, World
  <2> QED
    BY <2>1, <2>2
<1>29. CASE OperatorCordons
  BY <1>29 DEF OperatorCordons, World
<1>30. CASE OperatorUncordons
  BY <1>30 DEF OperatorUncordons, World
<1>31. CASE UNCHANGED vars
  BY <1>31
<1> QED
  BY <1>1, <1>2, <1>3, <1>4, <1>5, <1>6, <1>7, <1>8, <1>9, <1>10, <1>11, <1>12, <1>13,
     <1>14, <1>15, <1>16, <1>17, <1>18, <1>19, <1>20, <1>21, <1>22, <1>23, <1>24, <1>25,
     <1>26, <1>27, <1>28, <1>29, <1>30, <1>31
     DEF Next, AppStep, WorkerStep, RetainedStep, WorldStep

\* The lease passes from ExecuteUpgrade to awaitTerminal and is given back once.
LEMMA LeaseStep ==
    ASSUME WellTyped, LeaseHeld, [Next]_vars
    PROVE  LeaseHeld'
<1> USE DEF vars, appVars, streamVars, worldVars, WellTyped, StagesTyped, FlagsTyped,
            WorldTyped, LeaseHeld, Workers, BeforeReboot, Maintaining, Cordoned, Ending
<1>1. CASE Admit
  BY <1>1 DEF Admit
<1>2. CASE CheckFacts
  BY <1>2 DEF CheckFacts, Refuse, CheckAgain
<1>3. CASE TakeSnapshot
  BY <1>3 DEF TakeSnapshot, Refuse, CheckAgain
<1>4. CASE StartStream
  BY <1>4 DEF StartStream, Refuse
<1>5. CASE CheckVersion
  BY <1>5 DEF CheckVersion, Fail, Enter, Progress, Goroutine
<1>6. CASE LegacyUpgrade
  BY <1>6 DEF LegacyUpgrade, Fail, Goroutine
<1>7. CASE Install
  BY <1>7 DEF Install, Fail, Enter, Progress, Goroutine
<1>8. CASE PrepareMaintenance
  BY <1>8 DEF PrepareMaintenance, Fail, Enter, Progress, Goroutine
<1>9. CASE ReadCordon
  BY <1>9 DEF ReadCordon, Fail, Owns, Goroutine
<1>10. CASE PatchCordon
  BY <1>10 DEF PatchCordon, Enter, Progress, Goroutine
<1>11. CASE Drain
  BY <1>11 DEF Drain, Fail, Enter, Progress, Goroutine
<1>12. CASE Reboot
  BY <1>12 DEF Reboot, Fail, Enter, Progress, Goroutine
<1>13. CASE WaitTalosReady
  BY <1>13 DEF WaitTalosReady, Fail, Enter, Progress, Goroutine
<1>14. CASE WaitKubernetesReady
  BY <1>14 DEF WaitKubernetesReady, Fail, Enter, Progress, Ready, Goroutine
<1>15. CASE Uncordon
  BY <1>15 DEF Uncordon, Goroutine
<1>16. CASE Publish
  BY <1>16 DEF Publish, PublishTerminal
<1>17. CASE CloseResults
  BY <1>17 DEF CloseResults
<1>18. CASE CloseDone
  BY <1>18 DEF CloseDone
<1>19. CASE AwaitReturns
  BY <1>19 DEF AwaitReturns, UpstreamDone
<1>20. CASE AwaitReleases
  BY <1>20 DEF AwaitReleases
<1>21. CASE AwaitDone
  BY <1>21 DEF AwaitDone
<1>22. CASE Wait
  BY <1>22 DEF Wait, TerminalVisible
<1>23. CASE Consume
  BY <1>23 DEF Consume
<1>24. CASE Cancel
  BY <1>24 DEF Cancel
<1>25. CASE Drifts
  BY <1>25 DEF Drifts, World
<1>26. CASE NodeGoesDown
  BY <1>26 DEF NodeGoesDown, World
<1>27. CASE NodeComesUp
  BY <1>27 DEF NodeComesUp, World
<1>28. CASE StatusWritten
  BY <1>28 DEF StatusWritten, World
<1>29. CASE OperatorCordons
  BY <1>29 DEF OperatorCordons, World
<1>30. CASE OperatorUncordons
  BY <1>30 DEF OperatorUncordons, World
<1>31. CASE UNCHANGED vars
  BY <1>31
<1> QED
  BY <1>1, <1>2, <1>3, <1>4, <1>5, <1>6, <1>7, <1>8, <1>9, <1>10, <1>11, <1>12, <1>13,
     <1>14, <1>15, <1>16, <1>17, <1>18, <1>19, <1>20, <1>21, <1>22, <1>23, <1>24, <1>25,
     <1>26, <1>27, <1>28, <1>29, <1>30, <1>31
     DEF Next, AppStep, WorkerStep, RetainedStep, WorldStep

\* Nothing but a change of the cluster takes away what the checks established.
LEMMA CheckedStep ==
    ASSUME WellTyped, Checked, [Next]_vars
    PROVE  Checked'
<1> USE DEF vars, appVars, streamVars, worldVars, WellTyped, StagesTyped, FlagsTyped,
            WorldTyped, Checked
<1>1. CASE Admit
  BY <1>1 DEF Admit
<1>2. CASE CheckFacts
  BY <1>2 DEF CheckFacts, Refuse, CheckAgain
<1>3. CASE TakeSnapshot
  BY <1>3 DEF TakeSnapshot, Refuse, CheckAgain
<1>4. CASE StartStream
  BY <1>4 DEF StartStream, Refuse
<1>5. CASE CheckVersion
  BY <1>5 DEF CheckVersion, Fail, Enter, Progress, Goroutine
<1>6. CASE LegacyUpgrade
  BY <1>6 DEF LegacyUpgrade, Fail, Goroutine
<1>7. CASE Install
  BY <1>7 DEF Install, Fail, Enter, Progress, Goroutine
<1>8. CASE PrepareMaintenance
  BY <1>8 DEF PrepareMaintenance, Fail, Enter, Progress, Goroutine
<1>9. CASE ReadCordon
  BY <1>9 DEF ReadCordon, Fail, Owns, Goroutine
<1>10. CASE PatchCordon
  BY <1>10 DEF PatchCordon, Enter, Progress, Goroutine
<1>11. CASE Drain
  BY <1>11 DEF Drain, Fail, Enter, Progress, Goroutine
<1>12. CASE Reboot
  BY <1>12 DEF Reboot, Fail, Enter, Progress, Goroutine
<1>13. CASE WaitTalosReady
  BY <1>13 DEF WaitTalosReady, Fail, Enter, Progress, Goroutine
<1>14. CASE WaitKubernetesReady
  BY <1>14 DEF WaitKubernetesReady, Fail, Enter, Progress, Ready, Goroutine
<1>15. CASE Uncordon
  BY <1>15 DEF Uncordon, Goroutine
<1>16. CASE Publish
  BY <1>16 DEF Publish, PublishTerminal
<1>17. CASE CloseResults
  BY <1>17 DEF CloseResults
<1>18. CASE CloseDone
  BY <1>18 DEF CloseDone
<1>19. CASE AwaitReturns
  BY <1>19 DEF AwaitReturns, UpstreamDone
<1>20. CASE AwaitReleases
  BY <1>20 DEF AwaitReleases
<1>21. CASE AwaitDone
  BY <1>21 DEF AwaitDone
<1>22. CASE Wait
  BY <1>22 DEF Wait, TerminalVisible
<1>23. CASE Consume
  BY <1>23 DEF Consume
<1>24. CASE Cancel
  BY <1>24 DEF Cancel
<1>25. CASE Drifts
  BY <1>25 DEF Drifts, World
<1>26. CASE NodeGoesDown
  BY <1>26 DEF NodeGoesDown, World
<1>27. CASE NodeComesUp
  BY <1>27 DEF NodeComesUp, World
<1>28. CASE StatusWritten
  BY <1>28 DEF StatusWritten, World
<1>29. CASE OperatorCordons
  BY <1>29 DEF OperatorCordons, World
<1>30. CASE OperatorUncordons
  BY <1>30 DEF OperatorUncordons, World
<1>31. CASE UNCHANGED vars
  BY <1>31
<1> QED
  BY <1>1, <1>2, <1>3, <1>4, <1>5, <1>6, <1>7, <1>8, <1>9, <1>10, <1>11, <1>12, <1>13,
     <1>14, <1>15, <1>16, <1>17, <1>18, <1>19, <1>20, <1>21, <1>22, <1>23, <1>24, <1>25,
     <1>26, <1>27, <1>28, <1>29, <1>30, <1>31
     DEF Next, AppStep, WorkerStep, RetainedStep, WorldStep

\* The goroutine's knowledge of the node survives every failure and every reboot.
LEMMA NodeStep ==
    ASSUME WellTyped, LeaseHeld, CordonKnown, NodeKnown, [Next]_vars
    PROVE  NodeKnown'
<1> USE DEF vars, appVars, streamVars, worldVars, WellTyped, StagesTyped, FlagsTyped,
            WorldTyped, LeaseHeld, CordonKnown, NodeKnown, Workers, BeforeReboot,
            Maintaining, Cordoned, Ending
<1>1. CASE Admit
  BY <1>1 DEF Admit
<1>2. CASE CheckFacts
  BY <1>2 DEF CheckFacts, Refuse, CheckAgain
<1>3. CASE TakeSnapshot
  BY <1>3 DEF TakeSnapshot, Refuse, CheckAgain
<1>4. CASE StartStream
  BY <1>4 DEF StartStream, Refuse
<1>5. CASE CheckVersion
  BY <1>5 DEF CheckVersion, Fail, Enter, Progress, Goroutine
<1>6. CASE LegacyUpgrade
  BY <1>6 DEF LegacyUpgrade, Fail, Goroutine
<1>7. CASE Install
  BY <1>7 DEF Install, Fail, Enter, Progress, Goroutine
<1>8. CASE PrepareMaintenance
  BY <1>8 DEF PrepareMaintenance, Fail, Enter, Progress, Goroutine
<1>9. CASE ReadCordon
  BY <1>9 DEF ReadCordon, Fail, Owns, Goroutine
<1>10. CASE PatchCordon
  BY <1>10 DEF PatchCordon, Enter, Progress, Goroutine
<1>11. CASE Drain
  BY <1>11 DEF Drain, Fail, Enter, Progress, Goroutine
<1>12. CASE Reboot
  BY <1>12 DEF Reboot, Fail, Enter, Progress, Goroutine
<1>13. CASE WaitTalosReady
  BY <1>13 DEF WaitTalosReady, Fail, Enter, Progress, Goroutine
<1>14. CASE WaitKubernetesReady
  BY <1>14 DEF WaitKubernetesReady, Fail, Enter, Progress, Ready, Goroutine
<1>15. CASE Uncordon
  BY <1>15 DEF Uncordon, Goroutine
<1>16. CASE Publish
  BY <1>16 DEF Publish, PublishTerminal
<1>17. CASE CloseResults
  BY <1>17 DEF CloseResults
<1>18. CASE CloseDone
  BY <1>18 DEF CloseDone
<1>19. CASE AwaitReturns
  BY <1>19 DEF AwaitReturns, UpstreamDone
<1>20. CASE AwaitReleases
  BY <1>20 DEF AwaitReleases
<1>21. CASE AwaitDone
  BY <1>21 DEF AwaitDone
<1>22. CASE Wait
  BY <1>22 DEF Wait, TerminalVisible
<1>23. CASE Consume
  BY <1>23 DEF Consume
<1>24. CASE Cancel
  BY <1>24 DEF Cancel
<1>25. CASE Drifts
  BY <1>25 DEF Drifts, World
<1>26. CASE NodeGoesDown
  BY <1>26 DEF NodeGoesDown, World
<1>27. CASE NodeComesUp
  BY <1>27 DEF NodeComesUp, World
<1>28. CASE StatusWritten
  BY <1>28 DEF StatusWritten, World
<1>29. CASE OperatorCordons
  BY <1>29 DEF OperatorCordons, World
<1>30. CASE OperatorUncordons
  BY <1>30 DEF OperatorUncordons, World
<1>31. CASE UNCHANGED vars
  BY <1>31
<1> QED
  BY <1>1, <1>2, <1>3, <1>4, <1>5, <1>6, <1>7, <1>8, <1>9, <1>10, <1>11, <1>12, <1>13,
     <1>14, <1>15, <1>16, <1>17, <1>18, <1>19, <1>20, <1>21, <1>22, <1>23, <1>24, <1>25,
     <1>26, <1>27, <1>28, <1>29, <1>30, <1>31
     DEF Next, AppStep, WorkerStep, RetainedStep, WorldStep

\* A cordon of the upgrade stays accounted for until it is removed or reported.
LEMMA CordonStep ==
    ASSUME WellTyped, LeaseHeld, NodeKnown, CordonKnown, [Next]_vars
    PROVE  CordonKnown'
<1> USE DEF vars, appVars, streamVars, worldVars, WellTyped, StagesTyped, FlagsTyped,
            WorldTyped, LeaseHeld, NodeKnown, CordonKnown, Workers, BeforeReboot,
            Maintaining, Cordoned, Ending
<1>1. CASE Admit
  BY <1>1 DEF Admit
<1>2. CASE CheckFacts
  BY <1>2 DEF CheckFacts, Refuse, CheckAgain
<1>3. CASE TakeSnapshot
  BY <1>3 DEF TakeSnapshot, Refuse, CheckAgain
<1>4. CASE StartStream
  BY <1>4 DEF StartStream, Refuse
<1>5. CASE CheckVersion
  BY <1>5 DEF CheckVersion, Fail, Enter, Progress, Goroutine
<1>6. CASE LegacyUpgrade
  BY <1>6 DEF LegacyUpgrade, Fail, Goroutine
<1>7. CASE Install
  BY <1>7 DEF Install, Fail, Enter, Progress, Goroutine
<1>8. CASE PrepareMaintenance
  BY <1>8 DEF PrepareMaintenance, Fail, Enter, Progress, Goroutine
<1>9. CASE ReadCordon
  BY <1>9 DEF ReadCordon, Fail, Owns, Goroutine
<1>10. CASE PatchCordon
  BY <1>10 DEF PatchCordon, Enter, Progress, Goroutine
<1>11. CASE Drain
  BY <1>11 DEF Drain, Fail, Enter, Progress, Goroutine
<1>12. CASE Reboot
  BY <1>12 DEF Reboot, Fail, Enter, Progress, Goroutine
<1>13. CASE WaitTalosReady
  BY <1>13 DEF WaitTalosReady, Fail, Enter, Progress, Goroutine
<1>14. CASE WaitKubernetesReady
  BY <1>14 DEF WaitKubernetesReady, Fail, Enter, Progress, Ready, Goroutine
<1>15. CASE Uncordon
  BY <1>15 DEF Uncordon, Goroutine
<1>16. CASE Publish
  BY <1>16 DEF Publish, PublishTerminal
<1>17. CASE CloseResults
  BY <1>17 DEF CloseResults
<1>18. CASE CloseDone
  BY <1>18 DEF CloseDone
<1>19. CASE AwaitReturns
  BY <1>19 DEF AwaitReturns, UpstreamDone
<1>20. CASE AwaitReleases
  BY <1>20 DEF AwaitReleases
<1>21. CASE AwaitDone
  BY <1>21 DEF AwaitDone
<1>22. CASE Wait
  BY <1>22 DEF Wait, TerminalVisible
<1>23. CASE Consume
  BY <1>23 DEF Consume
<1>24. CASE Cancel
  BY <1>24 DEF Cancel
<1>25. CASE Drifts
  BY <1>25 DEF Drifts, World
<1>26. CASE NodeGoesDown
  BY <1>26 DEF NodeGoesDown, World
<1>27. CASE NodeComesUp
  BY <1>27 DEF NodeComesUp, World
<1>28. CASE StatusWritten
  BY <1>28 DEF StatusWritten, World
<1>29. CASE OperatorCordons
  BY <1>29 DEF OperatorCordons, World
<1>30. CASE OperatorUncordons
  BY <1>30 DEF OperatorUncordons, World
<1>31. CASE UNCHANGED vars
  BY <1>31
<1> QED
  BY <1>1, <1>2, <1>3, <1>4, <1>5, <1>6, <1>7, <1>8, <1>9, <1>10, <1>11, <1>12, <1>13,
     <1>14, <1>15, <1>16, <1>17, <1>18, <1>19, <1>20, <1>21, <1>22, <1>23, <1>24, <1>25,
     <1>26, <1>27, <1>28, <1>29, <1>30, <1>31
     DEF Next, AppStep, WorkerStep, RetainedStep, WorldStep

\* The terminal result is published last, and nothing comes after it.
LEMMA ResultStep ==
    ASSUME WellTyped, LeaseHeld, NodeKnown, ResultIsLast, [Next]_vars
    PROVE  ResultIsLast'
<1> USE DEF vars, appVars, streamVars, worldVars, WellTyped, StagesTyped, FlagsTyped,
            WorldTyped, LeaseHeld, NodeKnown, ResultIsLast, Outcome, Published, Workers,
            BeforeReboot, Maintaining, Cordoned, Ending
<1>1. CASE Admit
  BY <1>1 DEF Admit
<1>2. CASE CheckFacts
  BY <1>2 DEF CheckFacts, Refuse, CheckAgain
<1>3. CASE TakeSnapshot
  BY <1>3 DEF TakeSnapshot, Refuse, CheckAgain
<1>4. CASE StartStream
  BY <1>4 DEF StartStream, Refuse
<1>5. CASE CheckVersion
  BY <1>5 DEF CheckVersion, Fail, Enter, Progress, Goroutine
<1>6. CASE LegacyUpgrade
  BY <1>6 DEF LegacyUpgrade, Fail, Goroutine
<1>7. CASE Install
  BY <1>7 DEF Install, Fail, Enter, Progress, Goroutine
<1>8. CASE PrepareMaintenance
  BY <1>8 DEF PrepareMaintenance, Fail, Enter, Progress, Goroutine
<1>9. CASE ReadCordon
  BY <1>9 DEF ReadCordon, Fail, Owns, Goroutine
<1>10. CASE PatchCordon
  BY <1>10 DEF PatchCordon, Enter, Progress, Goroutine
<1>11. CASE Drain
  BY <1>11 DEF Drain, Fail, Enter, Progress, Goroutine
<1>12. CASE Reboot
  BY <1>12 DEF Reboot, Fail, Enter, Progress, Goroutine
<1>13. CASE WaitTalosReady
  BY <1>13 DEF WaitTalosReady, Fail, Enter, Progress, Goroutine
<1>14. CASE WaitKubernetesReady
  BY <1>14 DEF WaitKubernetesReady, Fail, Enter, Progress, Ready, Goroutine
<1>15. CASE Uncordon
  BY <1>15 DEF Uncordon, Goroutine
<1>16. CASE Publish
  BY <1>16 DEF Publish, PublishTerminal
<1>17. CASE CloseResults
  BY <1>17 DEF CloseResults
<1>18. CASE CloseDone
  BY <1>18 DEF CloseDone
<1>19. CASE AwaitReturns
  BY <1>19 DEF AwaitReturns, UpstreamDone
<1>20. CASE AwaitReleases
  BY <1>20 DEF AwaitReleases
<1>21. CASE AwaitDone
  BY <1>21 DEF AwaitDone
<1>22. CASE Wait
  BY <1>22 DEF Wait, TerminalVisible
<1>23. CASE Consume
  BY <1>23 DEF Consume
<1>24. CASE Cancel
  BY <1>24 DEF Cancel
<1>25. CASE Drifts
  BY <1>25 DEF Drifts, World
<1>26. CASE NodeGoesDown
  BY <1>26 DEF NodeGoesDown, World
<1>27. CASE NodeComesUp
  BY <1>27 DEF NodeComesUp, World
<1>28. CASE StatusWritten
  BY <1>28 DEF StatusWritten, World
<1>29. CASE OperatorCordons
  BY <1>29 DEF OperatorCordons, World
<1>30. CASE OperatorUncordons
  BY <1>30 DEF OperatorUncordons, World
<1>31. CASE UNCHANGED vars
  BY <1>31
<1> QED
  BY <1>1, <1>2, <1>3, <1>4, <1>5, <1>6, <1>7, <1>8, <1>9, <1>10, <1>11, <1>12, <1>13,
     <1>14, <1>15, <1>16, <1>17, <1>18, <1>19, <1>20, <1>21, <1>22, <1>23, <1>24, <1>25,
     <1>26, <1>27, <1>28, <1>29, <1>30, <1>31
     DEF Next, AppStep, WorkerStep, RetainedStep, WorldStep

-----------------------------------------------------------------------------
(* Talos upgrades: the theorems *)

\* The invariant holds in every reachable state.
THEOREM TalosInductive == Spec => []TalosInv
<1>1. Init => TalosInv
  <2> SUFFICES ASSUME Init
               PROVE  TalosInv
    OBVIOUS
  <2> USE DEF Init
  <2>1. WellTyped
    BY DEF WellTyped, StagesTyped, FlagsTyped, WorldTyped, Workers, BeforeReboot
  <2>2. LeaseHeld /\ Checked
    BY DEF LeaseHeld, Checked
  <2>3. NodeKnown /\ CordonKnown
    BY DEF NodeKnown, CordonKnown, Ending, Maintaining
  <2>4. ResultIsLast
    BY DEF ResultIsLast, Published
  <2> QED
    BY <2>1, <2>2, <2>3, <2>4 DEF TalosInv
<1>2. TalosInv /\ [Next]_vars => TalosInv'
  BY TypeStep, LeaseStep, CheckedStep, NodeStep, CordonStep, ResultStep DEF TalosInv
<1> QED
  BY <1>1, <1>2, PTL DEF Spec

\* The upgrade keeps its session and its cluster from the first check to the end of
\* the cleanup, and starts on what it has checked.
THEOREM LeaseKept == Spec => []LeaseSpansUpgrade
<1>1. TalosInv => LeaseSpansUpgrade
  BY DEF TalosInv, WellTyped, StagesTyped, FlagsTyped, LeaseHeld, Checked, LeaseSpansUpgrade
<1> QED
  BY <1>1, TalosInductive, PTL

\* "applied" is reported only of a node that is back with the new image and free of
\* this upgrade's cordon.
THEOREM AppliedIsTrue == Spec => []AppliedIsApplied
<1>1. TalosInv => AppliedIsApplied
  BY DEF TalosInv, WellTyped, StagesTyped, NodeKnown, CordonKnown, ResultIsLast, AppliedIsApplied,
         Outcome, Published, Ending, Cordoned
<1> QED
  BY <1>1, TalosInductive, PTL

\* No step of the upgrade undoes a cordon that it found.
THEOREM CordonOfOthersKept == Spec => OperatorCordonKept
<1> DEFINE Kept == found /\ worker' # worker => object'.cordon = object.cordon
<1>1. TalosInv /\ [Next]_vars => [Kept]_vars
  <2> SUFFICES ASSUME TalosInv, Next, found, worker' # worker
               PROVE  object'.cordon = object.cordon
    OBVIOUS
  <2>1. ~owned /\ worker \notin {"patch", "uncordon"}
    BY DEF TalosInv, CordonKnown
  <2>2. ~PatchCordon /\ ~Uncordon
    BY <2>1 DEF PatchCordon, Uncordon
  <2>3. CASE AppStep
    BY <2>3 DEF AppStep, CheckFacts, TakeSnapshot, StartStream, worldVars
  <2>4. CASE WorkerStep
    BY <2>2, <2>4
       DEF WorkerStep, CheckVersion, LegacyUpgrade, Install, PrepareMaintenance, ReadCordon, Drain,
           Reboot, WaitTalosReady, WaitKubernetesReady, Publish, CloseResults, CloseDone, worldVars
  <2>5. CASE Admit \/ RetainedStep \/ Wait \/ Consume \/ Cancel
    BY <2>5 DEF Admit, RetainedStep, AwaitReturns, AwaitReleases, AwaitDone, Wait, Consume, Cancel,
                streamVars
  <2>6. CASE WorldStep
    BY <2>6 DEF WorldStep, Drifts, NodeGoesDown, NodeComesUp, StatusWritten, OperatorCordons,
                OperatorUncordons, World, streamVars
  <2> QED
    BY <2>3, <2>4, <2>5, <2>6 DEF Next
<1> QED
  BY <1>1, TalosInductive, PTL DEF Spec, OperatorCordonKept

\* Whoever reads the results until their end has the terminal result last: it is read,
\* or it is the one that waits in the channel.
THEOREM ResultNotLost == Spec => [](closed => terminal \in {read, buffer})
<1>1. TalosInv => (closed => terminal \in {read, buffer})
  BY DEF TalosInv, ResultIsLast
<1> QED
  BY <1>1, TalosInductive, PTL

-----------------------------------------------------------------------------
(* Kubernetes upgrades: the types *)

Configs == [version : Versions, image : Versions, edits : Nat]
Kubelets == [version : Versions, image : Versions, edits : Nat, ready : BOOLEAN, cordoned : BOOLEAN]
Requests == [n : Nodes, image : Versions, edits : Nat]
CLIs == [step : {"patch", "settle", "sync", "ok", "failed"}, target : Versions]
Plans == [target : Versions, source : Versions, skip : BOOLEAN, seen : [Nodes -> Configs],
          cordoned : SUBSET Nodes]
Targets == [target : {0} \cup Versions]

Fates == {"absent", "not_attempted", "unknown", "unconfirmed", "completed"}
Before == {"check", "snapshot", "recheck"}
Updating == {"patch", "apply", "sent", "kubelet"}
After == {"verify", "node"} \cup Updating
Stages == Before \cup {"launch", "cli", "ending"} \cup After
Runs == [pc : Stages, plan : Plans, base : [Nodes -> Configs], i : 1 .. N + 1,
         outcomes : [Nodes -> Fates], sent : SUBSET (0 .. N),
         canceled : BOOLEAN, mine : BOOLEAN, held : BOOLEAN]

Phases == {"editing", "preparing", "reviewing", "running", "complete"}
Steps == {"prepare", "prepared", "start", "opened", "refused", "finished"}
Asks == [step : Steps, mine : BOOLEAN, live : BOOLEAN, over : BOOLEAN, plan : Plans \cup Targets]
Dialogs == [phase : Phases, plan : Plans \cup {NoPlan}, err : BOOLEAN, stream : BOOLEAN]

ClusterTyped ==
    /\ components \in SUBSET Versions /\ components # {}
    /\ desired \in Versions /\ manifests \in Versions
    /\ kubelets \in [Nodes -> Kubelets]
    /\ wire \subseteq Requests
    /\ cli \in [Talosctls -> CLIs \cup {NoCLI}]
    /\ evidence \subseteq Versions

Meant(a) ==
    /\ a.step = "prepare" => a.plan.target \in Versions
    /\ a.step = "prepared" => a.plan \in Plans \cup {NoPlan}
    /\ a.step = "start" => a.plan \in Plans

ProgramTyped ==
    /\ goal \in Versions
    /\ dialog \in Dialogs
    /\ asks \subseteq Asks /\ \A a \in asks : Meant(a)
    /\ run \in Runs \cup {NoRun}
    /\ run.pc \in Updating => run.i \in Nodes

\* A talosctl is at work; one goes on; one fails.
Active(i) == cli[i].step # "none"
CLIStep == \E i \in Talosctls : CLISteps(i)
CLIFailure == \E i \in Talosctls : CLIFails(i)

-----------------------------------------------------------------------------
(* Operators of the model *)

Below == {w \in Nat \X Nat : w[1] < w[2]}

\* A nonempty set of numbers has a least one, and Min is it.
LEMMA MinIsLeast ==
    ASSUME NEW S, S \subseteq Nat, S # {}
    PROVE  Min(S) \in S /\ \A y \in S : Min(S) <= y
<1>1. IsWellFoundedOn(Below, Nat)
  BY NatLessThanWellFounded DEF OpToRel, Below
<1>2. PICK x \in S : \A y \in S : <<y, x>> \notin Below
  BY <1>1, WFMin
<1>3. \A y \in S : x <= y
  <2> SUFFICES ASSUME NEW y \in S, y < x
               PROVE  FALSE
    OBVIOUS
  <2>1. <<y, x>> \in Below
    BY DEF Below
  <2> QED
    BY <1>2, <2>1
<1> QED
  BY <1>2, <1>3 DEF Min

\* Max is an upper bound that is reached, where there is one.
LEMMA MaxIsGreatest ==
    ASSUME NEW S, S \subseteq Nat, NEW x \in S, \A y \in S : y <= x
    PROVE  Max(S) = x
<1>1. \A y \in S : x >= y
  OBVIOUS
<1>2. PICK m \in S : m = Max(S) /\ \A y \in S : m >= y
  BY <1>1 DEF Max
<1>3. m \in Nat /\ x \in Nat /\ m >= x /\ x >= m
  BY <1>1, <1>2
<1> QED
  BY <1>2, <1>3

\* A plan is not the absence of one, nor a run that of a run.
LEMMA NothingElse ==
    /\ NoPlan \notin Plans /\ NoPlan \in Targets
    /\ NoRun \notin Runs
    /\ NoCLI \notin CLIs
<1>1. \A p \in Plans : p.target # 0
  BY DEF Plans, Versions
<1>2. \A r \in Runs : r.pc # "idle"
  BY DEF Runs, Stages, Before, After, Updating
<1>3. \A c \in CLIs : c.step # "none"
  BY DEF CLIs
<1>4. NoPlan.target = 0 /\ NoRun.pc = "idle" /\ NoCLI.step = "none" /\ NoPlan \in Targets
  BY DEF NoPlan, NoRun, NoCLI, Targets
<1> QED
  BY <1>1, <1>2, <1>3, <1>4

\* The control plane has an oldest version.
LEMMA Oldest ==
    ASSUME ClusterTyped
    PROVE  /\ Min(components) \in components /\ Min(components) \in Versions
           /\ \A c \in components : Min(components) <= c
<1>1. components \subseteq Nat /\ components # {}
  BY DEF ClusterTyped, Versions
<1> QED
  BY <1>1, MinIsLeast DEF ClusterTyped

\* What an inventory shows of a node.
LEMMA ConfigTyped ==
    ASSUME ClusterTyped
    PROVE  \A n \in Nodes : Config(n) \in Configs
BY DEF ClusterTyped, Config, Configs, Kubelets

\* A plan made for a version is a plan for that version.
LEMMA PlanTyped ==
    ASSUME ClusterTyped, NEW t \in Versions
    PROVE  PlanFor(t) \in Plans /\ PlanFor(t).target = t
<1>1. [n \in Nodes |-> Config(n)] \in [Nodes -> Configs]
  BY ConfigTyped
<1>2. Skippable(t) \in BOOLEAN
  BY DEF Skippable, ControlPlaneAt
<1> QED
  BY <1>1, <1>2, Oldest DEF PlanFor, Plans

-----------------------------------------------------------------------------
(* The goroutine moves on *)

\* What a step of the goroutine leaves as it is.
Advances ==
    /\ run \in Runs /\ run.pc # "ending"
    /\ run' \in Runs
    /\ run'.plan = run.plan /\ run'.canceled = run.canceled
    /\ run'.mine = run.mine /\ run'.held = run.held
    /\ UNCHANGED <<goal, dialog, asks>>

\* The goroutine goes to another stage.
LEMMA GotoAdvances ==
    ASSUME NEW pc \in Stages, run \in Runs, run.pc # "ending", Goto(pc),
           UNCHANGED <<goal, dialog, asks>>
    PROVE  /\ Advances /\ run'.pc = pc
           /\ run'.base = run.base /\ run'.i = run.i /\ run'.outcomes = run.outcomes
           /\ run'.sent = run.sent /\ UNCHANGED report
BY DEF Goto, Advances, Runs

\* The goroutine comes to its end with a result.
LEMMA HaltAdvances ==
    ASSUME NEW o, NEW s, run \in Runs, run.pc # "ending", Halt(o, s),
           UNCHANGED <<goal, dialog, asks>>
    PROVE  /\ Advances /\ run'.pc = "ending"
           /\ report' = [outcome |-> o, target |-> run.plan.target, nodes |-> s, sent |-> run.sent]
<1>1. "ending" \in Stages
  BY DEF Stages
<1> QED
  BY <1>1 DEF Halt, Advances, Runs

\* Every step of the goroutine but its last keeps the plan and the request it runs
\* under, and leaves the dialog alone.
LEMMA GoroutineAdvances ==
    ASSUME ClusterTyped, ProgramTyped, RunGoroutine, ~Release
    PROVE  Advances
<1> USE DEF Smooth, Running
<1>0. /\ run.pc # "idle" => run \in Runs
      /\ {"snapshot", "recheck", "verify", "launch", "cli", "patch", "apply", "sent", "kubelet", "node", "ending"}
             \subseteq Stages
  BY DEF ProgramTyped, NoRun, Stages, Before, After, Updating
<1>1. CASE Check
  BY <1>0, <1>1, GotoAdvances, HaltAdvances DEF Check, NotStarted
<1>2. CASE Snapshot
  BY <1>0, <1>2, GotoAdvances DEF Snapshot
<1>3. CASE Recheck
  BY <1>0, <1>3, GotoAdvances, HaltAdvances DEF Recheck, NotStarted
<1>4. CASE Launch
  <2>1. run \in Runs /\ run' = [run EXCEPT !.pc = "cli", !.sent = @ \cup {0}] /\ run.pc = "launch"
    BY <1>0, <1>4 DEF Launch
  <2>2. run.sent \cup {0} \in SUBSET (0 .. N)
    BY <2>1, KubernetesAssumption DEF Runs
  <2>3. run' \in Runs
    BY <1>0, <2>1, <2>2 DEF Runs
  <2> QED
    BY <1>4, <2>1, <2>3 DEF Launch, Advances, Runs
<1>5. CASE CLIExited
  BY <1>0, <1>5, GotoAdvances, HaltAdvances DEF CLIExited, Partial
<1>6. CASE CLIReaped
  BY <1>0, <1>6, HaltAdvances DEF CLIReaped, Partial
<1>7. CASE Verify
  <2>1. run \in Runs /\ run.pc = "verify"
    BY <1>0, <1>7 DEF Verify
  <2>2. CASE Partial
    BY <1>7, <2>1, <2>2, HaltAdvances DEF Verify, Partial
  <2>3. CASE run' = [run EXCEPT !.pc = "node", !.base = [n \in Nodes |-> Config(n)]]
    <3>1. [n \in Nodes |-> Config(n)] \in [Nodes -> Configs]
      BY ConfigTyped
    <3>2. run' \in Runs
      BY <1>0, <2>1, <2>3, <3>1 DEF Runs
    <3> QED
      BY <1>7, <2>1, <2>3, <3>2 DEF Verify, Advances, Runs
  <2> QED
    BY <1>7, <2>2, <2>3 DEF Verify
<1>8. CASE NextNode
  <2>1. run \in Runs /\ run.pc = "node" /\ run.i \in 1 .. N + 1 /\ run.i <= N
    BY <1>0, <1>8 DEF NextNode, Runs
  <2>2. CASE Goto("patch") \/ StopBefore(run.i)
    BY <1>0, <1>8, <2>1, <2>2, GotoAdvances, HaltAdvances DEF NextNode, StopBefore
  <2>3. CASE run' = [run EXCEPT !.i = @ + 1, !.outcomes[run.i] = "completed"]
    <3>1. run.i + 1 \in 1 .. N + 1 /\ run.i \in Nodes
      BY <2>1, KubernetesAssumption DEF Nodes
    <3>2. [run.outcomes EXCEPT ![run.i] = "completed"] \in [Nodes -> Fates]
      BY <2>1 DEF Runs, Fates
    <3>3. run' \in Runs
      BY <2>1, <2>3, <3>1, <3>2 DEF Runs
    <3> QED
      BY <1>8, <2>1, <2>3, <3>3 DEF NextNode, Advances, Runs
  <2> QED
    BY <1>8, <2>2, <2>3 DEF NextNode
<1>9. CASE NodesChanged
  BY <1>0, <1>9, HaltAdvances DEF NodesChanged, StopBefore
<1>10. CASE Final
  BY <1>0, <1>10, HaltAdvances DEF Final
<1>11. CASE Patch
  BY <1>0, <1>11, GotoAdvances, HaltAdvances DEF Patch, StopAt
<1>12. CASE Apply
  <2>1. run \in Runs /\ run.pc = "apply" /\ run.i \in Nodes
    BY <1>0, <1>12 DEF Apply, ProgramTyped, Updating
  <2>2. CASE StopAt(run.i, "unknown")
    BY <1>12, <2>1, <2>2, HaltAdvances DEF Apply, StopAt
  <2>3. CASE run' = [run EXCEPT !.pc = "sent", !.sent = @ \cup {run.i}]
    <3>1. run.sent \cup {run.i} \in SUBSET (0 .. N)
      BY <2>1, KubernetesAssumption DEF Runs, Nodes
    <3>2. run' \in Runs
      BY <1>0, <2>1, <2>3, <3>1 DEF Runs
    <3> QED
      BY <1>12, <2>1, <2>3, <3>2 DEF Apply, Advances, Runs
  <2> QED
    BY <1>12, <2>2, <2>3 DEF Apply
<1>13. CASE Answered
  BY <1>0, <1>13, GotoAdvances DEF Answered
<1>14. CASE KubeletDone
  <2>1. run \in Runs /\ run.pc = "kubelet" /\ run.i \in Nodes
    BY <1>0, <1>14 DEF KubeletDone, ProgramTyped, Updating
  <2>2. CASE StopAt(run.i, "unconfirmed")
    BY <1>14, <2>1, <2>2, HaltAdvances DEF KubeletDone, StopAt
  <2>3. CASE run' = [run EXCEPT !.pc = "node", !.i = @ + 1, !.outcomes[run.i] = "completed",
                                !.base[run.i] = Config(run.i)]
    <3>1. run.i + 1 \in 1 .. N + 1
      BY <2>1, KubernetesAssumption DEF Nodes
    <3>2. [run.outcomes EXCEPT ![run.i] = "completed"] \in [Nodes -> Fates]
      BY <2>1 DEF Runs, Fates
    <3>3. [run.base EXCEPT ![run.i] = Config(run.i)] \in [Nodes -> Configs]
      BY <2>1, ConfigTyped DEF Runs
    <3>4. run' \in Runs
      BY <1>0, <2>1, <2>3, <3>1, <3>2, <3>3 DEF Runs
    <3> QED
      BY <1>14, <2>1, <2>3, <3>4 DEF KubeletDone, Advances, Runs
  <2> QED
    BY <1>14, <2>2, <2>3 DEF KubeletDone
<1>15. CASE CallFails
  <2>1. run \in Runs /\ run.pc \notin {"idle", "ending", "cli"}
    BY <1>0, <1>15 DEF CallFails
  <2>2. run.pc \in Stages
    BY <2>1 DEF Runs
  <2>3. PICK o, s : Halt(o, s)
    BY <1>15, <2>1, <2>2
       DEF CallFails, NotStarted, Partial, StopBefore, StopAt, Stages, Before, After, Updating
  <2> QED
    BY <1>15, <2>1, <2>3, HaltAdvances DEF CallFails
<1> QED
  BY <1>1, <1>2, <1>3, <1>4, <1>5, <1>6, <1>7, <1>8, <1>9, <1>10, <1>11, <1>12, <1>13, <1>14, <1>15
     DEF RunGoroutine

\* A node is updated only where there is one.
LEMMA UpdatesNode ==
    ASSUME ClusterTyped, ProgramTyped, RunGoroutine, ~Release, run'.pc \in Updating
    PROVE  run'.i = run.i /\ run.i \in Nodes
<1>1. Advances
  BY GoroutineAdvances
<1>2. run \in Runs /\ run.i \in 1 .. N + 1 /\ run.pc # "ending"
  BY <1>1 DEF Advances, Runs
<1>3. ASSUME NEW o, NEW s, Halt(o, s)
      PROVE  FALSE
  BY <1>1, <1>2, <1>3, HaltAdvances DEF Advances, Updating
<1>4. ASSUME NEW pc \in Stages \ Updating, Goto(pc)
      PROVE  FALSE
  BY <1>1, <1>2, <1>4, GotoAdvances DEF Advances
<1>5. {"snapshot", "recheck", "verify", "launch"} \subseteq Stages \ Updating
  BY DEF Stages, Before, After, Updating
<1>6. {"patch", "apply", "kubelet"} \subseteq Stages
  BY DEF Stages, After, Updating
<1>7. CASE Check \/ Snapshot \/ Recheck \/ CLIExited \/ CLIReaped
  BY <1>3, <1>4, <1>5, <1>7 DEF Check, Snapshot, Recheck, CLIExited, CLIReaped, NotStarted, Partial
<1>8. CASE Launch
  BY <1>2, <1>8 DEF Launch, Runs, Updating
<1>9. CASE Verify
  BY <1>2, <1>3, <1>9 DEF Verify, Partial, Runs, Updating
<1>10. CASE NextNode
  <2>1. run.i \in Nodes /\ run.pc = "node"
    BY <1>2, <1>10 DEF NextNode, Nodes, Running
  <2>2. CASE Goto("patch")
    BY <1>1, <1>2, <1>6, <2>1, <2>2, GotoAdvances DEF Advances
  <2>3. CASE run' = [run EXCEPT !.i = @ + 1, !.outcomes[run.i] = "completed"]
    BY <1>2, <2>1, <2>3 DEF Runs, Updating
  <2> QED
    BY <1>3, <1>10, <2>2, <2>3 DEF NextNode, StopBefore
<1>11. CASE NodesChanged \/ Final
  BY <1>3, <1>11 DEF NodesChanged, Final, StopBefore
<1>12. CASE Patch \/ Answered
  <2>1. run.i \in Nodes
    BY <1>12 DEF Patch, Answered, Running, ProgramTyped, Updating
  <2>2. Goto("apply") \/ Goto("kubelet")
    BY <1>3, <1>12 DEF Patch, Answered, StopAt
  <2> QED
    BY <1>1, <1>2, <1>6, <2>1, <2>2, GotoAdvances DEF Advances
<1>13. CASE Apply
  <2>1. run.i \in Nodes
    BY <1>13 DEF Apply, Running, ProgramTyped, Updating
  <2>2. run' = [run EXCEPT !.pc = "sent", !.sent = @ \cup {run.i}]
    BY <1>3, <1>13 DEF Apply, StopAt
  <2> QED
    BY <1>2, <2>1, <2>2 DEF Runs
<1>14. CASE KubeletDone
  BY <1>2, <1>3, <1>14 DEF KubeletDone, StopAt, Runs, Updating
<1>15. CASE CallFails
  <2>1. run.pc \in Stages \ {"ending", "cli"}
    BY <1>2, <1>15 DEF CallFails, Runs
  <2>2. PICK o, s : Halt(o, s)
    BY <1>15, <2>1
       DEF CallFails, NotStarted, Partial, StopBefore, StopAt, Stages, Before, After, Updating
  <2> QED
    BY <1>3, <2>2
<1> QED
  BY <1>7, <1>8, <1>9, <1>10, <1>11, <1>12, <1>13, <1>14, <1>15 DEF RunGoroutine

\* What the goroutine does to the world: it starts talosctl and waits for it, sends
\* a request, and takes what it has verified for evidence.
LEMMA GoroutineEffects ==
    ASSUME RunGoroutine, ProgramTyped
    PROVE  /\ UNCHANGED <<components, desired, manifests, kubelets, goal, dialog>>
           /\ \/ UNCHANGED wire
              \/ Apply /\ run.pc = "apply" /\ ~run.canceled /\ wire' = wire \cup {Request}
              \/ run.pc = "sent" /\ wire' = wire \ {Request}
           /\ \/ UNCHANGED cli /\ run.pc # "cli" /\ run'.pc # "cli"
              \/ Launch
              \/ run.pc = "cli" /\ cli' = [cli EXCEPT ![Own] = NoCLI] /\ run'.pc # "cli"
           /\ UNCHANGED evidence \/ Verify
<1> USE DEF Running, world
<1>1. UNCHANGED <<components, desired, manifests, kubelets, goal, dialog>>
  BY DEF RunGoroutine, Check, Snapshot, Recheck, Launch, CLIExited, CLIReaped, Verify, NextNode,
         NodesChanged, Final, Patch, Apply, Answered, KubeletDone, CallFails, Release
<1>2. \/ UNCHANGED wire
      \/ Apply /\ run.pc = "apply" /\ ~run.canceled /\ wire' = wire \cup {Request}
      \/ run.pc = "sent" /\ wire' = wire \ {Request}
  BY DEF RunGoroutine, Check, Snapshot, Recheck, Launch, CLIExited, CLIReaped, Verify, NextNode,
         NodesChanged, Final, Patch, Apply, Answered, KubeletDone, CallFails, Release
<1>3. UNCHANGED evidence \/ Verify
  BY DEF RunGoroutine, Check, Snapshot, Recheck, Launch, CLIExited, CLIReaped, NextNode,
         NodesChanged, Final, Patch, Apply, Answered, KubeletDone, CallFails, Release
<1>4. \/ UNCHANGED cli /\ run.pc # "cli" /\ run'.pc # "cli"
      \/ Launch
      \/ run.pc = "cli" /\ cli' = [cli EXCEPT ![Own] = NoCLI] /\ run'.pc # "cli"
  <2>1. ASSUME run.pc # "idle" PROVE run \in Runs
    BY <2>1 DEF ProgramTyped, NoRun
  <2>2. ASSUME NEW o, NEW s, Halt(o, s), run.pc # "idle"
        PROVE  run'.pc # "cli"
    BY <2>1, <2>2 DEF Halt, Runs
  <2>3. ASSUME NEW pc \in Stages \ {"cli"}, Goto(pc), run.pc # "idle"
        PROVE  run'.pc # "cli"
    BY <2>1, <2>3 DEF Goto, Runs
  <2>4. {"snapshot", "recheck", "verify", "launch", "patch", "apply", "kubelet"} \subseteq Stages \ {"cli"}
    BY DEF Stages, Before, After, Updating
  <2>5. CASE Check \/ Snapshot \/ Recheck
    BY <2>2, <2>3, <2>4, <2>5 DEF Check, Snapshot, Recheck, NotStarted
  <2>6. CASE CLIExited \/ CLIReaped
    BY <2>2, <2>3, <2>4, <2>6 DEF CLIExited, CLIReaped, Partial
  <2>7. CASE Verify
    BY <2>1, <2>2, <2>7 DEF Verify, Partial, Runs
  <2>8. CASE NextNode
    BY <2>1, <2>2, <2>3, <2>4, <2>8 DEF NextNode, StopBefore, Runs
  <2>9. CASE NodesChanged \/ Final
    BY <2>2, <2>9 DEF NodesChanged, Final, StopBefore
  <2>10. CASE Patch \/ Answered
    BY <2>2, <2>3, <2>4, <2>10 DEF Patch, Answered, StopAt
  <2>11. CASE Apply
    BY <2>1, <2>2, <2>11 DEF Apply, StopAt, Runs
  <2>12. CASE KubeletDone
    BY <2>1, <2>2, <2>12 DEF KubeletDone, StopAt, Runs
  <2>13. CASE CallFails
    <3>1. run.pc \in Stages \ {"ending", "cli"}
      BY <2>1, <2>13 DEF CallFails, Runs
    <3>2. PICK o, s : Halt(o, s)
      BY <2>13, <3>1
         DEF CallFails, NotStarted, Partial, StopBefore, StopAt, Stages, Before, After, Updating
    <3>3. run.pc \notin {"idle", "cli"} /\ UNCHANGED cli
      BY <2>13 DEF CallFails
    <3> QED
      BY <2>2, <3>2, <3>3
  <2>14. CASE Release
    BY <2>14 DEF Release, NoRun
  <2> QED
    BY <2>5, <2>6, <2>7, <2>8, <2>9, <2>10, <2>11, <2>12, <2>13, <2>14 DEF RunGoroutine
<1> QED
  BY <1>1, <1>2, <1>3, <1>4

-----------------------------------------------------------------------------
(* Messages and machines *)

\* A message is one that the dialog may get.
LEMMA MessageIs ==
    ASSUME NEW step \in Steps, NEW mine \in BOOLEAN, NEW plan \in Plans \cup Targets
    PROVE  LET m == Message(step, mine, plan)
           IN m \in Asks /\ m.step = step /\ m.mine = mine /\ m.live /\ ~m.over /\ m.plan = plan
BY DEF Message, Asks

\* What the dialog asks for, it is told of.
LEMMA OwnMessageIs ==
    ASSUME NEW step \in Steps, NEW plan \in Plans \cup Targets
    PROVE  /\ Message(step, TRUE, plan) \in Asks
           /\ Message(step, TRUE, plan).step = step /\ Message(step, TRUE, plan).plan = plan
BY DEF Message, Asks

\* What is left of a message when its request is canceled, when the dialog turns to
\* something else, and when its run has ended.
LEMMA MessageLater ==
    ASSUME NEW b \in Asks
    PROVE  /\ LET a == [b EXCEPT !.live = FALSE]
              IN a \in Asks /\ a.step = b.step /\ a.mine = b.mine /\ ~a.live /\ a.over = b.over /\ a.plan = b.plan
           /\ LET a == [b EXCEPT !.mine = FALSE, !.live = FALSE]
              IN a \in Asks /\ a.step = b.step /\ ~a.mine /\ ~a.live /\ a.over = b.over /\ a.plan = b.plan
           /\ LET a == [b EXCEPT !.over = TRUE]
              IN a \in Asks /\ a.step = b.step /\ a.mine = b.mine /\ a.live = b.live /\ a.over /\ a.plan = b.plan
BY DEF Asks

\* A run whose request is canceled, and one whose dialog is closed.
LEMMA RunLater ==
    ASSUME run \in Runs \cup {NoRun}
    PROVE  /\ run = NoRun => Canceled = NoRun /\ CanceledAndDisowned = NoRun
           /\ run # NoRun =>
                /\ run \in Runs /\ Canceled \in Runs /\ CanceledAndDisowned \in Runs
                /\ Canceled.canceled /\ Canceled.mine = run.mine /\ Canceled.held = run.held
                /\ CanceledAndDisowned.canceled /\ ~CanceledAndDisowned.mine
                /\ \A r \in {Canceled, CanceledAndDisowned} :
                      /\ r.pc = run.pc /\ r.plan = run.plan /\ r.base = run.base /\ r.i = run.i
                      /\ r.outcomes = run.outcomes /\ r.sent = run.sent
BY DEF Runs, Canceled, CanceledAndDisowned

\* A machine that carries out a request keeps what the request says; another image
\* takes its kubelet down, the version stays until it restarts.
LEMMA CarriedOutIs ==
    ASSUME ClusterTyped, NEW r \in wire, CarriedOut(r)
    PROVE  \E k \in Kubelets :
              /\ kubelets' = [kubelets EXCEPT ![r.n] = k]
              /\ k.image = r.image /\ k.version = kubelets[r.n].version
              /\ k.edits = r.edits /\ k.cordoned = kubelets[r.n].cordoned
              /\ k.ready <=> kubelets[r.n].ready /\ kubelets[r.n].image = r.image
<1>1. r \in Requests /\ r.n \in Nodes /\ r.image \in Versions /\ r.edits \in Nat
  BY DEF ClusterTyped, Requests
<1>2. kubelets[r.n] \in Kubelets
  BY <1>1 DEF ClusterTyped
<1>3. PICK b \in BOOLEAN : b = (kubelets[r.n].ready /\ kubelets[r.n].image = r.image)
  OBVIOUS
<1>4. kubelets' = [kubelets EXCEPT ![r.n] = [kubelets[r.n] EXCEPT !.image = r.image, !.edits = r.edits, !.ready = b]]
  BY <1>1, <1>2, <1>3 DEF CarriedOut, ClusterTyped
<1>5. PICK k : k = [kubelets[r.n] EXCEPT !.image = r.image, !.edits = r.edits, !.ready = b]
  OBVIOUS
<1>6. /\ k \in Kubelets /\ k.image = r.image /\ k.version = kubelets[r.n].version
      /\ k.edits = r.edits /\ k.cordoned = kubelets[r.n].cordoned /\ k.ready = b
  BY <1>1, <1>2, <1>5 DEF Kubelets
<1> QED
  BY <1>3, <1>4, <1>5, <1>6

\* A kubelet that restarts takes up its image, and is ready when it has.
LEMMA RestartIs ==
    ASSUME ClusterTyped, NEW n \in Nodes, KubeletRestarts(n)
    PROVE  \E k \in Kubelets :
              /\ kubelets' = [kubelets EXCEPT ![n] = k]
              /\ k.image = kubelets[n].image /\ k.version = kubelets[n].image /\ ~kubelets[n].ready
              /\ k.ready => kubelets[n].version = kubelets[n].image
<1>1. kubelets[n] \in Kubelets
  BY DEF ClusterTyped
<1>2. CASE kubelets[n].version = kubelets[n].image
  <2>1. PICK k : k = [kubelets[n] EXCEPT !.ready = TRUE]
    OBVIOUS
  <2>2. kubelets' = [kubelets EXCEPT ![n] = k]
    BY <1>1, <1>2, <2>1 DEF KubeletRestarts, ClusterTyped
  <2>3. k \in Kubelets /\ k.image = kubelets[n].image /\ k.version = kubelets[n].version
    BY <1>1, <2>1 DEF Kubelets
  <2> QED
    BY <1>2, <2>2, <2>3 DEF KubeletRestarts
<1>3. CASE kubelets[n].version # kubelets[n].image
  <2>1. PICK k : k = [kubelets[n] EXCEPT !.version = kubelets[n].image]
    OBVIOUS
  <2>2. kubelets' = [kubelets EXCEPT ![n] = k]
    BY <1>1, <1>3, <2>1 DEF KubeletRestarts, ClusterTyped
  <2>3. k \in Kubelets /\ k.image = kubelets[n].image /\ k.version = kubelets[n].image /\ k.ready = kubelets[n].ready
    BY <1>1, <2>1 DEF Kubelets
  <2> QED
    BY <2>2, <2>3 DEF KubeletRestarts
<1> QED
  BY <1>2, <1>3

\* An operator edits a configuration or cordons a node; the kubelet goes on.
LEMMA ChangeIs ==
    ASSUME ClusterTyped, NEW n \in Nodes, OperatorChanges(n)
    PROVE  \E k \in Kubelets :
              /\ kubelets' = [kubelets EXCEPT ![n] = k]
              /\ k.image = kubelets[n].image /\ k.version = kubelets[n].version /\ k.ready = kubelets[n].ready
<1>1. kubelets[n] \in Kubelets
  BY DEF ClusterTyped
<1>2. CASE kubelets' = [kubelets EXCEPT ![n].edits = @ + 1]
  <2>1. PICK k : k = [kubelets[n] EXCEPT !.edits = @ + 1]
    OBVIOUS
  <2>2. kubelets' = [kubelets EXCEPT ![n] = k]
    BY <1>1, <1>2, <2>1 DEF ClusterTyped
  <2>3. k \in Kubelets /\ k.image = kubelets[n].image /\ k.version = kubelets[n].version /\ k.ready = kubelets[n].ready
    BY <1>1, <2>1 DEF Kubelets
  <2> QED
    BY <2>2, <2>3
<1>3. CASE kubelets' = [kubelets EXCEPT ![n].cordoned = ~@]
  <2>1. PICK b \in BOOLEAN : b = ~kubelets[n].cordoned
    OBVIOUS
  <2>2. PICK k : k = [kubelets[n] EXCEPT !.cordoned = b]
    OBVIOUS
  <2>3. kubelets' = [kubelets EXCEPT ![n] = k]
    BY <1>1, <1>3, <2>1, <2>2 DEF ClusterTyped
  <2>4. k \in Kubelets /\ k.image = kubelets[n].image /\ k.version = kubelets[n].version /\ k.ready = kubelets[n].ready
    BY <1>1, <2>2 DEF Kubelets
  <2> QED
    BY <2>3, <2>4
<1> QED
  BY <1>2, <1>3 DEF OperatorChanges

-----------------------------------------------------------------------------
(* The types are kept *)

\* A request of the run is one that a machine understands.
LEMMA RequestTyped ==
    ASSUME ProgramTyped, run.pc \in Updating
    PROVE  /\ run \in Runs /\ Request \in Requests
           /\ Request.n = run.i /\ Request.image = run.plan.target
<1>1. run \in Runs
  BY DEF ProgramTyped, Updating, NoRun
<1>2. run.plan.target \in Versions /\ run.i \in Nodes /\ run.base[run.i].edits \in Nat
  BY <1>1 DEF ProgramTyped, Runs, Plans, Configs
<1> QED
  BY <1>1, <1>2 DEF Request, Requests

\* A talosctl that goes on or fails keeps its target, and is the only one to move.
LEMMA ProcessIs ==
    ASSUME ClusterTyped, NEW i \in Talosctls, CLISteps(i) \/ CLIFails(i)
    PROVE  /\ cli[i] \in CLIs
           /\ \E c \in CLIs :
                 /\ cli' = [cli EXCEPT ![i] = c] /\ c.target = cli[i].target
                 /\ \/ CLIFails(i) /\ c.step = "failed"
                    \/ CLISteps(i) /\ cli[i].step = "patch" /\ c.step = "settle"
                    \/ CLISteps(i) /\ cli[i].step = "settle" /\ c.step = "sync"
                    \/ CLISteps(i) /\ cli[i].step = "sync" /\ c.step = "ok"
<1>1. cli[i] \in CLIs
  BY DEF ClusterTyped, CLISteps, CLIFails, NoCLI
<1>2. PICK s \in {"settle", "sync", "ok", "failed"} :
          /\ cli' = [cli EXCEPT ![i].step = s]
          /\ \/ CLIFails(i) /\ s = "failed"
             \/ CLISteps(i) /\ cli[i].step = "patch" /\ s = "settle"
             \/ CLISteps(i) /\ cli[i].step = "settle" /\ s = "sync"
             \/ CLISteps(i) /\ cli[i].step = "sync" /\ s = "ok"
  BY DEF CLISteps, CLIFails
<1>3. PICK c : c = [cli[i] EXCEPT !.step = s]
  OBVIOUS
<1>4. cli' = [cli EXCEPT ![i] = c]
  BY <1>2, <1>3 DEF ClusterTyped
<1>5. c \in CLIs /\ c.target = cli[i].target /\ c.step = s
  BY <1>1, <1>3 DEF CLIs
<1> QED
  BY <1>1, <1>2, <1>4, <1>5

\* The talosctl processes keep their types.
LEMMA ProcessesTyped ==
    ASSUME ClusterTyped, ProgramTyped, [KubernetesNext]_kubernetesVars
    PROVE  cli' \in [Talosctls -> CLIs \cup {NoCLI}]
<1> USE DEF world
<1>0. cli \in [Talosctls -> CLIs \cup {NoCLI}] /\ Own \in Talosctls
  BY DEF ClusterTyped, Talosctls
<1>1. CASE UNCHANGED cli
  BY <1>0, <1>1
<1>2. ASSUME NEW i, NEW c \in CLIs \cup {NoCLI}, cli' = [cli EXCEPT ![i] = c]
      PROVE  cli' \in [Talosctls -> CLIs \cup {NoCLI}]
  BY <1>0, <1>2
<1>3. CASE Launch
  <2>1. run \in Runs
    BY <1>3 DEF Launch, Running, ProgramTyped, NoRun
  <2>2. run.plan.target \in Versions
    BY <2>1 DEF Runs, Plans
  <2>3. [step |-> "patch", target |-> run.plan.target] \in CLIs
    BY <2>2 DEF CLIs
  <2> QED
    BY <1>2, <1>3, <2>3 DEF Launch
<1>4. CASE RunGoroutine
  BY <1>1, <1>2, <1>3, <1>4, GoroutineEffects
<1>5. CASE CLIStep \/ CLIFailure
  BY <1>2, <1>5, ProcessIs DEF CLIStep, CLIFailure
<1>6. ASSUME NEW i \in Talosctls, OrphanEnds(i)
      PROVE  cli' \in [Talosctls -> CLIs \cup {NoCLI}]
  BY <1>2, <1>6 DEF OrphanEnds
<1>7. CASE Restart
  <2>1. cli' = [cli EXCEPT ![trouble + 1] = cli[Own], ![Own] = NoCLI]
    BY <1>7 DEF Restart
  <2> QED
    BY <1>0, <2>1
<1>8. CASE \/ PodsRestart \/ \E r \in wire : CarriedOut(r)
           \/ \E n \in Nodes : KubeletRestarts(n) \/ OperatorChanges(n)
  BY <1>1, <1>8 DEF PodsRestart, CarriedOut, KubeletRestarts, OperatorChanges
<1>9. CASE Messages
  BY <1>1, <1>9 DEF Messages, PrepareRuns, PreparedArrives, StartRuns, OpenedArrives, RefusedArrives,
                    FinishedArrives
<1>10. CASE Operator \/ Escape \/ Unknown \/ Leave \/ UNCHANGED kubernetesVars
  BY <1>1, <1>10 DEF Operator, PressEnter, Confirm, Dismiss, Escape, Unknown, Leave, kubernetesVars
<1> QED
  BY <1>4, <1>5, <1>6, <1>7, <1>8, <1>9, <1>10
     DEF KubernetesNext, Cluster, Adverse, CLIStep, CLIFailure

\* A talosctl at work has a target.
LEMMA ActiveTyped ==
    ASSUME ClusterTyped
    PROVE  \A i \in Talosctls : Active(i) => cli[i] \in CLIs /\ cli[i].target \in Versions
<1> SUFFICES ASSUME NEW i \in Talosctls, cli[i].step # "none"
             PROVE  cli[i] \in CLIs /\ cli[i].target \in Versions
  BY DEF Active
<1>1. cli[i] \in CLIs
  BY DEF ClusterTyped, NoCLI
<1> QED
  BY <1>1 DEF CLIs

\* The cluster keeps its types.
LEMMA ClusterTypeStep ==
    ASSUME ClusterTyped, ProgramTyped, [KubernetesNext]_kubernetesVars
    PROVE  ClusterTyped'
<1> USE DEF world
<1>1. CASE RunGoroutine
  <2>1. UNCHANGED <<components, desired, manifests, kubelets>>
    BY <1>1, GoroutineEffects
  <2>2. wire' \subseteq Requests
    <3>1. run.pc = "apply" => Request \in Requests
      BY RequestTyped DEF Updating
    <3> QED
      BY <1>1, <3>1, GoroutineEffects DEF ClusterTyped
  <2>3. cli' \in [Talosctls -> CLIs \cup {NoCLI}]
    BY ProcessesTyped
  <2>4. evidence' \subseteq Versions
    <3>1. CASE Verify
      <4>1. run \in Runs
        BY <3>1 DEF Verify, Running, ProgramTyped, NoRun
      <4>2. run.plan.target \in Versions
        BY <4>1 DEF Runs, Plans
      <4> QED
        BY <3>1, <4>2 DEF Verify, ClusterTyped
    <3> QED
      BY <1>1, <3>1, GoroutineEffects DEF ClusterTyped
  <2> QED
    BY <2>1, <2>2, <2>3, <2>4 DEF ClusterTyped
<1>2. ASSUME NEW i \in Talosctls, CLISteps(i)
      PROVE  ClusterTyped'
  <2>1. cli[i].target \in Versions
    BY <1>2, ProcessIs DEF CLIs
  <2>2. desired' \in Versions /\ manifests' \in Versions
    BY <1>2, <2>1 DEF CLISteps, ClusterTyped
  <2> QED
    BY <1>2, <2>2, ProcessesTyped DEF CLISteps, ClusterTyped
<1>3. ASSUME NEW i \in Talosctls, CLIFails(i) \/ OrphanEnds(i)
      PROVE  ClusterTyped'
  BY <1>3, ProcessesTyped DEF CLIFails, OrphanEnds, ClusterTyped
<1>4. CASE PodsRestart
  BY <1>4 DEF PodsRestart, ClusterTyped
<1>5. ASSUME NEW r \in wire, CarriedOut(r)
      PROVE  ClusterTyped'
  <2>1. PICK k \in Kubelets : kubelets' = [kubelets EXCEPT ![r.n] = k]
    BY <1>5, CarriedOutIs
  <2>2. kubelets' \in [Nodes -> Kubelets]
    BY <2>1 DEF ClusterTyped
  <2> QED
    BY <1>5, <2>2 DEF CarriedOut, ClusterTyped
<1>6. ASSUME NEW n \in Nodes, KubeletRestarts(n) \/ OperatorChanges(n)
      PROVE  ClusterTyped'
  <2>1. PICK k \in Kubelets : kubelets' = [kubelets EXCEPT ![n] = k]
    BY <1>6, RestartIs, ChangeIs
  <2>2. kubelets' \in [Nodes -> Kubelets]
    BY <2>1 DEF ClusterTyped
  <2> QED
    BY <1>6, <2>2 DEF KubeletRestarts, OperatorChanges, ClusterTyped
<1>7. ASSUME NEW a \in asks, \/ PrepareRuns(a) \/ PreparedArrives(a) \/ StartRuns(a)
                             \/ OpenedArrives(a) \/ RefusedArrives(a) \/ FinishedArrives(a)
      PROVE  ClusterTyped'
  BY <1>7 DEF PrepareRuns, PreparedArrives, StartRuns, OpenedArrives, RefusedArrives, FinishedArrives,
              ClusterTyped
<1>8. CASE Operator \/ Escape \/ Unknown \/ Leave \/ Restart
  BY <1>8, ProcessesTyped
     DEF Operator, PressEnter, Confirm, Dismiss, Escape, Unknown, Leave, Restart, ClusterTyped
<1>9. CASE UNCHANGED kubernetesVars
  BY <1>9 DEF kubernetesVars, ClusterTyped
<1> QED
  BY <1>1, <1>2, <1>3, <1>4, <1>5, <1>6, <1>7, <1>8, <1>9
     DEF KubernetesNext, Cluster, Messages, Adverse

\* Messages that were disowned are not the dialog's, and ask for nothing it pays for.
LEMMA DisownedAre ==
    ASSUME ProgramTyped
    PROVE  \A a \in Disowned : a \in Asks /\ Meant(a) /\ ~a.mine /\ ~a.live /\ a.step \in {"start", "opened"}
<1> SUFFICES ASSUME NEW b \in asks, b.step \in {"start", "opened"}, NEW a, a = [b EXCEPT !.mine = FALSE, !.live = FALSE]
             PROVE  a \in Asks /\ Meant(a) /\ ~a.mine /\ ~a.live /\ a.step \in {"start", "opened"}
  BY DEF Disowned
<1>1. b \in Asks /\ Meant(b)
  BY DEF ProgramTyped
<1>2. a \in Asks /\ a.step = b.step /\ ~a.mine /\ ~a.live /\ a.plan = b.plan
  BY <1>1, MessageLater
<1> QED
  BY <1>1, <1>2 DEF Meant

\* The messages when their requests are canceled, and when the run has ended.
Dead == {[a EXCEPT !.live = FALSE] : a \in asks}
Past == {[a EXCEPT !.over = TRUE] : a \in asks}

\* Messages whose request was canceled.
LEMMA DeadAre ==
    ASSUME ProgramTyped
    PROVE  \A a \in Dead :
              /\ a \in Asks /\ Meant(a) /\ ~a.live
              /\ \E b \in asks : /\ a = [b EXCEPT !.live = FALSE]
                               /\ a.step = b.step /\ a.mine = b.mine /\ a.over = b.over /\ a.plan = b.plan
<1> SUFFICES ASSUME NEW b \in asks, NEW a, a = [b EXCEPT !.live = FALSE]
             PROVE  /\ a \in Asks /\ Meant(a) /\ ~a.live
                    /\ a.step = b.step /\ a.mine = b.mine /\ a.over = b.over /\ a.plan = b.plan
  BY DEF Dead
<1>1. b \in Asks /\ Meant(b)
  BY DEF ProgramTyped
<1>2. a \in Asks /\ a.step = b.step /\ a.mine = b.mine /\ ~a.live /\ a.over = b.over /\ a.plan = b.plan
  BY <1>1, MessageLater
<1> QED
  BY <1>1, <1>2 DEF Meant

\* Messages whose run has ended.
LEMMA OverAre ==
    ASSUME ProgramTyped
    PROVE  \A a \in Past :
              /\ a \in Asks /\ Meant(a) /\ a.over
              /\ \E b \in asks : /\ a = [b EXCEPT !.over = TRUE]
                               /\ a.step = b.step /\ a.mine = b.mine /\ a.live = b.live /\ a.plan = b.plan
<1> SUFFICES ASSUME NEW b \in asks, NEW a, a = [b EXCEPT !.over = TRUE]
             PROVE  /\ a \in Asks /\ Meant(a) /\ a.over
                    /\ a.step = b.step /\ a.mine = b.mine /\ a.live = b.live /\ a.plan = b.plan
  BY DEF Past
<1>1. b \in Asks /\ Meant(b)
  BY DEF ProgramTyped
<1>2. a \in Asks /\ a.step = b.step /\ a.mine = b.mine /\ a.over /\ a.live = b.live /\ a.plan = b.plan
  BY <1>1, MessageLater
<1> QED
  BY <1>1, <1>2 DEF Meant

\* The answers that the dialog gets.
LEMMA AnswerMeant ==
    ASSUME NEW mine \in BOOLEAN
    PROVE  /\ \A step \in {"opened", "refused", "finished"} :
                Message(step, mine, NoPlan) \in Asks /\ Meant(Message(step, mine, NoPlan))
           /\ \A p \in Plans \cup {NoPlan} :
                Message("prepared", mine, p) \in Asks /\ Meant(Message("prepared", mine, p))
<1>1. NoPlan \in Plans \cup Targets /\ {"opened", "refused", "finished", "prepared"} \subseteq Steps
  BY NothingElse DEF Steps
<1>2. ASSUME NEW step \in {"opened", "refused", "finished"}
      PROVE  Message(step, mine, NoPlan) \in Asks /\ Meant(Message(step, mine, NoPlan))
  <2>1. step \in Steps
    BY <1>1
  <2>2. Message(step, mine, NoPlan) \in Asks /\ Message(step, mine, NoPlan).step = step
    BY <1>1, <2>1, MessageIs
  <2> QED
    BY <2>2 DEF Meant
<1>3. ASSUME NEW p \in Plans \cup {NoPlan}
      PROVE  Message("prepared", mine, p) \in Asks /\ Meant(Message("prepared", mine, p))
  <2>1. p \in Plans \cup Targets /\ "prepared" \in Steps
    BY <1>1
  <2>2. LET m == Message("prepared", mine, p) IN m \in Asks /\ m.step = "prepared" /\ m.plan = p
    BY <2>1, MessageIs
  <2> QED
    BY <2>2 DEF Meant
<1> QED
  BY <1>2, <1>3

\* A dialog that is closed is a new one.
LEMMA DialogTyped ==
    ASSUME ProgramTyped
    PROVE  /\ Editing \in Dialogs /\ Closed \in Dialogs
           /\ Editing.phase = "editing" /\ Editing.plan = NoPlan /\ Closed.phase = "editing" /\ Closed.plan = NoPlan
<1>1. Editing \in Dialogs /\ Editing.phase = "editing" /\ Editing.plan = NoPlan
  BY DEF Editing, Dialogs, Phases
<1>2. dialog.err \in BOOLEAN
  BY DEF ProgramTyped, Dialogs
<1>3. PICK e \in Dialogs : e = Editing
  BY <1>1
<1>4. Closed = [e EXCEPT !.err = dialog.err] /\ e.phase = "editing" /\ e.plan = NoPlan
  BY <1>1, <1>3 DEF Closed
<1>5. Closed \in Dialogs /\ Closed.phase = "editing" /\ Closed.plan = NoPlan
  BY <1>2, <1>4 DEF Dialogs
<1> QED
  BY <1>1, <1>5

\* A run that starts is at the first node of its plan.
LEMMA NewRunTyped ==
    ASSUME NEW a \in Asks, a.plan \in Plans
    PROVE  /\ NewRun(a) \in Runs /\ NewRun(a).pc = "check" /\ NewRun(a).plan = a.plan /\ NewRun(a).sent = {}
           /\ NewRun(a).mine = a.mine /\ NewRun(a).canceled = ~a.live /\ ~NewRun(a).held
<1>1. a.plan.seen \in [Nodes -> Configs]
  BY DEF Plans
<1>2. NoOutcomes \in [Nodes -> Fates]
  BY DEF NoOutcomes, Fates
<1>3. 1 \in 1 .. N + 1 /\ "check" \in Stages /\ {} \in SUBSET (0 .. N)
  BY KubernetesAssumption DEF Stages, Before
<1>4. a.mine \in BOOLEAN /\ a.live \in BOOLEAN
  BY DEF Asks
<1>5. PICK c \in BOOLEAN : c = ~a.live
  OBVIOUS
<1>6. NewRun(a) = [pc |-> "check", plan |-> a.plan, base |-> a.plan.seen, i |-> 1, outcomes |-> NoOutcomes,
                   sent |-> {}, canceled |-> c, mine |-> a.mine, held |-> FALSE]
  BY <1>5 DEF NewRun
<1> QED
  BY <1>1, <1>2, <1>3, <1>4, <1>5, <1>6 DEF Runs

\* The messages and the dialog keep their types.
LEMMA MessagesTypeStep ==
    ASSUME ClusterTyped, ProgramTyped, Messages
    PROVE  ProgramTyped'
<1> USE DEF Smooth, world
<1> PICK a \in asks : \/ PrepareRuns(a) \/ PreparedArrives(a) \/ StartRuns(a)
                      \/ OpenedArrives(a) \/ RefusedArrives(a) \/ FinishedArrives(a)
  BY DEF Messages
<1>0. /\ a \in Asks /\ a.mine \in BOOLEAN /\ Meant(a) /\ dialog \in Dialogs
      /\ asks \ {a} \subseteq Asks /\ \A b \in asks \ {a} : Meant(b)
      /\ goal \in Versions /\ run \in Runs \cup {NoRun} /\ (run.pc \in Updating => run.i \in Nodes)
  BY DEF ProgramTyped, Asks
<1>1. CASE PrepareRuns(a)
  <2>1. ASSUME NEW p \in Plans \cup {NoPlan}, asks' = (asks \ {a}) \cup {Message("prepared", a.mine, p)}
        PROVE  asks' \subseteq Asks /\ \A b \in asks' : Meant(b)
    BY <1>0, <2>1, AnswerMeant
  <2>2. a.plan.target \in Versions
    BY <1>0, <1>1 DEF PrepareRuns, Meant
  <2>3. PlanFor(a.plan.target) \in Plans
    BY <2>2, PlanTyped
  <2>4. asks' \subseteq Asks /\ \A b \in asks' : Meant(b)
    BY <1>0, <1>1, <2>1, <2>3 DEF PrepareRuns
  <2> QED
    BY <1>0, <1>1, <2>4 DEF PrepareRuns, ProgramTyped
<1>2. CASE PreparedArrives(a)
  <2>1. a.plan \in Plans \cup {NoPlan}
    BY <1>0, <1>2 DEF PreparedArrives, Meant
  <2>2. dialog' \in Dialogs
    BY <1>0, <1>2, <2>1 DEF PreparedArrives, Dialogs, Phases
  <2>3. goal' \in Versions
    BY <1>0, <1>2, KubernetesAssumption DEF PreparedArrives, OtherGoal, Versions
  <2> QED
    BY <1>0, <1>2, <2>2, <2>3 DEF PreparedArrives, ProgramTyped
<1>3. CASE StartRuns(a)
  <2>1. asks' \subseteq Asks /\ \A b \in asks' : Meant(b)
    BY <1>0, <1>3, AnswerMeant DEF StartRuns
  <2>2. a.plan \in Plans
    BY <1>0, <1>3 DEF StartRuns, Meant
  <2>3. NewRun(a) \in Runs /\ NewRun(a).pc \notin Updating
    BY <1>0, <2>2, NewRunTyped DEF Updating
  <2>4. run' \in Runs \cup {NoRun} /\ (run'.pc \in Updating => run'.i \in Nodes)
    BY <1>0, <1>3, <2>3 DEF StartRuns
  <2> QED
    BY <1>0, <1>3, <2>1, <2>4 DEF StartRuns, ProgramTyped
<1>4. CASE OpenedArrives(a)
  <2>1. asks' \subseteq Asks /\ \A b \in asks' : Meant(b)
    BY <1>0, <1>4, AnswerMeant DEF OpenedArrives
  <2>2. dialog' \in Dialogs
    BY <1>0, <1>4 DEF OpenedArrives, Dialogs
  <2>3. run' \in Runs \cup {NoRun} /\ (run'.pc \in Updating => run'.i \in Nodes)
    <3>1. CASE run' = run
      BY <1>0, <3>1
    <3>2. CASE run # NoRun /\ (run' = [run EXCEPT !.held = TRUE] \/ run' = [run EXCEPT !.canceled = TRUE])
      BY <1>0, <3>2 DEF Runs
    <3> QED
      BY <1>4, <3>1, <3>2 DEF OpenedArrives
  <2> QED
    BY <1>0, <1>4, <2>1, <2>2, <2>3 DEF OpenedArrives, ProgramTyped
<1>5. CASE RefusedArrives(a) \/ FinishedArrives(a)
  <2>1. dialog' \in Dialogs
    BY <1>0, <1>5 DEF RefusedArrives, FinishedArrives, Dialogs, Phases
  <2> QED
    BY <1>0, <1>5, <2>1 DEF RefusedArrives, FinishedArrives, ProgramTyped
<1> QED
  BY <1>1, <1>2, <1>3, <1>4, <1>5

\* So does everything else.
LEMMA ProgramTypeStep ==
    ASSUME ClusterTyped, ProgramTyped, [KubernetesNext]_kubernetesVars
    PROVE  ProgramTyped'
<1> USE DEF Smooth, world
<1>0. /\ asks \subseteq Asks /\ (\A b \in asks : Meant(b)) /\ dialog \in Dialogs /\ goal \in Versions
      /\ run \in Runs \cup {NoRun} /\ (run.pc \in Updating => run.i \in Nodes)
  BY DEF ProgramTyped
<1>a. Canceled \in Runs \cup {NoRun} /\ (Canceled.pc \in Updating => Canceled.i \in Nodes)
  BY <1>0, RunLater
<1>b. /\ CanceledAndDisowned \in Runs \cup {NoRun}
      /\ CanceledAndDisowned.pc \in Updating => CanceledAndDisowned.i \in Nodes
  BY <1>0, RunLater
<1>c. NoRun.pc \notin Updating
  BY DEF NoRun, Updating
<1>d. Dead \subseteq Asks /\ (\A b \in Dead : Meant(b)) /\ Disowned \subseteq Asks /\ (\A b \in Disowned : Meant(b))
  BY DeadAre, DisownedAre
<1>1. CASE RunGoroutine /\ ~Release
  <2>1. Advances
    BY <1>1, GoroutineAdvances
  <2>2. run'.pc \in Updating => run'.i \in Nodes
    BY <1>1, UpdatesNode
  <2> QED
    BY <1>0, <2>1, <2>2 DEF Advances, ProgramTyped
<1>2. CASE Release
  <2>1. Past \subseteq Asks /\ \A b \in Past : Meant(b)
    BY OverAre
  <2>2. asks' \subseteq Past \cup {Message("finished", TRUE, NoPlan)}
    BY <1>2 DEF Release, Past
  <2>3. asks' \subseteq Asks /\ \A b \in asks' : Meant(b)
    BY <2>1, <2>2, AnswerMeant
  <2> QED
    BY <1>0, <1>2, <1>c, <2>3 DEF Release, ProgramTyped
<1>3. CASE Cluster
  BY <1>0, <1>3 DEF Cluster, CLISteps, OrphanEnds, PodsRestart, CarriedOut, KubeletRestarts, ProgramTyped
<1>4. CASE Messages
  BY <1>4, MessagesTypeStep
<1>5. CASE PressEnter
  <2>1. [target |-> goal] \in Plans \cup Targets /\ "prepare" \in Steps
    BY <1>0 DEF Targets, Steps
  <2>2. /\ Message("prepare", TRUE, [target |-> goal]) \in Asks
        /\ Message("prepare", TRUE, [target |-> goal]).step = "prepare"
        /\ Message("prepare", TRUE, [target |-> goal]).plan = [target |-> goal]
    BY <2>1, OwnMessageIs
  <2>3. Meant(Message("prepare", TRUE, [target |-> goal]))
    <3>1. [target |-> goal].target \in Versions
      BY <1>0
    <3> QED
      BY <2>2, <3>1 DEF Meant
  <2>4. asks' \subseteq Asks /\ \A b \in asks' : Meant(b)
    BY <1>5, <1>d, <2>2, <2>3 DEF PressEnter
  <2>5. dialog' \in Dialogs
    BY <1>0, <1>5 DEF PressEnter, Dialogs, Phases
  <2> QED
    BY <1>0, <1>5, <1>b, <2>4, <2>5 DEF PressEnter, ProgramTyped
<1>6. CASE Confirm
  <2>1. dialog.plan \in Plans /\ dialog.plan \in Plans \cup Targets /\ "start" \in Steps
    BY <1>0, <1>6 DEF Confirm, Dialogs, Steps
  <2>2. /\ Message("start", TRUE, dialog.plan) \in Asks
        /\ Message("start", TRUE, dialog.plan).step = "start"
        /\ Message("start", TRUE, dialog.plan).plan = dialog.plan
    <3>1. PICK p \in Plans \cup Targets : p = dialog.plan
      BY <2>1
    <3> QED
      BY <2>1, <3>1, OwnMessageIs
  <2>3. Meant(Message("start", TRUE, dialog.plan))
    BY <2>1, <2>2 DEF Meant
  <2>4. asks' = Dead \cup {Message("start", TRUE, dialog.plan)}
    BY <1>6 DEF Confirm, Dead
  <2>5. asks' \subseteq Asks /\ \A b \in asks' : Meant(b)
    BY <1>d, <2>2, <2>3, <2>4
  <2>6. dialog' \in Dialogs
    BY <1>0, <1>6 DEF Confirm, Dialogs, Phases
  <2> QED
    BY <1>0, <1>6, <1>a, <2>5, <2>6 DEF Confirm, ProgramTyped
<1>7. CASE Dismiss \/ Unknown
  <2>1. asks' = Dead /\ dialog' \in {Editing, Closed} /\ run' = Canceled /\ UNCHANGED goal
    BY <1>7 DEF Dismiss, Unknown, Dead
  <2> QED
    BY <1>0, <1>a, <1>d, <2>1, DialogTyped DEF ProgramTyped
<1>8. CASE Leave \/ Restart
  <2>1. asks' \subseteq Disowned /\ dialog' = Editing /\ run' \in {NoRun, CanceledAndDisowned} /\ UNCHANGED goal
    BY <1>8 DEF Leave, Restart
  <2> QED
    BY <1>0, <1>b, <1>c, <1>d, <2>1, DialogTyped DEF ProgramTyped
<1>9. CASE Escape
  BY <1>0, <1>9, <1>a DEF Escape, ProgramTyped
<1>10. CASE CLIFailure \/ \E n \in Nodes : OperatorChanges(n)
  BY <1>0, <1>10 DEF CLIFailure, CLIFails, OperatorChanges, ProgramTyped
<1>11. CASE UNCHANGED kubernetesVars
  BY <1>0, <1>11 DEF kubernetesVars, ProgramTyped
<1> QED
  BY <1>1, <1>2, <1>3, <1>4, <1>5, <1>6, <1>7, <1>8, <1>9, <1>10, <1>11
     DEF KubernetesNext, Operator, Adverse, CLIFailure, RunGoroutine

-----------------------------------------------------------------------------
(* The conversation of the dialog with its commands                        *)

IdleOrDisowned == run # NoRun => run.canceled /\ ~run.mine
Reviewed == dialog.phase = "reviewing" /\ dialog.plan # NoPlan

\* Where a message finds the dialog and the run.
Fits(a) ==
    /\ a.step \in {"prepare", "prepared", "finished"} => a.mine
    /\ a.step \in {"prepare", "prepared"} => dialog.phase \in {"editing", "preparing"}
    /\ a.step = "start" /\ a.live => a.mine /\ dialog.phase = "running"
    /\ a.mine /\ a.step \in {"start", "refused", "finished"} => IdleOrDisowned
    /\ a.mine /\ a.step = "opened" /\ a.over => IdleOrDisowned
    /\ a.mine /\ run # NoRun /\ run.mine => a.step = "opened" /\ ~a.over /\ ~run.held
    /\ a.mine /\ dialog.phase = "preparing" => a.step \in {"prepare", "prepared"}
    /\ a.mine => ~Reviewed

\* One conversation at a time, whatever is left of earlier ones.
Single == \A a, b \in asks : a.mine /\ b.mine => a = b

\* A run that nobody has canceled is the one that the dialog shows.
Attended ==
    /\ dialog.phase \in {"editing", "preparing"} => dialog.plan = NoPlan
    /\ dialog.phase = "running" => dialog.plan # NoPlan
    /\ dialog.phase = "preparing" \/ Reviewed => IdleOrDisowned
    /\ run # NoRun /\ ~run.canceled => run.mine /\ dialog.phase = "running"

Conversation == Single /\ Attended /\ \A a \in asks : Fits(a)

\* What comes of a preparation.
LEMMA PreparedIs ==
    ASSUME ClusterTyped, ProgramTyped, NEW a \in asks, PrepareRuns(a)
    PROVE  \/ asks' = asks \ {a}
           \/ \E p \in Plans \cup {NoPlan} :
                /\ asks' = (asks \ {a}) \cup {Message("prepared", a.mine, p)}
                /\ p \in Plans => Assessable(a.plan.target) /\ p = PlanFor(a.plan.target)
<1>1. a.plan.target \in Versions
  BY DEF PrepareRuns, ProgramTyped, Meant
<1>2. PlanFor(a.plan.target) \in Plans
  BY <1>1, PlanTyped
<1> QED
  BY <1>2, NothingElse DEF PrepareRuns

\* Messages of the dialog keep the conversation.
LEMMA MessagesConverse ==
    ASSUME ClusterTyped, ProgramTyped, Conversation, Messages
    PROVE  Conversation'
<1> PICK a \in asks : \/ PrepareRuns(a) \/ PreparedArrives(a) \/ StartRuns(a)
                      \/ OpenedArrives(a) \/ RefusedArrives(a) \/ FinishedArrives(a)
  BY DEF Messages
<1>0. /\ a \in Asks /\ a.mine \in BOOLEAN /\ Meant(a) /\ dialog \in Dialogs /\ run \in Runs \cup {NoRun}
      /\ Fits(a) /\ Single /\ Attended /\ (\A b \in asks : Fits(b))
      /\ NoPlan \notin Plans /\ NoPlan \in Plans \cup Targets /\ NoRun \notin Runs
  BY NothingElse DEF ProgramTyped, Conversation, Asks
<1>m. ASSUME NEW step \in {"prepared", "opened", "refused", "finished"}, NEW p \in Plans \cup {NoPlan}
      PROVE  LET m == Message(step, a.mine, p)
             IN m \in Asks /\ m.step = step /\ m.mine = a.mine /\ ~m.over
  <2>1. step \in Steps /\ p \in Plans \cup Targets
    BY <1>0 DEF Steps
  <2> QED
    BY <1>0, <2>1, MessageIs
<1>1. CASE PrepareRuns(a)
  <2>1. UNCHANGED <<dialog, run>> /\ a.step = "prepare" /\ a.mine
    BY <1>0, <1>1 DEF PrepareRuns, Fits
  <2>2. CASE asks' = asks \ {a}
    BY <1>0, <2>1, <2>2 DEF Conversation, Single, Attended, Fits, IdleOrDisowned, Reviewed
  <2>3. ASSUME NEW p \in Plans \cup {NoPlan}, asks' = (asks \ {a}) \cup {Message("prepared", a.mine, p)}
        PROVE  Conversation'
    <3>1. PICK m : m = Message("prepared", a.mine, p)
      OBVIOUS
    <3>2. m \in Asks /\ m.step = "prepared" /\ m.mine /\ asks' = (asks \ {a}) \cup {m}
      <4>1. m \in Asks /\ m.step = "prepared" /\ m.mine = a.mine
        BY <1>m, <3>1
      <4>2. asks' = (asks \ {a}) \cup {m}
        BY <2>3, <3>1
      <4> QED
        BY <2>1, <4>1, <4>2
    <3>3. ASSUME NEW b \in asks'
          PROVE  Fits(b)'
      <4>1. CASE b = m
        BY <1>0, <2>1, <3>2, <4>1 DEF Fits, IdleOrDisowned, Reviewed
      <4>2. CASE b \in asks
        BY <1>0, <2>1, <4>2 DEF Fits, IdleOrDisowned, Reviewed
      <4> QED
        BY <3>2, <4>1, <4>2
    <3>4. Single'
      BY <1>0, <2>1, <3>2 DEF Single
    <3> QED
      BY <1>0, <2>1, <3>3, <3>4 DEF Conversation, Attended, IdleOrDisowned, Reviewed
  <2> QED
    BY <1>1, <2>2, <2>3, PreparedIs
<1>2. CASE PreparedArrives(a)
  <2>1. /\ asks' = asks \ {a} /\ UNCHANGED run /\ a.step = "prepared" /\ a.mine
        /\ dialog.phase \in {"editing", "preparing"} /\ dialog.plan = NoPlan
        /\ \A b \in asks' : ~b.mine
    BY <1>0, <1>2 DEF PreparedArrives, Fits, Attended, Single
  <2>2. IdleOrDisowned \/ (run # NoRun /\ run.mine)
    BY <1>0, <2>1 DEF Attended, IdleOrDisowned
  <2>3. IdleOrDisowned
    BY <1>0, <2>1, <2>2 DEF Fits
  <2>4. (dialog'.phase = "editing" /\ dialog'.plan = NoPlan) \/ dialog'.phase = "reviewing"
    BY <1>0, <1>2, <2>1 DEF PreparedArrives, Dialogs
  <2>5. \A b \in asks' : Fits(b)'
    BY <1>0, <2>1, <2>4 DEF Fits, IdleOrDisowned, Reviewed
  <2> QED
    BY <1>0, <2>1, <2>3, <2>4, <2>5 DEF Conversation, Single, Attended, IdleOrDisowned, Reviewed
<1>3. CASE StartRuns(a)
  <2>1. UNCHANGED dialog /\ a.step = "start" /\ a.plan \in Plans
    BY <1>0, <1>3 DEF StartRuns, Meant
  <2>2. CASE run' = NewRun(a) /\ run = NoRun /\ asks' = (asks \ {a}) \cup {Message("opened", a.mine, NoPlan)}
    <3>1. PICK m : m = Message("opened", a.mine, NoPlan)
      OBVIOUS
    <3>2. m \in Asks /\ m.step = "opened" /\ m.mine = a.mine /\ ~m.over /\ asks' = (asks \ {a}) \cup {m}
      BY <1>m, <2>2, <3>1
    <3>3. run' \in Runs /\ run'.mine = a.mine /\ run'.canceled = ~a.live /\ ~run'.held
      BY <1>0, <2>1, <2>2, NewRunTyped
    <3>4. Single'
      BY <1>0, <3>2 DEF Single
    <3>5. a.mine => \A b \in asks \ {a} : ~b.mine
      BY <1>0 DEF Single
    <3>6. a.live => a.mine /\ dialog.phase = "running"
      BY <1>0, <2>1 DEF Fits
    <3>7. a.mine => dialog.phase # "preparing" /\ ~Reviewed
      BY <1>0, <2>1 DEF Fits
    <3>8. ASSUME NEW b \in asks \ {a}
          PROVE  Fits(b)'
      <4>1. CASE a.mine
        BY <1>0, <2>1, <3>5, <4>1, <3>8 DEF Fits
      <4>2. CASE ~a.mine
        <5>1. (run # NoRun => run.canceled /\ ~run.mine)'
          BY <1>0, <3>3, <3>6, <4>2
        <5>2. IdleOrDisowned' /\ ~run'.mine
          BY <3>3, <4>2, <5>1 DEF IdleOrDisowned
        <5> QED
          BY <1>0, <2>1, <5>2, <3>8 DEF Fits, Reviewed
      <4> QED
        BY <4>1, <4>2
    <3>9. Fits(m)'
      BY <1>0, <2>1, <3>2, <3>3, <3>7 DEF Fits, Reviewed
    <3>10. Attended'
      <4>1. (dialog.phase = "preparing" \/ Reviewed => IdleOrDisowned)'
        BY <1>0, <2>1, <3>3, <3>6, <3>7 DEF IdleOrDisowned, Reviewed
      <4>2. (run # NoRun /\ ~run.canceled => run.mine /\ dialog.phase = "running")'
        BY <1>0, <2>1, <3>3, <3>6
      <4> QED
        BY <1>0, <2>1, <4>1, <4>2 DEF Attended
    <3> QED
      BY <3>2, <3>4, <3>8, <3>9, <3>10 DEF Conversation
  <2>3. CASE UNCHANGED run /\ asks' = (asks \ {a}) \cup {Message("refused", a.mine, NoPlan)}
    <3>1. PICK m : m = Message("refused", a.mine, NoPlan)
      OBVIOUS
    <3>2. m \in Asks /\ m.step = "refused" /\ m.mine = a.mine /\ asks' = (asks \ {a}) \cup {m}
      BY <1>m, <2>3, <3>1
    <3>3. \A b \in asks' : Fits(b)'
      BY <1>0, <2>1, <2>3, <3>2 DEF Fits, IdleOrDisowned, Reviewed
    <3>4. Single'
      BY <1>0, <2>1, <3>2 DEF Single
    <3> QED
      BY <1>0, <2>1, <2>3, <3>3, <3>4 DEF Conversation, Attended, IdleOrDisowned, Reviewed
  <2>4. CASE UNCHANGED run /\ asks' = asks \ {a}
    BY <1>0, <2>1, <2>4 DEF Conversation, Single, Attended, Fits, IdleOrDisowned, Reviewed
  <2> QED
    BY <1>3, <2>2, <2>3, <2>4 DEF StartRuns
<1>4. CASE OpenedArrives(a)
  <2>1. /\ a.step = "opened" /\ dialog' \in Dialogs
        /\ dialog'.phase = dialog.phase /\ dialog'.plan = dialog.plan
    BY <1>0, <1>4 DEF OpenedArrives, Dialogs
  <2>2. /\ run = NoRun => run' = NoRun
        /\ run # NoRun => /\ run' \in Runs /\ run'.mine = run.mine
                          /\ run'.canceled = run.canceled \/ (run'.canceled /\ ~a.mine /\ ~a.over)
                          /\ run'.held = run.held \/ (run'.held /\ a.mine /\ ~a.over)
    BY <1>0, <1>4 DEF OpenedArrives, Runs
  <2>3. Attended'
    BY <1>0, <2>1, <2>2 DEF Attended, IdleOrDisowned, Reviewed
  <2>4. a.mine => \A b \in asks \ {a} : ~b.mine
    BY <1>0 DEF Single
  <2>5. ASSUME NEW b \in asks \ {a}
        PROVE  Fits(b)'
    <3>1. IdleOrDisowned => IdleOrDisowned'
      BY <1>0, <2>2 DEF IdleOrDisowned
    <3>2. CASE a.mine
      BY <1>0, <2>1, <2>4, <2>5, <3>2 DEF Fits
    <3>3. CASE ~a.mine
      BY <1>0, <2>1, <2>2, <2>5, <3>1, <3>3 DEF Fits, Reviewed
    <3> QED
      BY <3>2, <3>3
  <2>6. CASE asks' = asks \ {a}
    BY <1>0, <2>3, <2>5, <2>6 DEF Conversation, Single
  <2>7. CASE a.mine /\ a.over /\ asks' = (asks \ {a}) \cup {Message("finished", TRUE, NoPlan)}
    <3>1. PICK m : m = Message("finished", TRUE, NoPlan)
      OBVIOUS
    <3>2. m \in Asks /\ m.step = "finished" /\ m.mine /\ asks' = (asks \ {a}) \cup {m}
      BY <1>0, <1>m, <2>7, <3>1
    <3>3. IdleOrDisowned
      BY <1>0, <2>1, <2>7 DEF Fits
    <3>4. IdleOrDisowned'
      BY <1>0, <2>2, <3>3 DEF IdleOrDisowned
    <3>5. dialog.phase # "preparing" /\ ~Reviewed
      BY <1>0, <2>1, <2>7 DEF Fits
    <3>6. Fits(m)'
      BY <1>0, <2>1, <3>2, <3>4, <3>5 DEF Fits, IdleOrDisowned, Reviewed
    <3>7. Single'
      BY <2>4, <2>7, <3>2 DEF Single
    <3> QED
      BY <2>3, <2>5, <3>2, <3>6, <3>7 DEF Conversation
  <2> QED
    BY <1>4, <2>6, <2>7 DEF OpenedArrives
<1>5. CASE RefusedArrives(a)
  <2>1. /\ a.step = "refused" /\ asks' = asks \ {a} /\ UNCHANGED run
        /\ a.mine => IdleOrDisowned /\ dialog'.phase = "reviewing" /\ dialog'.plan = dialog.plan
        /\ ~a.mine => UNCHANGED dialog
    BY <1>0, <1>5 DEF RefusedArrives, Fits, Dialogs
  <2>2. a.mine => \A b \in asks \ {a} : ~b.mine
    BY <1>0 DEF Single
  <2>3. Single'
    BY <1>0, <2>1 DEF Single
  <2>4. CASE ~a.mine
    BY <1>0, <2>1, <2>3, <2>4 DEF Conversation, Attended, Fits, IdleOrDisowned, Reviewed
  <2>5. CASE a.mine
    <3>1. Attended'
      BY <1>0, <2>1, <2>5 DEF Attended, IdleOrDisowned
    <3>2. \A b \in asks' : b.step \notin {"prepare", "prepared", "finished"} /\ ~(b.step = "start" /\ b.live) /\ ~b.mine
      BY <1>0, <2>1, <2>2, <2>5 DEF Fits
    <3>3. \A b \in asks' : Fits(b)'
      BY <3>2 DEF Fits
    <3> QED
      BY <2>3, <3>1, <3>3 DEF Conversation
  <2> QED
    BY <1>0, <2>4, <2>5
<1>6. CASE FinishedArrives(a)
  <2>1. /\ a.step = "finished" /\ a.mine /\ asks' = asks \ {a} /\ UNCHANGED run /\ IdleOrDisowned
        /\ dialog'.phase = "complete" /\ dialog'.plan = dialog.plan
    BY <1>0, <1>6 DEF FinishedArrives, Fits, Dialogs
  <2>2. \A b \in asks \ {a} : ~b.mine
    BY <1>0, <2>1 DEF Single
  <2>3. Attended'
    BY <1>0, <2>1 DEF Attended, IdleOrDisowned, Reviewed
  <2>4. \A b \in asks' : b.step \notin {"prepare", "prepared", "finished"} /\ ~(b.step = "start" /\ b.live) /\ ~b.mine
    BY <1>0, <2>1, <2>2 DEF Fits
  <2>5. \A b \in asks' : Fits(b)'
    BY <2>4 DEF Fits
  <2> QED
    BY <2>1, <2>2, <2>3, <2>5 DEF Conversation, Single
<1> QED
  BY <1>1, <1>2, <1>3, <1>4, <1>5, <1>6

\* So does everything else.
LEMMA ConversationStep ==
    ASSUME ClusterTyped, ProgramTyped, Conversation, [KubernetesNext]_kubernetesVars
    PROVE  Conversation'
<1> USE DEF world
<1>0. /\ asks \subseteq Asks /\ dialog \in Dialogs /\ run \in Runs \cup {NoRun}
      /\ Single /\ Attended /\ (\A b \in asks : Fits(b))
      /\ NoPlan \notin Plans /\ NoPlan \in Plans \cup Targets /\ NoRun \notin Runs
  BY NothingElse DEF ProgramTyped, Conversation
<1>s. \A b \in Asks : b.step \in Steps /\ b.mine \in BOOLEAN
  BY DEF Asks
<1>1. CASE RunGoroutine /\ ~Release
  <2>1. Advances
    BY <1>1, GoroutineAdvances
  <2> QED
    BY <1>0, <2>1 DEF Advances, Conversation, Single, Attended, Fits, IdleOrDisowned, Reviewed
<1>2. CASE Release
  <2>1. /\ run' = NoRun /\ UNCHANGED dialog /\ run.pc = "ending"
        /\ asks' = Past \/ asks' = Past \cup {Message("finished", TRUE, NoPlan)}
        /\ asks' # Past => run.held /\ run.mine
    BY <1>2 DEF Release, Past
  <2>2. run \in Runs /\ IdleOrDisowned' /\ run'= NoRun
    BY <1>0, <2>1 DEF IdleOrDisowned, NoRun
  <2>3. Attended'
    BY <1>0, <2>1, <2>2 DEF Attended, Reviewed
  <2>4. \A b \in Past : Fits(b)'
    <3>1. ASSUME NEW b \in Past, NEW c \in asks, b.step = c.step, b.mine = c.mine, b.live = c.live
          PROVE  Fits(b)'
      BY <1>0, <2>1, <2>2, <3>1 DEF Fits, Reviewed
    <3> QED
      BY <3>1, OverAre
  <2>5. \A b, c \in Past : b.mine /\ c.mine => b = c
    <3>1. ASSUME NEW b \in Past, NEW c \in Past, b.mine, c.mine,
                 NEW d \in asks, b = [d EXCEPT !.over = TRUE], b.mine = d.mine,
                 NEW e \in asks, c = [e EXCEPT !.over = TRUE], c.mine = e.mine
          PROVE  b = c
      BY <1>0, <3>1 DEF Single
    <3> QED
      BY <3>1, OverAre
  <2>6. CASE asks' = Past
    BY <2>3, <2>4, <2>5, <2>6 DEF Conversation, Single
  <2>7. CASE asks' = Past \cup {Message("finished", TRUE, NoPlan)} /\ run.held /\ run.mine
    <3>1. PICK m : m = Message("finished", TRUE, NoPlan)
      OBVIOUS
    <3>2. m \in Asks /\ m.step = "finished" /\ m.mine
      <4>1. "finished" \in Steps
        BY DEF Steps
      <4> QED
        BY <1>0, <3>1, <4>1, MessageIs
    <3>3. \A b \in asks : ~b.mine
      BY <1>0, <2>2, <2>7 DEF Fits
    <3>4. \A b \in Past : ~b.mine
      BY <3>3, OverAre
    <3>5. dialog.phase # "preparing" /\ ~Reviewed
      BY <1>0, <2>2, <2>7 DEF Attended, IdleOrDisowned
    <3>6. Fits(m)'
      BY <2>1, <2>2, <3>2, <3>5 DEF Fits, Reviewed
    <3> QED
      BY <2>3, <2>4, <2>7, <3>1, <3>4, <3>6 DEF Conversation, Single
  <2> QED
    BY <2>1, <2>6, <2>7
<1>3. CASE Cluster
  <2>1. UNCHANGED <<dialog, asks, run>>
    BY <1>3 DEF Cluster, CLISteps, OrphanEnds, PodsRestart, CarriedOut, KubeletRestarts
  <2> QED
    BY <1>0, <2>1 DEF Conversation, Single, Attended, Fits, IdleOrDisowned, Reviewed
<1>4. CASE Messages
  BY <1>4, MessagesConverse
<1>5. CASE PressEnter
  <2>1. PICK m : m = Message("prepare", TRUE, [target |-> goal])
    OBVIOUS
  <2>2. /\ m.step = "prepare" /\ asks' = Disowned \cup {m} /\ run' = CanceledAndDisowned
        /\ dialog' = [dialog EXCEPT !.phase = "preparing", !.err = FALSE] /\ dialog.phase = "editing"
    BY <1>5, <2>1 DEF PressEnter, Message
  <2>3. dialog'.phase = "preparing" /\ dialog'.plan = NoPlan
    BY <1>0, <2>2 DEF Attended, Dialogs
  <2>4. IdleOrDisowned'
    BY <1>0, <2>2, RunLater DEF IdleOrDisowned
  <2>5. Attended'
    BY <2>3, <2>4 DEF Attended, IdleOrDisowned
  <2>6. \A b \in Disowned : Fits(b)' /\ ~b.mine
    BY DisownedAre DEF Fits
  <2>7. Fits(m)'
    BY <2>1, <2>2, <2>3, <2>4 DEF Fits, IdleOrDisowned, Reviewed, Message
  <2> QED
    BY <2>2, <2>5, <2>6, <2>7 DEF Conversation, Single
<1>6. CASE Confirm
  <2>1. PICK m : m = Message("start", TRUE, dialog.plan)
    OBVIOUS
  <2>2. m.step = "start" /\ m.mine /\ asks' = Dead \cup {m} /\ run' = Canceled /\ Reviewed
        /\ dialog' = [dialog EXCEPT !.phase = "running", !.err = FALSE]
    BY <1>6, <2>1 DEF Confirm, Message, Dead, Reviewed
  <2>3. dialog'.phase = "running" /\ dialog'.plan # NoPlan
    BY <1>0, <2>2 DEF Dialogs, Reviewed
  <2>4. \A b \in asks : ~b.mine
    BY <1>0, <1>s, <2>2 DEF Fits
  <2>5. IdleOrDisowned
    BY <1>0, <2>2 DEF Attended
  <2>6. IdleOrDisowned'
    BY <1>0, <2>2, <2>5, RunLater DEF IdleOrDisowned
  <2>7. Attended'
    BY <2>3, <2>6 DEF Attended, IdleOrDisowned, Reviewed
  <2>8. ASSUME NEW b \in Dead
        PROVE  Fits(b)' /\ ~b.mine
    <3>1. PICK c \in asks : ~b.live /\ b.step = c.step /\ b.mine = c.mine
      BY DeadAre
    <3>2. b.step \notin {"prepare", "prepared", "finished"} /\ ~b.mine
      BY <1>0, <2>2, <2>4, <3>1 DEF Fits, Reviewed
    <3> QED
      BY <3>1, <3>2 DEF Fits
  <2>9. Fits(m)'
    BY <2>2, <2>3, <2>6 DEF Fits, IdleOrDisowned, Reviewed
  <2> QED
    BY <2>2, <2>7, <2>8, <2>9 DEF Conversation, Single
<1>7. CASE Dismiss \/ Unknown
  <2>1. asks' = Dead /\ dialog' \in {Editing, Closed} /\ run' = Canceled
    BY <1>7 DEF Dismiss, Unknown, Dead
  <2>2. dialog'.phase = "editing" /\ dialog'.plan = NoPlan
    BY <2>1, DialogTyped
  <2>3. /\ run = NoRun <=> run' = NoRun
        /\ run # NoRun => run'.canceled /\ run'.mine = run.mine /\ run'.held = run.held
    BY <1>0, <2>1, RunLater
  <2>4. Attended'
    BY <2>2, <2>3 DEF Attended, Reviewed
  <2>5. ASSUME NEW b \in Dead
        PROVE  Fits(b)'
    <3>1. PICK c \in asks : ~b.live /\ b.step = c.step /\ b.mine = c.mine /\ b.over = c.over
      BY DeadAre
    <3>2. IdleOrDisowned => IdleOrDisowned'
      BY <2>3 DEF IdleOrDisowned
    <3>3. Fits(c)
      BY <1>0
    <3> QED
      BY <2>2, <2>3, <3>1, <3>2, <3>3 DEF Fits, Reviewed
  <2>6. \A b, c \in Dead : b.mine /\ c.mine => b = c
    <3>1. ASSUME NEW b \in Dead, NEW c \in Dead, b.mine, c.mine,
                 NEW d \in asks, b = [d EXCEPT !.live = FALSE], b.mine = d.mine,
                 NEW e \in asks, c = [e EXCEPT !.live = FALSE], c.mine = e.mine
          PROVE  b = c
      BY <1>0, <3>1 DEF Single
    <3> QED
      BY <3>1, DeadAre
  <2> QED
    BY <2>1, <2>4, <2>5, <2>6 DEF Conversation, Single
<1>8. CASE Leave \/ Restart
  <2>1. asks' \subseteq Disowned /\ dialog' = Editing /\ run' \in {NoRun, CanceledAndDisowned}
    BY <1>8 DEF Leave, Restart
  <2>2. dialog'.phase = "editing" /\ dialog'.plan = NoPlan
    BY <2>1, DialogTyped
  <2>3. run' = NoRun \/ (run'.canceled /\ ~run'.mine)
    BY <1>0, <2>1, RunLater
  <2>4. Attended'
    BY <2>2, <2>3 DEF Attended, Reviewed
  <2>5. \A b \in Disowned : Fits(b)' /\ ~b.mine
    BY DisownedAre DEF Fits
  <2> QED
    BY <2>1, <2>4, <2>5 DEF Conversation, Single
<1>9. CASE Escape
  <2>1. UNCHANGED <<dialog, asks>> /\ (run' = run \/ run' = Canceled)
    BY <1>9 DEF Escape
  <2>2. /\ run = NoRun <=> run' = NoRun
        /\ run # NoRun => /\ run.canceled => run'.canceled
                          /\ run'.mine = run.mine /\ run'.held = run.held
    BY <1>0, <2>1, RunLater DEF Runs
  <2>3. Attended'
    BY <1>0, <2>1, <2>2 DEF Attended, IdleOrDisowned, Reviewed
  <2>4. IdleOrDisowned => IdleOrDisowned'
    BY <2>2 DEF IdleOrDisowned
  <2>5. \A b \in asks' : Fits(b)'
    BY <1>0, <2>1, <2>2, <2>4 DEF Fits, Reviewed
  <2> QED
    BY <1>0, <2>1, <2>3, <2>5 DEF Conversation, Single
<1>10. CASE CLIFailure \/ (\E n \in Nodes : OperatorChanges(n)) \/ UNCHANGED kubernetesVars
  <2>1. UNCHANGED <<dialog, asks, run>>
    BY <1>10 DEF CLIFailure, CLIFails, OperatorChanges, kubernetesVars
  <2> QED
    BY <1>0, <2>1 DEF Conversation, Single, Attended, Fits, IdleOrDisowned, Reviewed
<1> QED
  BY <1>1, <1>2, <1>3, <1>4, <1>5, <1>6, <1>7, <1>8, <1>9, <1>10
     DEF KubernetesNext, Operator, Adverse, CLIFailure, RunGoroutine

-----------------------------------------------------------------------------
(* The talosctl processes                                                  *)

\* A talosctl is started by its run, goes on by itself, and ends; with the program it becomes an
\* orphan.
LEMMA CLIMoves ==
    ASSUME ClusterTyped, ProgramTyped, [KubernetesNext]_kubernetesVars
    PROVE  \/ UNCHANGED cli
           \/ Launch
           \/ Restart
           \/ \E i \in Talosctls : CLISteps(i) \/ CLIFails(i)
           \/ \E i \in Talosctls :
                  /\ cli' = [cli EXCEPT ![i] = NoCLI]
                  /\ \/ i = Own /\ run.pc = "cli" /\ run'.pc # "cli"
                     \/ i # Own /\ run' = run
<1> USE DEF world
<1>1. CASE RunGoroutine
  <2>1. Own \in Talosctls
    BY DEF Talosctls
  <2> QED
    BY <1>1, <2>1, GoroutineEffects
<1>2. ASSUME NEW i \in Talosctls, OrphanEnds(i)
      PROVE  cli' = [cli EXCEPT ![i] = NoCLI] /\ i # Own /\ run' = run
  BY <1>2 DEF OrphanEnds
<1>3. CASE \/ PodsRestart \/ \E r \in wire : CarriedOut(r)
           \/ \E n \in Nodes : KubeletRestarts(n) \/ OperatorChanges(n)
  BY <1>3 DEF PodsRestart, CarriedOut, KubeletRestarts, OperatorChanges
<1>4. CASE Messages
  BY <1>4 DEF Messages, PrepareRuns, PreparedArrives, StartRuns, OpenedArrives, RefusedArrives,
              FinishedArrives
<1>5. CASE Operator \/ Escape \/ Unknown \/ Leave \/ UNCHANGED kubernetesVars
  BY <1>5 DEF Operator, PressEnter, Confirm, Dismiss, Escape, Unknown, Leave, kubernetesVars
<1> QED
  BY <1>1, <1>2, <1>3, <1>4, <1>5 DEF KubernetesNext, Cluster, Adverse

\* Where a talosctl is at work after a step, one of its target was before.
Inherited == \A i \in Talosctls : Active(i)' => \E j \in Talosctls : Active(j) /\ cli'[i].target = cli[j].target

\* What a talosctl is after a step: new, what one was before, a step further, or through.
LEMMA ProcessMoves ==
    ASSUME ClusterTyped, ProgramTyped, [KubernetesNext]_kubernetesVars, NEW i \in Talosctls
    PROVE  \/ Launch /\ i = Own
           \/ \E j \in Talosctls : cli'[i] = cli[j]
           \/ CLISteps(i)
           \/ CLIFails(i) /\ cli'[i].step = "failed"
           \/ cli'[i] = NoCLI
<1>0. cli \in [Talosctls -> CLIs \cup {NoCLI}] /\ Own \in Talosctls
  BY DEF ClusterTyped, Talosctls
<1>1. CASE Launch
  <2>1. i # Own => cli'[i] = cli[i]
    BY <1>0, <1>1 DEF Launch
  <2> QED
    BY <1>1, <2>1
<1>2. CASE Restart
  <2>1. cli' = [cli EXCEPT ![trouble + 1] = cli[Own], ![Own] = NoCLI]
    BY <1>2 DEF Restart
  <2>2. cli'[i] \in {cli[i], cli[Own], NoCLI}
    BY <1>0, <2>1
  <2> QED
    BY <1>0, <2>2
<1>3. ASSUME NEW k \in Talosctls, CLISteps(k) \/ CLIFails(k), ~CLISteps(i)
      PROVE  cli'[i] = cli[i] \/ (CLIFails(i) /\ cli'[i].step = "failed")
  <2>1. PICK c \in CLIs : cli' = [cli EXCEPT ![k] = c] /\ (CLISteps(k) \/ (CLIFails(k) /\ c.step = "failed"))
    BY <1>3, ProcessIs
  <2>2. CASE i = k
    BY <1>0, <1>3, <2>1, <2>2
  <2>3. CASE i # k
    BY <1>0, <2>1, <2>3
  <2> QED
    BY <2>2, <2>3
<1>4. ASSUME NEW k \in Talosctls, cli' = [cli EXCEPT ![k] = NoCLI]
      PROVE  cli'[i] = cli[i] \/ cli'[i] = NoCLI
  BY <1>0, <1>4
<1> QED
  BY <1>0, <1>1, <1>2, <1>3, <1>4, CLIMoves

\* No talosctl changes its target.
LEMMA TargetsStay ==
    ASSUME ClusterTyped, ProgramTyped, [KubernetesNext]_kubernetesVars, ~Launch
    PROVE  Inherited
<1> SUFFICES ASSUME NEW i \in Talosctls, cli'[i].step # "none"
             PROVE  \E j \in Talosctls : Active(j) /\ cli'[i].target = cli[j].target
  BY DEF Inherited, Active
<1>1. cli'[i] # NoCLI
  BY DEF NoCLI
<1>2. CASE CLISteps(i) \/ CLIFails(i)
  <2>1. PICK c \in CLIs : cli' = [cli EXCEPT ![i] = c] /\ c.target = cli[i].target /\ cli[i] \in CLIs
    BY <1>2, ProcessIs
  <2>2. cli'[i].target = cli[i].target
    BY <2>1 DEF ClusterTyped
  <2>3. Active(i)
    BY <2>1 DEF Active, CLIs
  <2> QED
    BY <2>2, <2>3
<1>3. ASSUME NEW j \in Talosctls, cli'[i] = cli[j]
      PROVE  Active(j) /\ cli'[i].target = cli[j].target
  BY <1>3 DEF Active
<1> QED
  BY <1>1, <1>2, <1>3, ProcessMoves

-----------------------------------------------------------------------------
(* One target at a time                                                    *)

\* A plan is made, or about to be made.
Underway == dialog.plan # NoPlan \/ \E a \in asks : a.step \in {"prepare", "prepared"}

\* What a message is about.
OnTarget(a) ==
    /\ a.step = "prepare" => a.plan.target = goal
    /\ a.step = "prepared" /\ a.plan # NoPlan => a.plan.target = goal
    /\ a.step = "start" /\ a.live => a.plan.target = goal

\* What is under way in the cluster is what the operator has asked for.
Aimed ==
    /\ Underway => Quiet
    /\ \A r, s \in wire : r.image = s.image
    /\ dialog.plan # NoPlan => dialog.plan.target = goal
    /\ \A a \in asks : OnTarget(a)
    /\ run # NoRun /\ ~run.canceled => run.plan.target = goal

\* The talosctl processes at work have one target, and it is that of a run that starts its own,
\* waits for it, or goes by what it knows of the control plane.
Shared ==
    /\ \A i, j \in Talosctls : Active(i) /\ Active(j) => cli[i].target = cli[j].target
    /\ run.pc \in After \cup {"launch", "cli"} =>
          \A i \in Talosctls : Active(i) => cli[i].target = run.plan.target
    /\ (cli[Own] # NoCLI <=> run.pc = "cli")

\* A run that goes on shares its target with everything under way.
LEMMA RunIsQuiet ==
    ASSUME ProgramTyped, Conversation, Aimed, run # NoRun, ~run.canceled
    PROVE  Underway /\ Quiet /\ run.plan.target = goal
<1>1. dialog.plan # NoPlan
  BY DEF Conversation, Attended
<1> QED
  BY <1>1 DEF Aimed, Underway

\* The messages keep to the target.
LEMMA MessagesAimed ==
    ASSUME ClusterTyped, ProgramTyped, Conversation, Aimed, Messages
    PROVE  Aimed'
<1> USE DEF world
<1> PICK a \in asks : \/ PrepareRuns(a) \/ PreparedArrives(a) \/ StartRuns(a)
                      \/ OpenedArrives(a) \/ RefusedArrives(a) \/ FinishedArrives(a)
  BY DEF Messages
<1>0. /\ a \in Asks /\ a.mine \in BOOLEAN /\ Meant(a) /\ dialog \in Dialogs /\ run \in Runs \cup {NoRun}
      /\ Fits(a) /\ Single /\ Attended /\ (\A b \in asks : Fits(b) /\ OnTarget(b))
      /\ NoPlan \notin Plans /\ NoPlan \in Plans \cup Targets /\ NoRun \notin Runs
      /\ (Underway => Quiet) /\ (\A r, s \in wire : r.image = s.image)
      /\ (dialog.plan # NoPlan => dialog.plan.target = goal)
      /\ (run # NoRun /\ ~run.canceled => run.plan.target = goal)
  BY NothingElse DEF ProgramTyped, Conversation, Asks, Aimed
<1>m. ASSUME NEW step \in {"opened", "refused", "finished"}, NEW mine \in BOOLEAN
      PROVE  Message(step, mine, NoPlan).step = step /\ OnTarget(Message(step, mine, NoPlan))'
  BY <1>m DEF Message, OnTarget
<1>1. CASE PrepareRuns(a)
  <2>1. UNCHANGED <<dialog, run, cli, wire, goal>> /\ a.step = "prepare" /\ a.plan.target = goal /\ Quiet
    BY <1>0, <1>1 DEF PrepareRuns, OnTarget, Underway
  <2>2. CASE asks' = asks \ {a}
    BY <1>0, <2>1, <2>2 DEF Aimed, OnTarget, Underway, Quiet
  <2>3. ASSUME NEW p \in Plans \cup {NoPlan}, asks' = (asks \ {a}) \cup {Message("prepared", a.mine, p)},
               p \in Plans => p = PlanFor(a.plan.target)
        PROVE  Aimed'
    <3>1. PICK m : m = Message("prepared", a.mine, p)
      OBVIOUS
    <3>2. m.step = "prepared" /\ m.plan = p
      BY <3>1 DEF Message
    <3>3. p \in Plans => p.target = goal
      BY <1>0, <2>1, <2>3, PlanTyped DEF ProgramTyped
    <3>4. OnTarget(m)'
      BY <2>1, <3>2, <3>3 DEF OnTarget
    <3>5. \A b \in asks' : OnTarget(b)'
      BY <1>0, <2>1, <2>3, <3>1, <3>4 DEF OnTarget
    <3> QED
      BY <1>0, <2>1, <3>5 DEF Aimed, Quiet
  <2> QED
    BY <1>1, <2>2, <2>3, PreparedIs
<1>2. CASE PreparedArrives(a)
  <2>1. /\ asks' = asks \ {a} /\ UNCHANGED <<run, cli, wire>> /\ a.step = "prepared" /\ a.mine
        /\ dialog.phase \in {"editing", "preparing"} /\ dialog.plan = NoPlan
        /\ \A b \in asks' : ~b.mine
    BY <1>0, <1>2 DEF PreparedArrives, Fits, Attended, Single
  <2>2. run # NoRun => run.canceled
    BY <1>0, <2>1 DEF Attended
  <2>3. \A b \in asks' : b.step \notin {"prepare", "prepared"} /\ ~(b.step = "start" /\ b.live)
    BY <1>0, <2>1 DEF Fits
  <2>4. \A b \in asks' : OnTarget(b)'
    BY <2>3 DEF OnTarget
  <2>5. CASE a.plan = NoPlan
    <3>1. dialog'.plan = NoPlan
      BY <1>0, <1>2, <2>1, <2>5 DEF PreparedArrives, Dialogs
    <3> QED
      BY <1>0, <2>1, <2>2, <2>3, <2>4, <3>1 DEF Aimed, Underway
  <2>6. CASE a.plan # NoPlan
    <3>1. dialog'.plan = a.plan /\ UNCHANGED goal /\ a.plan.target = goal
      BY <1>0, <1>2, <2>1, <2>6 DEF PreparedArrives, Dialogs, OnTarget
    <3>2. Quiet
      BY <1>0, <2>1 DEF Underway
    <3> QED
      BY <1>0, <2>1, <2>4, <3>1, <3>2 DEF Aimed, Quiet
  <2> QED
    BY <2>5, <2>6
<1>3. CASE StartRuns(a)
  <2>1. UNCHANGED <<dialog, goal, wire>> /\ a.step = "start" /\ a.plan \in Plans
    BY <1>0, <1>3 DEF StartRuns, Meant
  <2>2. \A b \in asks' : b \in asks \/ (OnTarget(b)' /\ b.step \notin {"prepare", "prepared"})
    BY <1>0, <1>3, <1>m DEF StartRuns
  <2>3. \A b \in asks' : OnTarget(b)'
    BY <1>0, <2>1, <2>2 DEF OnTarget
  <2>4. Underway' => Underway
    BY <2>1, <2>2 DEF Underway
  <2>5. CASE run' = NewRun(a) /\ UNCHANGED cli
    <3>1. /\ run'.pc = "check" /\ run'.plan = a.plan /\ run'.canceled = ~a.live
      BY <1>0, <2>1, <2>5, NewRunTyped
    <3>2. a.live => a.plan.target = goal
      BY <1>0, <2>1 DEF OnTarget
    <3>3. Underway' => Quiet'
      BY <1>0, <2>1, <2>4, <2>5 DEF Quiet
    <3> QED
      BY <1>0, <2>1, <2>3, <2>5, <3>1, <3>2, <3>3 DEF Aimed
  <2>6. CASE UNCHANGED <<run, cli>>
    BY <1>0, <2>1, <2>3, <2>4, <2>6 DEF Aimed, Quiet
  <2> QED
    BY <1>3, <2>5, <2>6 DEF StartRuns
<1>4. CASE OpenedArrives(a)
  <2>1. /\ UNCHANGED <<goal, wire, cli>> /\ dialog'.plan = dialog.plan
        /\ \A b \in asks' : b \in asks \/ (OnTarget(b)' /\ b.step \notin {"prepare", "prepared"})
    BY <1>0, <1>4, <1>m DEF OpenedArrives, Dialogs
  <2>2. /\ run = NoRun => run' = NoRun
        /\ run # NoRun => /\ run' \in Runs /\ run'.pc = run.pc /\ run'.plan = run.plan
                          /\ run.canceled => run'.canceled
    BY <1>0, <1>4 DEF OpenedArrives, Runs
  <2>3. \A b \in asks' : OnTarget(b)'
    BY <1>0, <2>1 DEF OnTarget
  <2>4. Underway' => Underway
    BY <2>1 DEF Underway
  <2> QED
    BY <1>0, <2>1, <2>2, <2>3, <2>4 DEF Aimed, Quiet
<1>5. CASE RefusedArrives(a) \/ FinishedArrives(a)
  <2>1. UNCHANGED <<goal, wire, cli, run>> /\ dialog'.plan = dialog.plan /\ asks' = asks \ {a}
    BY <1>0, <1>5 DEF RefusedArrives, FinishedArrives, Dialogs
  <2>2. Underway' => Underway
    BY <2>1 DEF Underway
  <2> QED
    BY <1>0, <2>1, <2>2 DEF Aimed, Quiet, OnTarget
<1> QED
  BY <1>1, <1>2, <1>3, <1>4, <1>5

\* So does everything else.
LEMMA AimedStep ==
    ASSUME ClusterTyped, ProgramTyped, Conversation, Aimed, [KubernetesNext]_kubernetesVars
    PROVE  Aimed'
<1> USE DEF world
<1>0. /\ asks \subseteq Asks /\ dialog \in Dialogs /\ run \in Runs \cup {NoRun}
      /\ (\A b \in asks : Fits(b) /\ OnTarget(b))
      /\ NoPlan \notin Plans /\ NoPlan \in Plans \cup Targets /\ NoRun \notin Runs
      /\ (Underway => Quiet) /\ (\A r, s \in wire : r.image = s.image)
      /\ (dialog.plan # NoPlan => dialog.plan.target = goal)
      /\ (run # NoRun /\ ~run.canceled => run.plan.target = goal)
  BY NothingElse DEF ProgramTyped, Conversation, Aimed
<1>i. \A g : /\ ~Launch
             /\ \A i \in Talosctls : Active(i) => cli[i].target = g
             => \A i \in Talosctls : Active(i)' => cli'[i].target = g
  BY TargetsStay DEF Inherited
<1>1. CASE RunGoroutine /\ ~Release
  <2>1. Advances
    BY <1>1, GoroutineAdvances
  <2>2. \A b \in asks' : OnTarget(b)'
    BY <1>0, <2>1 DEF Advances, OnTarget
  <2>3. Underway' <=> Underway
    BY <2>1 DEF Advances, Underway
  <2>4. ~run.canceled => Quiet /\ run.plan.target = goal
    BY <1>0, <2>1, RunIsQuiet DEF Advances
  <2>5. wire' \subseteq wire \/ (~run.canceled /\ wire' = wire \cup {Request} /\ Request.image = goal)
    BY <1>1, <2>4, GoroutineEffects, RequestTyped DEF Updating
  <2>6. \A r, s \in wire' : r.image = s.image
    BY <1>0, <2>4, <2>5 DEF Quiet
  <2>7. (Underway' => \A r \in wire' : r.image = goal')
    BY <1>0, <2>1, <2>3, <2>4, <2>5 DEF Quiet, Advances
  <2>8. Underway' => \A i \in Talosctls : Active(i)' => cli'[i].target = goal'
    <3>1. CASE Launch
      <4>1. Quiet /\ run.plan.target = goal /\ goal' = goal
        BY <2>1, <2>4, <3>1 DEF Launch, Running, Advances
      <4>2. \A i \in Talosctls : i # Own => cli'[i] = cli[i]
        BY <3>1 DEF Launch, ClusterTyped
      <4>3. cli'[Own].target = run.plan.target
        BY <3>1 DEF Launch, ClusterTyped, Talosctls
      <4> QED
        BY <4>1, <4>2, <4>3 DEF Quiet, Active
    <3>2. CASE ~Launch /\ Underway
      <4>1. \A i \in Talosctls : Active(i) => cli[i].target = goal
        BY <1>0, <3>2 DEF Quiet, Active
      <4>2. PICK g : g = goal
        OBVIOUS
      <4> QED
        BY <1>i, <2>1, <3>2, <4>1, <4>2 DEF Advances
    <3> QED
      BY <2>3, <3>1, <3>2
  <2> QED
    BY <1>0, <2>1, <2>2, <2>6, <2>7, <2>8 DEF Aimed, Quiet, Advances, Active
<1>2. CASE Release
  <2>1. run' = NoRun /\ UNCHANGED <<dialog, wire, cli, goal>> /\ asks' \subseteq Past \cup {Message("finished", TRUE, NoPlan)}
    BY <1>2 DEF Release, Past
  <2>2. Message("finished", TRUE, NoPlan).step = "finished"
    BY DEF Message
  <2>3. ASSUME NEW b \in Past
        PROVE  OnTarget(b)' /\ \E c \in asks : c.step = b.step
    <3>1. PICK c \in asks : b.step = c.step /\ b.mine = c.mine /\ b.live = c.live /\ b.plan = c.plan
      BY OverAre
    <3> QED
      BY <1>0, <2>1, <3>1 DEF OnTarget
  <2>4. Underway' => Underway
    BY <2>1, <2>2, <2>3 DEF Underway
  <2>5. \A b \in asks' : OnTarget(b)'
    BY <2>1, <2>2, <2>3 DEF OnTarget
  <2> QED
    BY <1>0, <2>1, <2>4, <2>5 DEF Aimed, Quiet, NoRun
<1>3. CASE Cluster \/ CLIFailure
  <2>1. UNCHANGED <<dialog, asks, run, goal>> /\ wire' \subseteq wire /\ ~Launch
    <3>1. UNCHANGED <<dialog, asks, run, goal>> /\ wire' \subseteq wire
      BY <1>3 DEF Cluster, CLISteps, OrphanEnds, PodsRestart, CarriedOut, KubeletRestarts, CLIFailure, CLIFails
    <3> QED
      BY <1>0, <3>1 DEF Launch, Running, Runs, NoRun
  <2>2. Quiet => Quiet'
    <3>1. PICK g : g = goal
      OBVIOUS
    <3> QED
      BY <1>i, <2>1, <3>1 DEF Quiet, Active
  <2>3. \A b \in asks' : OnTarget(b)'
    BY <1>0, <2>1 DEF OnTarget
  <2>4. Underway' => Quiet'
    BY <1>0, <2>1, <2>2 DEF Underway
  <2> QED
    BY <1>0, <2>1, <2>3, <2>4 DEF Aimed
<1>4. CASE Messages
  BY <1>4, MessagesAimed
<1>5. CASE PressEnter
  <2>1. PICK m : m = Message("prepare", TRUE, [target |-> goal])
    OBVIOUS
  <2>2. /\ m.step = "prepare" /\ m.plan.target = goal /\ asks' = Disowned \cup {m}
        /\ run' = CanceledAndDisowned /\ dialog'.plan = dialog.plan /\ Quiet
        /\ UNCHANGED <<wire, cli, goal>>
    BY <1>0, <1>5, <2>1 DEF PressEnter, Message, Dialogs
  <2>3. \A b \in asks' : OnTarget(b)'
    BY <2>2, DisownedAre DEF OnTarget
  <2>4. /\ run = NoRun => run' = NoRun
        /\ run # NoRun => run'.canceled /\ run'.pc = run.pc /\ run'.plan = run.plan
    BY <1>0, <2>2, RunLater
  <2> QED
    BY <1>0, <2>2, <2>3, <2>4 DEF Aimed, Quiet
<1>6. CASE Confirm
  <2>1. PICK m : m = Message("start", TRUE, dialog.plan)
    OBVIOUS
  <2>2. /\ m.step = "start" /\ m.plan = dialog.plan /\ asks' = Dead \cup {m} /\ dialog.plan # NoPlan
        /\ run' = Canceled /\ dialog'.plan = dialog.plan /\ UNCHANGED <<wire, cli, goal>>
    BY <1>0, <1>6, <2>1 DEF Confirm, Message, Dialogs, Dead
  <2>3. ASSUME NEW b \in Dead
        PROVE  OnTarget(b)'
    <3>1. PICK c \in asks : b.step = c.step /\ b.mine = c.mine /\ ~b.live /\ b.plan = c.plan
      BY DeadAre
    <3> QED
      BY <1>0, <2>2, <3>1 DEF OnTarget
  <2>4. \A b \in asks' : OnTarget(b)'
    BY <1>0, <2>2, <2>3 DEF OnTarget
  <2>5. /\ run = NoRun => run' = NoRun
        /\ run # NoRun => run'.canceled /\ run'.pc = run.pc /\ run'.plan = run.plan
    BY <1>0, <2>2, RunLater
  <2> QED
    BY <1>0, <2>2, <2>4, <2>5 DEF Aimed, Quiet, Underway
<1>7. CASE Dismiss \/ Unknown \/ Leave \/ Restart
  <2>1. /\ asks' = Dead \/ asks' \subseteq Disowned
        /\ dialog' \in {Editing, Closed} /\ run' \in {NoRun, Canceled, CanceledAndDisowned}
        /\ UNCHANGED <<wire, goal>> /\ (UNCHANGED cli \/ Restart)
    BY <1>7 DEF Dismiss, Unknown, Leave, Restart, Dead
  <2>a. Quiet => Quiet'
    <3>1. CASE UNCHANGED cli
      BY <2>1, <3>1 DEF Quiet
    <3>2. CASE Restart
      <4>1. cli' = [cli EXCEPT ![trouble + 1] = cli[Own], ![Own] = NoCLI]
        BY <3>2 DEF Restart
      <4>2. \A i \in Talosctls : cli'[i] \in {cli[i], cli[Own], NoCLI}
        BY <4>1 DEF ClusterTyped
      <4>3. Own \in Talosctls
        BY DEF Talosctls
      <4> QED
        BY <2>1, <4>2, <4>3 DEF Quiet, NoCLI
    <3> QED
      BY <2>1, <3>1, <3>2
  <2>2. dialog'.plan = NoPlan
    BY <2>1, DialogTyped
  <2>3. run' = NoRun \/ (run # NoRun /\ run'.canceled /\ run'.pc = run.pc /\ run'.plan = run.plan)
    BY <1>0, <2>1, RunLater
  <2>4. ASSUME NEW b \in Dead
        PROVE  OnTarget(b)' /\ \E c \in asks : c.step = b.step
    <3>1. PICK c \in asks : b.step = c.step /\ b.mine = c.mine /\ ~b.live /\ b.plan = c.plan
      BY DeadAre
    <3> QED
      BY <1>0, <2>1, <3>1 DEF OnTarget
  <2>5. \A b \in Disowned : OnTarget(b)' /\ b.step \notin {"prepare", "prepared"}
    BY DisownedAre DEF OnTarget
  <2>6. Underway' => Underway
    BY <2>1, <2>2, <2>4, <2>5 DEF Underway
  <2>7. \A b \in asks' : OnTarget(b)'
    BY <2>1, <2>4, <2>5
  <2> QED
    BY <1>0, <2>1, <2>a, <2>2, <2>3, <2>6, <2>7 DEF Aimed, NoRun
<1>8. CASE Escape
  <2>1. UNCHANGED <<dialog, asks, wire, cli, goal>> /\ (run' = run \/ run' = Canceled)
    BY <1>8 DEF Escape
  <2>2. /\ run = NoRun => run' = NoRun
        /\ run # NoRun => (run.canceled => run'.canceled) /\ run'.pc = run.pc /\ run'.plan = run.plan
    BY <1>0, <2>1, RunLater
  <2>3. \A b \in asks' : OnTarget(b)'
    BY <1>0, <2>1 DEF OnTarget
  <2> QED
    BY <1>0, <2>1, <2>2, <2>3 DEF Aimed, Quiet, Underway
<1>9. CASE (\E n \in Nodes : OperatorChanges(n)) \/ UNCHANGED kubernetesVars
  <2>1. UNCHANGED <<dialog, asks, run, wire, cli, goal>>
    BY <1>9 DEF OperatorChanges, kubernetesVars
  <2> QED
    BY <1>0, <2>1 DEF Aimed, Quiet, Underway, OnTarget
<1> QED
  BY <1>1, <1>2, <1>3, <1>4, <1>5, <1>6, <1>7, <1>8, <1>9
     DEF KubernetesNext, Operator, Adverse, CLIFailure, RunGoroutine

-----------------------------------------------------------------------------
(* What a step may do                                                      *)

\* The run is where it was, though perhaps canceled.
Stays ==
    /\ run \in Runs /\ run' \in Runs
    /\ run'.pc = run.pc /\ run'.plan = run.plan /\ run'.i = run.i /\ run'.outcomes = run.outcomes
    /\ run'.sent = run.sent
    /\ run.canceled => run'.canceled

\* Only the goroutine moves itself: the others start it, cancel it, or end the program.
LEMMA OthersKeepRun ==
    ASSUME ProgramTyped, [KubernetesNext]_kubernetesVars, ~RunGoroutine
    PROVE  \/ run' = NoRun /\ (run = NoRun \/ Restart)
           \/ Stays
           \/ /\ run = NoRun /\ run' \in Runs /\ run'.pc = "check" /\ run'.sent = {} /\ report' = NoReport
<1>0. run \in Runs \cup {NoRun}
  BY DEF ProgramTyped
<1>1. ASSUME run' = run
      PROVE  (run = NoRun /\ run' = NoRun) \/ Stays
  BY <1>0, <1>1 DEF Stays
<1>2. ASSUME run' = Canceled \/ run' = CanceledAndDisowned
      PROVE  (run = NoRun /\ run' = NoRun) \/ Stays
  BY <1>0, <1>2, RunLater DEF Stays
<1>3. ASSUME NEW a \in asks, StartRuns(a)
      PROVE  \/ (run = NoRun /\ run' = NoRun) \/ Stays
             \/ /\ run = NoRun /\ run' \in Runs /\ run'.pc = "check" /\ run'.sent = {} /\ report' = NoReport
  <2>1. a \in Asks /\ a.plan \in Plans
    BY <1>3 DEF StartRuns, ProgramTyped, Meant
  <2> QED
    BY <1>1, <1>3, <2>1, NewRunTyped DEF StartRuns
<1>4. ASSUME NEW a \in asks, OpenedArrives(a)
      PROVE  (run = NoRun /\ run' = NoRun) \/ Stays
  <2>1. CASE run # NoRun /\ (run' = [run EXCEPT !.held = TRUE] \/ run' = [run EXCEPT !.canceled = TRUE])
    BY <1>0, <2>1 DEF Stays, Runs
  <2> QED
    BY <1>1, <1>4, <2>1 DEF OpenedArrives
<1>5. ASSUME NEW a \in asks, PrepareRuns(a) \/ PreparedArrives(a) \/ RefusedArrives(a) \/ FinishedArrives(a)
      PROVE  run' = run
  BY <1>5 DEF PrepareRuns, PreparedArrives, RefusedArrives, FinishedArrives
<1>6. CASE Cluster \/ CLIFailure \/ (\E n \in Nodes : OperatorChanges(n)) \/ UNCHANGED kubernetesVars
  BY <1>1, <1>6 DEF Cluster, CLISteps, OrphanEnds, PodsRestart, CarriedOut, KubeletRestarts, CLIFailure, CLIFails,
                    OperatorChanges, kubernetesVars
<1>7. CASE Operator \/ Escape \/ Unknown \/ Leave \/ Restart
  BY <1>1, <1>2, <1>7 DEF Operator, PressEnter, Confirm, Dismiss, Escape, Unknown, Leave, Restart
<1> QED
  BY <1>1, <1>3, <1>4, <1>5, <1>6, <1>7 DEF KubernetesNext, Messages, Adverse, CLIFailure

\* Nothing that counts happens to the cluster.
Calm ==
    /\ UNCHANGED <<components, desired, manifests>>
    /\ \A n \in Nodes : /\ kubelets'[n].version = kubelets[n].version
                        /\ kubelets'[n].image = kubelets[n].image
                        /\ kubelets'[n].ready = kubelets[n].ready
    /\ wire' \subseteq wire /\ evidence' \subseteq evidence

\* What happens to the cluster and to what is known of it.
LEMMA WorldMoves ==
    ASSUME ClusterTyped, ProgramTyped, [KubernetesNext]_kubernetesVars
    PROVE  \/ Calm
           \/ PodsRestart \/ CLIStep
           \/ \E r \in wire : CarriedOut(r)
           \/ \E n \in Nodes : KubeletRestarts(n)
           \/ Apply /\ wire' = wire \cup {Request}
           \/ Verify
<1> USE DEF world
<1>1. CASE RunGoroutine
  BY <1>1, GoroutineEffects DEF Calm
<1>2. ASSUME NEW i \in Talosctls, OrphanEnds(i) \/ CLIFails(i)
      PROVE  Calm
  BY <1>2 DEF OrphanEnds, CLIFails, Calm
<1>3. ASSUME NEW a \in asks, \/ PrepareRuns(a) \/ PreparedArrives(a) \/ StartRuns(a)
                             \/ OpenedArrives(a) \/ RefusedArrives(a) \/ FinishedArrives(a)
      PROVE  Calm
  BY <1>3 DEF PrepareRuns, PreparedArrives, StartRuns, OpenedArrives, RefusedArrives, FinishedArrives, Calm
<1>4. CASE Operator \/ Escape \/ Unknown \/ Leave \/ Restart
  BY <1>4 DEF Operator, PressEnter, Confirm, Dismiss, Escape, Unknown, Leave, Restart, Calm
<1>5. ASSUME NEW n \in Nodes, OperatorChanges(n)
      PROVE  Calm
  <2>1. PICK k \in Kubelets :
              /\ kubelets' = [kubelets EXCEPT ![n] = k]
              /\ k.image = kubelets[n].image /\ k.version = kubelets[n].version /\ k.ready = kubelets[n].ready
    BY <1>5, ChangeIs
  <2>2. UNCHANGED <<components, desired, manifests, wire, evidence>>
    BY <1>5 DEF OperatorChanges
  <2>3. \A m \in Nodes : kubelets'[m] = IF m = n THEN k ELSE kubelets[m]
    BY <2>1 DEF ClusterTyped
  <2> QED
    BY <2>1, <2>2, <2>3 DEF Calm
<1>6. CASE UNCHANGED kubernetesVars
  BY <1>6 DEF kubernetesVars, Calm
<1> QED
  BY <1>1, <1>2, <1>3, <1>4, <1>5, <1>6 DEF KubernetesNext, Cluster, CLIStep, Messages, Adverse

\* How the goroutine gets to the stages at which something is known.
LEMMA StageMoves ==
    ASSUME ClusterTyped, ProgramTyped, [KubernetesNext]_kubernetesVars
    PROVE  /\ run'.pc = "launch" => (run.pc = "launch" /\ Stays) \/ Recheck
           /\ run'.pc \in After =>
                \/ run.pc \in After /\ run \in Runs /\ run'.plan = run.plan /\ run'.canceled = run.canceled
                \/ run.pc \in After /\ Stays
                \/ Recheck
                \/ CLIExited /\ cli[Own].step = "ok"
<1>1. CASE ~RunGoroutine
  <2>1. NoRun.pc = "idle" /\ "launch" # "check" /\ "check" \notin After /\ "idle" \notin After
    BY DEF NoRun, After, Updating
  <2> QED
    BY <1>1, <2>1, OthersKeepRun DEF Stays
<1>2. CASE Release
  BY <1>2 DEF Release, NoRun, After, Updating
<1>3. CASE RunGoroutine /\ ~Release
  <2>1. Advances
    BY <1>3, GoroutineAdvances
  <2>2. run \in Runs /\ run.pc # "ending" /\ run.pc \in Stages
    BY <2>1 DEF Advances, Runs
  <2>3. ASSUME NEW o, NEW s, Halt(o, s)
        PROVE  run'.pc \notin After \cup {"launch"}
    BY <2>1, <2>2, <2>3, HaltAdvances DEF Advances, After, Updating
  <2>4. CASE Check \/ Snapshot
    <3>1. ASSUME NEW pc \in {"snapshot", "recheck"}, Goto(pc)
          PROVE  run'.pc \notin After \cup {"launch"}
      BY <2>2, <3>1 DEF Goto, Runs, After, Updating
    <3> QED
      BY <2>3, <2>4, <3>1 DEF Check, Snapshot, NotStarted
  <2>5. CASE Launch \/ CLIReaped
    BY <2>2, <2>3, <2>5 DEF Launch, CLIReaped, Partial, Runs, After, Updating
  <2>6. CASE CLIExited
    <3>1. CASE cli[Own].step = "ok"
      BY <2>2, <2>6, <3>1 DEF CLIExited, Goto, Runs
    <3>2. CASE cli[Own].step # "ok"
      BY <2>3, <2>6, <3>2 DEF CLIExited, Partial
    <3> QED
      BY <3>1, <3>2
  <2>7. CASE run.pc \in After
    <3>1. run'.pc # "launch"
      <4>1. ASSUME NEW pc \in {"patch", "apply", "kubelet"}, Goto(pc)
            PROVE  run'.pc # "launch"
        BY <2>2, <4>1 DEF Goto, Runs
      <4>2. ASSUME CallFails
            PROVE  run'.pc # "launch"
        BY <2>3, <2>7, <4>2 DEF CallFails, NotStarted, Partial, StopBefore, StopAt, After, Updating
      <4> QED
        BY <1>3, <2>2, <2>3, <2>7, <4>1, <4>2
           DEF RunGoroutine, Check, Snapshot, Recheck, Launch, CLIExited, CLIReaped, Verify, NextNode, NodesChanged,
               Final, Patch, Apply, Answered, KubeletDone, Running, Partial, StopBefore, StopAt, After, Updating, Runs
    <3> QED
      BY <2>1, <2>7, <3>1 DEF Advances
  <2>8. CASE CallFails
    <3>1. PICK o, s : Halt(o, s)
      BY <2>2, <2>8
         DEF CallFails, NotStarted, Partial, StopBefore, StopAt, Stages, Before, After, Updating
    <3> QED
      BY <2>3, <3>1
  <2> QED
    BY <1>3, <2>4, <2>5, <2>6, <2>7, <2>8
       DEF RunGoroutine, Verify, NextNode, NodesChanged, Final, Patch, Apply, Answered, KubeletDone,
           Running, After, Updating
<1> QED
  BY <1>1, <1>2, <1>3

\* The talosctl processes at work stay with one target.
LEMMA SharedStep ==
    ASSUME ClusterTyped, ProgramTyped, Conversation, Aimed, Shared, [KubernetesNext]_kubernetesVars
    PROVE  Shared'
<1>0. /\ cli \in [Talosctls -> CLIs \cup {NoCLI}] /\ Own \in Talosctls /\ NoCLI \notin CLIs
      /\ run \in Runs \cup {NoRun} /\ NoRun.pc \notin After \cup {"launch", "cli"}
      /\ "launch" \notin After /\ "cli" \notin After /\ "check" \notin After
  BY NothingElse DEF ClusterTyped, ProgramTyped, Talosctls, NoRun, After, Updating
<1>1. CASE Launch
  <2>1. run.pc = "launch" /\ run \in Runs /\ run' = [run EXCEPT !.pc = "cli", !.sent = @ \cup {0}]
    BY <1>0, <1>1 DEF Launch, Running
  <2>2. run'.pc = "cli" /\ run'.plan = run.plan
    BY <2>1 DEF Runs
  <2>3. PICK c : c = [step |-> "patch", target |-> run.plan.target]
    OBVIOUS
  <2>4. /\ c.step = "patch" /\ c.target = run.plan.target /\ c # NoCLI
        /\ \A i \in Talosctls : cli'[i] = IF i = Own THEN c ELSE cli[i]
    BY <1>0, <1>1, <2>3 DEF Launch, NoCLI
  <2>5. \A i \in Talosctls : Active(i) => cli[i].target = run.plan.target
    BY <2>1 DEF Shared
  <2>6. \A i \in Talosctls : Active(i)' => cli'[i].target = run.plan.target
    BY <2>4, <2>5 DEF Active
  <2> QED
    BY <1>0, <2>2, <2>4, <2>6 DEF Shared
<1>2. CASE ~Launch
  <2>1. Inherited
    BY <1>2, TargetsStay
  <2>2. run'.pc \in After \cup {"launch", "cli"} =>
            (run.pc \in After \cup {"launch", "cli"} /\ run'.plan = run.plan) \/ Recheck
    <3>1. run'.pc = "cli" => run.pc = "cli" /\ run'.plan = run.plan
      <4>1. CASE RunGoroutine
        BY <1>2, <4>1, GoroutineEffects
      <4>2. CASE ~RunGoroutine
        BY <1>0, <4>2, OthersKeepRun DEF Stays
      <4> QED
        BY <4>1, <4>2
    <3>2. CLIExited => run.pc = "cli" /\ run'.plan = run.plan
      <4>1. CLIExited => RunGoroutine /\ ~Release /\ run.pc = "cli"
        BY DEF CLIExited, RunGoroutine, Release, Running
      <4> QED
        BY <4>1, GoroutineAdvances DEF Advances
    <3> QED
      BY <3>1, <3>2, StageMoves DEF Stays
  <2>3. (\A i, j \in Talosctls : Active(i) /\ Active(j) => cli[i].target = cli[j].target)'
    BY <2>1 DEF Inherited, Shared
  <2>4. (run.pc \in After \cup {"launch", "cli"} =>
            \A i \in Talosctls : Active(i) => cli[i].target = run.plan.target)'
    <3>1. CASE run.pc \in After \cup {"launch", "cli"} /\ run'.plan = run.plan
      BY <2>1, <3>1 DEF Inherited, Shared
    <3>2. CASE Recheck
      <4>1. run \in Runs /\ run # NoRun /\ ~run.canceled /\ run'.plan = run.plan
        <5>1. run.pc = "recheck" /\ ~run.canceled /\ RunGoroutine /\ ~Release
          BY <3>2 DEF Recheck, Running, RunGoroutine, Release
        <5> QED
          BY <1>0, <5>1, GoroutineAdvances DEF Advances, NoRun
      <4>2. Quiet /\ run.plan.target = goal
        BY <4>1, RunIsQuiet
      <4> QED
        BY <2>1, <4>1, <4>2 DEF Quiet, Inherited, Active
    <3> QED
      BY <2>2, <3>1, <3>2
  <2>5. cli'[Own] # NoCLI <=> run'.pc = "cli"
    <3>0. cli[Own] # NoCLI <=> run.pc = "cli"
      BY DEF Shared
    <3>1. CASE RunGoroutine
      BY <1>0, <1>2, <3>0, <3>1, GoroutineEffects
    <3>2. CASE Restart
      <4>1. cli' = [cli EXCEPT ![trouble + 1] = cli[Own], ![Own] = NoCLI] /\ run' = NoRun
        BY <3>2 DEF Restart
      <4> QED
        BY <1>0, <4>1
    <3>3. CASE UNCHANGED cli /\ ~RunGoroutine /\ ~Restart
      BY <1>0, <3>0, <3>3, OthersKeepRun DEF Stays, NoRun
    <3>4. ASSUME NEW i \in Talosctls, CLISteps(i) \/ CLIFails(i)
          PROVE  cli'[Own] # NoCLI <=> run'.pc = "cli"
      <4>1. PICK c \in CLIs : cli' = [cli EXCEPT ![i] = c] /\ cli[i] \in CLIs
        BY <3>4, ProcessIs
      <4>2. run' = run
        BY <3>4 DEF CLISteps, CLIFails
      <4> QED
        BY <1>0, <3>0, <4>1, <4>2
    <3>5. ASSUME NEW i \in Talosctls, cli' = [cli EXCEPT ![i] = NoCLI],
                 (i = Own /\ run'.pc # "cli") \/ (i # Own /\ run' = run)
          PROVE  cli'[Own] # NoCLI <=> run'.pc = "cli"
      BY <1>0, <3>0, <3>5
    <3> QED
      BY <1>2, <3>1, <3>2, <3>3, <3>4, <3>5, CLIMoves
  <2> QED
    BY <2>3, <2>4, <2>5 DEF Shared
<1> QED
  BY <1>1, <1>2

-----------------------------------------------------------------------------
(* The versions                                                            *)

Control == components \cup {desired}

NoneNewer(v) ==
    /\ \A n \in Nodes : kubelets[n].version <= v /\ kubelets[n].image <= v
    /\ \A r \in wire : r.image <= v

\* The control plane keeps together, the kubelets and what they are asked for behind it.
Skewed ==
    /\ \A c, d \in Control : c <= d + 1
    /\ \A c \in Control : NoneNewer(c)
    /\ \A n \in Nodes : kubelets[n].ready => kubelets[n].version = kubelets[n].image

\* Talosctl may take the control plane to a version.
Supports(t) ==
    /\ \A c \in Control : c <= t + 1 /\ t <= c + 1
    /\ NoneNewer(t)
    /\ \A e \in evidence : e <= t /\ (manifests = e \/ e < t)

\* The control plane has been at every version there is evidence for, and where it still is the
\* manifests are.
Proven ==
    \A e \in evidence : /\ \A c \in Control : e <= c
                        /\ manifests = e \/ \A c \in Control : e < c

\* What a talosctl knows of the control plane at each of its steps.
Informed(i) ==
    /\ cli[i].step = "patch" => Supports(cli[i].target)
    /\ cli[i].step = "settle" => desired = cli[i].target
    /\ cli[i].step \in {"sync", "ok"} => Control = {cli[i].target}
    /\ cli[i].step = "ok" => manifests = cli[i].target

\* What talosctl and the run know of it.
Staged ==
    /\ run.pc = "launch" => Supports(run.plan.target)
    /\ \A i \in Talosctls : Informed(i)
    /\ run.pc \in After => Control = {run.plan.target} /\ manifests = run.plan.target

\* A plan that still fits the cluster is one step ahead at most.
LEMMA PlanFits ==
    ASSUME ClusterTyped, Skewed, Proven, Quiet, NEW p \in Plans, SamePlan(p), p.target = goal
    PROVE  /\ Supports(p.target)
           /\ p.skip => Control = {p.target} /\ manifests = p.target
<1> DEFINE t == p.target
           m == Min(components)
<1>0. /\ t \in Nat /\ m \in Nat /\ m \in components /\ (\A c \in components : m <= c)
      /\ Control \subseteq Nat /\ m \in Control /\ desired \in Control /\ components \subseteq Control
  BY Oldest DEF Plans, Versions, ClusterTyped, Control
<1>1. /\ t = m \/ t = m + 1
      /\ \A c \in components : c = m \/ c = t
      /\ KubeletsFit(t) /\ AllReady
  BY DEF SamePlan, Assessable, ComponentsFit
<1>2. \A n \in Nodes : /\ kubelets[n].version \in Nat /\ kubelets[n].image \in Nat
                       /\ kubelets[n].version <= m /\ kubelets[n].image <= m
  BY <1>0 DEF Skewed, NoneNewer, ClusterTyped, Kubelets, Versions
<1>3. \A n \in Nodes : kubelets[n].version = t \/ kubelets[n].version = m \/ components = {t}
  BY <1>1 DEF KubeletsFit
<1>4. desired <= m + 1 /\ m <= desired + 1 /\ desired \in Nat
  BY <1>0 DEF Skewed, ClusterTyped, Versions
<1>5. t = m + 1 => m <= desired
  <2>1. 1 \in Nodes
    BY KubernetesAssumption DEF Nodes
  <2>2. kubelets[1].version <= desired
    BY <1>0, <2>1 DEF Skewed, NoneNewer
  <2>3. t = m + 1 => components # {t}
    BY <1>0
  <2>4. t = m + 1 => kubelets[1].version = m
    BY <1>0, <1>2, <1>3, <2>1, <2>3
  <2> QED
    BY <2>2, <2>4
<1>6. \A c \in Control : c <= t + 1 /\ t <= c + 1
  <2>1. desired <= t + 1 /\ t <= desired + 1
    BY <1>0, <1>1, <1>4, <1>5
  <2>2. \A c \in components : c <= t + 1 /\ t <= c + 1
    BY <1>0, <1>1
  <2> QED
    BY <2>1, <2>2 DEF Control
<1>7. NoneNewer(t)
  <2>1. \A r \in wire : r.image = t
    BY DEF Quiet
  <2>2. \A n \in Nodes : kubelets[n].version <= t /\ kubelets[n].image <= t
    BY <1>0, <1>1, <1>2
  <2> QED
    BY <1>0, <2>1, <2>2 DEF NoneNewer
<1>8. \A e \in evidence : e <= t /\ (manifests = e \/ e < t)
  <2> SUFFICES ASSUME NEW e \in evidence
               PROVE  e <= t /\ (manifests = e \/ e < t)
    OBVIOUS
  <2>1. e \in Nat /\ e <= m /\ (manifests = e \/ e < m)
    BY <1>0 DEF Proven, ClusterTyped, Versions
  <2> QED
    BY <1>0, <1>1, <2>1
<1>9. ASSUME p.skip
      PROVE  Control = {t} /\ manifests = t
  <2>1. Skippable(t)
    <3>1. PlanFor(t) = p
      BY DEF SamePlan
    <3>2. PlanFor(t).skip = Skippable(t)
      BY DEF PlanFor
    <3> QED
      BY <1>9, <3>1, <3>2
  <2>2. components = {t} /\ desired = t /\ t \in evidence
    BY <2>1 DEF Skippable, ControlPlaneAt
  <2>3. Control = {t}
    BY <2>2 DEF Control
  <2>4. manifests = t
    BY <1>0, <2>2, <2>3 DEF Proven
  <2> QED
    BY <2>3, <2>4
<1> QED
  BY <1>6, <1>7, <1>8, <1>9 DEF Supports

\* The control plane moves between the versions it has and the one it is asked for.
LEMMA ControlMoves ==
    ASSUME ClusterTyped, ProgramTyped, [KubernetesNext]_kubernetesVars
    PROVE  \/ Control' \subseteq Control /\ desired' = desired
           \/ \E i \in Talosctls : /\ cli[i].step = "patch" /\ CLISteps(i)
                                   /\ Control' = components \cup {cli[i].target} /\ desired' = cli[i].target
<1>1. CASE PodsRestart
  BY <1>1 DEF PodsRestart, Control
<1>2. CASE CLIStep
  BY <1>2 DEF CLIStep, CLISteps, Control
<1> QED
  BY <1>1, <1>2, WorldMoves DEF Calm, CarriedOut, KubeletRestarts, Apply, Verify, Control, world

\* No kubelet gets newer than what it has been asked for.
LEMMA NewerMoves ==
    ASSUME ClusterTyped, ProgramTyped, [KubernetesNext]_kubernetesVars,
           NEW v \in Versions, NoneNewer(v), Apply => run.plan.target <= v
    PROVE  NoneNewer(v)'
<1>1. CASE Calm
  BY <1>1 DEF Calm, NoneNewer
<1>2. CASE PodsRestart \/ CLIStep \/ Verify
  BY <1>2 DEF PodsRestart, CLIStep, CLISteps, Verify, NoneNewer, world
<1>3. ASSUME NEW r \in wire, CarriedOut(r)
      PROVE  NoneNewer(v)'
  <2>1. PICK k \in Kubelets : /\ kubelets' = [kubelets EXCEPT ![r.n] = k]
                             /\ k.image = r.image /\ k.version = kubelets[r.n].version
    BY <1>3, CarriedOutIs
  <2>2. \A m \in Nodes : kubelets'[m] = IF m = r.n THEN k ELSE kubelets[m]
    BY <2>1 DEF ClusterTyped
  <2>3. wire' \subseteq wire
    BY <1>3 DEF CarriedOut
  <2> QED
    BY <2>1, <2>2, <2>3 DEF NoneNewer
<1>4. ASSUME NEW n \in Nodes, KubeletRestarts(n)
      PROVE  NoneNewer(v)'
  <2>1. PICK k \in Kubelets : /\ kubelets' = [kubelets EXCEPT ![n] = k]
                             /\ k.image = kubelets[n].image /\ k.version = kubelets[n].image
    BY <1>4, RestartIs
  <2>2. \A m \in Nodes : kubelets'[m] = IF m = n THEN k ELSE kubelets[m]
    BY <2>1 DEF ClusterTyped
  <2>3. wire' = wire
    BY <1>4 DEF KubeletRestarts
  <2> QED
    BY <2>1, <2>2, <2>3 DEF NoneNewer
<1>5. CASE Apply /\ wire' = wire \cup {Request}
  <2>1. Request.image = run.plan.target
    BY DEF Request
  <2>2. kubelets' = kubelets
    BY <1>5 DEF Apply
  <2> QED
    BY <1>5, <2>1, <2>2 DEF NoneNewer
<1> QED
  BY <1>1, <1>2, <1>3, <1>4, <1>5, WorldMoves

\* Where the run asks a kubelet for another image, the control plane is at the target.
LEMMA ApplyBehind ==
    ASSUME ProgramTyped, Staged, Apply
    PROVE  Control = {run.plan.target}
BY DEF Staged, Apply, Running, After, Updating

\* The skew is kept.
LEMMA SkewedStep ==
    ASSUME ClusterTyped, ProgramTyped, Skewed, Staged, [KubernetesNext]_kubernetesVars
    PROVE  Skewed'
<1>1. Control \subseteq Versions /\ \A i \in Talosctls : cli[i].step = "patch" => cli[i].target \in Versions
  BY ActiveTyped DEF ClusterTyped, Control, Active
<1>2. \A c \in Control : c \in Nat
  BY <1>1 DEF Versions
<1>3. ASSUME NEW i \in Talosctls, cli[i].step = "patch"
      PROVE  /\ cli[i].target \in Nat
             /\ \A c \in components : c <= cli[i].target + 1 /\ cli[i].target <= c + 1
  BY <1>1, <1>3 DEF Versions, Staged, Informed, Supports, Control
<1>4. \A c, d \in Control' : c <= d + 1
  <2>1. CASE Control' \subseteq Control
    BY <2>1 DEF Skewed
  <2>2. ASSUME NEW i \in Talosctls, cli[i].step = "patch", Control' = components \cup {cli[i].target}
        PROVE  \A c, d \in Control' : c <= d + 1
    <3>1. \A c, d \in components : c <= d + 1
      BY DEF Skewed, Control
    <3> QED
      BY <1>2, <1>3, <2>2, <3>1
  <2> QED
    BY <2>1, <2>2, ControlMoves
<1>5. \A c \in Control' : NoneNewer(c)'
  <2> SUFFICES ASSUME NEW c \in Control'
               PROVE  NoneNewer(c)'
    OBVIOUS
  <2>1. CASE c \in Control
    <3>1. Apply => run.plan.target <= c
      BY <1>2, <2>1, ApplyBehind
    <3>2. NoneNewer(c) /\ c \in Versions
      BY <1>1, <2>1 DEF Skewed
    <3> QED
      BY <3>1, <3>2, NewerMoves
  <2>2. CASE c \notin Control
    <3>1. PICK i \in Talosctls : cli[i].step = "patch" /\ CLISteps(i) /\ c = cli[i].target
      BY <2>2, ControlMoves DEF Control
    <3>2. NoneNewer(c) /\ c \in Versions
      BY <1>1, <3>1 DEF Staged, Informed, Supports
    <3> QED
      BY <3>1, <3>2 DEF CLISteps, NoneNewer
  <2> QED
    BY <2>1, <2>2
<1>6. \A n \in Nodes : kubelets'[n].ready => kubelets'[n].version = kubelets'[n].image
  <2>1. CASE Calm
    BY <2>1 DEF Calm, Skewed
  <2>2. CASE UNCHANGED kubelets
    BY <2>2 DEF Skewed
  <2>3. ASSUME NEW r \in wire, CarriedOut(r), NEW n \in Nodes
        PROVE  kubelets'[n].ready => kubelets'[n].version = kubelets'[n].image
    <3>1. PICK k \in Kubelets :
              /\ kubelets' = [kubelets EXCEPT ![r.n] = k]
              /\ k.image = r.image /\ k.version = kubelets[r.n].version
              /\ k.ready <=> kubelets[r.n].ready /\ kubelets[r.n].image = r.image
      BY <2>3, CarriedOutIs
    <3>2. kubelets'[n] = IF n = r.n THEN k ELSE kubelets[n]
      BY <3>1 DEF ClusterTyped
    <3> QED
      BY <3>1, <3>2 DEF Skewed
  <2>4. ASSUME NEW m \in Nodes, KubeletRestarts(m), NEW n \in Nodes
        PROVE  kubelets'[n].ready => kubelets'[n].version = kubelets'[n].image
    <3>1. PICK k \in Kubelets :
              kubelets' = [kubelets EXCEPT ![m] = k] /\ k.image = kubelets[m].image /\ k.version = kubelets[m].image
      BY <2>4, RestartIs
    <3>2. kubelets'[n] = IF n = m THEN k ELSE kubelets[n]
      BY <3>1 DEF ClusterTyped
    <3> QED
      BY <3>1, <3>2 DEF Skewed
  <2> QED
    BY <2>1, <2>2, <2>3, <2>4, WorldMoves DEF PodsRestart, CLIStep, CLISteps, Apply, Verify, world
<1> QED
  BY <1>4, <1>5, <1>6 DEF Skewed

\* The manifests are those of the last talosctl that synced them.
LEMMA ManifestsMove ==
    ASSUME ClusterTyped, ProgramTyped, [KubernetesNext]_kubernetesVars
    PROVE  \/ manifests' = manifests
           \/ \E i \in Talosctls : CLISteps(i) /\ cli[i].step = "sync" /\ manifests' = cli[i].target
BY WorldMoves DEF Calm, PodsRestart, CLIStep, CLISteps, CarriedOut, KubeletRestarts, Apply, Verify, world

\* Whatever takes the control plane somewhere takes it to a version.
NoOther(t) ==
    /\ Apply \/ Verify => run.plan.target = t
    /\ \A i \in Talosctls : Active(i) => cli[i].target = t

\* What one talosctl is at work for, the others are, and the run.
LEMMA Together ==
    ASSUME Shared
    PROVE  /\ \A i \in Talosctls : Active(i) => NoOther(cli[i].target)
           /\ run.pc \in After \cup {"launch", "cli"} => NoOther(run.plan.target)
<1>1. Apply \/ Verify => run.pc \in After \cup {"launch", "cli"}
  BY DEF Apply, Verify, Running, After, Updating
<1> QED
  BY <1>1 DEF Shared, NoOther

\* A talosctl that goes on is at work.
LEMMA StepsAreActive ==
    ASSUME NEW i \in Talosctls, CLISteps(i)
    PROVE  Active(i)
BY DEF CLISteps, Active

\* Where everything goes to one version, talosctl may take the control plane there as before.
LEMMA SupportsStep ==
    ASSUME ClusterTyped, ProgramTyped, Staged, [KubernetesNext]_kubernetesVars,
           NEW t \in Versions, NoOther(t), Supports(t)
    PROVE  Supports(t)'
<1>1. t \in Nat /\ evidence \subseteq Nat
  BY DEF ClusterTyped, Versions
<1>2. NoneNewer(t)'
  BY <1>1, NewerMoves DEF Supports, NoOther
<1>3. Control' \subseteq Control \cup {t}
  BY ControlMoves, StepsAreActive DEF NoOther, Control
<1>4. \A c \in Control' : c <= t + 1 /\ t <= c + 1
  BY <1>1, <1>3 DEF Supports
<1>5. \A e \in evidence' : e <= t /\ (manifests' = e \/ e < t)
  <2>1. manifests' = manifests \/ manifests' = t
    BY ManifestsMove, StepsAreActive DEF NoOther
  <2>2. CASE Verify
    <3>1. run.pc \in After /\ manifests' = manifests /\ run.plan.target = t
      BY <2>2 DEF Verify, Running, After, world, NoOther
    <3>2. manifests = t
      BY <3>1 DEF Staged
    <3>3. evidence' \subseteq evidence \cup {t}
      BY <2>2, <3>1 DEF Verify
    <3> QED
      BY <1>1, <3>1, <3>2, <3>3 DEF Supports
  <2>3. CASE ~Verify
    <3>1. evidence' \subseteq evidence
      BY <2>3, WorldMoves DEF Calm, PodsRestart, CLIStep, CLISteps, CarriedOut, KubeletRestarts, Apply
    <3> QED
      BY <1>1, <2>1, <3>1 DEF Supports
  <2> QED
    BY <2>2, <2>3
<1> QED
  BY <1>2, <1>4, <1>5 DEF Supports

\* And what is there stays there.
LEMMA ControlStays ==
    ASSUME ClusterTyped, ProgramTyped, [KubernetesNext]_kubernetesVars, NEW t, NoOther(t)
    PROVE  /\ desired = t => desired' = t
           /\ Control = {t} => Control' = {t}
           /\ manifests = t => manifests' = t
<1>1. manifests = t => manifests' = t
  BY ManifestsMove, StepsAreActive DEF NoOther
<1>2. desired = t => desired' = t
  BY ControlMoves, StepsAreActive DEF NoOther
<1>3. Control' # {} /\ (Control' \subseteq Control \/ Control' \subseteq Control \cup {t})
  BY ControlMoves, StepsAreActive DEF NoOther, Control
<1> QED
  BY <1>1, <1>2, <1>3

\* The evidence stays good.
LEMMA ProvenStep ==
    ASSUME ClusterTyped, ProgramTyped, Proven, Staged, [KubernetesNext]_kubernetesVars
    PROVE  Proven'
<1>0. /\ evidence \subseteq Nat /\ Control \subseteq Nat
      /\ \A i \in Talosctls : Active(i) => cli[i].target \in Nat
  <2>1. Versions \subseteq Nat
    BY DEF Versions
  <2>2. evidence \subseteq Versions /\ Control \subseteq Versions
    BY DEF ClusterTyped, Control
  <2>3. \A i \in Talosctls : Active(i) => cli[i].target \in Versions
    BY ActiveTyped
  <2> QED
    BY <2>1, <2>2, <2>3
<1>1. CASE Verify
  <2>1. run.pc \in After /\ UNCHANGED <<components, desired, manifests>>
    BY <1>1 DEF Verify, Running, After, world
  <2>2. Control = {run.plan.target} /\ manifests = run.plan.target /\ Control' = Control
    BY <2>1 DEF Staged, Control
  <2>3. evidence' \subseteq evidence \cup {run.plan.target}
    BY <1>1 DEF Verify
  <2>4. run.plan.target \in Nat
    BY <1>0, <2>2
  <2> QED
    BY <2>1, <2>2, <2>3, <2>4 DEF Proven
<1>2. ASSUME NEW i \in Talosctls, CLISteps(i), cli[i].step = "patch"
      PROVE  Proven'
  <2>1. UNCHANGED <<evidence, manifests>> /\ Control' = components \cup {cli[i].target}
    BY <1>2 DEF CLISteps, Control
  <2>2. \A e \in evidence : e <= cli[i].target /\ (manifests = e \/ e < cli[i].target)
    BY <1>2 DEF Staged, Informed, Supports
  <2>3. \A e \in evidence : /\ \A c \in components : e <= c
                            /\ manifests = e \/ \A c \in components : e < c
    BY DEF Proven, Control
  <2> QED
    BY <2>1, <2>2, <2>3 DEF Proven
<1>3. ASSUME NEW i \in Talosctls, CLISteps(i), cli[i].step = "sync"
      PROVE  Proven'
  <2>1. evidence' = evidence /\ manifests' = cli[i].target /\ Control' = Control /\ Control = {cli[i].target}
    BY <1>3 DEF CLISteps, Control, Staged, Informed
  <2>2. cli[i].target \in Nat
    BY <1>0, <1>3, StepsAreActive
  <2> QED
    BY <1>0, <2>1, <2>2 DEF Proven
<1>4. CASE ~Verify /\ \A i \in Talosctls : ~(CLISteps(i) /\ cli[i].step \in {"patch", "sync"})
  <2>1. Control' \subseteq Control
    BY <1>4, ControlMoves
  <2>2. manifests' = manifests
    BY <1>4, ManifestsMove
  <2>3. evidence' \subseteq evidence
    BY <1>4, WorldMoves DEF Calm, PodsRestart, CLIStep, CLISteps, CarriedOut, KubeletRestarts, Apply
  <2> QED
    BY <2>1, <2>2, <2>3 DEF Proven
<1> QED
  BY <1>1, <1>2, <1>3, <1>4

\* The stages keep what they know.
LEMMA StagedStep ==
    ASSUME ClusterTyped, ProgramTyped, Conversation, Aimed, Shared, Skewed, Proven, Staged,
           [KubernetesNext]_kubernetesVars
    PROVE  Staged'
<1> USE DEF world
<1>0. /\ NoCLI.step = "none" /\ Own \in Talosctls
      /\ run \in Runs \cup {NoRun}
      /\ run \in Runs => run.plan \in Plans /\ run.plan.target \in Versions
      /\ \A n \in {"check", "recheck", "launch"} : run.pc = n => run \in Runs
  BY DEF ProgramTyped, Talosctls, NoCLI, Runs, Plans, NoRun
<1>1. ASSUME Recheck
      PROVE  /\ run'.plan = run.plan
             /\ run'.pc = "launch" => Supports(run.plan.target)'
             /\ run'.pc \in After => Control' = {run.plan.target} /\ manifests' = run.plan.target
  <2>1. run \in Runs /\ ~run.canceled /\ run # NoRun /\ run.plan \in Plans
    BY <1>0, <1>1 DEF Recheck, Running, NoRun
  <2>2. Quiet /\ run.plan.target = goal
    BY <2>1, RunIsQuiet
  <2>3. UNCHANGED <<components, desired, manifests, kubelets, wire, evidence>>
    BY <1>1 DEF Recheck
  <2>4. CASE SamePlan(run.plan)
    <3>1. Supports(run.plan.target) /\ (run.plan.skip => Control = {run.plan.target} /\ manifests = run.plan.target)
      BY <2>1, <2>2, <2>4, PlanFits
    <3>2. run'.pc = (IF run.plan.skip THEN "verify" ELSE "launch") /\ run'.plan = run.plan
      BY <1>1, <2>1, <2>4 DEF Recheck, Goto, Runs
    <3>3. Supports(run.plan.target)' /\ Control' = Control
      <4>1. \A v \in Versions : Supports(v) => Supports(v)'
        BY <2>3 DEF Supports, NoneNewer, Control
      <4> QED
        BY <1>0, <2>1, <2>3, <3>1, <3>2, <4>1 DEF Control
    <3> QED
      BY <2>3, <3>1, <3>2, <3>3 DEF After, Updating
  <2>5. CASE ~SamePlan(run.plan)
    <3>1. run'.pc = "ending" /\ run'.plan = run.plan
      BY <1>1, <2>1, <2>5 DEF Recheck, NotStarted, Halt, Runs
    <3> QED
      BY <3>1 DEF After, Updating
  <2> QED
    BY <2>4, <2>5
<1>2. (run.pc = "launch" => Supports(run.plan.target))'
  <2>1. CASE run'.pc = "launch" /\ run.pc = "launch" /\ Stays
    <3>1. Supports(run.plan.target) /\ run.plan.target \in Versions /\ run'.plan = run.plan
      BY <1>0, <2>1 DEF Staged, Stays
    <3>2. NoOther(run.plan.target)
      BY <2>1, Together
    <3>3. PICK v \in Versions : v = run.plan.target
      BY <3>1
    <3>4. NoOther(v) /\ Supports(v)
      BY <3>1, <3>2, <3>3
    <3>5. Supports(v)' /\ v = run'.plan.target
      BY <3>1, <3>3, <3>4, SupportsStep
    <3> QED
      BY <3>5
  <2> QED
    BY <1>1, <2>1, StageMoves
<1>3. ASSUME Launch
      PROVE  Informed(Own)'
  <2>1. run.pc = "launch" /\ run \in Runs
    BY <1>0, <1>3 DEF Launch, Running
  <2>2. cli'[Own] = [step |-> "patch", target |-> run.plan.target]
    BY <1>0, <1>3 DEF Launch, ClusterTyped
  <2>3. cli'[Own].step = "patch" /\ cli'[Own].target = run.plan.target
    BY <2>2
  <2>4. PICK v \in Versions : v = run.plan.target
    BY <1>0, <2>1
  <2>5. Supports(v)
    BY <2>1, <2>4 DEF Staged
  <2>6. Supports(v)'
    BY <1>3, <2>5 DEF Launch, Supports, NoneNewer, Control
  <2> QED
    BY <2>3, <2>4, <2>6 DEF Informed
<1>4. ASSUME NEW i \in Talosctls, CLISteps(i)
      PROVE  Informed(i)'
  <2>1. PICK c \in CLIs :
            /\ cli' = [cli EXCEPT ![i] = c] /\ c.target = cli[i].target
            /\ \/ CLIFails(i) /\ c.step = "failed"
               \/ CLISteps(i) /\ cli[i].step = "patch" /\ c.step = "settle"
               \/ CLISteps(i) /\ cli[i].step = "settle" /\ c.step = "sync"
               \/ CLISteps(i) /\ cli[i].step = "sync" /\ c.step = "ok"
    BY <1>4, ProcessIs
  <2>2. cli'[i] = c
    BY <2>1 DEF ClusterTyped
  <2>3. CASE c.step = "failed"
    BY <2>2, <2>3 DEF Informed
  <2>4. CASE cli[i].step = "patch" /\ c.step = "settle"
    <3>1. desired' = cli[i].target
      BY <1>4, <2>4 DEF CLISteps
    <3> QED
      BY <2>1, <2>2, <2>4, <3>1 DEF Informed
  <2>5. CASE cli[i].step = "settle" /\ c.step = "sync"
    <3>1. components = {cli[i].target} /\ UNCHANGED <<components, desired>> /\ desired = cli[i].target
      BY <1>4, <2>5 DEF CLISteps, Staged, Informed
    <3> QED
      BY <2>1, <2>2, <2>5, <3>1 DEF Informed, Control
  <2>6. CASE cli[i].step = "sync" /\ c.step = "ok"
    <3>1. Control = {cli[i].target} /\ UNCHANGED <<components, desired>> /\ manifests' = cli[i].target
      BY <1>4, <2>6 DEF CLISteps, Staged, Informed
    <3> QED
      BY <2>1, <2>2, <2>6, <3>1 DEF Informed, Control
  <2> QED
    BY <2>1, <2>3, <2>4, <2>5, <2>6
<1>5. ASSUME NEW i \in Talosctls, NEW j \in Talosctls, cli'[i] = cli[j]
      PROVE  Informed(i)'
  <2>1. CASE ~Active(j)
    BY <1>5, <2>1 DEF Informed, Active
  <2>2. CASE Active(j)
    <3>1. PICK v \in Versions : v = cli[j].target
      BY <2>2, ActiveTyped
    <3>2. NoOther(v)
      BY <2>2, <3>1, Together
    <3>3. Informed(j)
      BY DEF Staged
    <3>4. Supports(v) => Supports(v)'
      BY <3>2, SupportsStep
    <3>5. /\ desired = v => desired' = v
          /\ Control = {v} => Control' = {v}
          /\ manifests = v => manifests' = v
      BY <3>2, ControlStays
    <3> QED
      BY <1>5, <3>1, <3>3, <3>4, <3>5 DEF Informed
  <2> QED
    BY <2>1, <2>2
<1>6. ASSUME NEW i \in Talosctls
      PROVE  Informed(i)'
  <2>1. CASE cli'[i].step \in {"none", "failed"}
    BY <2>1 DEF Informed
  <2> QED
    BY <1>0, <1>3, <1>4, <1>5, <2>1, ProcessMoves
<1>7. (run.pc \in After => Control = {run.plan.target} /\ manifests = run.plan.target)'
  <2>1. CASE run.pc \in After /\ run'.plan = run.plan
    <3>1. Control = {run.plan.target} /\ manifests = run.plan.target
      BY <2>1 DEF Staged
    <3>2. PICK v : v = run.plan.target
      OBVIOUS
    <3>3. NoOther(v)
      BY <2>1, <3>2, Together
    <3>4. Control' = {v} /\ manifests' = v
      BY <3>1, <3>2, <3>3, ControlStays
    <3> QED
      BY <2>1, <3>2, <3>4
  <2>2. CASE CLIExited /\ cli[Own].step = "ok"
    <3>1. run.pc = "cli" /\ run \in Runs /\ UNCHANGED <<components, desired, manifests>>
      BY <1>0, <2>2 DEF CLIExited, Running, NoRun
    <3>2. run'.plan = run.plan
      BY <2>2, <3>1 DEF CLIExited, Goto, Runs
    <3>3. cli[Own].target = run.plan.target
      BY <1>0, <2>2, <3>1 DEF Shared, Active
    <3>4. Informed(Own)
      BY <1>0 DEF Staged
    <3> QED
      BY <2>2, <3>1, <3>2, <3>3, <3>4 DEF Informed, Control
  <2> QED
    BY <1>1, <2>1, <2>2, StageMoves DEF Stays
<1> QED
  BY <1>2, <1>6, <1>7 DEF Staged

-----------------------------------------------------------------------------
(* The nodes, one at a time                                                *)

Pending(n) == \E r \in wire : r.n = n /\ r.image # kubelets[n].image
Moving == {n \in Nodes : Pending(n) \/ ~kubelets[n].ready}

\* No two kubelets restart, or may restart; those before the one that may have the image that it
\* is asked for.  A run that goes on knows which one it is.
InTurn ==
    /\ \A n, m \in Moving : n = m
    /\ \A r \in wire : r.image # kubelets[r.n].image => \A m \in Nodes : m < r.n => kubelets[m].image = r.image
    /\ run.pc \in Updating /\ ~run.canceled =>
           /\ Moving \subseteq {run.i}
           /\ \A m \in Nodes : m < run.i => kubelets[m].image = run.plan.target

\* A kubelet takes up another image only on request.
LEMMA ImageMoves ==
    ASSUME ClusterTyped, ProgramTyped, [KubernetesNext]_kubernetesVars, NEW m \in Nodes
    PROVE  \/ kubelets'[m].image = kubelets[m].image
           \/ \E r \in wire : r.n = m /\ kubelets'[m].image = r.image
<1>1. ASSUME NEW r \in wire, CarriedOut(r), kubelets'[m].image # kubelets[m].image
      PROVE  r.n = m /\ kubelets'[m].image = r.image
  <2>1. PICK k \in Kubelets : kubelets' = [kubelets EXCEPT ![r.n] = k] /\ k.image = r.image
    BY <1>1, CarriedOutIs
  <2>2. kubelets'[m] = IF m = r.n THEN k ELSE kubelets[m]
    BY <2>1 DEF ClusterTyped
  <2> QED
    BY <1>1, <2>1, <2>2
<1>2. ASSUME NEW n \in Nodes, KubeletRestarts(n)
      PROVE  kubelets'[m].image = kubelets[m].image
  <2>1. PICK k \in Kubelets : kubelets' = [kubelets EXCEPT ![n] = k] /\ k.image = kubelets[n].image
    BY <1>2, RestartIs
  <2>2. kubelets'[m] = IF m = n THEN k ELSE kubelets[m]
    BY <2>1 DEF ClusterTyped
  <2> QED
    BY <2>1, <2>2
<1> QED
  BY <1>1, <1>2, WorldMoves DEF Calm, PodsRestart, CLIStep, CLISteps, Apply, Verify, world

\* The requests are those there were, and the one the run sends.
LEMMA WireMoves ==
    ASSUME ClusterTyped, ProgramTyped, [KubernetesNext]_kubernetesVars
    PROVE  wire' \subseteq wire \/ (Apply /\ wire' = wire \cup {Request} /\ kubelets' = kubelets)
BY WorldMoves DEF Calm, PodsRestart, CLIStep, CLISteps, CarriedOut, KubeletRestarts, Apply, Verify, world

\* A kubelet starts to move only when the run asks it to.
LEMMA MovingMoves ==
    ASSUME ClusterTyped, ProgramTyped, Aimed, [KubernetesNext]_kubernetesVars, NEW m \in Moving'
    PROVE  m \in Moving \/ (Apply /\ m = run.i)
<1>0. m \in Nodes /\ (Pending(m)' \/ ~kubelets'[m].ready)
  BY DEF Moving
<1>1. CASE Calm \/ PodsRestart \/ CLIStep \/ Verify
  <2>1. wire' \subseteq wire /\ kubelets'[m].image = kubelets[m].image /\ kubelets'[m].ready = kubelets[m].ready
    BY <1>0, <1>1 DEF Calm, PodsRestart, CLIStep, CLISteps, Verify, world
  <2> QED
    BY <1>0, <2>1 DEF Moving, Pending
<1>2. ASSUME NEW r \in wire, CarriedOut(r)
      PROVE  m \in Moving
  <2>1. PICK k \in Kubelets :
            /\ kubelets' = [kubelets EXCEPT ![r.n] = k]
            /\ k.image = r.image /\ (k.ready <=> kubelets[r.n].ready /\ kubelets[r.n].image = r.image)
    BY <1>2, CarriedOutIs
  <2>2. kubelets'[m] = IF m = r.n THEN k ELSE kubelets[m]
    BY <1>0, <2>1 DEF ClusterTyped
  <2>3. wire' \subseteq wire /\ \A s \in wire : s.image = r.image
    BY <1>2 DEF CarriedOut, Aimed
  <2>4. CASE m = r.n
    <3>1. ~Pending(m)'
      BY <2>1, <2>2, <2>3, <2>4 DEF Pending
    <3>2. ~kubelets[m].ready \/ kubelets[m].image # r.image
      BY <1>0, <2>1, <2>2, <2>4, <3>1
    <3> QED
      BY <1>0, <2>4, <3>2 DEF Moving, Pending
  <2>5. CASE m # r.n
    BY <1>0, <2>2, <2>3, <2>5 DEF Moving, Pending
  <2> QED
    BY <2>4, <2>5
<1>3. ASSUME NEW n \in Nodes, KubeletRestarts(n)
      PROVE  m \in Moving
  <2>1. PICK k \in Kubelets : /\ kubelets' = [kubelets EXCEPT ![n] = k]
                             /\ k.image = kubelets[n].image /\ ~kubelets[n].ready
    BY <1>3, RestartIs
  <2>2. kubelets'[m] = IF m = n THEN k ELSE kubelets[m]
    BY <1>0, <2>1 DEF ClusterTyped
  <2>3. wire' = wire
    BY <1>3 DEF KubeletRestarts
  <2> QED
    BY <1>0, <2>1, <2>2, <2>3 DEF Moving, Pending
<1>4. CASE Apply /\ wire' = wire \cup {Request}
  <2>1. kubelets' = kubelets /\ Request.n = run.i
    BY <1>4 DEF Apply, Request
  <2> QED
    BY <1>0, <1>4, <2>1 DEF Moving, Pending
<1> QED
  BY <1>1, <1>2, <1>3, <1>4, WorldMoves

\* How the run gets to the update of a node.
LEMMA UpdatingMoves ==
    ASSUME ClusterTyped, ProgramTyped, [KubernetesNext]_kubernetesVars, run'.pc \in Updating
    PROVE  /\ run \in Runs /\ run'.plan = run.plan /\ run'.i = run.i /\ (run.canceled => run'.canceled)
           /\ run.pc \in Updating \/ (NextNode /\ Goto("patch"))
<1>1. CASE ~RunGoroutine
  BY <1>1, OthersKeepRun DEF Stays, NoRun, Updating
<1>2. CASE RunGoroutine
  <2>1. ~Release
    <3>1. Release => run' = NoRun
      BY DEF Release
    <3> QED
      BY <3>1 DEF NoRun, Updating
  <2>2. Advances /\ run'.i = run.i
    BY <1>2, <2>1, GoroutineAdvances, UpdatesNode
  <2>3. run \in Runs /\ run.pc \in Stages
    BY <2>2 DEF Advances, Runs
  <2>4. ASSUME NEW o, NEW s, Halt(o, s)
        PROVE  FALSE
    BY <2>3, <2>4 DEF Halt, Runs, Updating
  <2>5. ASSUME NEW pc, pc \notin Updating, Goto(pc)
        PROVE  FALSE
    BY <2>3, <2>5 DEF Goto, Runs
  <2>6. run.pc \in Updating \/ (NextNode /\ Goto("patch"))
    <3>1. CASE Check \/ Snapshot \/ Recheck \/ CLIExited \/ CLIReaped
      BY <2>4, <2>5, <3>1 DEF Check, Snapshot, Recheck, CLIExited, CLIReaped, NotStarted, Partial, Updating
    <3>2. CASE Launch
      BY <2>3, <3>2 DEF Launch, Runs, Updating
    <3>3. CASE Verify
      BY <2>3, <2>4, <3>3 DEF Verify, Partial, Runs, Updating
    <3>4. CASE NextNode
      <4>1. CASE run' = [run EXCEPT !.i = @ + 1, !.outcomes[run.i] = "completed"]
        BY <2>3, <3>4, <4>1 DEF NextNode, Running, Runs, Updating
      <4> QED
        BY <2>4, <3>4, <4>1 DEF NextNode, StopBefore
    <3>5. CASE NodesChanged \/ Final
      BY <2>4, <3>5 DEF NodesChanged, Final, StopBefore
    <3>6. CASE CallFails
      <4>1. run.pc \notin {"idle", "ending", "cli"}
        BY <3>6 DEF CallFails
      <4>2. PICK o, s : Halt(o, s)
        BY <2>3, <3>6, <4>1
           DEF CallFails, NotStarted, Partial, StopBefore, StopAt, Stages, Before, After, Updating
      <4> QED
        BY <2>4, <4>2
    <3>7. CASE Patch \/ Apply \/ Answered \/ KubeletDone
      BY <3>7 DEF Patch, Apply, Answered, KubeletDone, Running, Updating
    <3> QED
      BY <1>2, <2>1, <3>1, <3>2, <3>3, <3>4, <3>5, <3>6, <3>7 DEF RunGoroutine
  <2> QED
    BY <2>2, <2>3, <2>6 DEF Advances
<1> QED
  BY <1>1, <1>2

\* The nodes keep to their turn.
LEMMA InTurnStep ==
    ASSUME ClusterTyped, ProgramTyped, Conversation, Aimed, Skewed, Staged, InTurn,
           [KubernetesNext]_kubernetesVars
    PROVE  InTurn'
<1>0. Apply => run.pc \in Updating /\ ~run.canceled /\ run # NoRun /\ Request.image = run.plan.target /\ Request.n = run.i
  BY DEF Apply, Running, Updating, Request, NoRun
<1>1. \A n, m \in Moving' : n = m
  <2> SUFFICES ASSUME NEW n \in Moving', NEW m \in Moving'
               PROVE  n = m
    OBVIOUS
  <2>1. Apply => Moving \subseteq {run.i}
    BY <1>0 DEF InTurn
  <2>2. n \in Moving \/ (Apply /\ n = run.i)
    BY MovingMoves
  <2>3. m \in Moving \/ (Apply /\ m = run.i)
    BY MovingMoves
  <2> QED
    BY <2>1, <2>2, <2>3 DEF InTurn
<1>2. ASSUME NEW r \in wire', r.image # kubelets'[r.n].image, NEW m \in Nodes, m < r.n
      PROVE  kubelets'[m].image = r.image
  <2>1. CASE r \in wire
    <3>1. r.n \in Nodes /\ \A s \in wire : s.image = r.image
      BY <2>1 DEF ClusterTyped, Requests, Aimed
    <3>2. r.image # kubelets[r.n].image
      BY <1>2, <3>1, ImageMoves
    <3>3. kubelets[m].image = r.image
      BY <1>2, <2>1, <3>2 DEF InTurn
    <3>4. \/ kubelets'[m].image = kubelets[m].image
          \/ \E s \in wire : s.n = m /\ kubelets'[m].image = s.image
      BY ImageMoves
    <3> QED
      BY <3>1, <3>3, <3>4
  <2>2. CASE r \notin wire
    <3>1. Apply /\ r = Request /\ kubelets' = kubelets
      BY <2>2, WireMoves
    <3> QED
      BY <1>0, <1>2, <3>1 DEF InTurn
  <2> QED
    BY <2>1, <2>2
<1>3. ASSUME run'.pc \in Updating, ~run'.canceled
      PROVE  /\ Moving' \subseteq {run'.i}
             /\ \A m \in Nodes : m < run'.i => kubelets'[m].image = run'.plan.target
  <2>1. /\ run \in Runs /\ run'.plan = run.plan /\ run'.i = run.i /\ ~run.canceled
        /\ run.pc \in Updating \/ (NextNode /\ Goto("patch"))
    BY <1>3, UpdatingMoves
  <2>2. run # NoRun
    BY <2>1, NothingElse
  <2>3. Quiet /\ run.plan.target = goal
    BY <2>1, <2>2, RunIsQuiet
  <2>4. CASE run.pc \in Updating
    <3>1. Moving \subseteq {run.i} /\ \A m \in Nodes : m < run.i => kubelets[m].image = run.plan.target
      BY <2>1, <2>4 DEF InTurn
    <3>2. Moving' \subseteq {run.i}
      BY <3>1, MovingMoves
    <3>3. ASSUME NEW m \in Nodes, m < run.i
          PROVE  kubelets'[m].image = run.plan.target
      <4>1. \/ kubelets'[m].image = kubelets[m].image
            \/ \E s \in wire : s.n = m /\ kubelets'[m].image = s.image
        BY ImageMoves
      <4> QED
        BY <2>3, <3>1, <3>3, <4>1 DEF Quiet
    <3> QED
      BY <2>1, <3>2, <3>3
  <2>5. CASE NextNode /\ Goto("patch")
    <3>1. /\ AllReady /\ Unchanged(run.plan, run.base, run.i) /\ run.i \in Nodes
          /\ UNCHANGED <<kubelets, wire>> /\ run'.pc = "patch"
      <4>1. run.i \in 1 .. N + 1 /\ run.i <= N
        BY <2>1, <2>5 DEF NextNode, Runs
      <4>2. run.i \in Nodes
        BY <4>1, KubernetesAssumption DEF Nodes
      <4> QED
        BY <2>1, <2>5, <4>2 DEF NextNode, Goto, Runs, world
    <3>2. kubelets[run.i].version # run.plan.target
      <4>1. run.pc = "node"
        BY <2>5 DEF NextNode, Running
      <4>2. ASSUME run' = [run EXCEPT !.i = @ + 1, !.outcomes[run.i] = "completed"]
            PROVE  FALSE
        BY <2>1, <3>1, <4>1, <4>2 DEF Runs
      <4>3. ASSUME StopBefore(run.i)
            PROVE  FALSE
        BY <2>1, <3>1, <4>3 DEF StopBefore, Halt, Runs
      <4> QED
        BY <2>5, <4>2, <4>3 DEF NextNode
    <3>3. kubelets[run.i].image # run.plan.target
      BY <3>1, <3>2 DEF AllReady, Skewed
    <3>4. \A m \in Nodes : m < run.i => kubelets[m].image = run.plan.target
      BY <3>1 DEF Unchanged
    <3>5. ASSUME NEW m \in Moving
          PROVE  m = run.i
      <4>1. PICK r \in wire : r.n = m /\ r.image # kubelets[m].image
        BY <3>1, <3>5 DEF Moving, Pending, AllReady
      <4>2. r.image = run.plan.target /\ m \in Nodes
        BY <2>3, <3>5 DEF Quiet, Moving
      <4>3. ~(m < run.i)
        BY <3>4, <4>1, <4>2
      <4>4. ~(run.i < m)
        BY <3>1, <3>3, <4>1, <4>2 DEF InTurn
      <4>5. m \in Nat /\ run.i \in Nat
        BY <3>1, <4>2 DEF Nodes
      <4> QED
        BY <4>3, <4>4, <4>5
    <3>6. Moving' = Moving
      BY <3>1 DEF Moving, Pending
    <3> QED
      BY <2>1, <3>1, <3>4, <3>5, <3>6
  <2> QED
    BY <2>1, <2>4, <2>5
<1> QED
  BY <1>1, <1>2, <1>3 DEF InTurn

-----------------------------------------------------------------------------
(* The result                                                              *)

Unsent == {"absent", "not_attempted", "unknown"}

\* A result owns to everything that was sent.
Owned(r) ==
    /\ r.outcome = "not_attempted" => r.sent = {}
    /\ r.outcome # "none" => \A n \in Nodes : r.nodes[n] \in Unsent => n \notin r.sent

\* A run knows of the nodes it has sent something that they are through, or next.
Accounted(r) ==
    \A n \in r.sent \cap Nodes : \/ n < r.i /\ r.outcomes[n] = "completed"
                                 \/ n = r.i /\ r.pc \in {"sent", "kubelet"}

\* The cluster is at a version, and nothing is under way that takes it from there.
Upgraded(t) ==
    /\ Control = {t} /\ manifests = t
    /\ \A i \in Talosctls : Active(i) => cli[i].target = t
    /\ \A n \in Nodes : kubelets[n].version = t /\ kubelets[n].image = t
    /\ \A r \in wire : r.image = t

\* What the run has sent is what its result will own to, and a cluster that was reported as
\* upgraded stays so until the next run.
Recorded ==
    /\ run # NoRun /\ run.pc # "ending" =>
           /\ report = NoReport
           /\ run.pc \in Before => run.sent = {}
           /\ Accounted(run)
    /\ Owned(report)
    /\ report.outcome = "completed" => Upgraded(report.target)

\* What the goroutine has done so far goes into the result when it stops.
LEMMA GoroutineRecords ==
    ASSUME ClusterTyped, ProgramTyped, Recorded, RunGoroutine, ~Release
    PROVE  /\ run'.pc # "ending" =>
                /\ report' = NoReport
                /\ run'.pc \in Before => run'.sent = {}
                /\ Accounted(run')
           /\ Owned(report')
           /\ report'.outcome = "completed" => Final
<1> DEFINE Result(o, s) == [outcome |-> o, target |-> run.plan.target, nodes |-> s, sent |-> run.sent]
           Goal == /\ run'.pc # "ending" =>
                       /\ report' = NoReport
                       /\ run'.pc \in Before => run'.sent = {}
                       /\ Accounted(run')
                   /\ Owned(report')
                   /\ report'.outcome = "completed" => Final
<1> USE DEF Accounted
<1>1. Advances
  BY GoroutineAdvances
<1>2. run \in Runs /\ run # NoRun /\ run.pc # "ending" /\ run.pc \in Stages
  BY <1>1, NothingElse DEF Advances, Runs
<1>3. /\ run.i \in 1 .. N + 1 /\ run.outcomes \in [Nodes -> Fates] /\ run.sent \subseteq 0 .. N
      /\ Nodes \subseteq Nat /\ run.i \in Nat /\ 0 \notin Nodes
  BY <1>2, KubernetesAssumption DEF Runs, Nodes
<1>4. report = NoReport /\ (run.pc \in Before => run.sent = {}) /\ Accounted(run)
  BY <1>2 DEF Recorded
<1>5. NoReport.outcome = "none" /\ Owned(NoReport)
  BY DEF NoReport, Owned
<1>6. ASSUME NEW pc \in Stages, Goto(pc), pc \in Before => run.pc \in Before,
             run.pc \in {"sent", "kubelet"} => pc \in {"sent", "kubelet"}
      PROVE  Goal
  <2>1. /\ run'.pc = pc /\ run'.i = run.i /\ run'.outcomes = run.outcomes /\ run'.sent = run.sent
        /\ report' = report
    BY <1>2, <1>6 DEF Goto, Runs
  <2> QED
    BY <1>4, <1>5, <1>6, <2>1
<1>7. ASSUME NEW o, NEW s, Halt(o, s), o \in {"not_attempted", "unconfirmed"}, Owned(Result(o, s))
      PROVE  Goal
  <2>1. run'.pc = "ending" /\ report' = Result(o, s)
    BY <1>2, <1>7 DEF Halt, Runs
  <2> QED
    BY <1>7, <2>1
<1>8. ASSUME NEW s, NEW o, o \in {"unconfirmed", "completed"}, \A n \in run.sent \cap Nodes : s[n] \notin Unsent
      PROVE  Owned(Result(o, s))
  BY <1>8 DEF Owned
<1>9. ASSUME NotStarted, run.pc \in Before
      PROVE  Goal
  <2>1. Owned(Result("not_attempted", NoOutcomes))
    BY <1>4, <1>9 DEF Owned
  <2> QED
    BY <1>7, <1>9, <2>1 DEF NotStarted
<1>10. ASSUME Partial, run.pc \notin {"sent", "kubelet"}
       PROVE  Goal
  <2>1. \A n \in run.sent \cap Nodes : run.outcomes[n] \notin Unsent
    BY <1>4, <1>10 DEF Unsent
  <2>2. Owned(Result("unconfirmed", run.outcomes))
    BY <1>8, <2>1
  <2> QED
    BY <1>7, <1>10, <2>2 DEF Partial
<1>11. ASSUME StopBefore(run.i), run.pc \notin {"sent", "kubelet"}
       PROVE  Goal
  <2>1. \A n \in Nodes : Rest(run.i)[n] = IF n >= run.i THEN "not_attempted" ELSE run.outcomes[n]
    BY DEF Rest
  <2>2. \A n \in run.sent \cap Nodes : Rest(run.i)[n] \notin Unsent
    BY <1>3, <1>4, <1>11, <2>1 DEF Unsent
  <2>3. Owned(Result("unconfirmed", Rest(run.i)))
    BY <1>8, <2>2
  <2> QED
    BY <1>7, <1>11, <2>3 DEF StopBefore
<1>12. ASSUME NEW fate, StopAt(run.i, fate), fate = "unconfirmed" \/ run.pc \notin {"sent", "kubelet"}
       PROVE  Goal
  <2> DEFINE s == [Rest(run.i) EXCEPT ![run.i] = fate]
  <2>1. \A n \in Nodes : s[n] = IF n = run.i THEN fate ELSE IF n >= run.i THEN "not_attempted" ELSE run.outcomes[n]
    BY DEF Rest
  <2>2. \A n \in run.sent \cap Nodes : s[n] \notin Unsent
    BY <1>3, <1>4, <1>12, <2>1 DEF Unsent
  <2>3. Owned(Result("unconfirmed", s))
    BY <1>8, <2>2
  <2> QED
    BY <1>7, <1>12, <2>3 DEF StopAt
<1>a. /\ {"snapshot", "recheck", "launch", "verify", "patch", "apply", "kubelet"} \subseteq Stages
      /\ {"launch", "verify", "patch", "apply", "kubelet", "node", "cli", "sent"} \cap Before = {}
      /\ {"check", "snapshot", "recheck"} = Before
  BY DEF Stages, Before, After, Updating
<1>13. CASE Check \/ Snapshot \/ Recheck
  BY <1>6, <1>9, <1>13, <1>a DEF Check, Snapshot, Recheck, Running
<1>14. CASE Launch
  <2>1. /\ run.pc = "launch" /\ run'.pc = "cli" /\ run'.i = run.i /\ run'.outcomes = run.outcomes
        /\ run'.sent = run.sent \cup {0} /\ report' = report
    BY <1>2, <1>14 DEF Launch, Running, Runs
  <2> QED
    BY <1>3, <1>4, <1>5, <1>a, <2>1
<1>15. CASE CLIExited \/ CLIReaped
  BY <1>6, <1>10, <1>15, <1>a DEF CLIExited, CLIReaped, Running
<1>16. CASE Verify
  <2>1. CASE Partial
    BY <1>10, <1>16, <2>1 DEF Verify, Running
  <2>2. CASE run' = [run EXCEPT !.pc = "node", !.base = [n \in Nodes |-> Config(n)]] /\ UNCHANGED report
    <3>1. /\ run.pc = "verify" /\ run'.pc = "node" /\ run'.i = run.i /\ run'.outcomes = run.outcomes
          /\ run'.sent = run.sent /\ report' = report
      BY <1>2, <1>16, <2>2 DEF Verify, Running, Runs
    <3> QED
      BY <1>4, <1>5, <1>a, <3>1
  <2> QED
    BY <1>16, <2>1, <2>2 DEF Verify
<1>17. CASE NextNode
  <2>1. run.pc = "node"
    BY <1>17 DEF NextNode, Running
  <2>2. CASE run' = [run EXCEPT !.i = @ + 1, !.outcomes[run.i] = "completed"] /\ UNCHANGED report
    <3>1. /\ run'.pc = "node" /\ run'.i = run.i + 1 /\ run'.sent = run.sent /\ report' = report
          /\ run'.outcomes = [run.outcomes EXCEPT ![run.i] = "completed"]
      BY <1>2, <2>1, <2>2 DEF Runs
    <3>2. \A n \in run.sent \cap Nodes : n < run'.i /\ run'.outcomes[n] = "completed"
      BY <1>3, <1>4, <2>1, <3>1
    <3> QED
      BY <1>4, <1>5, <1>a, <3>1, <3>2
  <2> QED
    BY <1>6, <1>11, <1>17, <1>a, <2>1, <2>2 DEF NextNode
<1>18. CASE NodesChanged
  BY <1>11, <1>18 DEF NodesChanged, Running
<1>19. CASE Final
  <2>1. \A n \in run.sent \cap Nodes : run.outcomes[n] \notin Unsent
    BY <1>4, <1>19 DEF Unsent, Final, Running
  <2>2. Owned(Result("completed", run.outcomes))
    BY <1>8, <2>1
  <2>3. run'.pc = "ending" /\ report' = Result("completed", run.outcomes)
    BY <1>2, <1>19 DEF Final, Halt, Runs
  <2> QED
    BY <1>19, <2>2, <2>3
<1>20. CASE Patch
  BY <1>6, <1>12, <1>20, <1>a DEF Patch, Running
<1>21. CASE Apply
  <2>1. run.pc = "apply"
    BY <1>21 DEF Apply, Running
  <2>2. CASE run' = [run EXCEPT !.pc = "sent", !.sent = @ \cup {run.i}] /\ UNCHANGED report
    <3>1. /\ run'.pc = "sent" /\ run'.i = run.i /\ run'.outcomes = run.outcomes
          /\ run'.sent = run.sent \cup {run.i} /\ report' = report
      BY <1>2, <2>2 DEF Runs
    <3> QED
      BY <1>4, <1>5, <1>a, <2>1, <3>1
  <2> QED
    BY <1>12, <1>21, <2>1, <2>2 DEF Apply
<1>22. CASE Answered
  BY <1>6, <1>22, <1>a DEF Answered, Running
<1>23. CASE KubeletDone
  <2>1. run.pc = "kubelet"
    BY <1>23 DEF KubeletDone, Running
  <2>2. CASE /\ run' = [run EXCEPT !.pc = "node", !.i = @ + 1, !.outcomes[run.i] = "completed", !.base[run.i] = Config(run.i)]
             /\ UNCHANGED report
    <3>1. /\ run'.pc = "node" /\ run'.i = run.i + 1 /\ run'.sent = run.sent /\ report' = report
          /\ run'.outcomes = [run.outcomes EXCEPT ![run.i] = "completed"]
      BY <1>2, <2>1, <2>2 DEF Runs
    <3>2. \A n \in run.sent \cap Nodes : n < run'.i /\ run'.outcomes[n] = "completed"
      BY <1>3, <1>4, <3>1
    <3> QED
      BY <1>4, <1>5, <1>a, <3>1, <3>2
  <2> QED
    BY <1>12, <1>23, <2>2 DEF KubeletDone
<1>24. CASE CallFails
  <2>1. CASE run.pc \in Before
    BY <1>9, <1>24, <2>1 DEF CallFails, Before
  <2>2. CASE run.pc \in {"launch", "verify"}
    BY <1>10, <1>24, <2>2 DEF CallFails
  <2>3. CASE run.pc = "node"
    BY <1>11, <1>24, <2>3 DEF CallFails
  <2>4. CASE run.pc \in {"patch", "apply"}
    BY <1>12, <1>24, <2>4 DEF CallFails
  <2>5. CASE run.pc \in {"sent", "kubelet"}
    BY <1>12, <1>24, <2>5 DEF CallFails
  <2> QED
    BY <1>2, <1>24, <2>1, <2>2, <2>3, <2>4, <2>5 DEF CallFails, Stages, After, Updating
<1> QED
  BY <1>13, <1>14, <1>15, <1>16, <1>17, <1>18, <1>19, <1>20, <1>21, <1>22, <1>23, <1>24
     DEF RunGoroutine

\* A run that ends after the last node leaves the cluster as it was asked to.
LEMMA FinalIsUpgraded ==
    ASSUME ClusterTyped, ProgramTyped, Conversation, Aimed, Staged, Final
    PROVE  Upgraded(run.plan.target)
<1>1. run # NoRun /\ run.pc = "node" /\ ~run.canceled /\ run.i = N + 1 /\ Unchanged(run.plan, run.base, run.i)
  BY DEF Final, Running, NoRun
<1>2. Quiet /\ run.plan.target = goal
  BY <1>1, RunIsQuiet
<1>3. run.pc \in After
  BY <1>1 DEF After
<1>4. \A i \in Talosctls : Active(i) => cli[i].target = run.plan.target
  BY <1>2 DEF Quiet, Active
<1>5. Control = {run.plan.target} /\ manifests = run.plan.target
  BY <1>3 DEF Staged
<1>6. \A n \in Nodes : n < N + 1
  BY KubernetesAssumption DEF Nodes
<1>7. \A n \in Nodes : kubelets[n].version = run.plan.target /\ kubelets[n].image = run.plan.target
  BY <1>1, <1>6 DEF Unchanged
<1>8. \A r \in wire : r.image = run.plan.target
  BY <1>2 DEF Quiet
<1> QED
  BY <1>4, <1>5, <1>7, <1>8 DEF Upgraded

\* A cluster that is upgraded stays so while nothing runs.
LEMMA UpgradedStep ==
    ASSUME ClusterTyped, ProgramTyped, [KubernetesNext]_kubernetesVars, NEW t, Upgraded(t),
           run = NoRun \/ run.pc = "ending"
    PROVE  Upgraded(t)'
<1>1. ~Apply /\ ~Verify /\ ~Launch
  BY DEF Apply, Verify, Launch, Running, NoRun
<1>2. NoOther(t)
  BY <1>1 DEF Upgraded, NoOther
<1>3. ~PodsRestart
  BY DEF PodsRestart, Upgraded, Control, ClusterTyped
<1>4. \A i \in Talosctls : Active(i)' => cli'[i].target = t
  BY <1>1, TargetsStay DEF Upgraded, Inherited
<1>5. Control' = {t} /\ manifests' = t
  BY <1>2, ControlStays DEF Upgraded
<1>6. \A n \in Nodes : kubelets'[n].image = t
  BY ImageMoves DEF Upgraded
<1>7. \A n \in Nodes : kubelets'[n].version = t
  <2> SUFFICES ASSUME NEW n \in Nodes
               PROVE  kubelets'[n].version = t
    OBVIOUS
  <2>0. kubelets[n].version = t /\ kubelets[n].image = t
    BY DEF Upgraded
  <2>1. ASSUME NEW r \in wire, CarriedOut(r)
        PROVE  kubelets'[n].version = t
    <3>1. PICK k \in Kubelets : kubelets' = [kubelets EXCEPT ![r.n] = k] /\ k.version = kubelets[r.n].version
      BY <2>1, CarriedOutIs
    <3>2. kubelets'[n] = IF n = r.n THEN k ELSE kubelets[n]
      BY <3>1 DEF ClusterTyped
    <3> QED
      BY <2>0, <3>1, <3>2
  <2>2. ASSUME NEW m \in Nodes, KubeletRestarts(m)
        PROVE  kubelets'[n].version = t
    <3>1. PICK k \in Kubelets : kubelets' = [kubelets EXCEPT ![m] = k] /\ k.version = kubelets[m].image
      BY <2>2, RestartIs
    <3>2. kubelets'[n] = IF n = m THEN k ELSE kubelets[n]
      BY <3>1 DEF ClusterTyped
    <3> QED
      BY <2>0, <3>1, <3>2
  <2> QED
    BY <1>1, <1>3, <2>0, <2>1, <2>2, WorldMoves DEF Calm, CLIStep, CLISteps
<1>8. \A r \in wire' : r.image = t
  BY <1>1, WireMoves DEF Upgraded
<1> QED
  BY <1>4, <1>5, <1>6, <1>7, <1>8 DEF Upgraded

\* Only the goroutine makes a result; the others put it aside.
LEMMA OthersReport ==
    ASSUME [KubernetesNext]_kubernetesVars, ~RunGoroutine
    PROVE  report' = report \/ report' = NoReport
<1>1. CASE Cluster
  BY <1>1 DEF Cluster, CLISteps, OrphanEnds, PodsRestart, CarriedOut, KubeletRestarts
<1>2. CASE Messages
  BY <1>2 DEF Messages, PrepareRuns, PreparedArrives, StartRuns, OpenedArrives, RefusedArrives, FinishedArrives
<1>3. CASE Operator \/ Adverse
  BY <1>3 DEF Operator, PressEnter, Confirm, Dismiss, Adverse, CLIFails, Escape, Unknown, Leave, Restart,
              OperatorChanges
<1>4. CASE UNCHANGED kubernetesVars
  BY <1>4 DEF kubernetesVars
<1> QED
  BY <1>1, <1>2, <1>3, <1>4 DEF KubernetesNext

\* What is reported stays true.
LEMMA RecordedStep ==
    ASSUME ClusterTyped, ProgramTyped, Conversation, Aimed, Staged, Recorded, [KubernetesNext]_kubernetesVars
    PROVE  Recorded'
<1>0. Owned(NoReport) /\ NoReport.outcome = "none" /\ NoRun \notin Runs
  BY NothingElse DEF NoReport, Owned
<1>1. CASE RunGoroutine /\ ~Release
  <2>1. ASSUME Final
        PROVE  Upgraded(report.target)'
    <3>1. Upgraded(run.plan.target)
      BY <2>1, FinalIsUpgraded
    <3>2. report'.target = run.plan.target /\ UNCHANGED <<world, cli>>
      BY <2>1 DEF Final, Halt
    <3> QED
      BY <3>1, <3>2 DEF Upgraded, Active, Control, world
  <2> QED
    BY <1>1, <2>1, GoroutineRecords DEF Recorded
<1>2. CASE Release
  <2>1. run' = NoRun /\ UNCHANGED <<world, cli, report>>
    BY <1>2 DEF Release
  <2>2. Owned(report)' /\ (report'.outcome = "completed" => Upgraded(report.target)')
    BY <2>1 DEF Recorded, Upgraded, Active, Control, world, Owned
  <2> QED
    BY <2>1, <2>2 DEF Recorded
<1>3. CASE ~RunGoroutine
  <2>1. report' = report \/ report' = NoReport
    BY <1>3, OthersReport
  <2>2. \/ run' = NoRun
        \/ Stays
        \/ run = NoRun /\ run'.pc = "check" /\ run'.sent = {} /\ report' = NoReport
    BY <1>3, OthersKeepRun
  <2>3. run' # NoRun /\ run'.pc # "ending" =>
            /\ report' = NoReport
            /\ run'.pc \in Before => run'.sent = {}
            /\ Accounted(run')
    <3>1. CASE Stays /\ run'.pc # "ending"
      <4>1. /\ run # NoRun /\ run.pc # "ending" /\ run'.pc = run.pc /\ run'.i = run.i
            /\ run'.outcomes = run.outcomes /\ run'.sent = run.sent
        BY <1>0, <3>1 DEF Stays
      <4> QED
        BY <2>1, <4>1 DEF Recorded, Accounted
    <3>2. CASE run = NoRun /\ run'.pc = "check" /\ run'.sent = {} /\ report' = NoReport
      BY <3>2 DEF Accounted
    <3> QED
      BY <2>2, <3>1, <3>2
  <2>4. Owned(report')
    BY <1>0, <2>1 DEF Recorded
  <2>5. report'.outcome = "completed" => Upgraded(report.target)'
    <3> SUFFICES ASSUME report'.outcome = "completed"
                 PROVE  Upgraded(report.target)'
      OBVIOUS
    <3>1. report' = report /\ report # NoReport /\ report.outcome = "completed"
      BY <1>0, <2>1
    <3>2. run = NoRun \/ run.pc = "ending"
      BY <3>1 DEF Recorded
    <3>3. PICK t : t = report.target
      OBVIOUS
    <3>4. Upgraded(t)
      BY <3>1, <3>3 DEF Recorded
    <3>5. Upgraded(t)'
      BY <3>2, <3>4, UpgradedStep
    <3> QED
      BY <3>1, <3>3, <3>5 DEF Upgraded
  <2> QED
    BY <2>3, <2>4, <2>5 DEF Recorded
<1> QED
  BY <1>1, <1>2, <1>3 DEF Release, RunGoroutine

-----------------------------------------------------------------------------
(* What holds throughout                                                   *)

Upheld ==
    /\ ClusterTyped /\ ProgramTyped /\ Conversation /\ Aimed /\ Shared
    /\ Skewed /\ Proven /\ Staged /\ InTurn /\ Recorded

\* A cluster of one version, with nothing under way.
LEMMA UpheldInit ==
    ASSUME KubernetesInit
    PROVE  Upheld
<1>1. 1 \in Versions /\ 2 \in Versions /\ 1 \in 1 .. N + 1
  BY KubernetesAssumption DEF Versions
<1>2. /\ components = {1} /\ desired = 1 /\ manifests = 1
      /\ wire = {} /\ cli = [i \in Talosctls |-> NoCLI] /\ evidence = {} /\ goal = 2
      /\ dialog = Editing /\ asks = {} /\ run = NoRun /\ report = NoReport
  BY DEF KubernetesInit
<1>3. PICK k : k = [version |-> 1, image |-> 1, edits |-> 0, ready |-> TRUE, cordoned |-> FALSE]
  OBVIOUS
<1>4. k \in Kubelets /\ k.version = 1 /\ k.image = 1 /\ k.ready
  BY <1>1, <1>3 DEF Kubelets
<1>5. kubelets = [n \in Nodes |-> k]
  BY <1>3 DEF KubernetesInit
<1>6. \A n \in Nodes : kubelets[n].version = 1 /\ kubelets[n].image = 1 /\ kubelets[n].ready
  BY <1>4, <1>5
<1>7. /\ NoRun.pc = "idle" /\ NoCLI.step = "none" /\ NoReport.outcome = "none"
      /\ Editing.phase = "editing" /\ Editing.plan = NoPlan
  BY DEF NoRun, NoCLI, NoReport, Editing
<1>8. ClusterTyped
  BY <1>1, <1>2, <1>4, <1>5 DEF ClusterTyped
<1>9. ProgramTyped
  <2>1. Editing \in Dialogs
    BY DEF Editing, Dialogs, Phases
  <2> QED
    BY <1>1, <1>2, <1>7, <2>1 DEF ProgramTyped, Updating
<1>10. Conversation
  BY <1>2, <1>7 DEF Conversation, Single, Attended, Reviewed
<1>a. Own \in Talosctls /\ \A i \in Talosctls : cli[i] = NoCLI /\ ~Active(i)
  BY <1>2, <1>7 DEF Talosctls, Active
<1>11. Aimed /\ Shared
  BY <1>2, <1>7, <1>a DEF Aimed, Shared, Underway, After, Updating
<1>12. Control = {1}
  BY <1>2 DEF Control
<1>13. Skewed
  <2>1. 1 <= 1 + 1 /\ 1 <= 1
    OBVIOUS
  <2> QED
    BY <1>2, <1>6, <1>12, <2>1 DEF Skewed, NoneNewer
<1>14. Proven /\ Staged
  BY <1>2, <1>7, <1>a DEF Proven, Staged, Informed, After, Updating
<1>15. InTurn
  <2>1. Moving = {}
    BY <1>2, <1>6 DEF Moving, Pending
  <2> QED
    BY <1>2, <1>7, <2>1 DEF InTurn, Updating
<1>16. Recorded
  BY <1>2, <1>7 DEF Recorded, Owned
<1> QED
  BY <1>8, <1>9, <1>10, <1>11, <1>13, <1>14, <1>15, <1>16 DEF Upheld

\* Whatever the operator, the network and the cluster do, an upgrade keeps to what it
\* was confirmed for: the versions, the stages, the order of the nodes and the result.
THEOREM KubernetesInductive == KubernetesSpec => []Upheld
<1>1. KubernetesInit => Upheld
  BY UpheldInit
<1>2. Upheld /\ [KubernetesNext]_kubernetesVars => Upheld'
  <2> SUFFICES ASSUME Upheld, [KubernetesNext]_kubernetesVars
               PROVE  Upheld'
    OBVIOUS
  <2>0. /\ ClusterTyped /\ ProgramTyped /\ Conversation /\ Aimed /\ Shared
        /\ Skewed /\ Proven /\ Staged /\ InTurn /\ Recorded
    BY DEF Upheld
  <2>1. ClusterTyped' /\ ProgramTyped'
    BY <2>0, ClusterTypeStep, ProgramTypeStep
  <2>2. Conversation' /\ Aimed' /\ Shared'
    BY <2>0, ConversationStep, AimedStep, SharedStep
  <2>3. Skewed' /\ Proven'
    BY <2>0, SkewedStep, ProvenStep
  <2>4. Staged'
    BY <2>0, StagedStep
  <2>5. InTurn'
    BY <2>0, InTurnStep
  <2>6. Recorded'
    BY <2>0, RecordedStep
  <2> QED
    BY <2>1, <2>2, <2>3, <2>4, <2>5, <2>6 DEF Upheld
<1> QED
  BY <1>1, <1>2, PTL DEF KubernetesSpec

\* However upgrades are stopped and retried, and turned to other targets once the last one has
\* come to rest (Quiet), no kubelet is newer than the control plane, which spreads over two minor
\* releases at most, and kubelets restart one at a time.
THEOREM VersionsKeepTogether == KubernetesSpec => []SkewKept
<1>1. Upheld => SkewKept
  <2> SUFFICES ASSUME ClusterTyped, Skewed, InTurn
               PROVE  SkewKept
    BY DEF Upheld
  <2> DEFINE m == Min(components)
  <2>1. /\ Control \subseteq Nat /\ m \in Nat /\ m \in Control
        /\ Control = components \cup {desired}
    BY Oldest DEF Control, ClusterTyped, Versions
  <2>2. \A n \in Nodes : kubelets[n].version <= m
    BY <2>1 DEF Skewed, NoneNewer
  <2>3. Max(Control) - m <= 1
    <3> HIDE DEF m
    <3>1. \A c \in Control : c <= m + 1
      BY <2>1 DEF Skewed
    <3>2. CASE m + 1 \in Control
      <4>1. Max(Control) = m + 1
        BY <2>1, <3>1, <3>2, MaxIsGreatest
      <4> QED
        BY <2>1, <4>1
    <3>3. CASE m + 1 \notin Control
      <4>1. \A c \in Control : c <= m
        BY <2>1, <3>1, <3>3
      <4>2. Max(Control) = m
        BY <2>1, <4>1, MaxIsGreatest
      <4> QED
        BY <2>1, <4>2
    <3> QED
      BY <3>2, <3>3
  <2>4. Cardinality({n \in Nodes : ~kubelets[n].ready}) <= 1
    <3> DEFINE Down == {n \in Nodes : ~kubelets[n].ready}
    <3>1. \A a, b \in Down : a = b
      BY DEF InTurn, Moving
    <3>2. CASE Down = {}
      <4>1. Cardinality(Down) = 0
        BY <3>2, FS_EmptySet
      <4> QED
        BY <4>1
    <3>3. ASSUME NEW a \in Down
          PROVE  Cardinality(Down) <= 1
      <4>1. Down = {a}
        BY <3>1
      <4>2. Cardinality({a}) = 1
        BY FS_Singleton
      <4> QED
        BY <4>1, <4>2
    <3> QED
      BY <3>2, <3>3
  <2> QED
    BY <2>1, <2>2, <2>3, <2>4 DEF SkewKept
<1> QED
  BY <1>1, KubernetesInductive, PTL

\* Where an upgrade to another target waits for the last one to come to rest (Quiet), one that is
\* reported as completed has upgraded everything, the manifests that nobody reads back among it,
\* and what is reported as not attempted was sent nothing.
THEOREM ReportsAreTrue == KubernetesSpec => []CompletedIsWhole
<1>1. Upheld => CompletedIsWhole
  <2> SUFFICES ASSUME ClusterTyped, Recorded
               PROVE  CompletedIsWhole
    BY DEF Upheld
  <2>1. ASSUME report.outcome = "completed"
        PROVE  /\ manifests = report.target /\ components = {report.target}
               /\ \A n \in Nodes : kubelets[n].version = report.target
    <3>1. Upgraded(report.target)
      BY <2>1 DEF Recorded
    <3> QED
      BY <3>1 DEF Upgraded, Control, ClusterTyped
  <2>2. Owned(report)
    BY DEF Recorded
  <2> QED
    BY <2>1, <2>2 DEF CompletedIsWhole, Owned, Unsent
<1> QED
  BY <1>1, KubernetesInductive, PTL

\* No upgrade goes on behind the operator's back: one that has not been canceled is shown as
\* running, and may be canceled.
THEOREM AlwaysAttended == KubernetesSpec => []NeverUnattended
<1>1. Upheld => NeverUnattended
  BY DEF Upheld, Conversation, Attended, NeverUnattended
<1> QED
  BY <1>1, KubernetesInductive, PTL

=============================================================================
