------------------------- MODULE ConfigurationApply -------------------------
(***************************************************************************)
(* The :config dialog and the plans it makes: a machine configuration is   *)
(* previewed on every selected node, the previews are reviewed and         *)
(* confirmed, everything is checked again and the configuration is applied *)
(* to one node after the other                                             *)
(* (internal/application/configuration_apply.go, with the dialog in        *)
(* internal/tui/configuration_model.go and configuration_commands.go).     *)
(*                                                                         *)
(* An operation number stands for everything that is made under it: the    *)
(* preview command, the plan it answers with and the goroutine that        *)
(* executes the plan; each of them exists once per number.                 *)
(*                                                                         *)
(* Simplifications: a response in another mode than the one expected is a  *)
(* failed preview or apply, so the mode itself is left out; the fields of  *)
(* the form are its set of targets; a plan that expired is one of the ways *)
(* in which the recheck refuses; a context switch opens the next session   *)
(* at once (SessionSwitch has the gap between them), on the same cluster.  *)
(***************************************************************************)
EXTENDS Naturals, FiniteSets

CONSTANTS
    LastTarget,     \* the nodes are 1..LastTarget, in the order of the inventory
    Choices,        \* the sets of nodes that are selected in the form
    Disturbed,      \* the targets that others may change
    MaxPreviews,    \* bound: previews that are started
    MaxSessions,    \* bound: sessions one after the other
    MaxAdverse      \* bound: failures, and changes that others make

ASSUME ConfigurationAssumption ==
    /\ LastTarget \in Nat \ {0} /\ MaxPreviews \in Nat \ {0}
    /\ MaxSessions \in Nat \ {0} /\ MaxAdverse \in Nat
    /\ Disturbed \subseteq 1..LastTarget
    /\ Choices \subseteq (SUBSET (1..LastTarget)) \ {{}}

Targets  == 1..LastTarget
Previews == 1..MaxPreviews

VARIABLES
    machine,    \* which machine answers to the name of a target
    setting,    \* the configuration it runs, which its dry run answers from
    adverse,    \* adverse events so far
    session,    \* the open session
    screen,     \* "configuration", "covered" by a view pushed on it, or "elsewhere"
    form,       \* model.configuration
    sequence,   \* mutationSequence
    job         \* what was made under each operation number

worldVars         == <<machine, setting, adverse>>
configurationVars == <<machine, setting, adverse, session, screen, form, sequence, job>>

Applied == 2                                 \* the setting this program leaves

\* The adapter: a dry run answers from what the machine runs now, and an apply
\* that is carried out replaces it.
DryRun(t) == setting[t]
Configure(t) == [setting EXCEPT ![t] = Applied]

\* Outcomes of a target: none yet, or what TargetResult says.
NoOutcome == [t \in Targets |-> "none"]

\* preparedState and the goroutines around it.  "machines" and "settings" are
\* configurationFacts; "swapped" and "edited" are history: targets changed by
\* others since the execution looked at them; so is "carried", the targets
\* whose machine took the configuration.
NoJob == [pc |-> "none", session |-> 0, targets |-> {}, next |-> 0,
          machines |-> [t \in Targets |-> 0], settings |-> [t \in Targets |-> 0],
          blocked |-> FALSE, payload |-> FALSE, consumed |-> FALSE, canceled |-> FALSE,
          outcome |-> NoOutcome, taken |-> 0, awaited |-> FALSE,
          swapped |-> {}, edited |-> {}, carried |-> {}]

Blank == [phase |-> "editing", operation |-> 0, plan |-> FALSE, results |-> NoOutcome]

ConfigurationInit ==
    /\ machine = [t \in Targets |-> 0] /\ setting = [t \in Targets |-> 0]
    /\ adverse = 0 /\ session = 1 /\ screen = "elsewhere"
    /\ form = Blank /\ sequence = 0
    /\ job = [o \in Previews |-> NoJob]

-----------------------------------------------------------------------------
(* Contexts, the lease, the targets in their order *)

Previewing == {"reading", "previewing"}
Executing  == {"rereading", "rechecking", "sending", "inflight"}

\* The context of the job's call: canceled, or the lifetime of its session.
EndsEarly(j) == j.canceled \/ j.session # session

\* Session.admit takes the lease of the cluster, which the switch to another
\* session does not free.
LeaseTaken == \E o \in Previews : job[o].pc \in Executing

First(S) == CHOOSE t \in S : \A u \in S : t <= u
After(j) == {t \in j.targets : t > j.next}
Onward(j, pc, next) ==
    IF After(j) # {} THEN [j EXCEPT !.next = First(After(j))]
                     ELSE [j EXCEPT !.pc = pc, !.next = next]

Troubled == adverse < MaxAdverse /\ adverse' = adverse + 1
Smooth   == adverse' = adverse

-----------------------------------------------------------------------------
(* The world *)

Watching(j) == j.pc \in {"rechecking", "sending", "inflight"}

\* Changes matter while a plan rests on what was read.
Resting == \E o \in Previews : job[o].pc \notin {"none", "reading", "failed", "done"}

\* Another machine takes the name or the address of a target.
Replace(t) ==
    /\ Troubled /\ Resting
    /\ machine' = [machine EXCEPT ![t] = 1 - @]
    /\ job' = [o \in Previews |-> IF Watching(job[o])
                                  THEN [job[o] EXCEPT !.swapped = @ \cup {t}] ELSE job[o]]
    /\ UNCHANGED <<setting, session, screen, form, sequence>>

\* Somebody else changes its configuration.
Edit(t) ==
    /\ Troubled /\ Resting
    /\ setting' = [setting EXCEPT ![t] = IF @ = 1 THEN 0 ELSE 1]
    /\ job' = [o \in Previews |-> IF Watching(job[o])
                                  THEN [job[o] EXCEPT !.edited = @ \cup {t}] ELSE job[o]]
    /\ UNCHANGED <<machine, session, screen, form, sequence>>

-----------------------------------------------------------------------------
(* The preview: PrepareConfiguration *)

JobOnly == UNCHANGED <<machine, setting, session, screen, form, sequence>>
Become(o, j) == job' = [job EXCEPT ![o] = j]

PreviewFails(o) ==
    /\ job[o].pc \in Previewing
    /\ Become(o, [NoJob EXCEPT !.pc = "failed", !.session = job[o].session])
    /\ JobOnly
    /\ IF EndsEarly(job[o]) THEN Smooth ELSE job[o].pc = "reading" /\ Troubled

ReadTargets(o) ==
    /\ job[o].pc = "reading" /\ ~EndsEarly(job[o])
    /\ Become(o, [job[o] EXCEPT !.pc = "previewing", !.next = First(job[o].targets),
                                !.machines = machine])
    /\ JobOnly /\ Smooth

\* A target whose dry run fails blocks the plan; the others are previewed all
\* the same.  A plan keeps its copy of the payload only when nothing blocks it.
PreviewTarget(o, fails) ==
    /\ job[o].pc = "previewing" /\ ~EndsEarly(job[o])
    /\ IF fails THEN Troubled ELSE Smooth
    /\ LET t == job[o].next
           j == [job[o] EXCEPT !.blocked = @ \/ fails, !.settings[t] = DryRun(t)]
           n == Onward(j, "loaded", 0)
       IN  Become(o, IF n.pc = "loaded" THEN [n EXCEPT !.payload = ~n.blocked] ELSE n)
    /\ JobOnly

-----------------------------------------------------------------------------
(* The execution: ExecuteConfiguration *)

\* Returning: the deferred clear and the deferred release, when admitted.
Conclude(j) ==
    [NoJob EXCEPT !.pc = "done", !.session = j.session, !.targets = j.targets,
                  !.payload = j.payload /\ ~j.consumed, !.consumed = j.consumed,
                  !.outcome = j.outcome, !.carried = j.carried,
                  !.taken = j.taken, !.awaited = j.awaited]

\* A plan that was discarded has no request; a closed session admits nothing.
Admissible(j) == j.payload /\ j.session = session

Admit(o) ==
    /\ job[o].pc = "starting"
    /\ Become(o, IF Admissible(job[o]) /\ ~LeaseTaken
                 THEN [job[o] EXCEPT !.pc = "rereading", !.consumed = TRUE]
                 ELSE Conclude(job[o]))
    /\ JobOnly /\ Smooth

\* Mutant: the names are still the same, so the targets are.
SameTargets(j) == TRUE
SameMachines(j) == \A t \in j.targets : machine[t] = j.machines[t]

Reread(o) ==
    /\ job[o].pc = "rereading" /\ ~EndsEarly(job[o]) /\ SameMachines(job[o])
    /\ Become(o, [job[o] EXCEPT !.pc = "rechecking", !.next = First(job[o].targets)])
    /\ JobOnly /\ Smooth

\* The plan expired, its payload is not the one that was previewed, the nodes
\* cannot be read or are not the ones that were previewed.
RereadRefuses(o) ==
    /\ job[o].pc = "rereading"
    /\ Become(o, Conclude(job[o]))
    /\ JobOnly
    /\ IF EndsEarly(job[o]) \/ ~SameMachines(job[o]) THEN Smooth ELSE Troubled

\* The dry run is repeated on every target before anything is applied to one.
Recheck(o) ==
    /\ job[o].pc = "rechecking"
    /\ ~EndsEarly(job[o]) /\ DryRun(job[o].next) = job[o].settings[job[o].next]
    /\ Become(o, Onward([job[o] EXCEPT !.edited = @ \ {job[o].next}], "sending", First(job[o].targets)))
    /\ JobOnly /\ Smooth

RecheckRefuses(o) ==
    /\ job[o].pc = "rechecking"
    /\ Become(o, Conclude(job[o]))
    /\ JobOnly
    /\ IF EndsEarly(job[o]) \/ DryRun(job[o].next) # job[o].settings[job[o].next]
       THEN Smooth ELSE Troubled

Skip(j, S) == [t \in Targets |-> IF t \in S THEN "notAttempted" ELSE j.outcome[t]]

Send(o) ==
    /\ job[o].pc = "sending" /\ ~EndsEarly(job[o])
    /\ Become(o, [job[o] EXCEPT !.pc = "inflight"])
    /\ JobOnly /\ Smooth

\* The context ended between two targets: this one and the rest are not sent.
StopSending(o) ==
    /\ job[o].pc = "sending" /\ EndsEarly(job[o])
    /\ Become(o, Conclude([job[o] EXCEPT !.outcome = Skip(job[o], {job[o].next} \cup After(job[o]))]))
    /\ JobOnly /\ Smooth

Accept(o) ==
    /\ job[o].pc = "inflight"
    /\ LET t == job[o].next
           j == [job[o] EXCEPT !.pc = "sending", !.outcome[t] = "accepted", !.carried = @ \cup {t}]
           n == Onward(j, "done", 0)
       IN  /\ Become(o, IF n.pc = "done" THEN Conclude(n) ELSE n)
           /\ setting' = Configure(t)
    /\ Smooth
    /\ UNCHANGED <<machine, session, screen, form, sequence>>

\* Mutant: a target whose call was cut off counts as one that was never sent.
CutOff(j, t) == Skip(j, {t} \cup After(j))
\* The call fails at this end, carried out or not: the rest is not attempted.
Failed(j, t) == [Skip(j, After(j)) EXCEPT ![t] = "unconfirmed"]

CallFails(o, carried) ==
    /\ job[o].pc = "inflight"
    /\ LET t == job[o].next
       IN  /\ Become(o, Conclude([job[o] EXCEPT !.outcome = Failed(job[o], t),
                                              !.carried = IF carried THEN @ \cup {t} ELSE @]))
           /\ setting' = IF carried THEN Configure(t) ELSE setting
    /\ IF EndsEarly(job[o]) THEN Smooth ELSE Troubled
    /\ UNCHANGED <<machine, session, screen, form, sequence>>

-----------------------------------------------------------------------------
(* The dialog *)

Live(j) == j.pc \in Previewing \cup Executing \cup {"starting"}

\* Mutant: a payload is cleared under the call that sends it.
ClearAlways(j) == [j EXCEPT !.payload = FALSE]
\* Session.DiscardConfiguration, through the session that is open now.
Clear(j) == [j EXCEPT !.payload = @ /\ (j.consumed \/ j.session # session)]

\* A job that nothing refers to any more.
Forgotten(j) == j.pc \in {"held", "done"} /\ ~j.payload /\ ~j.awaited
Kept(j) == IF Forgotten(j) THEN NoJob ELSE j

\* configurationModel.discard: both contexts are canceled, the plan is given up.
Discarded ==
    [o \in Previews |->
        IF o # form.operation THEN job[o]
        ELSE LET j == [job[o] EXCEPT !.canceled = @ \/ Live(job[o])]
             IN  Kept(IF form.plan THEN Clear(j) ELSE j)]

\* The :config command: a new dialog, whatever the old one was at.
OpenDialog ==
    /\ job' = Discarded /\ form' = Blank /\ screen' = "configuration"
    /\ UNCHANGED <<worldVars, session, sequence>>

\* Another command of the palette replaces the view.
Leave ==
    /\ screen # "elsewhere" /\ screen' = "elsewhere"
    /\ UNCHANGED <<worldVars, session, form, sequence, job>>

\* :help and :bgp push a view on it, from which Escape returns; it matters
\* while a message is on its way.
Cover ==
    /\ screen = "configuration" /\ form.phase \in {"preparing", "applying"}
    /\ screen' = "covered"
    /\ UNCHANGED <<worldVars, session, form, sequence, job>>

Uncover ==
    /\ screen = "covered" /\ screen' = "configuration"
    /\ UNCHANGED <<worldVars, session, form, sequence, job>>

Reads(phase) == screen = "configuration" /\ form.phase = phase

StartPreview(targets) ==
    /\ Reads("editing") /\ sequence < MaxPreviews
    /\ sequence' = sequence + 1
    /\ form' = [Blank EXCEPT !.phase = "preparing", !.operation = sequence + 1]
    /\ job' = [Discarded EXCEPT ![sequence + 1] =
                  [NoJob EXCEPT !.pc = "reading", !.session = session, !.targets = targets]]
    /\ UNCHANGED <<worldVars, session, screen>>

\* Escape while the preview runs: what it answers belongs to no operation.
CancelPreview ==
    /\ Reads("preparing")
    /\ job' = [job EXCEPT ![form.operation].canceled = Live(job[form.operation])]
    /\ form' = [form EXCEPT !.operation = @ + 1, !.phase = "editing"]
    /\ UNCHANGED <<worldVars, session, screen, sequence>>

EditAgain ==
    /\ Reads("reviewing")
    /\ job' = Discarded
    /\ form' = [form EXCEPT !.phase = "editing", !.plan = FALSE]
    /\ UNCHANGED <<worldVars, session, screen, sequence>>

Review ==
    /\ Reads("reviewing") /\ form.plan /\ ~job[form.operation].blocked
    /\ form' = [form EXCEPT !.phase = "confirming"]
    /\ UNCHANGED <<worldVars, session, screen, sequence, job>>

BackToReview ==
    /\ Reads("confirming")
    /\ form' = [form EXCEPT !.phase = "reviewing"]
    /\ UNCHANGED <<worldVars, session, screen, sequence, job>>

\* The phrase was typed: a goroutine executes the plan, a command awaits it.
StartApply ==
    /\ Reads("confirming") /\ form.plan
    /\ form' = [form EXCEPT !.phase = "applying", !.results = NoOutcome]
    /\ job' = [job EXCEPT ![form.operation] =
                  [@ EXCEPT !.pc = "starting", !.awaited = TRUE, !.canceled = FALSE]]
    /\ UNCHANGED <<worldVars, session, screen, sequence>>

CancelApply ==
    /\ Reads("applying") /\ ~job[form.operation].canceled
    /\ job' = [job EXCEPT ![form.operation].canceled = TRUE]
    /\ UNCHANGED <<worldVars, session, screen, form, sequence>>

\* closeConfigurationView.
CloseDialog ==
    /\ screen = "configuration" /\ form.phase \in {"editing", "complete"}
    /\ job' = Discarded /\ form' = Blank /\ screen' = "elsewhere"
    /\ UNCHANGED <<worldVars, session, sequence>>

\* beginSessionOpen: the dialog is discarded, the session closed.
SwitchContext ==
    /\ session < MaxSessions /\ session' = session + 1
    /\ job' = Discarded /\ form' = Blank /\ screen' = "elsewhere"
    /\ UNCHANGED <<worldVars, sequence>>

-----------------------------------------------------------------------------
(* Messages *)

Heard(o) == form.operation = o /\ job[o].session = session /\ screen = "configuration"

\* directConfigurationPreviewLoaded with a plan; one nobody waits for is
\* discarded, through the session of now.
Loaded(o) ==
    /\ job[o].pc = "loaded"
    /\ IF Heard(o)
       THEN /\ form' = [form EXCEPT !.plan = TRUE, !.phase = "reviewing"]
            /\ Become(o, [job[o] EXCEPT !.pc = "held"])
       ELSE /\ form' = form
            /\ Become(o, Kept([Clear(job[o]) EXCEPT !.pc = "held"]))
    /\ UNCHANGED <<worldVars, session, screen, sequence>>

LoadFailed(o) ==
    /\ job[o].pc = "failed"
    /\ form' = IF Heard(o) THEN [form EXCEPT !.phase = "editing"] ELSE form
    /\ Become(o, NoJob)
    /\ UNCHANGED <<worldVars, session, screen, sequence>>

\* The items in the channel: outcomes in the order of the targets, the end.
PendingItems(j)    == {t \in j.targets : t > j.taken /\ j.outcome[t] # "none"}
Finished(j) == j.pc = "done" /\ PendingItems(j) = {}

\* Mutant: a result is shown, and the next one not asked for.
AwaitOnce(j) == FALSE
\* Every result that is shown asks for the next one.
AwaitNext(j) == TRUE

TargetShown(o) ==
    /\ job[o].awaited /\ PendingItems(job[o]) # {}
    /\ LET t == First(PendingItems(job[o]))
       IN  IF Heard(o)
           THEN /\ form' = [form EXCEPT !.results[t] = job[o].outcome[t]]
                /\ Become(o, [job[o] EXCEPT !.taken = t, !.awaited = AwaitNext(job[o])])
           ELSE /\ form' = form
                /\ Become(o, Kept([job[o] EXCEPT !.taken = 0, !.awaited = FALSE]))
    /\ UNCHANGED <<worldVars, session, screen, sequence>>

ApplyFinished(o) ==
    /\ job[o].awaited /\ Finished(job[o])
    /\ form' = IF Heard(o) THEN [form EXCEPT !.phase = "complete", !.results = job[o].outcome] ELSE form
    /\ LET j == [job[o] EXCEPT !.awaited = FALSE]
       IN  Become(o, IF form.operation = o THEN j ELSE Kept(j))
    /\ UNCHANGED <<worldVars, session, screen, sequence>>

-----------------------------------------------------------------------------

PreviewStep(o) == ReadTargets(o) \/ PreviewFails(o) \/ \E fails \in BOOLEAN : PreviewTarget(o, fails)
ApplyStep(o) ==
    \/ Admit(o) \/ Reread(o) \/ RereadRefuses(o) \/ Recheck(o) \/ RecheckRefuses(o)
    \/ Send(o) \/ StopSending(o) \/ Accept(o) \/ \E carried \in BOOLEAN : CallFails(o, carried)
Message(o) == Loaded(o) \/ LoadFailed(o) \/ TargetShown(o) \/ ApplyFinished(o)

Dialog ==
    \/ OpenDialog \/ Leave \/ Cover \/ Uncover
    \/ \E targets \in Choices : StartPreview(targets)
    \/ CancelPreview \/ EditAgain \/ Review \/ BackToReview
    \/ StartApply \/ CancelApply \/ CloseDialog \/ SwitchContext

Others == \E t \in Disturbed : Replace(t) \/ Edit(t)

ConfigurationNext == Dialog \/ Others \/ \E o \in Previews : PreviewStep(o) \/ ApplyStep(o) \/ Message(o)

ConfigurationSpec == ConfigurationInit /\ [][ConfigurationNext]_configurationVars

\* Every call has a timeout, and the event loop handles what it is sent.  All
\* of it is finite, so it is enough that something of it goes on.
ConfigurationFairness ==
    WF_configurationVars(\E o \in Previews : PreviewStep(o) \/ ApplyStep(o) \/ Message(o))
ConfigurationFairSpec == ConfigurationSpec /\ ConfigurationFairness
-----------------------------------------------------------------------------
(* Properties *)

\* What is sent to a node is the payload that was previewed, to the machine
\* that was previewed, which still has the configuration its preview started
\* from, unless others changed that after the recheck; and nothing is sent
\* while another call of the cluster is under way: the rechecks and the lease
\* of ExecuteConfiguration.
AppliedAsPreviewed ==
    [][\A o \in Previews : (job[o].pc = "sending" /\ job'[o].pc = "inflight") =>
          LET j == job[o]
              t == j.next
          IN  /\ j.payload
              /\ machine[t] = j.machines[t] \/ t \in j.swapped
              /\ setting[t] = j.settings[t] \/ t \in j.edited
              /\ \A p \in Previews \ {o} : job[p].pc \notin Executing]_configurationVars

\* The operator is told the truth: a target that took the configuration is
\* never reported as not attempted, an accepted one took it, nothing is sent
\* to a target after one that is not accepted, and the dialog ends up showing
\* just what the call reported (security.md: "that target is unconfirmed and
\* later targets are not attempted").
OutcomesTruthful ==
    /\ \A o \in Previews :
          LET j == job[o]
          IN  /\ \A t \in j.carried : j.outcome[t] \in {"accepted", "unconfirmed"}
              /\ \A t \in j.targets : j.outcome[t] = "accepted" => t \in j.carried
              /\ \A t, u \in j.targets :
                    t < u /\ j.outcome[u] \in {"accepted", "unconfirmed"} => j.outcome[t] = "accepted"
    /\ form.phase = "complete" => form.results = job[form.operation].outcome

\* A payload, which holds the secrets of a machine, is there while a call
\* needs it and only while somebody holds its plan: the preview's answer, the
\* dialog or the execution.  DiscardConfiguration and the deferred clear race
\* for it.
PayloadOwned ==
    \A o \in Previews :
       LET j == job[o]
       IN  /\ j.pc \in Executing => j.payload
           /\ (j.payload /\ j.session = session) =>
                 \/ j.pc \in Executing \cup {"loaded"}
                 \/ form.plan /\ form.operation = o /\ ~j.consumed

\* A preview or an apply that the operator watches ends: its results reach the
\* dialog, one command after the other.
WatchedCallEnds ==
    (/\ screen = "configuration"
     /\ \/ form.phase = "preparing" /\ job[form.operation].pc \in Previewing
        \/ form.phase = "applying" /\ job[form.operation].awaited)
    ~> (screen # "configuration" \/ form.phase \notin {"preparing", "applying"})
=============================================================================
