---------------------------- MODULE MutationFlow ----------------------------
(***************************************************************************)
(* The mutation flow of the TUI (internal/tui/mutation_commands.go and the *)
(* keys of direct_model.go and diagnostic_commands.go that enter it): from *)
(* the key that asks for an action, over the prepared plan and its prompt, *)
(* to the goroutine that executes the plan and the messages that bring its *)
(* progress and its result back into the event loop.                       *)
(*                                                                         *)
(* The session's side (what a plan is, when a call is admitted, what it    *)
(* does to the cluster) is in SessionLease, NodeAction, EtcdAction and     *)
(* TalosUpgrade; here a preparation answers with a plan, blocked or not,   *)
(* or with an error, and an execution reports its targets in any order and *)
(* returns.  A mutation is named by its operation number, which is also    *)
(* how the code tells its messages apart.                                  *)
(*                                                                         *)
(* Simplifications: texts, the rows of the disk preview, the receipt of a  *)
(* snapshot and the reads that follow a finished upgrade or wipe are left  *)
(* out; the focus of a prompt is left out too, since Tab reaches every     *)
(* field; a typed text is the right one or not.  An upgrade reports its   *)
(* events where a batch reports its targets.                               *)
(***************************************************************************)
EXTENDS Naturals, Sequences, FiniteSets

CONSTANTS
    Kinds,          \* the kinds of action that are offered
    Target,         \* the nodes
    Selection,      \* the sets of nodes that are marked, or selected
    Option,         \* the modes of a reset, the methods of a wipe
    MaxOp,          \* bound: operation numbers
    MaxSwitch       \* bound: switches to another context

ASSUME MutationFlowAssumption ==
    /\ Kinds \subseteq {"service", "etcd", "snapshot", "reboot", "shutdown",
                        "rollback", "reset", "wipe", "upgrade"}
    /\ IsFiniteSet(Target) /\ Target # {}
    /\ Selection \subseteq (SUBSET Target) \ {{}}
    /\ Option # {}
    /\ MaxOp \in Nat /\ MaxSwitch \in Nat

Forceable   == {"reboot", "shutdown"}
Destructive == {"reset", "wipe"}
PathFirst   == {"snapshot"}      \* the etcd actions that ask for a local path first
Batch       == {"reboot", "shutdown", "rollback", "reset"}

\* The screen on which the key of an action is read.
HomeOf(kind) ==
    CASE kind = "service"              -> "services"
      [] kind \in {"etcd", "snapshot"} -> "etcd"
      [] kind = "wipe"                 -> "disks"
      [] OTHER                         -> "nodes"
Views == {HomeOf(kind) : kind \in Kinds} \cup {"nodes"}

VARIABLES
    view,        \* views.top()
    generation,  \* generationCounter: one session each
    open,        \* m.session # nil
    seq,         \* mutationSequence
    operation,   \* mutation.operation
    busy,        \* mutation.busy
    pending,     \* mutation.upgradePending
    prompt,      \* mutation.prompt
    entry,       \* the text prompt on top: path, image or forced target
    slot,        \* operation of the live "upgrade-image" request, 0 if none
    commands,    \* preparations under way, with the request each is for
    worker,      \* the goroutine that executes an operation
    await,       \* the command that waits for that goroutine's next item
    results,     \* what mutation.results and mutation.upgrade show
    total        \* mutation.total

vars == <<view, generation, open, seq, operation, busy, pending, prompt, entry,
          slot, commands, worker, await, results, total>>

None == [type |-> "none"]

\* What a preparation is asked for: application.NodeActionRequest and its kin.
Request(kind, targets, option, force, downtime) ==
    [kind |-> kind, targets |-> targets, option |-> option, force |-> force,
     downtime |-> downtime]

\* What a reset or a wipe starts with; for the other kinds there is no choice.
FirstOption == CHOOSE option \in Option : TRUE

\* A prompt (directMutationPrompt): "plan" is the request the session's plan was
\* made for, "option" what the prompt shows, which the operator may turn, "typed"
\* the token of a destructive action; "ready" and "needsPrepare" as in the code.
\* A worker: "shown" and "confirmed" are history, of the prompt it was started
\* from; "left" the targets it has not reported, "outcome" those of its result,
\* "queue" the channel of items to the loop.

Init ==
    /\ view = "nodes" /\ generation = 0 /\ open = TRUE
    /\ seq = 0 /\ operation = 0 /\ busy = FALSE /\ pending = FALSE
    /\ prompt = None /\ entry = None /\ slot = 0
    /\ commands = {} /\ results = {} /\ total = 0
    /\ worker = [o \in 1..MaxOp |-> None]
    /\ await = [o \in 1..MaxOp |-> None]

-----------------------------------------------------------------------------
(* Keys that ask for an action *)

\* The keys of a screen are read only when no prompt takes them first.
KeysReachScreen == prompt = None /\ entry = None

\* Mutant: the screen of the nodes offers actions while one is under way.
NodesOfferBusy(kind) == kind \in Batch \cup {"upgrade"} /\ open /\ prompt = None

\* What the screens offer, and when: an open session, no prompt, nothing under
\* way.  Only the nodes mind the prompt for an image, which takes their keys.
NodesOffer(kind) ==
    /\ kind \in Batch \cup {"upgrade"}
    /\ ~busy /\ prompt = None /\ entry.type # "image" /\ open
ServicesOffer(kind) == kind = "service" /\ ~busy /\ prompt = None /\ open
EtcdOffers(kind)    == kind \in {"etcd"} \cup PathFirst /\ ~busy /\ prompt = None /\ open
DisksOffer(kind)    == kind = "wipe" /\ ~busy /\ prompt = None /\ open

MayBegin(kind) ==
    /\ KeysReachScreen /\ view = HomeOf(kind)
    /\ NodesOffer(kind) \/ ServicesOffer(kind) \/ EtcdOffers(kind) \/ DisksOffer(kind)

NextOperation ==
    /\ seq < MaxOp
    /\ seq' = seq + 1
    /\ operation' = seq + 1

\* prepareDirectNodeMutation, prepareDirectServiceMutation and
\* prepareDirectEtcdMutation: a new operation, and a command to prepare it.
Prepare(request) ==
    /\ NextOperation
    /\ busy' = TRUE
    /\ prompt' = None /\ entry' = None /\ results' = {}
    /\ commands' = commands \cup
           {[type |-> "prepare", operation |-> seq + 1, generation |-> generation,
             request |-> request]}
    /\ UNCHANGED <<view, generation, open, pending, slot, worker, await, total>>

\* Only a batch takes the marked nodes, the other actions the selected one.
TargetsOf(kind) ==
    IF kind \in Batch THEN Selection ELSE {targets \in Selection : Cardinality(targets) = 1}

AskAction(kind, targets) ==
    /\ kind \in Kinds /\ MayBegin(kind)
    /\ kind \notin PathFirst \cup {"upgrade"}
    /\ targets \in TargetsOf(kind)
    /\ Prepare(Request(kind, targets, FirstOption, FALSE, FALSE))

\* A snapshot asks for the local path first.
AskPath(kind, targets) ==
    /\ MayBegin(kind) /\ kind \in Kinds \cap PathFirst
    /\ targets \in TargetsOf(kind)
    /\ entry' = [type |-> "path", kind |-> kind, targets |-> targets]
    /\ UNCHANGED <<view, generation, open, seq, operation, busy, pending, prompt, slot,
                   commands, worker, await, results, total>>

PathEntered ==
    /\ entry.type = "path"
    /\ Prepare(Request(entry.kind, entry.targets, FirstOption, FALSE, FALSE))

PathDropped ==
    /\ entry.type = "path"
    /\ entry' = None
    /\ UNCHANGED <<view, generation, open, seq, operation, busy, pending, prompt, slot,
                   commands, worker, await, results, total>>

\* beginDirectUpgrade reads the install image of the node first.
BeginUpgrade(targets) ==
    /\ "upgrade" \in Kinds /\ MayBegin("upgrade")
    /\ targets \in TargetsOf("upgrade")
    /\ NextOperation
    /\ busy' = TRUE /\ pending' = TRUE /\ results' = {}
    /\ slot' = seq + 1
    /\ commands' = commands \cup
           {[type |-> "image", operation |-> seq + 1, generation |-> generation,
             request |-> Request("upgrade", targets, FirstOption, FALSE, FALSE)]}
    /\ UNCHANGED <<view, generation, open, prompt, entry, worker, await, total>>

\* Escape while the image or the plan of an upgrade is awaited, or while the
\* image is edited: a new operation number outdates what is under way.
UpgradeDropped ==
    /\ pending \/ entry.type = "image"
    /\ NextOperation
    /\ slot' = 0 /\ entry' = None /\ busy' = FALSE /\ pending' = FALSE
    /\ UNCHANGED <<view, generation, open, prompt, commands, worker, await, results, total>>

ImageEntered ==
    /\ ~pending /\ entry.type = "image"
    /\ entry' = None /\ busy' = TRUE /\ pending' = TRUE
    /\ operation' = entry.operation
    /\ commands' = commands \cup
           {[type |-> "prepare", operation |-> entry.operation, generation |-> generation,
             request |-> Request("upgrade", entry.targets, FirstOption, FALSE, FALSE)]}
    /\ UNCHANGED <<view, generation, open, seq, prompt, slot, worker, await, results, total>>

-----------------------------------------------------------------------------
(* Results of commands *)

\* Mutant: every message counts.
AnyMessage(o, g) == TRUE

\* A message counts only for the operation and the session that are current.
Fresh(o, g) == g = generation /\ o = operation

Unhandled == UNCHANGED <<view, generation, open, seq, operation, busy, pending, prompt,
                         entry, slot, worker, await, results, total>>

StaleMessage(c) ==
    /\ c \in commands
    /\ ~Fresh(c.operation, c.generation) \/ (c.type = "image" /\ slot # c.operation)
    /\ commands' = commands \ {c}
    /\ Unhandled

\* The image is read, or could not be: the prompt to edit it opens, unless
\* the operator has left the nodes.
ImageRead(c) ==
    /\ c \in commands /\ c.type = "image"
    /\ Fresh(c.operation, c.generation) /\ slot = c.operation
    /\ commands' = commands \ {c}
    /\ slot' = 0 /\ busy' = FALSE /\ pending' = FALSE
    /\ entry' = IF view # "nodes" THEN entry
                ELSE [type |-> "image", operation |-> c.operation,
                      targets |-> c.request.targets]
    /\ UNCHANGED <<view, generation, open, seq, operation, prompt, worker, await, results, total>>

PlanPrompt(c, blocked, offers) ==
    [type |-> "prompt", operation |-> c.operation, generation |-> c.generation,
     plan |-> c.request, option |-> c.request.option, blocked |-> blocked,
     offersDowntime |-> offers, typed |-> FALSE, ready |-> FALSE, needsPrepare |-> FALSE]

\* The plan is prepared, or the preparation failed.  An upgrade is dropped
\* when the operator has left the nodes.
Prepared(c, failed, blocked, offers) ==
    /\ c \in commands /\ c.type = "prepare"
    /\ Fresh(c.operation, c.generation)
    /\ offers => (blocked /\ c.request.kind = "upgrade" /\ ~c.request.downtime)
    /\ commands' = commands \ {c}
    /\ busy' = FALSE
    /\ pending' = (pending /\ c.request.kind # "upgrade")
    /\ prompt' = IF failed \/ (c.request.kind = "upgrade" /\ view # "nodes") THEN prompt
                 ELSE PlanPrompt(c, blocked, offers)
    /\ UNCHANGED <<view, generation, open, seq, operation, entry, slot, worker, await, results, total>>

-----------------------------------------------------------------------------
(* Keys of the prompt *)

\* Text prompts are asked first: the prompt below them reads no key.
PromptReadsKeys == prompt # None /\ entry = None

PromptOnly == UNCHANGED <<view, generation, open, seq, operation, busy, pending, entry, slot,
                          commands, worker, await, results, total>>

Editable == PromptReadsKeys /\ prompt.plan.kind \in Destructive /\ ~prompt.ready

\* Mutant: the plan prepared before is kept.
TurnedQuietly(p, option) == [p EXCEPT !.option = option]

\* Another mode or method: the plan is no longer the one on screen, and what
\* was typed for it is gone.
Turned(p, option) == [p EXCEPT !.option = option, !.needsPrepare = TRUE, !.ready = FALSE, !.typed = FALSE]

TurnOption(option) ==
    /\ Editable /\ option # prompt.option
    /\ prompt' = Turned(prompt, option)
    /\ PromptOnly

TypeToken(right) ==
    /\ Editable /\ ~prompt.blocked
    /\ prompt' = [prompt EXCEPT !.typed = right]
    /\ PromptOnly

\* Enter on a prompt whose options were turned prepares again, under the
\* operation number the prompt has.
PrepareAgain ==
    /\ Editable /\ prompt.needsPrepare
    /\ prompt' = None /\ busy' = TRUE
    /\ commands' = commands \cup
           {[type |-> "prepare", operation |-> prompt.operation, generation |-> prompt.generation,
             request |-> [prompt.plan EXCEPT !.option = prompt.option]]}
    /\ UNCHANGED <<view, generation, open, seq, operation, pending, entry, slot, worker, await, results, total>>

AcceptToken ==
    /\ Editable /\ ~prompt.needsPrepare /\ ~prompt.blocked
    /\ prompt.typed
    /\ prompt' = [prompt EXCEPT !.ready = TRUE]
    /\ PromptOnly

\* The last control-plane node: "d" prepares an upgrade that allows downtime.
AllowDowntime ==
    /\ PromptReadsKeys /\ prompt.offersDowntime
    /\ open /\ prompt.generation = generation /\ prompt.operation = operation
    /\ Prepare([prompt.plan EXCEPT !.downtime = TRUE])

\* "f" asks for the name of the target, and the right name for a new plan.
AskForce ==
    /\ PromptReadsKeys
    /\ prompt.plan.kind \in Forceable /\ ~prompt.plan.force
    /\ ~prompt.blocked /\ Cardinality(prompt.plan.targets) = 1 /\ open
    /\ entry' = [type |-> "force"]
    /\ UNCHANGED <<view, generation, open, seq, operation, busy, pending, prompt, slot,
                   commands, worker, await, results, total>>

ForceEntered ==
    /\ entry.type = "force"
    /\ prompt.generation = generation /\ ~prompt.blocked
    /\ Prepare([prompt.plan EXCEPT !.force = TRUE])

ForceDropped ==
    /\ entry.type = "force"
    /\ entry' = None
    /\ UNCHANGED <<view, generation, open, seq, operation, busy, pending, prompt, slot,
                   commands, worker, await, results, total>>

Cancel ==
    /\ PromptReadsKeys
    /\ prompt' = None
    /\ PromptOnly

\* Approved as far as the prompt can tell: nothing blocks it and, where the
\* targets would be erased, the token was typed for what is on screen.
Approvable == ~prompt.blocked /\ (prompt.plan.kind \in Destructive => prompt.ready)

\* "y": the plan on screen is handed to a goroutine of its own.
Confirm ==
    /\ PromptReadsKeys /\ Approvable
    /\ prompt' = None /\ busy' = TRUE /\ results' = {}
    /\ operation' = prompt.operation
    /\ total' = Cardinality(prompt.plan.targets)
    /\ worker' = [worker EXCEPT ![prompt.operation] =
           [type |-> "worker", generation |-> prompt.generation, plan |-> prompt.plan,
            shown |-> prompt.option,
            confirmed |-> prompt.typed \/ prompt.plan.kind \notin Destructive,
            phase |-> "starting",
            left |-> IF prompt.plan.kind \in Batch \cup {"upgrade", "wipe"}
                     THEN prompt.plan.targets ELSE {},
            outcome |-> {}, queue |-> <<>>]]
    /\ UNCHANGED <<view, generation, open, seq, pending, entry, slot, commands, await>>

-----------------------------------------------------------------------------
(* The goroutine of a mutation, and the command that waits for it *)

\* The context of a session ends when another one is selected.
Ended(o) == worker[o].generation # generation

\* The channel has room for every target and for the end.
Capacity(o) == Cardinality(worker[o].plan.targets) + 1
HasRoom(o) == Len(worker[o].queue) < Capacity(o)

\* A goroutine that has returned and that nobody waits for is forgotten.
Gone(o) == [worker EXCEPT ![o] = None]

LoopOnly == UNCHANGED <<view, generation, open, seq, operation, busy, pending, prompt, entry,
                        slot, commands, results, total>>

\* directMutationStartCommand: nothing starts under a context that has ended.
Start(o) ==
    /\ worker[o] # None /\ worker[o].phase = "starting"
    /\ worker' = IF Ended(o) THEN Gone(o) ELSE [worker EXCEPT ![o].phase = "calling"]
    /\ await' = [await EXCEPT ![o] = IF Ended(o) THEN None ELSE [type |-> "waiting"]]
    /\ LoopOnly

\* A target is reported while the call runs; no room, no report.
Report(o, t) ==
    /\ worker[o] # None /\ worker[o].phase = "calling" /\ t \in worker[o].left
    /\ worker' = [worker EXCEPT ![o].left = @ \ {t},
           ![o].queue = IF HasRoom(o) THEN Append(@, [type |-> "target", target |-> t]) ELSE @]
    /\ UNCHANGED await
    /\ LoopOnly

\* The call returns: every target has its outcome, or it was not admitted and
\* none has.
Return(o) ==
    /\ worker[o] # None /\ worker[o].phase = "calling"
    /\ \E admitted \in BOOLEAN :
           /\ worker[o].left # {} =>
                  (~admitted /\ worker[o].left = worker[o].plan.targets) \/ worker[o].plan.kind = "upgrade"
           /\ worker' = [worker EXCEPT ![o].phase = "finishing", ![o].left = {},
                  ![o].outcome = IF admitted THEN worker[o].plan.targets ELSE {}]
    /\ UNCHANGED await
    /\ LoopOnly

\* sendDirectMutationItem: the end waits for room, or for the end of the session.
SendEnd(o) ==
    /\ worker[o] # None /\ worker[o].phase = "finishing"
    /\ HasRoom(o) \/ Ended(o)
    /\ worker' = IF await[o] = None THEN Gone(o)
                 ELSE [worker EXCEPT ![o].phase = "done", ![o].outcome = {},
                          ![o].queue = IF HasRoom(o)
                                       THEN Append(@, [type |-> "finished", targets |-> worker[o].outcome])
                                       ELSE @]
    /\ UNCHANGED await
    /\ LoopOnly

\* Nobody waits for the goroutine any longer.
Abandon(o) ==
    /\ await' = [await EXCEPT ![o] = None]
    /\ worker' = IF worker[o].phase = "done" THEN Gone(o) ELSE worker

\* directMutationAwaitCommand: the next item, or the end of the session.
Receive(o) ==
    /\ await[o].type = "waiting"
    /\ \/ /\ worker[o].queue # <<>>
          /\ await' = [await EXCEPT ![o] = Head(worker[o].queue)]
          /\ worker' = [worker EXCEPT ![o].queue = Tail(@)]
       \/ /\ Ended(o)
          /\ Abandon(o)
    /\ LoopOnly

StaleItem(o) ==
    /\ await[o].type \in {"target", "finished"}
    /\ ~Fresh(o, worker[o].generation)
    /\ Abandon(o)
    /\ LoopOnly

\* Mutant: the loop does not wait for the next item.
ProgressOnce(o) ==
    /\ await[o].type = "target"
    /\ Fresh(o, worker[o].generation) /\ busy
    /\ results' = results \cup {[operation |-> o, generation |-> worker[o].generation,
                               target |-> await[o].target]}
    /\ await' = [await EXCEPT ![o] = None]
    /\ UNCHANGED <<view, generation, open, seq, operation, busy, pending, prompt, entry, slot,
                   commands, worker, total>>

\* The list keeps one entry per target (appendMutationResult), and the loop
\* waits for the next item.
Progress(o) ==
    /\ await[o].type = "target"
    /\ Fresh(o, worker[o].generation) /\ busy
    /\ results' = results \cup {[operation |-> o, generation |-> worker[o].generation,
                               target |-> await[o].target]}
    /\ await' = [await EXCEPT ![o] = [type |-> "waiting"]]
    /\ UNCHANGED <<view, generation, open, seq, operation, busy, pending, prompt, entry, slot,
                   commands, worker, total>>

\* The result of the call replaces what its progress had shown.
Finish(o) ==
    /\ await[o].type = "finished"
    /\ Fresh(o, worker[o].generation)
    /\ busy' = FALSE
    /\ prompt' = None
    /\ pending' = (pending /\ worker[o].plan.kind # "upgrade")
    /\ results' = {[operation |-> o, generation |-> worker[o].generation, target |-> t] :
                   t \in await[o].targets}
    /\ Abandon(o)
    /\ UNCHANGED <<view, generation, open, seq, operation, entry, slot, commands, total>>

-----------------------------------------------------------------------------
(* Navigation and the choice of another context *)

Navigate(v) ==
    /\ KeysReachScreen /\ v # view
    /\ view' = v
    /\ UNCHANGED <<generation, open, seq, operation, busy, pending, prompt, entry, slot,
                   commands, worker, await, results, total>>

\* What beginSessionOpen resets of the mutation flow.  The selection is a
\* message of its own and may find any prompt open.
SwitchSession ==
    /\ generation < MaxSwitch /\ seq < MaxOp
    /\ generation' = generation + 1
    /\ open' = FALSE
    /\ slot' = 0
    /\ prompt' = None /\ entry' = None
    /\ busy' = FALSE /\ pending' = FALSE /\ results' = {}
    /\ NextOperation
    /\ view' = "nodes"
    /\ UNCHANGED <<commands, worker, await, total>>

SessionOpened ==
    /\ ~open
    /\ open' = TRUE
    /\ UNCHANGED <<view, generation, seq, operation, busy, pending, prompt, entry, slot,
                   commands, worker, await, results, total>>

-----------------------------------------------------------------------------
Keys ==
    \/ \E kind \in Kinds, targets \in Selection : AskAction(kind, targets) \/ AskPath(kind, targets)
    \/ \E option \in Option : TurnOption(option)
    \/ \E targets \in Selection : BeginUpgrade(targets)
    \/ \E right \in BOOLEAN : TypeToken(right)
    \/ PathEntered \/ ImageEntered \/ PathDropped \/ UpgradeDropped \/ ForceDropped \/ Cancel
    \/ PrepareAgain \/ AcceptToken \/ AllowDowntime \/ AskForce \/ ForceEntered \/ Confirm
    \/ \E v \in Views : Navigate(v)

CommandResult ==
    \E c \in commands :
        \/ StaleMessage(c) \/ ImageRead(c)
        \/ \E failed, blocked, offers \in BOOLEAN : Prepared(c, failed, blocked, offers)

WorkerStep(o) == Start(o) \/ (\E t \in Target : Report(o, t)) \/ Return(o) \/ SendEnd(o)
AwaitStep(o) == Receive(o) \/ StaleItem(o) \/ Progress(o) \/ Finish(o)

Execution == \E o \in 1..MaxOp : WorkerStep(o) \/ AwaitStep(o)

Next == Keys \/ SwitchSession \/ SessionOpened \/ CommandResult \/ Execution

\* Every preparation and every call has a deadline and returns, Go runs its
\* goroutines and Bubble Tea handles the messages; the operator need not act.
\* The goroutines take finitely many steps each, so one condition serves them all.
Fairness == WF_vars(CommandResult) /\ WF_vars(Execution)

Spec == Init /\ [][Next]_vars /\ Fairness

-----------------------------------------------------------------------------
(***************************************************************************)
(* Properties                                                              *)
(***************************************************************************)

\* What is executed is what was on screen when it was confirmed: the plan of
\* a goroutine was made for the options its prompt showed, and the token was
\* typed where one is asked for, in whatever order options were turned, plans
\* prepared again, force or downtime asked for and prompts replaced.  And the
\* interface never offers a second mutation beside one of its own: while a
\* goroutine of this session has not returned, the flow is busy with it and no
\* prompt is open.
ExecutedAsShown ==
    \A o \in 1..MaxOp : worker[o] # None =>
        /\ worker[o].plan.option = worker[o].shown /\ worker[o].confirmed
        /\ ~Ended(o) => busy /\ operation = o /\ prompt = None /\ entry = None

\* The results on screen are those of the operation the flow is at, in the
\* session that is open, and once it is not busy they are all of its targets:
\* neither a late message of another batch nor a progress report that found
\* no room leaves a mark.
ResultsAreTheBatch ==
    \A r \in results :
        /\ r.operation = operation /\ r.generation = generation
        /\ ~busy => Cardinality(results) = total

\* The flow does not stay busy, whatever is dropped, refused or canceled on
\* the way, and every goroutine that was started comes to its end.
FlowEnds ==
    (busy \/ \E o \in 1..MaxOp : worker[o] # None) ~>
        (~busy /\ \A o \in 1..MaxOp : worker[o] = None)
=============================================================================
