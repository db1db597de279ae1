------------------------ MODULE MutationFlow_proofs -------------------------
(***************************************************************************)
(* The mutation flow of the interface, for any nodes, any selection and    *)
(* any number of operations and sessions: it executes what its prompt      *)
(* showed, once, and shows the results of that batch alone.                *)
(***************************************************************************)
EXTENDS MutationFlow, FiniteSetTheorems, TLAPS

-----------------------------------------------------------------------------
(* The invariant *)

Operation == 1..MaxOp

Plan == [kind : Kinds \cup {"upgrade"}, targets : SUBSET Target, option : Option,
         force : BOOLEAN, downtime : BOOLEAN]

PromptType == [type : {"prompt"}, operation : Operation, generation : Nat, plan : Plan,
               option : Option, blocked : BOOLEAN, offersDowntime : BOOLEAN,
               typed : BOOLEAN, ready : BOOLEAN, needsPrepare : BOOLEAN]

CommandType == [type : {"prepare", "image"}, operation : Operation, generation : Nat,
                request : Plan]

EntryType == {None, [type |-> "force"]}
             \cup [type : {"path"}, kind : Kinds \cup {"upgrade"}, targets : SUBSET Target]
             \cup [type : {"image"}, operation : Operation, targets : SUBSET Target]

\* The items that a goroutine with plan p may send.
Item(p) == [type : {"target"}, target : Target]
           \cup [type : {"finished"}, targets : {{}, p.targets}]

\* A goroutine, with the items it has sent and its outcome.
Goroutine(p) == [type : {"worker"}, generation : Nat, plan : {p}, shown : Option,
                 confirmed : BOOLEAN, phase : {"starting", "calling", "finishing", "done"},
                 left : SUBSET Target, outcome : {{}, p.targets}, queue : Seq(Item(p))]

FlowTyped ==
    /\ generation \in Nat /\ seq \in 0..MaxOp /\ operation \in 0..seq
    /\ prompt \in {None} \cup PromptType
    /\ entry \in EntryType
    /\ commands \subseteq CommandType
    /\ DOMAIN worker = Operation /\ DOMAIN await = Operation

FlagsTyped == open \in BOOLEAN /\ busy \in BOOLEAN /\ pending \in BOOLEAN

Runs(o) == worker[o] # None

\* Numbers are handed out once.
Numbered ==
    /\ \A c \in commands : c.operation <= seq
    /\ \A o \in Operation : Runs(o) => o <= seq /\ worker[o].generation <= generation

\* No goroutine has the number the flow is at, and no results are shown.
Idle == results = {} /\ \A o \in Operation : o = operation => ~Runs(o)

Pending == {c \in commands : c.operation = operation}

\* The number the flow is at is held by one thing at a time: a command, a prompt to
\* edit the image, a prompt for a plan, or a goroutine.
Turns ==
    /\ \A c \in Pending : /\ busy /\ prompt = None /\ entry = None /\ Idle
                          /\ c.type = "image" => slot = operation
                          /\ c.generation = generation /\ Pending = {c}
    /\ pending => \E c \in Pending : c.request.kind = "upgrade"
    /\ entry.type = "path" => prompt = None /\ ~busy
    /\ entry.type = "image" => entry.operation = operation /\ prompt = None /\ ~busy /\ Idle
    /\ entry.type = "force" => prompt # None
    /\ prompt # None => /\ prompt.operation = operation /\ prompt.generation = generation
                        /\ ~busy /\ Idle
    /\ \A o \in Operation : Runs(o) =>
           /\ Ended(o) <=> o # operation
           /\ o = operation => busy /\ prompt = None /\ entry = None

\* The plan of a prompt is the one on screen, or has to be prepared again.
ShownIsPlan == prompt # None =>
    /\ \/ prompt.option = prompt.plan.option
       \/ prompt.needsPrepare /\ prompt.plan.kind \in Destructive
    /\ prompt.ready => prompt.typed /\ ~prompt.needsPrepare

\* What a goroutine has sent, and what of it waits in a for the loop.
Carries(w, a) ==
    /\ w \in Goroutine(w.plan) /\ w.plan \in Plan
    /\ w.plan.option = w.shown /\ w.confirmed
    /\ a \in {None, [type |-> "waiting"]} \cup Item(w.plan)
    /\ w.phase # "done" => /\ a.type # "finished"
                           /\ \A i \in 1..Len(w.queue) : w.queue[i].type # "finished"

Workers == \A o \in Operation :
    /\ await[o] # None => Runs(o)
    /\ Runs(o) => Carries(worker[o], await[o])
    /\ Runs(o) /\ o = operation =>
           /\ worker[o].phase # "starting" => await[o] # None
           /\ total = Cardinality(worker[o].plan.targets)

Batched ==
    /\ \A r \in results : r.operation = operation /\ r.generation = generation
    /\ results # {} => IF busy THEN \E o \in Operation : o = operation /\ Runs(o)
                       ELSE Cardinality(results) = total

FlowInv == FlowTyped /\ FlagsTyped /\ Numbered /\ Turns /\ ShownIsPlan /\ Workers /\ Batched

-----------------------------------------------------------------------------
(* Steps of the keys *)

\* Where no goroutine steps, what they carry stays.
LEMMA WorkersFrame ==
    ASSUME Workers, UNCHANGED <<worker, await>>,
           \A o \in Operation : Runs(o) /\ o = operation' => o = operation /\ UNCHANGED total
    PROVE  Workers'
BY DEF Workers, Runs

\* A new number belongs to nobody.
LEMMA NextIsNew ==
    ASSUME FlowTyped, Numbered, NextOperation
    PROVE  /\ seq' \in Operation /\ seq' = seq + 1 /\ operation' = seq'
           /\ \A c \in commands : c.operation < operation'
           /\ \A o \in Operation : Runs(o) => o < operation'
<1>1. seq \in Nat /\ MaxOp \in Nat /\ seq < MaxOp /\ seq' = seq + 1 /\ operation' = seq + 1
  BY MutationFlowAssumption DEF FlowTyped, NextOperation
<1>2. \A c \in commands : c.operation \in Nat /\ c.operation <= seq
  BY DEF FlowTyped, Numbered, CommandType, Operation
<1>3. \A o \in Operation : o \in Nat /\ (Runs(o) => o <= seq)
  BY DEF Numbered, Operation
<1> QED
  BY <1>1, <1>2, <1>3 DEF Operation

\* A command takes the number the flow is at.
LEMMA CommandKeeps ==
    ASSUME FlowInv, NEW c \in CommandType, commands' = commands \cup {c},
           c.operation = operation', c.generation = generation, operation' \in 1..seq', seq' \in Operation, seq' >= seq,
           Pending' = {c}, c.type = "image" => slot' = operation',
           busy' = TRUE, pending' \in BOOLEAN, pending' => c.request.kind = "upgrade",
           prompt' = None, entry' = None, results' = {},
           \A o \in Operation : Runs(o) => Ended(o) /\ o # operation',
           UNCHANGED <<generation, open, worker, await, total>>
    PROVE  FlowInv'
<1> USE DEF FlowInv
<1>1. FlowTyped' /\ FlagsTyped'
  BY DEF FlowTyped, FlagsTyped, EntryType, Operation
<1>2. Numbered'
  <2>1. \A o \in Operation : Runs(o) => o <= seq'
    BY DEF Numbered, FlowTyped, Operation
  <2>2. \A d \in commands : d.operation <= seq'
    BY DEF Numbered, FlowTyped, CommandType, Operation
  <2>3. c.operation <= seq'
    BY DEF Operation
  <2> QED
    BY <2>1, <2>2, <2>3 DEF Numbered, Runs
<1>3. \A o \in Operation : Runs(o)' => Ended(o)' /\ o # operation'
  BY DEF Runs, Ended
<1>4. Idle'
  BY <1>3 DEF Idle
<1>5. Turns'
  BY <1>3, <1>4 DEF Turns, None
<1>6. ShownIsPlan' /\ Batched'
  BY DEF ShownIsPlan, Batched
<1>7. Workers'
  BY WorkersFrame
<1> QED
  BY <1>1, <1>2, <1>5, <1>6, <1>7

\* A preparation starts while the flow is at nothing.
LEMMA PrepareKeeps ==
    ASSUME FlowInv, NEW plan \in Plan, Prepare(plan), ~pending,
           \A o \in Operation : o = operation => ~Runs(o)
    PROVE  FlowInv'
<1> DEFINE c == [type |-> "prepare", operation |-> seq + 1, generation |-> generation,
                 request |-> plan]
<1>1. /\ NextOperation /\ busy' = TRUE /\ prompt' = None /\ entry' = None /\ results' = {}
      /\ commands' = commands \cup {c}
      /\ UNCHANGED <<view, generation, open, pending, slot, worker, await, total>>
  BY DEF Prepare
<1>2. /\ seq' \in Operation /\ seq' = seq + 1 /\ operation' = seq'
      /\ \A d \in commands : d.operation < operation'
      /\ \A o \in Operation : Runs(o) => o < operation'
  BY <1>1, NextIsNew DEF FlowInv
<1>3. /\ c \in CommandType /\ c.operation = operation' /\ c.type = "prepare"
      /\ c.generation = generation
  BY <1>2 DEF CommandType, FlowInv, FlowTyped
<1> HIDE DEF c
<1>4. Pending' = {c}
  <2>1. \A d \in commands : d.operation # operation'
    BY <1>2 DEF FlowInv, FlowTyped, CommandType, Operation
  <2> QED
    BY <1>1, <1>3, <2>1 DEF Pending
<1>5. \A o \in Operation : Runs(o) => Ended(o) /\ o # operation'
  BY <1>2 DEF FlowInv, Turns, Operation
<1>6. /\ seq' >= seq /\ operation' \in 1..seq' /\ pending' = FALSE
      /\ UNCHANGED <<generation, open, worker, await, total>>
  BY <1>1, <1>2 DEF FlowInv, FlowTyped, FlagsTyped, Operation
<1> QED
  BY <1>1, <1>2, <1>3, <1>4, <1>5, <1>6, CommandKeeps

\* The prompt alone changes: it closes, or another option or token is on it.
LEMMA PromptKeeps ==
    ASSUME FlowInv, PromptOnly, prompt # None,
           \/ prompt' = None /\ entry = None
           \/ /\ prompt' \in PromptType /\ ShownIsPlan'
              /\ prompt'.operation = prompt.operation /\ prompt'.generation = prompt.generation
    PROVE  FlowInv'
<1> USE DEF FlowInv, PromptOnly
<1>1. FlowTyped' /\ FlagsTyped' /\ Numbered' /\ ShownIsPlan' /\ Batched'
  <2>1. FlowTyped' /\ FlagsTyped' 
    BY DEF FlowTyped, FlagsTyped
  <2>2. Numbered' /\ Batched'
    BY DEF Numbered, Batched, Runs
  <2>3. ShownIsPlan'
    BY DEF ShownIsPlan
  <2> QED
    BY <2>1, <2>2, <2>3
<1>2. Idle' <=> Idle
  BY DEF Idle, Runs
<1>3. Pending' = Pending
  BY DEF Pending
<1>4. Pending = {} /\ ~pending /\ entry.type # "image" /\ entry.type # "path"
  BY DEF Turns
<1>5. /\ ~busy /\ Idle
      /\ prompt' # None => prompt'.operation = operation /\ prompt'.generation = generation
  <2>1. ~busy /\ Idle /\ prompt.operation = operation /\ prompt.generation = generation
    BY DEF Turns
  <2> QED
    BY <2>1
<1>6. Turns'
  <2>1. \A o \in Operation : Runs(o)' => Ended(o)' /\ o # operation'
    BY <1>5 DEF Turns, Idle, Runs, Ended
  <2>2. entry'.type = "force" => prompt' # None
    BY DEF PromptType, None
  <2> QED
    BY <1>2, <1>3, <1>4, <1>5, <2>1, <2>2 DEF Turns
<1>7. Workers'
  BY WorkersFrame
<1> QED
  BY <1>1, <1>6, <1>7

\* A step that has nothing to do with the flow.
LEMMA AsideKeeps ==
    ASSUME FlowInv, open' \in BOOLEAN,
           UNCHANGED <<generation, seq, operation, busy, pending, prompt, entry, slot, commands,
                       worker, await, results, total>>
    PROVE  FlowInv'
<1> USE DEF FlowInv
<1>1. FlowTyped' /\ FlagsTyped' 
  BY DEF FlowTyped, FlagsTyped
<1>2. Numbered' /\ ShownIsPlan' /\ Batched'
  BY DEF Numbered, ShownIsPlan, Batched, Runs
<1>3. Turns'
  BY DEF Turns, Pending, Idle, Runs, Ended
<1>4. Workers'
  BY WorkersFrame
<1> QED
  BY <1>1, <1>2, <1>3, <1>4

\* A text prompt opens or closes.
LEMMA EntryKeeps ==
    ASSUME FlowInv,
           UNCHANGED <<view, generation, open, seq, operation, busy, pending, prompt, slot,
                       commands, worker, await, results, total>>,
           Pending = {} \/ entry' = None,
           \A o \in Operation : o = operation /\ Runs(o) => entry' = None,
           \/ entry' = None
           \/ entry' = [type |-> "force"] /\ prompt # None
           \/ /\ entry' \in [type : {"path"}, kind : Kinds \cup {"upgrade"}, targets : SUBSET Target]
              /\ prompt = None /\ ~busy
    PROVE  FlowInv'
<1> USE DEF FlowInv
<1>1. FlowTyped' /\ FlagsTyped' 
  BY DEF FlowTyped, FlagsTyped, EntryType
<1>2. Numbered' /\ ShownIsPlan' /\ Batched'
  BY DEF Numbered, ShownIsPlan, Batched, Runs
<1>3. Pending' = Pending /\ (Idle' <=> Idle)
  BY DEF Pending, Idle, Runs
<1>4. Turns'
  BY <1>3 DEF Turns, Runs, Ended, None
<1>5. Workers'
  BY WorkersFrame
<1> QED
  BY <1>1, <1>2, <1>4, <1>5

\* Every key but the one that confirms.
LEMMA PromptKeyKeeps ==
    ASSUME FlowInv,
           \/ \E option \in Option : TurnOption(option)
           \/ \E right \in BOOLEAN : TypeToken(right)
           \/ AcceptToken \/ Cancel
    PROVE  FlowInv'
<1>1. prompt \in {None} \cup PromptType /\ ShownIsPlan
  BY DEF FlowInv, FlowTyped
<1>2. ASSUME Editable
      PROVE  prompt \in PromptType /\ prompt # None /\ ~prompt.ready /\ prompt.plan.kind \in Destructive
  BY <1>1, <1>2 DEF Editable, PromptReadsKeys
<1>3. ASSUME NEW option \in Option, TurnOption(option)
      PROVE  FlowInv'
  <2>1. prompt' \in PromptType /\ prompt'.operation = prompt.operation
        /\ prompt'.generation = prompt.generation
    BY <1>2, <1>3 DEF TurnOption, Turned, PromptType
  <2>2. ShownIsPlan'
    BY <1>2, <1>3 DEF TurnOption, Turned, PromptType, ShownIsPlan
  <2> QED
    BY <1>2, <1>3, <2>1, <2>2, PromptKeeps DEF TurnOption
<1>4. ASSUME NEW right \in BOOLEAN, TypeToken(right)
      PROVE  FlowInv'
  <2>1. prompt' \in PromptType /\ prompt'.operation = prompt.operation
        /\ prompt'.generation = prompt.generation
    BY <1>2, <1>4 DEF TypeToken, PromptType
  <2>2. ShownIsPlan'
    BY <1>1, <1>2, <1>4 DEF TypeToken, PromptType, ShownIsPlan
  <2> QED
    BY <1>2, <1>4, <2>1, <2>2, PromptKeeps DEF TypeToken
<1>5. CASE AcceptToken
  <2>1. prompt' \in PromptType /\ prompt'.operation = prompt.operation
        /\ prompt'.generation = prompt.generation
    BY <1>2, <1>5 DEF AcceptToken, PromptType
  <2>2. ShownIsPlan'
    BY <1>1, <1>2, <1>5 DEF AcceptToken, PromptType, ShownIsPlan
  <2> QED
    BY <1>2, <1>5, <2>1, <2>2, PromptKeeps DEF AcceptToken
<1>6. CASE Cancel
  BY <1>6, PromptKeeps DEF Cancel, PromptReadsKeys
<1> QED
  BY <1>3, <1>4, <1>5, <1>6

\* A question is asked, answered or withdrawn before any command runs.
LEMMA AskKeeps ==
    ASSUME FlowInv,
           \/ \E kind \in Kinds, targets \in Selection :
                  AskAction(kind, targets) \/ AskPath(kind, targets)
           \/ PathEntered \/ AllowDowntime \/ ForceEntered
           \/ PathDropped \/ ForceDropped \/ AskForce
    PROVE  FlowInv'
<1>1. FirstOption \in Option
  BY MutationFlowAssumption DEF FirstOption
<1>2. Selection \subseteq SUBSET Target
  BY MutationFlowAssumption
<1>3. ASSUME ~busy
      PROVE  ~pending /\ Pending = {} /\ \A o \in Operation : o = operation => ~Runs(o)
  BY <1>3 DEF FlowInv, Turns
<1>4. ASSUME prompt # None
      PROVE  prompt \in PromptType /\ ~busy
  BY <1>4 DEF FlowInv, FlowTyped, Turns
<1>5. ASSUME NEW kind \in Kinds, NEW targets \in Selection, AskAction(kind, targets)
      PROVE  FlowInv'
  <2>1. ~busy /\ Prepare(Request(kind, targets, FirstOption, FALSE, FALSE))
    BY <1>5 DEF AskAction, MayBegin, NodesOffer, ServicesOffer, EtcdOffers, DisksOffer
  <2>2. Request(kind, targets, FirstOption, FALSE, FALSE) \in Plan
    BY <1>1, <1>2 DEF Request, Plan
  <2> QED
    BY <1>3, <2>1, <2>2, PrepareKeeps
<1>6. ASSUME NEW kind \in Kinds, NEW targets \in Selection, AskPath(kind, targets)
      PROVE  FlowInv'
  <2>1. ~busy /\ prompt = None /\ entry' = [type |-> "path", kind |-> kind, targets |-> targets]
    BY <1>6 DEF AskPath, MayBegin, KeysReachScreen, NodesOffer, ServicesOffer, EtcdOffers, DisksOffer
  <2>2. entry' \in [type : {"path"}, kind : Kinds \cup {"upgrade"}, targets : SUBSET Target]
    BY <1>2, <2>1
  <2> QED
    BY <1>3, <1>6, <2>1, <2>2, EntryKeeps DEF AskPath
<1>7. CASE PathEntered
  <2>1. ~busy /\ Prepare(Request(entry.kind, entry.targets, FirstOption, FALSE, FALSE))
    BY <1>7 DEF PathEntered, FlowInv, Turns
  <2>2. entry.kind \in Kinds \cup {"upgrade"} /\ entry.targets \in SUBSET Target
    BY <1>7 DEF PathEntered, FlowInv, FlowTyped, EntryType, None
  <2>3. Request(entry.kind, entry.targets, FirstOption, FALSE, FALSE) \in Plan
    BY <1>1, <2>2 DEF Request, Plan
  <2> QED
    BY <1>3, <2>1, <2>3, PrepareKeeps
<1>8. CASE AllowDowntime
  <2>1. prompt \in PromptType /\ ~busy
    BY <1>4, <1>8 DEF AllowDowntime, PromptReadsKeys
  <2>2. [prompt.plan EXCEPT !.downtime = TRUE] \in Plan
    BY <2>1 DEF PromptType, Plan
  <2> QED
    BY <1>3, <1>8, <2>1, <2>2, PrepareKeeps DEF AllowDowntime
<1>9. CASE ForceEntered
  <2>1. prompt \in PromptType /\ ~busy
    BY <1>4, <1>9 DEF ForceEntered, FlowInv, Turns
  <2>2. [prompt.plan EXCEPT !.force = TRUE] \in Plan
    BY <2>1 DEF PromptType, Plan
  <2> QED
    BY <1>3, <1>9, <2>1, <2>2, PrepareKeeps DEF ForceEntered
<1>10. CASE PathDropped \/ ForceDropped
  BY <1>10, EntryKeeps DEF PathDropped, ForceDropped
<1>11. CASE AskForce
  BY <1>3, <1>4, <1>11, EntryKeeps DEF AskForce, PromptReadsKeys
<1> QED
  BY <1>5, <1>6, <1>7, <1>8, <1>9, <1>10, <1>11

\* A number outdates what is under way.
LEMMA OutdatedKeeps ==
    ASSUME FlowInv, NextOperation, ~busy', ~pending', results' = {}, entry' = None,
           prompt' = None, generation' \in Nat, generation' >= generation, open' \in BOOLEAN,
           \A o \in Operation : Runs(o) => worker[o].generation # generation',
           UNCHANGED <<commands, worker, await, total>>,
           busy' \in BOOLEAN, pending' \in BOOLEAN
    PROVE  FlowInv'
<1> USE DEF FlowInv
<1>1. /\ seq' \in Operation /\ seq' = seq + 1 /\ operation' = seq'
      /\ \A d \in commands : d.operation < operation'
      /\ \A o \in Operation : Runs(o) => o < operation'
  BY NextIsNew
<1>2. FlowTyped' /\ FlagsTyped'
  BY <1>1 DEF FlowTyped, FlagsTyped, EntryType, Operation
<1>3. Numbered'
  <2>1. ASSUME NEW o \in Operation, Runs(o)
        PROVE  o <= seq' /\ worker[o].generation <= generation'
    <3>1. o <= seq /\ worker[o].generation <= generation /\ worker[o].generation \in Nat
      BY <2>1 DEF Numbered, Workers, Carries, Goroutine
    <3> QED
      BY <1>1, <3>1 DEF FlowTyped, Operation
  <2>2. \A c \in commands : c.operation <= seq'
    BY <1>1 DEF FlowTyped, CommandType, Operation
  <2> QED
    BY <2>1, <2>2 DEF Numbered, Runs
<1>4. Pending' = {}
  BY <1>1 DEF Pending, FlowTyped, CommandType, Operation
<1>5. \A o \in Operation : Runs(o)' => Ended(o)' /\ o # operation'
  BY <1>1 DEF Runs, Ended, Operation
<1>6. Turns'
  BY <1>4, <1>5 DEF Turns, None
<1>7. ShownIsPlan' /\ Batched'
  BY DEF ShownIsPlan, Batched
<1>8. Workers'
  BY <1>1, WorkersFrame DEF Operation
<1> QED
  BY <1>2, <1>3, <1>6, <1>7, <1>8

\* The image prompt is closed: there is nothing under way to belong to it.
LEMMA UpgradeDroppedKeeps ==
    ASSUME FlowInv, UpgradeDropped
    PROVE  FlowInv'
<1> USE DEF FlowInv
<1>1. prompt = None /\ results = {} /\ \A o \in Operation : o = operation => ~Runs(o)
  BY DEF UpgradeDropped, Turns, Idle, Pending
<1>2. \A o \in Operation : Runs(o) => worker[o].generation # generation
  BY <1>1 DEF Turns, Ended
<1>3. /\ NextOperation /\ entry' = None /\ busy' = FALSE /\ pending' = FALSE
      /\ UNCHANGED <<view, generation, open, prompt, commands, worker, await, results, total>>
  BY DEF UpgradeDropped
<1>4. /\ prompt' = None /\ results' = {} /\ open' \in BOOLEAN
      /\ generation' \in Nat /\ generation' >= generation
      /\ \A o \in Operation : Runs(o) => worker[o].generation # generation'
  BY <1>1, <1>2, <1>3 DEF FlowTyped, FlagsTyped
<1> QED
  BY <1>3, <1>4, OutdatedKeeps

\* A context switch: what is under way is of another generation from then on.
LEMMA SwitchKeeps ==
    ASSUME FlowInv, SwitchSession
    PROVE  FlowInv'
<1>1. \A o \in Operation : Runs(o) => worker[o].generation # generation'
  <2> SUFFICES ASSUME NEW o \in Operation, Runs(o)
               PROVE  worker[o].generation # generation'
    OBVIOUS
  <2>1. worker[o].generation <= generation /\ worker[o].generation \in Nat
    BY DEF FlowInv, Numbered, Workers, Carries, Goroutine
  <2> QED
    BY <2>1 DEF SwitchSession, FlowInv, FlowTyped
<1>2. generation' \in Nat /\ generation' >= generation /\ open' = FALSE
  BY DEF SwitchSession, FlowInv, FlowTyped
<1> QED
  BY <1>1, <1>2, OutdatedKeeps DEF SwitchSession

\* The upgrade asks for its image under a number of its own.
LEMMA BeginUpgradeKeeps ==
    ASSUME FlowInv, NEW targets \in Selection, BeginUpgrade(targets)
    PROVE  FlowInv'
<1> DEFINE c == [type |-> "image", operation |-> seq + 1, generation |-> generation,
                 request |-> Request("upgrade", targets, FirstOption, FALSE, FALSE)]
<1>1. /\ NextOperation /\ busy' = TRUE /\ pending' = TRUE /\ results' = {} /\ slot' = seq + 1
      /\ commands' = commands \cup {c}
      /\ UNCHANGED <<view, generation, open, prompt, entry, worker, await, total>>
      /\ ~busy /\ prompt = None /\ entry = None
  BY DEF BeginUpgrade, MayBegin, KeysReachScreen, NodesOffer, ServicesOffer, EtcdOffers, DisksOffer
<1>2. /\ seq' \in Operation /\ seq' = seq + 1 /\ operation' = seq'
      /\ \A d \in commands : d.operation < operation'
      /\ \A o \in Operation : Runs(o) => o < operation'
  BY <1>1, NextIsNew DEF FlowInv
<1>3. Request("upgrade", targets, FirstOption, FALSE, FALSE) \in Plan
  BY MutationFlowAssumption DEF Request, Plan, FirstOption
<1>4. /\ c \in CommandType /\ c.operation = operation' /\ c.request.kind = "upgrade"
      /\ c.generation = generation
  BY <1>2, <1>3 DEF CommandType, FlowInv, FlowTyped, Request
<1> HIDE DEF c
<1>5. Pending' = {c}
  <2>1. \A d \in commands : d.operation # operation'
    BY <1>2 DEF FlowInv, FlowTyped, CommandType, Operation
  <2> QED
    BY <1>1, <1>4, <2>1 DEF Pending
<1>6. \A o \in Operation : Runs(o) => Ended(o) /\ o # operation'
  BY <1>1, <1>2 DEF FlowInv, Turns, Operation
<1>7. seq' >= seq /\ operation' \in 1..seq' /\ slot' = operation'
  BY <1>1, <1>2 DEF FlowInv, FlowTyped, Operation
<1>8. prompt' = None /\ entry' = None /\ UNCHANGED <<generation, open, worker, await, total>>
  BY <1>1
<1> QED
  BY <1>1, <1>2, <1>4, <1>5, <1>6, <1>7, <1>8, CommandKeeps

\* The flow goes on under the number it has.
LEMMA AgainKeeps ==
    ASSUME FlowInv, NEW plan \in Plan, NEW o \in Operation, o = operation, Idle, Pending = {},
           commands' = commands \cup {[type |-> "prepare", operation |-> o,
                                       generation |-> generation, request |-> plan]},
           operation' = operation, busy' = TRUE, pending' => plan.kind = "upgrade",
           pending' \in BOOLEAN, prompt' = None, entry' = None,
           UNCHANGED <<seq, generation, open, worker, await, results, total>>
    PROVE  FlowInv'
<1> DEFINE c == [type |-> "prepare", operation |-> o, generation |-> generation,
                 request |-> plan]
<1>1. /\ c \in CommandType /\ c.operation = operation' /\ c.type = "prepare"
      /\ c.request.kind = plan.kind /\ c.generation = generation
      /\ commands' = commands \cup {c}
  BY DEF CommandType, FlowInv, FlowTyped
<1> HIDE DEF c
<1>2. Pending' = {c}
  BY <1>1 DEF Pending
<1>3. \A n \in Operation : Runs(n) => Ended(n) /\ n # operation'
  BY DEF FlowInv, Turns, Idle
<1>4. seq' \in Operation /\ seq' >= seq /\ operation' \in 1..seq' /\ results' = {}
  BY MutationFlowAssumption DEF FlowInv, FlowTyped, Operation, Idle
<1> QED
  BY <1>1, <1>2, <1>3, <1>4, CommandKeeps

\* An upgrade is prepared from what was entered, or once more.
LEMMA AskAgainKeeps ==
    ASSUME FlowInv, ImageEntered \/ PrepareAgain
    PROVE  FlowInv'
<1>1. CASE ImageEntered
  <2>1. entry.operation \in Operation /\ entry.targets \in SUBSET Target
    BY <1>1 DEF ImageEntered, FlowInv, FlowTyped, EntryType, None
  <2>2. entry.operation = operation /\ Idle /\ Pending = {} /\ prompt = None
    BY <1>1 DEF ImageEntered, FlowInv, Turns
  <2> DEFINE plan == Request("upgrade", entry.targets, FirstOption, FALSE, FALSE)
  <2>3. plan \in Plan /\ plan.kind = "upgrade"
    BY <2>1, MutationFlowAssumption DEF Request, Plan, FirstOption
  <2>4. /\ commands' = commands \cup {[type |-> "prepare", operation |-> entry.operation,
                                       generation |-> generation, request |-> plan]}
        /\ operation' = operation /\ busy' = TRUE /\ pending' = TRUE
        /\ prompt' = None /\ entry' = None
        /\ UNCHANGED <<seq, generation, open, worker, await, results, total>>
    BY <1>1, <2>2 DEF ImageEntered
  <2> HIDE DEF plan
  <2> QED
    BY <2>1, <2>2, <2>3, <2>4, AgainKeeps
<1>2. CASE PrepareAgain
  <2>1. prompt \in PromptType /\ prompt # None /\ entry = None
    BY <1>2 DEF PrepareAgain, Editable, PromptReadsKeys, FlowInv, FlowTyped
  <2>2. /\ prompt.operation = operation /\ prompt.generation = generation /\ Idle
        /\ Pending = {} /\ ~pending
    BY <2>1 DEF FlowInv, Turns
  <2> DEFINE plan == [prompt.plan EXCEPT !.option = prompt.option]
  <2>3. plan \in Plan
    BY <2>1 DEF PromptType, Plan
  <2>4. /\ commands' = commands \cup {[type |-> "prepare", operation |-> prompt.operation,
                                       generation |-> generation, request |-> plan]}
        /\ operation' = operation /\ busy' = TRUE /\ pending' = FALSE
        /\ prompt' = None /\ entry' = None
        /\ UNCHANGED <<seq, generation, open, worker, await, results, total>>
    BY <1>2, <2>1, <2>2 DEF PrepareAgain, FlowInv, FlagsTyped
  <2>5. prompt.operation \in Operation
    BY <2>1 DEF PromptType
  <2> HIDE DEF plan
  <2> QED
    BY <2>2, <2>3, <2>4, <2>5, AgainKeeps
<1> QED
  BY <1>1, <1>2

\* The plan on screen goes to a goroutine, under the number the flow is at.
LEMMA ConfirmKeeps ==
    ASSUME FlowInv, Confirm
    PROVE  FlowInv'
<1> USE DEF FlowInv
<1> DEFINE w == [type |-> "worker", generation |-> prompt.generation, plan |-> prompt.plan,
                 shown |-> prompt.option,
                 confirmed |-> prompt.typed \/ prompt.plan.kind \notin Destructive,
                 phase |-> "starting",
                 left |-> IF prompt.plan.kind \in Batch \cup {"upgrade", "wipe"}
                          THEN prompt.plan.targets ELSE {},
                 outcome |-> {}, queue |-> <<>>]
<1>1. prompt \in PromptType /\ prompt # None /\ entry = None
  BY DEF Confirm, PromptReadsKeys, FlowTyped
<1>2. PICK o \in Operation : o = prompt.operation
  BY <1>1 DEF PromptType
<1>3. o = operation /\ prompt.generation = generation /\ Idle /\ Pending = {} /\ ~pending
  BY <1>1, <1>2 DEF Turns
<1>4. /\ prompt' = None /\ busy' = TRUE /\ results' = {} /\ operation' = operation
      /\ total' = Cardinality(prompt.plan.targets)
      /\ worker' = [worker EXCEPT ![o] = w]
      /\ UNCHANGED <<view, generation, open, seq, pending, entry, slot, commands, await>>
  BY <1>2, <1>3 DEF Confirm
<1>5. worker'[o] = w /\ \A n \in Operation \ {o} : worker'[n] = worker[n]
  BY <1>2, <1>3, <1>4 DEF FlowTyped
<1>6. Carries(w, None) /\ w.generation = generation /\ w # None /\ w.plan = prompt.plan
      /\ w.phase = "starting"
  <2>1. prompt.plan \in Plan /\ prompt.option \in Option /\ prompt.typed \in BOOLEAN
    BY <1>1 DEF PromptType
  <2>2. /\ prompt.typed \/ prompt.plan.kind \notin Destructive
        /\ prompt.plan.option = prompt.option
    <3>1. prompt.plan.kind \in Destructive => prompt.ready
      BY DEF Confirm, Approvable
    <3>2. prompt.ready => prompt.typed /\ ~prompt.needsPrepare
      BY <1>1 DEF ShownIsPlan
    <3>3. \/ prompt.option = prompt.plan.option
          \/ prompt.needsPrepare /\ prompt.plan.kind \in Destructive
      BY <1>1 DEF ShownIsPlan
    <3> QED
      BY <3>1, <3>2, <3>3
  <2>3. prompt.plan.targets \in SUBSET Target
    BY <2>1 DEF Plan
  <2>4. w \in Goroutine(prompt.plan)
    BY <1>1, <2>1, <2>2, <2>3 DEF Goroutine, PromptType
  <2>5. /\ w.generation = generation /\ w.plan = prompt.plan /\ w.phase = "starting"
        /\ w.shown = prompt.option /\ w.confirmed /\ w.type = "worker"
        /\ Len(w.queue) = 0
    BY <1>3, <2>2
  <2>6. w # None /\ None.type # "finished"
    BY <2>5 DEF None
  <2>7. \A i \in 1..Len(w.queue) : FALSE
    BY <2>5
  <2> HIDE DEF w
  <2> QED
    BY <2>1, <2>2, <2>4, <2>5, <2>6, <2>7 DEF Carries
<1> HIDE DEF w
<1>7. FlowTyped' /\ FlagsTyped'
  BY <1>4 DEF FlowTyped, FlagsTyped
<1>8. await[o] = None
  BY <1>2, <1>3 DEF Idle, Workers
<1>9. \A n \in Operation : (Runs(n)' <=> Runs(n) \/ n = o) /\ (n # o => Ended(n)' = Ended(n))
  BY <1>4, <1>5, <1>6 DEF Runs, Ended
<1>10. Numbered'
  BY <1>2, <1>3, <1>4, <1>5, <1>6, <1>9 DEF Numbered, FlowTyped, Operation
<1>11. Pending' = {}
  BY <1>2, <1>3, <1>4 DEF Pending
<1>12. Turns'
  <2>1. ~Ended(o)'
    BY <1>4, <1>5, <1>6 DEF Ended
  <2>2. \A n \in Operation : Runs(n)' => (Ended(n)' <=> n # operation')
    BY <1>2, <1>3, <1>4, <1>9, <2>1 DEF Turns
  <2> QED
    BY <1>1, <1>2, <1>3, <1>4, <1>11, <2>2 DEF Turns, None
<1>13. ShownIsPlan' /\ Batched'
  BY <1>4 DEF ShownIsPlan, Batched
<1>14. Workers'
  BY <1>2, <1>3, <1>4, <1>5, <1>6, <1>8, <1>9 DEF Workers
<1> QED
  BY <1>7, <1>10, <1>12, <1>13, <1>14

-----------------------------------------------------------------------------
(* Steps of the commands and of the goroutines *)

\* The command that held the number answers: it opens a prompt, or nothing.
LEMMA AnswerKeeps ==
    ASSUME FlowInv, NEW c \in Pending, commands' = commands \ {c},
           busy' = FALSE, pending' = FALSE,
           UNCHANGED <<view, generation, open, seq, operation, worker, await, results, total>>,
           \/ prompt' = prompt /\ entry' = entry
           \/ /\ prompt' = prompt
              /\ entry' \in [type : {"image"}, operation : {operation}, targets : SUBSET Target]
           \/ /\ prompt' \in PromptType /\ prompt'.operation = operation
              /\ prompt'.generation = generation /\ prompt'.option = prompt'.plan.option
              /\ ~prompt'.ready /\ entry' = entry
    PROVE  FlowInv'
<1> USE DEF FlowInv
<1>1. prompt = None /\ entry = None /\ Idle /\ Pending = {c} /\ c \in commands
  BY DEF Turns, Pending
<1>2. operation \in Operation
  BY <1>1 DEF Pending, FlowTyped, CommandType
<1>3. FlowTyped' /\ FlagsTyped'
  BY <1>1, <1>2 DEF FlowTyped, FlagsTyped, EntryType
<1>4. Numbered'
  BY DEF Numbered, Runs
<1>5. Pending' = {} /\ Idle'
  BY <1>1 DEF Pending, Idle, Runs
<1>6. Turns'
  <2>1. \A o \in Operation : Runs(o)' => Ended(o)' /\ o # operation'
    BY <1>1 DEF Turns, Idle, Runs, Ended
  <2>2. entry'.type \in {"none", "image"}
    BY <1>1 DEF None
  <2>3. entry'.type = "image" => entry'.operation = operation' /\ prompt' = None
    BY <1>1 DEF None
  <2>4. prompt' # None => prompt'.operation = operation' /\ prompt'.generation = generation'
    BY <1>1
  <2> QED
    BY <1>5, <2>1, <2>2, <2>3, <2>4 DEF Turns
<1>7. ShownIsPlan'
  BY <1>1 DEF ShownIsPlan
<1>8. Batched'
  BY <1>1 DEF Batched, Idle
<1>9. Workers'
  BY WorkersFrame
<1> QED
  BY <1>3, <1>4, <1>6, <1>7, <1>8, <1>9

\* What a command answers is taken up by the operation that asked, or dropped.
LEMMA CommandResultKeeps ==
    ASSUME FlowInv, CommandResult
    PROVE  FlowInv'
<1>1. ASSUME NEW c \in commands, StaleMessage(c)
      PROVE  FlowInv'
  <2> USE DEF FlowInv
  <2>1. c \notin Pending
    BY <1>1 DEF StaleMessage, Turns, Fresh, Pending
  <2>2. /\ commands' = commands \ {c}
        /\ UNCHANGED <<view, generation, open, seq, operation, busy, pending, prompt,
                       entry, slot, worker, await, results, total>>
    BY <1>1 DEF StaleMessage, Unhandled
  <2>3. Pending' = Pending /\ (Idle' <=> Idle)
    BY <2>1, <2>2 DEF Pending, Idle, Runs
  <2>4. FlowTyped' /\ FlagsTyped'
    BY <2>2 DEF FlowTyped, FlagsTyped
  <2>5. Numbered' /\ ShownIsPlan' /\ Batched'
    BY <2>2 DEF Numbered, ShownIsPlan, Batched, Runs
  <2>6. Turns'
    BY <2>2, <2>3 DEF Turns, Runs, Ended
  <2>7. Workers'
    BY <2>2, WorkersFrame
  <2> QED
    BY <2>4, <2>5, <2>6, <2>7
<1>2. ASSUME NEW c \in commands, ImageRead(c)
      PROVE  FlowInv'
  <2>1. c \in Pending
    BY <1>2 DEF ImageRead, Fresh, Pending
  <2>2. c.operation = operation /\ c.request.targets \in SUBSET Target
    BY <2>1 DEF Pending, FlowInv, FlowTyped, CommandType, Plan
  <2>3. \/ entry' = entry
        \/ entry' \in [type : {"image"}, operation : {operation}, targets : SUBSET Target]
    BY <1>2, <2>2 DEF ImageRead
  <2> QED
    BY <1>2, <2>1, <2>3, AnswerKeeps DEF ImageRead
<1>3. ASSUME NEW c \in commands, NEW failed \in BOOLEAN, NEW blocked \in BOOLEAN,
             NEW offers \in BOOLEAN, Prepared(c, failed, blocked, offers)
      PROVE  FlowInv'
  <2>1. c \in Pending /\ c.operation = operation /\ c.generation = generation
    BY <1>3 DEF Prepared, Fresh, Pending
  <2>2. c \in CommandType
    BY <2>1 DEF Pending, FlowInv, FlowTyped
  <2>3. pending' = FALSE
    BY <1>3, <2>1 DEF Prepared, FlowInv, Turns, FlagsTyped
  <2>4. \/ prompt' = prompt
        \/ /\ prompt' \in PromptType /\ prompt'.operation = operation
           /\ prompt'.generation = generation /\ prompt'.option = prompt'.plan.option
           /\ ~prompt'.ready
    <3>1. prompt' = prompt \/ prompt' = PlanPrompt(c, blocked, offers)
      BY <1>3 DEF Prepared
    <3>2. c.request \in Plan /\ c.request.option \in Option
      BY <2>2 DEF CommandType, Plan
    <3>3. /\ PlanPrompt(c, blocked, offers) \in PromptType
          /\ PlanPrompt(c, blocked, offers).operation = c.operation
          /\ PlanPrompt(c, blocked, offers).generation = c.generation
          /\ PlanPrompt(c, blocked, offers).option = PlanPrompt(c, blocked, offers).plan.option
          /\ ~PlanPrompt(c, blocked, offers).ready
      BY <2>2, <3>2 DEF PlanPrompt, PromptType, CommandType
    <3> QED
      BY <2>1, <3>1, <3>3
  <2> QED
    BY <1>3, <2>1, <2>3, <2>4, AnswerKeeps DEF Prepared
<1> QED
  BY <1>1, <1>2, <1>3 DEF CommandResult

\* One goroutine, or the command that waits for it, steps; one that nobody can wait for
\* any more may go.
LEMMA WorkerKeeps ==
    ASSUME FlowInv, NEW o \in Operation, Runs(o),
           UNCHANGED <<view, generation, open, seq, operation, busy, pending, prompt, entry,
                       slot, commands, total>>,
           \/ results' = results
           \/ /\ o = operation /\ ~Ended(o)
              /\ \A r \in results' \ results : r.operation = operation /\ r.generation = generation,
           DOMAIN worker' = Operation, DOMAIN await' = Operation,
           \A n \in Operation \ {o} : worker'[n] = worker[n] /\ await'[n] = await[n],
           \/ worker'[o] = None /\ await'[o] = None /\ Ended(o)
           \/ /\ worker'[o] # None /\ Carries(worker'[o], await'[o])
              /\ worker'[o].generation = worker[o].generation
              /\ worker'[o].plan = worker[o].plan
              /\ ~Ended(o) => worker'[o].phase = "starting" \/ await'[o] # None
    PROVE  FlowInv'
<1> USE DEF FlowInv
<1>1. FlowTyped' /\ FlagsTyped'
  BY DEF FlowTyped, FlagsTyped
<1>2. \A n \in Operation : /\ Runs(n)' => Runs(n) /\ worker'[n].generation = worker[n].generation
                           /\ ~Ended(n) => (Runs(n)' <=> Runs(n))
  BY DEF Runs
<1>3. Numbered'
  BY <1>2 DEF Numbered
<1>4. \A n \in Operation : Runs(n)' => (Ended(n)' <=> Ended(n))
  BY <1>2 DEF Ended
<1>5. \A n \in Operation : n = operation => (Runs(n)' <=> Runs(n))
  BY <1>2 DEF Turns
<1>6. (Idle' <=> Idle) /\ Pending' = Pending
  BY <1>5 DEF Idle, Pending, Turns
<1>7. Turns'
  BY <1>2, <1>4, <1>6 DEF Turns
<1>8. ShownIsPlan'
  BY DEF ShownIsPlan
<1>9. Batched'
  BY <1>5 DEF Batched, Turns
<1>10. Workers'
  <2> SUFFICES ASSUME NEW n \in Operation
               PROVE  /\ await'[n] # None => Runs(n)'
                      /\ Runs(n)' => Carries(worker'[n], await'[n])
                      /\ Runs(n)' /\ n = operation =>
                             /\ worker'[n].phase # "starting" => await'[n] # None
                             /\ total = Cardinality(worker'[n].plan.targets)
    BY DEF Workers
  <2>1. CASE n # o
    BY <2>1 DEF Workers, Runs
  <2>2. CASE n = o
    BY <2>2 DEF Workers, Runs, Turns
  <2> QED
    BY <2>1, <2>2
<1> QED
  BY <1>1, <1>3, <1>7, <1>8, <1>9, <1>10

\* The goroutine goes on as w, and what waits of it is a.
LEMMA GoesOn ==
    ASSUME FlowInv, LoopOnly, NEW o \in Operation, Runs(o), NEW w, NEW a,
           worker' = [worker EXCEPT ![o] = w] \/ (worker' = worker /\ w = worker[o]),
           await' = [await EXCEPT ![o] = a] \/ (await' = await /\ a = await[o]),
           w # None, Carries(w, a),
           w.generation = worker[o].generation, w.plan = worker[o].plan,
           ~Ended(o) => w.phase = "starting" \/ a # None
    PROVE  FlowInv'
<1>1. /\ DOMAIN worker' = Operation /\ DOMAIN await' = Operation
      /\ \A n \in Operation \ {o} : worker'[n] = worker[n] /\ await'[n] = await[n]
      /\ worker'[o] = w /\ await'[o] = a
  BY DEF FlowInv, FlowTyped
<1> QED
  BY <1>1, WorkerKeeps DEF LoopOnly

\* It returns, or is forgotten.
LEMMA Goes ==
    ASSUME FlowInv, LoopOnly, NEW o \in Operation, Runs(o), Ended(o),
           worker' = [worker EXCEPT ![o] = None],
           await' = [await EXCEPT ![o] = None] \/ (await' = await /\ await[o] = None)
    PROVE  FlowInv'
<1>1. /\ DOMAIN worker' = Operation /\ DOMAIN await' = Operation
      /\ \A n \in Operation \ {o} : worker'[n] = worker[n] /\ await'[n] = await[n]
      /\ worker'[o] = None /\ await'[o] = None
  BY DEF FlowInv, FlowTyped
<1> QED
  BY <1>1, WorkerKeeps DEF LoopOnly

\* The parts of a goroutine, for the steps that change some of them.
LEMMA Parts ==
    ASSUME FlowInv, NEW o \in Operation, Runs(o)
    PROVE  /\ Carries(worker[o], await[o]) /\ worker[o] \in Goroutine(worker[o].plan)
           /\ worker[o].plan \in Plan /\ worker[o].plan.targets \in SUBSET Target
           /\ worker[o].queue \in Seq(Item(worker[o].plan))
           /\ worker[o].type = "worker"
           /\ ~Ended(o) => o = operation /\ busy
           /\ ~Ended(o) => worker[o].phase = "starting" \/ await[o] # None
<1>1. Carries(worker[o], await[o])
  BY DEF FlowInv, Workers
<1>2. worker[o] \in Goroutine(worker[o].plan) /\ worker[o].plan \in Plan
  BY <1>1 DEF Carries
<1>3. /\ worker[o].plan.targets \in SUBSET Target
      /\ worker[o].queue \in Seq(Item(worker[o].plan)) /\ worker[o].type = "worker"
  BY <1>2 DEF Goroutine, Plan
<1>4. ~Ended(o) => o = operation /\ busy
  BY DEF FlowInv, Turns
<1>5. ~Ended(o) => worker[o].phase = "starting" \/ await[o] # None
  BY <1>4 DEF FlowInv, Workers
<1> QED
  BY <1>1, <1>2, <1>3, <1>4, <1>5

\* A queue takes one more item, if there is room.
LEMMA Takes ==
    ASSUME NEW S, NEW s \in Seq(S), NEW e \in S, NEW q, q = Append(s, e) \/ q = s
    PROVE  /\ q \in Seq(S)
           /\ \A i \in 1..Len(q) : q[i] = e \/ \E j \in 1..Len(s) : q[i] = s[j]
<1>1. CASE q = s
  BY <1>1
<1>2. CASE q = Append(s, e)
  BY <1>2
<1> QED
  BY <1>1, <1>2

\* A channel that gives its first item keeps the others.
LEMMA Gives ==
    ASSUME NEW S, NEW s \in Seq(S), s # <<>>
    PROVE  /\ Head(s) \in S /\ Tail(s) \in Seq(S)
           /\ \E j \in 1..Len(s) : Head(s) = s[j]
           /\ \A i \in 1..Len(Tail(s)) : \E j \in 1..Len(s) : Tail(s)[i] = s[j]
<1>1. Len(s) \in Nat /\ Len(s) >= 1 /\ Head(s) = s[1]
  OBVIOUS
<1>2. Head(s) \in S /\ \E j \in 1..Len(s) : Head(s) = s[j]
  BY <1>1
<1>3. Tail(s) \in Seq(S) /\ Len(Tail(s)) = Len(s) - 1
  OBVIOUS
<1>4. \A i \in 1..Len(Tail(s)) : i + 1 \in 1..Len(s) /\ Tail(s)[i] = s[i + 1]
  BY <1>1, <1>3
<1> QED
  BY <1>2, <1>3, <1>4

\* A step of the goroutine that executes a plan.
LEMMA WorkerStepKeeps ==
    ASSUME FlowInv, NEW o \in Operation, WorkerStep(o)
    PROVE  FlowInv'
<1>1. Runs(o) /\ LoopOnly
  BY DEF WorkerStep, Start, Report, Return, SendEnd, Runs
<1> DEFINE p == worker[o].plan
<1>2. /\ Carries(worker[o], await[o]) /\ worker[o] \in Goroutine(p)
      /\ p \in Plan /\ p.targets \in SUBSET Target /\ worker[o].queue \in Seq(Item(p))
      /\ worker[o].type = "worker"
      /\ ~Ended(o) => worker[o].phase = "starting" \/ await[o] # None
  BY <1>1, Parts
<1>3. CASE Start(o)
  <2>1. CASE Ended(o)
    BY <1>1, <1>3, <2>1, Goes DEF Start, Gone
  <2>2. CASE ~Ended(o)
    <3> DEFINE w == [worker[o] EXCEPT !.phase = "calling"]
               a == [type |-> "waiting"]
    <3>1. worker' = [worker EXCEPT ![o] = w] /\ await' = [await EXCEPT ![o] = a]
      BY <1>3, <2>2 DEF Start
    <3>2. /\ w \in Goroutine(p) /\ w.plan = p
          /\ w.generation = worker[o].generation /\ w.queue = worker[o].queue
          /\ w.shown = worker[o].shown /\ w.confirmed = worker[o].confirmed /\ w.type = "worker"
      BY <1>2 DEF Goroutine
    <3>3. a # None /\ w # None /\ a.type # "finished" /\ worker[o].phase # "done"
      BY <1>3, <3>2 DEF None, Start
    <3> HIDE DEF w
    <3>4. Carries(w, a)
      BY <1>2, <3>2, <3>3 DEF Carries
    <3> HIDE DEF a
    <3> QED
      BY <1>1, <3>1, <3>2, <3>3, <3>4, GoesOn
  <2> QED
    BY <2>1, <2>2
<1>4. ASSUME NEW t \in Target, Report(o, t)
      PROVE  FlowInv'
  <2> DEFINE item == [type |-> "target", target |-> t]
             q == IF HasRoom(o) THEN Append(worker[o].queue, item) ELSE worker[o].queue
             w == [worker[o] EXCEPT !.left = @ \ {t}, !.queue = q]
  <2>1. worker[o].phase = "calling"
    BY <1>4 DEF Report
  <2>2. worker' = [worker EXCEPT ![o] = w] /\ await' = await
    BY <1>4 DEF Report
  <2>3. item \in Item(p) /\ item.type # "finished"
    BY DEF Item
  <2> HIDE DEF item
  <2>4. \A i \in 1..Len(worker[o].queue) : worker[o].queue[i].type # "finished"
    BY <1>2, <2>1 DEF Carries
  <2>5. q \in Seq(Item(p)) /\ \A i \in 1..Len(q) : q[i].type # "finished"
    <3>1. q = Append(worker[o].queue, item) \/ q = worker[o].queue
      OBVIOUS
    <3> HIDE DEF q
    <3>2. /\ q \in Seq(Item(p))
          /\ \A i \in 1..Len(q) : q[i] = item \/ \E j \in 1..Len(worker[o].queue) : q[i] = worker[o].queue[j]
      BY <1>2, <2>3, <3>1, Takes
    <3> QED
      BY <2>3, <2>4, <3>2
  <2> HIDE DEF q
  <2>6. /\ w \in Goroutine(p) /\ w.plan = p /\ w.type = "worker" /\ w.phase = "calling"
        /\ w.generation = worker[o].generation /\ w.queue = q
        /\ w.shown = worker[o].shown /\ w.confirmed = worker[o].confirmed
    BY <1>2, <2>1, <2>5 DEF Goroutine
  <2> HIDE DEF w
  <2>7. Carries(w, await[o])
    BY <1>2, <2>1, <2>5, <2>6 DEF Carries
  <2>8. w # None
    BY <2>6 DEF None
  <2> QED
    BY <1>1, <1>2, <2>1, <2>2, <2>6, <2>7, <2>8, GoesOn
<1>5. CASE Return(o)
  <2>1. PICK admitted \in BOOLEAN : worker' = [worker EXCEPT ![o].phase = "finishing",
            ![o].left = {}, ![o].outcome = IF admitted THEN p.targets ELSE {}]
    BY <1>5 DEF Return
  <2> DEFINE w == [worker[o] EXCEPT !.phase = "finishing", !.left = {},
                                    !.outcome = IF admitted THEN p.targets ELSE {}]
  <2>2. worker' = [worker EXCEPT ![o] = w] /\ await' = await /\ worker[o].phase = "calling"
    BY <1>5, <2>1 DEF Return
  <2>3. /\ w \in Goroutine(p) /\ w.plan = p /\ w.type = "worker" /\ w.phase = "finishing"
        /\ w.generation = worker[o].generation /\ w.queue = worker[o].queue
        /\ w.shown = worker[o].shown /\ w.confirmed = worker[o].confirmed
    BY <1>2 DEF Goroutine
  <2> HIDE DEF w
  <2>4. Carries(w, await[o])
    BY <1>2, <2>2, <2>3 DEF Carries
  <2>5. w # None
    BY <2>3 DEF None
  <2> QED
    BY <1>1, <1>2, <2>2, <2>3, <2>4, <2>5, GoesOn
<1>6. CASE SendEnd(o)
  <2>1. worker[o].phase = "finishing" /\ (HasRoom(o) \/ Ended(o)) /\ await' = await
    BY <1>6 DEF SendEnd
  <2>2. CASE await[o] = None
    <3>1. Ended(o)
      BY <1>2, <2>1, <2>2
    <3> QED
      BY <1>1, <1>6, <2>1, <2>2, <3>1, Goes DEF SendEnd, Gone
  <2>3. CASE await[o] # None
    <3> DEFINE item == [type |-> "finished", targets |-> worker[o].outcome]
               q == IF HasRoom(o) THEN Append(worker[o].queue, item) ELSE worker[o].queue
               w == [worker[o] EXCEPT !.phase = "done", !.outcome = {}, !.queue = q]
    <3>1. worker' = [worker EXCEPT ![o] = w]
      BY <1>6, <2>3 DEF SendEnd
    <3>2. worker[o].outcome \in {{}, p.targets}
      BY <1>2 DEF Goroutine
    <3>3. item \in Item(p)
      BY <3>2 DEF Item
    <3> HIDE DEF item
    <3>4. q \in Seq(Item(p))
      <4>1. q = Append(worker[o].queue, item) \/ q = worker[o].queue
        OBVIOUS
      <4> HIDE DEF q
      <4> QED
        BY <1>2, <3>3, <4>1, Takes
    <3> HIDE DEF q
    <3>5. /\ w \in Goroutine(p) /\ w.plan = p /\ w.type = "worker" /\ w.phase = "done"
          /\ w.generation = worker[o].generation /\ w.queue = q
          /\ w.shown = worker[o].shown /\ w.confirmed = worker[o].confirmed
      BY <1>2, <3>4 DEF Goroutine
    <3> HIDE DEF w
    <3>6. Carries(w, await[o])
      BY <1>2, <3>5 DEF Carries
    <3>7. w # None
      BY <3>5 DEF None
    <3> QED
      BY <1>1, <2>1, <2>3, <3>1, <3>5, <3>6, <3>7, GoesOn
  <2> QED
    BY <2>2, <2>3
<1> QED
  BY <1>3, <1>4, <1>5, <1>6 DEF WorkerStep

\* What the goroutine sent is received, or recognised as stale.
LEMMA AwaitStepKeeps ==
    ASSUME FlowInv, NEW o \in Operation, Receive(o) \/ StaleItem(o) \/ Progress(o)
    PROVE  FlowInv'
<1>1. Runs(o) /\ await[o] # None
  BY DEF Receive, StaleItem, Progress, Runs, None, FlowInv, Workers
<1> DEFINE p == worker[o].plan
<1>2. /\ Carries(worker[o], await[o]) /\ worker[o] \in Goroutine(p)
      /\ p \in Plan /\ p.targets \in SUBSET Target /\ worker[o].queue \in Seq(Item(p))
      /\ worker[o].type = "worker"
      /\ ~Ended(o) => o = operation /\ busy
  BY <1>1, Parts
<1>3. worker[o] # None /\ None.type # "finished"
  BY <1>1 DEF Runs, None
<1>4. Carries(worker[o], None)
  BY <1>2, <1>3 DEF Carries
<1>5. ASSUME Abandon(o), LoopOnly, Ended(o)
      PROVE  FlowInv'
  <2>1. CASE worker[o].phase = "done"
    BY <1>1, <1>5, <2>1, Goes DEF Abandon, Gone
  <2>2. CASE worker[o].phase # "done"
    BY <1>1, <1>3, <1>4, <1>5, <2>2, GoesOn DEF Abandon
  <2> QED
    BY <2>1, <2>2
<1>6. CASE Receive(o)
  <2>1. CASE Ended(o) /\ Abandon(o)
    BY <1>5, <1>6, <2>1 DEF Receive
  <2>2. CASE ~(Ended(o) /\ Abandon(o))
    <3> DEFINE a == Head(worker[o].queue)
               w == [worker[o] EXCEPT !.queue = Tail(@)]
    <3>1. /\ worker[o].queue # <<>> /\ await' = [await EXCEPT ![o] = a]
          /\ worker' = [worker EXCEPT ![o] = w] /\ LoopOnly
      BY <1>6, <2>2 DEF Receive
    <3>2. /\ a \in Item(p) /\ Tail(worker[o].queue) \in Seq(Item(p))
          /\ \E j \in 1..Len(worker[o].queue) : a = worker[o].queue[j]
          /\ \A i \in 1..Len(Tail(worker[o].queue)) : \E j \in 1..Len(worker[o].queue) :
                 Tail(worker[o].queue)[i] = worker[o].queue[j]
      BY <1>2, <3>1, Gives
    <3>3. /\ w \in Goroutine(p) /\ w.plan = p /\ w.type = "worker"
          /\ w.generation = worker[o].generation /\ w.queue = Tail(worker[o].queue)
          /\ w.shown = worker[o].shown /\ w.confirmed = worker[o].confirmed
          /\ w.phase = worker[o].phase
      BY <1>2, <3>2 DEF Goroutine
    <3> HIDE DEF w, a
    <3>4. Carries(w, a)
      BY <1>2, <3>2, <3>3 DEF Carries
    <3>5. w # None /\ a # None
      BY <3>2, <3>3 DEF None, Item
    <3> QED
      BY <1>1, <3>1, <3>3, <3>4, <3>5, GoesOn
  <2> QED
    BY <2>1, <2>2
<1>7. CASE StaleItem(o)
  <2>1. Ended(o)
    BY <1>2, <1>7 DEF StaleItem, Fresh, Ended
  <2> QED
    BY <1>5, <1>7, <2>1 DEF StaleItem
<1>8. CASE Progress(o)
  <2> DEFINE a == [type |-> "waiting"]
  <2>1. a # None /\ a.type # "finished"
    BY DEF None
  <2>2. await' = [await EXCEPT ![o] = a]
    BY <1>8 DEF Progress
  <2> HIDE DEF a
  <2>3. Carries(worker[o], a)
    BY <1>2, <2>1 DEF Carries, a
  <2>4. /\ DOMAIN worker' = Operation /\ DOMAIN await' = Operation
        /\ \A n \in Operation \ {o} : worker'[n] = worker[n] /\ await'[n] = await[n]
        /\ worker'[o] = worker[o] /\ await'[o] = a
    BY <1>8, <2>2 DEF Progress, FlowInv, FlowTyped
  <2>5. /\ o = operation /\ ~Ended(o)
        /\ \A r \in results' \ results : r.operation = operation /\ r.generation = generation
    BY <1>8 DEF Progress, Fresh, Ended
  <2>6. UNCHANGED <<view, generation, open, seq, operation, busy, pending, prompt, entry,
                    slot, commands, total>>
    BY <1>8 DEF Progress
  <2> QED
    BY <1>1, <1>3, <2>1, <2>3, <2>4, <2>5, <2>6, WorkerKeeps
<1> QED
  BY <1>6, <1>7, <1>8

\* One result per target.
LEMMA ResultsCount ==
    ASSUME NEW T, IsFiniteSet(T), NEW o, NEW g
    PROVE  Cardinality({[operation |-> o, generation |-> g, target |-> t] : t \in T}) = Cardinality(T)
<1> DEFINE r(t) == [operation |-> o, generation |-> g, target |-> t]
           R == {r(t) : t \in T}
           f == [t \in T |-> r(t)]
<1>1. f \in Bijection(T, R)
  <2>1. \A t \in T, u \in T : r(t) = r(u) => t = u
    <3> SUFFICES ASSUME NEW t \in T, NEW u \in T, r(t) = r(u)
                 PROVE  t = u
      OBVIOUS
    <3>1. r(t).target = t /\ r(u).target = u
      OBVIOUS
    <3> QED
      BY <3>1
  <2> HIDE DEF r
  <2> QED
    BY <2>1 DEF Bijection, Injection, Surjection, IsInjective
<1> QED
  BY <1>1, FS_Bijection DEF ExistsBijection

\* The result of the call brings the flow to rest.
LEMMA FinishKeeps ==
    ASSUME FlowInv, NEW o \in Operation, Finish(o)
    PROVE  FlowInv'
<1> USE DEF FlowInv
<1>1. Runs(o) /\ await[o] # None /\ await[o].type = "finished"
  BY DEF Finish, Runs, None, Workers
<1>2. Carries(worker[o], await[o]) /\ worker[o].plan.targets \in SUBSET Target
  BY <1>1, Parts
<1>3. /\ o = operation /\ worker[o].generation = generation
      /\ total = Cardinality(worker[o].plan.targets) /\ busy /\ prompt = None /\ entry = None
  BY <1>1 DEF Finish, Fresh, Workers, Turns
<1>4. worker[o].phase = "done"
  BY <1>1, <1>2 DEF Carries
<1>5. /\ worker' = [worker EXCEPT ![o] = None] /\ await' = [await EXCEPT ![o] = None]
      /\ busy' = FALSE /\ prompt' = None
      /\ UNCHANGED <<view, generation, open, seq, operation, entry, slot, commands, total>>
  BY <1>4 DEF Finish, Abandon, Gone
<1>6. Pending = {} /\ ~pending
  BY <1>1, <1>3 DEF Turns, Idle
<1>7. FlowTyped' /\ FlagsTyped'
  BY <1>5, <1>6 DEF FlowTyped, FlagsTyped, Finish
<1>8. \A n \in Operation : /\ Runs(n)' <=> Runs(n) /\ n # o
                           /\ Runs(n)' => worker'[n] = worker[n] /\ await'[n] = await[n]
                           /\ n = o => await'[n] = None
                           /\ n # o => await'[n] = await[n]
  BY <1>5 DEF FlowTyped, Runs
<1>9. Numbered'
  BY <1>5, <1>8 DEF Numbered
<1>10. Turns'
  <2>1. Pending' = {} /\ ~pending'
    BY <1>5, <1>6 DEF Pending, Finish
  <2>2. \A n \in Operation : Runs(n)' => Ended(n)' /\ n # operation'
    BY <1>3, <1>5, <1>8 DEF Turns, Ended
  <2> QED
    BY <1>3, <1>5, <2>1, <2>2 DEF Turns, None
<1>11. ShownIsPlan'
  BY <1>5 DEF ShownIsPlan
<1>12. Workers'
  BY <1>3, <1>5, <1>8 DEF Workers
<1>13. Batched'
  <2> DEFINE T == await[o].targets
  <2>1. T = {} \/ T = worker[o].plan.targets
    BY <1>1, <1>2 DEF Carries, Item, None
  <2>2. results' = {[operation |-> o, generation |-> worker[o].generation, target |-> t] : t \in T}
    BY DEF Finish
  <2>3. results' # {} => T = worker[o].plan.targets
    BY <2>1, <2>2
  <2>4. IsFiniteSet(worker[o].plan.targets)
    BY <1>2, FS_Subset, MutationFlowAssumption
  <2>5. results' # {} => Cardinality(results') = total
    BY <1>3, <2>2, <2>3, <2>4, ResultsCount
  <2>6. \A r \in results' : r.operation = operation /\ r.generation = generation
    BY <1>3, <2>2
  <2> QED
    BY <1>5, <2>5, <2>6 DEF Batched
<1> QED
  BY <1>7, <1>9, <1>10, <1>11, <1>12, <1>13

-----------------------------------------------------------------------------
(* The mutation flow: its theorems *)

\* Every step keeps the invariant.
LEMMA FlowStep ==
    ASSUME FlowInv, [Next]_vars
    PROVE  FlowInv'
<1>1. CASE Keys
  <2>1. ASSUME NEW v \in Views, Navigate(v)
        PROVE  FlowInv'
    BY <2>1, AsideKeeps DEF Navigate, FlowInv, FlagsTyped
  <2> QED
    BY <1>1, <2>1, PromptKeyKeeps, AskKeeps, BeginUpgradeKeeps, UpgradeDroppedKeeps,
       AskAgainKeeps, ConfirmKeeps DEF Keys
<1>2. CASE SwitchSession
  BY <1>2, SwitchKeeps
<1>3. CASE SessionOpened
  BY <1>3, AsideKeeps DEF SessionOpened
<1>4. CASE CommandResult
  BY <1>4, CommandResultKeeps
<1>5. CASE Execution
  BY <1>5, WorkerStepKeeps, AwaitStepKeeps, FinishKeeps DEF Execution, AwaitStep, Operation
<1>6. CASE UNCHANGED vars
  BY <1>6, AsideKeeps DEF vars, FlowInv, FlagsTyped
<1> QED
  BY <1>1, <1>2, <1>3, <1>4, <1>5, <1>6 DEF Next

\* The invariant of the mutation flow holds in every reachable state: every operation
\* number is held by one command, prompt or goroutine at a time.
THEOREM FlowInductive == Spec => []FlowInv
<1>1. Init => FlowInv
  <2> SUFFICES ASSUME Init
               PROVE  FlowInv
    OBVIOUS
  <2> USE DEF Init
  <2>1. FlowTyped /\ FlagsTyped
    <3>1. generation \in Nat /\ seq \in 0..MaxOp /\ operation \in 0..seq
      BY MutationFlowAssumption
    <3>2. prompt \in {None} \cup PromptType /\ entry \in EntryType /\ commands \subseteq CommandType
      BY DEF EntryType
    <3>3. DOMAIN worker = Operation /\ DOMAIN await = Operation
      BY DEF Operation
    <3> QED
      BY <3>1, <3>2, <3>3 DEF FlowTyped, FlagsTyped
  <2>2. \A o \in Operation : ~Runs(o) /\ await[o] = None
    BY DEF Runs, Operation
  <2>3. Numbered /\ Turns /\ ShownIsPlan /\ Workers /\ Batched
    BY <2>2 DEF Numbered, Turns, Pending, ShownIsPlan, Workers, Batched, None
  <2> QED
    BY <2>1, <2>3 DEF FlowInv
<1>2. FlowInv /\ [Next]_vars => FlowInv'
  BY FlowStep
<1> QED
  BY <1>1, <1>2, PTL DEF Spec

\* What is executed is what was on screen when it was confirmed, in whatever order options
\* are turned, plans prepared again and prompts replaced; and while a goroutine of this
\* session has not returned, no prompt is open: for any number of operations and sessions.
THEOREM ExecutesWhatWasShown == Spec => []ExecutedAsShown
<1>1. FlowInv => ExecutedAsShown
  <2> SUFFICES ASSUME FlowInv, NEW o \in Operation, Runs(o)
               PROVE  /\ worker[o].plan.option = worker[o].shown /\ worker[o].confirmed
                      /\ ~Ended(o) => busy /\ operation = o /\ prompt = None /\ entry = None
    BY DEF ExecutedAsShown, Operation, Runs
  <2>1. Carries(worker[o], await[o])
    BY Parts
  <2> QED
    BY <2>1 DEF Carries, FlowInv, Turns
<1> QED
  BY <1>1, FlowInductive, PTL

\* The results on screen are those of the operation the flow is at, in the session that is
\* open, and once it is not busy they are all of its targets.
THEOREM ShowsItsBatch == Spec => []ResultsAreTheBatch
<1>1. FlowInv => ResultsAreTheBatch
  BY DEF FlowInv, Batched, ResultsAreTheBatch
<1> QED
  BY <1>1, FlowInductive, PTL
=============================================================================
