--------------------- MODULE ConfigurationApply_proofs ----------------------
(***************************************************************************)
(* The configuration dialog, for any nodes, any selection and any number   *)
(* of previews, sessions and failures: it reports what happened, it keeps  *)
(* a payload only where somebody owns it, and what it applies is what was  *)
(* previewed, on the machine that was previewed.                           *)
(***************************************************************************)
EXTENDS ConfigurationApply, WellFoundedInduction, TLAPS

-----------------------------------------------------------------------------
(* The invariant *)

Stages == {"none", "reading", "previewing", "failed", "loaded", "held", "starting",
           "rereading", "rechecking", "sending", "inflight", "done"}

Outcomes == {"none", "accepted", "unconfirmed", "notAttempted"}

JobType == [pc : Stages, session : Nat, targets : SUBSET Targets, next : 0..LastTarget,
            machines : [Targets -> Nat], settings : [Targets -> Nat],
            blocked : BOOLEAN, payload : BOOLEAN, consumed : BOOLEAN, canceled : BOOLEAN,
            outcome : [Targets -> Outcomes], taken : 0..LastTarget, awaited : BOOLEAN,
            swapped : SUBSET Targets, edited : SUBSET Targets, carried : SUBSET Targets]

FormType == [phase : {"editing", "preparing", "reviewing", "confirming", "applying", "complete"},
             operation : Nat, plan : BOOLEAN, results : [Targets -> Outcomes]]

ApplyTyped ==
    /\ machine \in [Targets -> {0, 1}] /\ setting \in [Targets -> Nat]
    /\ session \in Nat \ {0} /\ sequence \in 0..MaxPreviews
    /\ form \in FormType
    /\ job \in [Previews -> JobType]

\* A job by itself.  What it holds fits the stage it is at.
Fits(j) ==
    /\ j.pc \notin {"none", "failed", "done"} => j.targets # {}
    /\ j.pc \in {"previewing", "rechecking", "sending", "inflight"} => j.next \in j.targets
    /\ j.pc \in {"none", "reading", "previewing", "failed"} => ~j.payload
    /\ j.pc \in Executing => j.payload /\ j.consumed
    /\ j.consumed => j.pc \in Executing \cup {"done"}
    /\ j.awaited => j.pc \in Executing \cup {"starting", "done"}

\* What it reports is what happened: up to the target it is at, while it sends.
Reports(j) ==
    /\ j.pc \notin {"sending", "inflight", "done"} => j.outcome = NoOutcome /\ j.carried = {}
    /\ j.pc \in {"sending", "inflight"} =>
           \A t \in j.targets : /\ t < j.next => j.outcome[t] = "accepted"
                                /\ t >= j.next => j.outcome[t] = "none"
                                /\ t \in j.carried <=> t < j.next
    /\ j.carried \subseteq j.targets
    /\ \A t \in j.carried : j.outcome[t] \in {"accepted", "unconfirmed"}
    /\ \A t \in j.targets : j.outcome[t] = "accepted" => t \in j.carried
    /\ \A t, u \in j.targets :
           t < u /\ j.outcome[u] \in {"accepted", "unconfirmed"} => j.outcome[t] = "accepted"

\* The targets it has looked at again, and not yet sent anything to.
Looked(j) == {t \in j.targets : IF j.pc = "rechecking" THEN t < j.next ELSE t >= j.next}

\* In a world of machines m and settings s, its targets are as it saw them, but for the
\* changes others made since.
Rests(j, m, s) == Watching(j) =>
    /\ \A t \in j.targets : m[t] = j.machines[t] \/ t \in j.swapped
    /\ \A t \in Looked(j) : s[t] = j.settings[t] \/ t \in j.edited

JobFine(j) == Fits(j) /\ Reports(j) /\ Rests(j, machine, setting) /\ j.session <= session

Jobs == \A o \in Previews : JobFine(job[o]) /\ (o > sequence => job[o].pc = "none")

\* One call of the cluster at a time.
Alone == \A o, p \in Previews : job[o].pc \in Executing /\ job[p].pc \in Executing => o = p

\* A payload of the session that is open is with the execution, on its way to the
\* dialog, or in the dialog.
Owned == \A o \in Previews : job[o].payload /\ job[o].session = session =>
    \/ job[o].pc \in Executing \cup {"loaded"}
    \/ form.plan /\ form.operation = o /\ ~job[o].consumed

\* Job j of the dialog fits the phase it is at.
Suits(f, j) ==
    /\ f.phase = "editing" => j.pc = "none"
    /\ f.phase # "editing" /\ j.pc # "none" => j.session = session
    /\ f.phase = "preparing" => j.pc \in {"none", "reading", "previewing", "failed", "loaded"}
    /\ f.phase \in {"reviewing", "confirming"} => j.pc = "held"
    /\ f.phase = "applying" => j.pc \in Executing \cup {"none", "starting", "done"}
    /\ f.phase = "complete" => j.pc = "done" /\ ~j.awaited /\ f.results = j.outcome

Phased ==
    /\ form.plan <=> form.phase \in {"reviewing", "confirming", "applying", "complete"}
    /\ form.phase # "editing" => form.operation = sequence /\ form.operation \in Previews
    /\ form.operation \in Previews => Suits(form, job[form.operation])

ApplyInv == ApplyTyped /\ Jobs /\ Alone /\ Owned /\ Phased

-----------------------------------------------------------------------------
(* Targets in their order, and the ends of a job *)

Smaller == {ss \in Nat \X Nat : ss[1] < ss[2]}

\* The first of some targets is the least of them.
LEMMA FirstIsLeast ==
    ASSUME NEW S, S \subseteq Nat, S # {}
    PROVE  First(S) \in S /\ \A u \in S : First(S) <= u
<1>1. IsWellFoundedOn(Smaller, Nat)
  BY NatLessThanWellFounded DEF OpToRel, Smaller
<1>2. PICK x \in S : \A y \in S : <<y, x>> \notin Smaller
  BY <1>1, WFMin
<1>3. \A y \in S : x <= y
  <2> SUFFICES ASSUME NEW y \in S, y < x
               PROVE  FALSE
    OBVIOUS
  <2>1. <<y, x>> \in Smaller
    BY DEF Smaller
  <2> QED
    BY <1>2, <2>1
<1> QED
  BY <1>2, <1>3 DEF First

\* A job that is no more.
LEMMA NoJobIsFine ==
    /\ NoJob \in JobType /\ NoJob.pc = "none" /\ ~NoJob.payload /\ ~NoJob.awaited
    /\ Fits(NoJob) /\ Reports(NoJob) /\ \A m, s : Rests(NoJob, m, s)
    /\ NoJob.session = 0
<1>1. 0 \in 0..LastTarget /\ NoOutcome \in [Targets -> Outcomes]
  BY ConfigurationAssumption DEF NoOutcome, Outcomes
<1>2. NoJob \in JobType
  BY <1>1 DEF NoJob, JobType, Stages
<1>3. /\ NoJob.pc = "none" /\ NoJob.payload = FALSE /\ NoJob.awaited = FALSE
      /\ NoJob.consumed = FALSE /\ NoJob.carried = {} /\ NoJob.targets = {}
      /\ NoJob.outcome = NoOutcome /\ NoJob.session = 0
  BY DEF NoJob
<1> QED
  BY <1>2, <1>3 DEF Fits, Reports, Rests, Watching, Executing

\* A job that returns keeps what it reports.
LEMMA ConcludeIsFine ==
    ASSUME NEW j \in JobType, j.carried \subseteq j.targets,
           \A t \in j.carried : j.outcome[t] \in {"accepted", "unconfirmed"},
           \A t \in j.targets : j.outcome[t] = "accepted" => t \in j.carried,
           \A t, u \in j.targets :
               t < u /\ j.outcome[u] \in {"accepted", "unconfirmed"} => j.outcome[t] = "accepted"
    PROVE  /\ Conclude(j) \in JobType /\ Conclude(j).pc = "done"
           /\ Conclude(j).session = j.session /\ Conclude(j).consumed = j.consumed
           /\ Conclude(j).payload <=> j.payload /\ ~j.consumed
           /\ Fits(Conclude(j)) /\ Reports(Conclude(j)) /\ \A m, s : Rests(Conclude(j), m, s)
<1> DEFINE k == Conclude(j)
<1>1. /\ k \in JobType /\ k.pc = "done" /\ k.session = j.session /\ k.consumed = j.consumed
      /\ k.payload = (j.payload /\ ~j.consumed) /\ k.targets = j.targets
      /\ k.outcome = j.outcome /\ k.carried = j.carried
  <2>1. PICK payload \in BOOLEAN : payload = (j.payload /\ ~j.consumed)
    OBVIOUS
  <2>2. k = [NoJob EXCEPT !.pc = "done", !.session = j.session, !.targets = j.targets,
                          !.payload = payload, !.consumed = j.consumed, !.outcome = j.outcome,
                          !.carried = j.carried, !.taken = j.taken, !.awaited = j.awaited]
    BY <2>1 DEF Conclude
  <2> HIDE DEF k
  <2>3. k \in JobType
    BY ZenonT(40), <2>2, NoJobIsFine DEF JobType, Stages
  <2>4. /\ k.pc = "done" /\ k.session = j.session /\ k.consumed = j.consumed
        /\ k.payload = payload /\ k.targets = j.targets
        /\ k.outcome = j.outcome /\ k.carried = j.carried
    BY <2>2, NoJobIsFine DEF JobType
  <2> QED
    BY <2>1, <2>3, <2>4
<1> HIDE DEF k
<1>2. Fits(k) /\ Reports(k) /\ \A m, s : Rests(k, m, s)
  BY <1>1 DEF Fits, Reports, Rests, Watching, Executing
<1> QED
  BY <1>1, <1>2 DEF k

-----------------------------------------------------------------------------
(* A step of one job *)

\* A step of one job leaves the others alone.
LEMMA JobAt ==
    ASSUME ApplyTyped, NEW o \in Previews, NEW k, Become(o, k)
    PROVE  job'[o] = k /\ \A p \in Previews \ {o} : job'[p] = job[p]
BY DEF ApplyTyped, Become

\* Job o becomes k, and may change the settings while it holds the lease.
LEMMA JobsStep ==
    ASSUME ApplyTyped, Jobs, Alone, NEW o \in Previews, NEW k \in JobType, Become(o, k),
           UNCHANGED <<machine, session, sequence>>, setting' \in [Targets -> Nat],
           form' \in FormType,
           Fits(k), Reports(k), Rests(k, machine, setting'), k.session <= session,
           k.pc # "none" => job[o].pc # "none",
           k.pc \in Executing => job[o].pc \in Executing \/ ~LeaseTaken,
           setting' = setting \/ job[o].pc \in Executing
    PROVE  ApplyTyped' /\ Jobs' /\ Alone'
<1>1. job'[o] = k /\ \A p \in Previews \ {o} : job'[p] = job[p]
  BY JobAt
<1>2. ApplyTyped'
  BY DEF ApplyTyped, Become
<1>3. Jobs'
  <2> SUFFICES ASSUME NEW p \in Previews
               PROVE  (JobFine(job[p]) /\ (p > sequence => job[p].pc = "none"))'
    BY DEF Jobs
  <2>1. CASE p = o
    BY <1>1, <2>1 DEF Jobs, JobFine
  <2>2. CASE p # o
    <3>1. Fits(job[p]) /\ Reports(job[p]) /\ job[p].session <= session
          /\ Rests(job[p], machine, setting) /\ (p > sequence => job[p].pc = "none")
      BY DEF Jobs, JobFine
    <3>2. Rests(job[p], machine, setting')
      <4>1. CASE setting' = setting
        BY <3>1, <4>1
      <4>2. CASE job[o].pc \in Executing
        BY <2>2, <4>2 DEF Alone, Rests, Watching, Executing
      <4> QED
        BY <4>1, <4>2
    <3> QED
      BY <1>1, <2>2, <3>1, <3>2 DEF JobFine
  <2> QED
    BY <2>1, <2>2
<1>4. Alone'
  BY <1>1 DEF Alone, LeaseTaken
<1> QED
  BY <1>2, <1>3, <1>4

\* The same, while the dialog stays as it is.
LEMMA JobKeeps ==
    ASSUME ApplyInv, NEW o \in Previews, NEW k \in JobType, Become(o, k),
           UNCHANGED <<machine, session, form, sequence>>, setting' \in [Targets -> Nat],
           Fits(k), Reports(k), Rests(k, machine, setting'), k.session = job[o].session,
           job[o].pc # "none",
           k.pc \in Executing => job[o].pc \in Executing \/ ~LeaseTaken,
           setting' = setting \/ job[o].pc \in Executing,
           k.payload /\ k.session = session => 
               \/ k.pc \in Executing \cup {"loaded"}
               \/ form.plan /\ form.operation = o /\ ~k.consumed,
           form.operation = o => Suits(form, k)
    PROVE  ApplyInv'
<1> USE DEF ApplyInv
<1>1. job'[o] = k /\ \A p \in Previews \ {o} : job'[p] = job[p]
  BY JobAt
<1>2. ApplyTyped' /\ Jobs' /\ Alone'
  <2>1. k.session <= session
    BY DEF Jobs, JobFine
  <2>2. form' \in FormType
    BY DEF ApplyTyped
  <2> QED
    BY <2>1, <2>2, JobsStep
<1>3. Owned'
  BY <1>1 DEF Owned
<1>4. Phased'
  BY <1>1 DEF Phased, Suits
<1> QED
  BY <1>2, <1>3, <1>4

\* A preview that goes on, and an execution that goes on or returns, suit the dialog.
LEMMA OnwardSuits ==
    ASSUME ApplyInv, NEW o \in Previews, form.operation = o, NEW k, k.session = job[o].session,
           \/ job[o].pc \in Previewing /\ k.pc \in {"reading", "previewing", "failed", "loaded"}
           \/ /\ job[o].pc \in Executing \cup {"starting"}
              /\ k.pc \in Executing \cup {"done"}
    PROVE  Suits(form, k)
BY DEF ApplyInv, Phased, Suits, Previewing, Executing, ApplyTyped, FormType

\* Targets are taken in their order: those before the next one are those up to this one.
LEMMA TargetsInOrder ==
    ASSUME NEW j \in JobType
    PROVE  /\ j.targets # {} => First(j.targets) \in j.targets /\ First(j.targets) \in 0..LastTarget
                                /\ \A t \in j.targets : t >= First(j.targets)
           /\ After(j) # {} =>
                  /\ First(After(j)) \in j.targets /\ First(After(j)) \in 0..LastTarget
                  /\ \A t \in j.targets : t < First(After(j)) <=> t <= j.next
           /\ After(j) = {} => \A t \in j.targets : t <= j.next
<1>1. j.targets \subseteq Nat /\ j.next \in Nat /\ After(j) \subseteq j.targets
      /\ \A t \in j.targets : t \in 0..LastTarget
  BY ConfigurationAssumption DEF JobType, Targets, After
<1>2. j.targets # {} => First(j.targets) \in j.targets /\ \A t \in j.targets : First(j.targets) <= t
  BY <1>1, FirstIsLeast
<1>3. ASSUME After(j) # {}
      PROVE  /\ First(After(j)) \in j.targets
             /\ \A t \in j.targets : t < First(After(j)) <=> t <= j.next
  <2>1. First(After(j)) \in After(j) /\ \A t \in After(j) : First(After(j)) <= t
    BY <1>1, <1>3, FirstIsLeast
  <2>2. \A t \in j.targets : t \in After(j) <=> t > j.next
    BY DEF After
  <2> QED
    BY <1>1, <2>1, <2>2
<1>4. After(j) = {} => \A t \in j.targets : t <= j.next
  BY <1>1 DEF After
<1> QED
  BY <1>1, <1>2, <1>3, <1>4

\* Onward changes the target a job is at or, after the last one, its stage.
LEMMA OnwardIs ==
    ASSUME NEW j \in JobType, NEW pc \in Stages, NEW next \in 0..LastTarget
    PROVE  LET n == Onward(j, pc, next)
           IN  /\ n \in JobType /\ n.session = j.session /\ n.targets = j.targets
               /\ n.machines = j.machines /\ n.settings = j.settings /\ n.blocked = j.blocked
               /\ n.payload = j.payload /\ n.consumed = j.consumed /\ n.outcome = j.outcome
               /\ n.taken = j.taken /\ n.awaited = j.awaited /\ n.swapped = j.swapped
               /\ n.edited = j.edited /\ n.carried = j.carried
               /\ \/ After(j) # {} /\ n.pc = j.pc /\ n.next = First(After(j))
                  \/ After(j) = {} /\ n.pc = pc /\ n.next = next
<1>1. CASE After(j) # {}
  <2>1. First(After(j)) \in 0..LastTarget
    BY <1>1, TargetsInOrder
  <2> QED
    BY <1>1, <2>1 DEF Onward, JobType
<1>2. CASE After(j) = {}
  BY <1>2 DEF Onward, JobType
<1> QED
  BY <1>1, <1>2

\* What is known of a job that is at work.
LEMMA AtWork ==
    ASSUME ApplyInv, NEW o \in Previews
    PROVE  /\ job[o] \in JobType /\ Fits(job[o]) /\ Reports(job[o])
           /\ Rests(job[o], machine, setting)
           /\ machine \in [Targets -> {0, 1}] /\ setting \in [Targets -> Nat]
BY DEF ApplyInv, ApplyTyped, Jobs, JobFine

\* A job that returns may be told of, whatever it has reported.
LEMMA ReturnKeeps ==
    ASSUME ApplyInv, NEW o \in Previews, NEW j \in JobType, Become(o, Conclude(j)),
           UNCHANGED <<machine, session, form, sequence>>, setting' \in [Targets -> Nat],
           setting' = setting \/ job[o].pc \in Executing,
           job[o].pc \in Executing \cup {"starting"},
           j.session = job[o].session, j.consumed = job[o].consumed, j.payload = job[o].payload,
           j.carried \subseteq j.targets,
           \A t \in j.carried : j.outcome[t] \in {"accepted", "unconfirmed"},
           \A t \in j.targets : j.outcome[t] = "accepted" => t \in j.carried,
           \A t, u \in j.targets :
               t < u /\ j.outcome[u] \in {"accepted", "unconfirmed"} => j.outcome[t] = "accepted"
    PROVE  ApplyInv'
<1> DEFINE k == Conclude(j)
<1>1. /\ k \in JobType /\ k.pc = "done" /\ k.session = j.session /\ k.consumed = j.consumed
      /\ k.payload <=> j.payload /\ ~j.consumed
      /\ Fits(k) /\ Reports(k) /\ \A m, s : Rests(k, m, s)
  BY ConcludeIsFine
<1> HIDE DEF k
<1>2. k.payload /\ k.session = session => form.plan /\ form.operation = o /\ ~k.consumed
  <2>1. job[o].pc \in Executing => job[o].consumed
    BY AtWork DEF Fits
  <2>2. job[o].pc # "loaded"
    BY DEF Executing
  <2> QED
    BY <1>1, <2>1, <2>2 DEF ApplyInv, Owned
<1>3. form.operation = o => Suits(form, k)
  BY <1>1, OnwardSuits
<1>4. k.pc \notin Executing /\ job[o].pc # "none"
  BY <1>1 DEF Executing
<1> QED
  BY <1>1, <1>2, <1>3, <1>4, JobKeeps DEF k

-----------------------------------------------------------------------------
(* The preview and the execution *)

\* A step of the preview: it reads, it looks at one target after the other, or it fails.
LEMMA PreviewKeeps ==
    ASSUME ApplyInv, NEW o \in Previews, PreviewStep(o)
    PROVE  ApplyInv'
<1>1. /\ job[o] \in JobType /\ Fits(job[o]) /\ Reports(job[o])
      /\ machine \in [Targets -> {0, 1}] /\ setting \in [Targets -> Nat]
  BY AtWork
<1>2. job[o].pc \in Previewing /\ JobOnly
  BY DEF PreviewStep, ReadTargets, PreviewFails, PreviewTarget, Previewing
<1>3. /\ job[o].outcome = NoOutcome /\ job[o].carried = {} /\ job[o].targets # {}
      /\ ~job[o].payload /\ ~job[o].consumed /\ ~job[o].awaited
  BY <1>1, <1>2 DEF Fits, Reports, Previewing, Executing
<1>4. ASSUME NEW k \in JobType, Become(o, k), k.session = job[o].session,
             k.pc \in {"previewing", "failed", "loaded"},
             k.pc = "previewing" => k.next \in k.targets, k.pc = "loaded" => k.targets # {},
             k.outcome = NoOutcome, k.carried = {},
             k.payload => k.pc = "loaded", ~k.consumed, ~k.awaited
      PROVE  ApplyInv'
  <2>1. Fits(k)
    BY <1>4 DEF Fits, Executing
  <2>2. Reports(k)
    BY <1>4 DEF Reports, NoOutcome, JobType
  <2>3. Rests(k, machine, setting')
    BY <1>4 DEF Rests, Watching
  <2>4. form.operation = o => Suits(form, k)
    BY <1>2, <1>4, OnwardSuits
  <2>5. k.pc \notin Executing /\ job[o].pc # "none"
    BY <1>2, <1>4 DEF Executing, Previewing
  <2> QED
    BY <1>1, <1>2, <1>4, <2>1, <2>2, <2>3, <2>4, <2>5, JobKeeps DEF JobOnly
<1>5. CASE PreviewFails(o)
  <2> DEFINE k == [NoJob EXCEPT !.pc = "failed", !.session = job[o].session]
  <2>1. /\ k \in JobType /\ k.session = job[o].session /\ k.pc = "failed" /\ k.outcome = NoOutcome
        /\ k.carried = {} /\ k.payload = FALSE /\ k.consumed = FALSE /\ k.awaited = FALSE
    <3>1. job[o].session \in Nat
      BY <1>1 DEF JobType
    <3>2. k \in JobType
      BY <3>1, NoJobIsFine DEF JobType, Stages
    <3> QED
      BY <3>2 DEF NoJob
  <2>2. Become(o, k)
    BY <1>5 DEF PreviewFails
  <2> HIDE DEF k
  <2> QED
    BY <1>4, <2>1, <2>2
<1>6. CASE ReadTargets(o)
  <2> DEFINE k == [job[o] EXCEPT !.pc = "previewing", !.next = First(job[o].targets),
                                 !.machines = machine]
  <2>1. First(job[o].targets) \in job[o].targets /\ First(job[o].targets) \in 0..LastTarget
    BY <1>1, <1>3, TargetsInOrder
  <2>2. machine \in [Targets -> Nat]
    BY <1>1
  <2>3. /\ k \in JobType /\ k.session = job[o].session /\ k.pc = "previewing"
        /\ k.next = First(job[o].targets) /\ k.targets = job[o].targets
        /\ k.outcome = job[o].outcome /\ k.carried = job[o].carried
        /\ k.payload = job[o].payload /\ k.consumed = job[o].consumed
        /\ k.awaited = job[o].awaited
    BY <1>1, <2>1, <2>2 DEF JobType, Stages
  <2>4. Become(o, k)
    BY <1>6 DEF ReadTargets
  <2> HIDE DEF k
  <2> QED
    BY <1>3, <1>4, <2>1, <2>3, <2>4
<1>7. ASSUME NEW fails \in BOOLEAN, PreviewTarget(o, fails)
      PROVE  ApplyInv'
  <2> DEFINE t == job[o].next
  <2>1. PICK blocked \in BOOLEAN : blocked = (job[o].blocked \/ fails)
    OBVIOUS
  <2>2. PICK seen \in [Targets -> Nat] : seen = [job[o].settings EXCEPT ![t] = DryRun(t)]
    <3>1. t \in Targets
      BY <1>1, <1>7 DEF PreviewTarget, Fits, JobType
    <3> QED
      BY <1>1, <3>1 DEF DryRun, JobType
  <2>3. PICK j \in JobType : j = [job[o] EXCEPT !.blocked = blocked, !.settings = seen]
    BY <1>1 DEF JobType
  <2>4. /\ j.pc = "previewing" /\ j.session = job[o].session /\ j.targets = job[o].targets
        /\ j.payload = job[o].payload /\ j.consumed = job[o].consumed
        /\ j.outcome = job[o].outcome /\ j.carried = job[o].carried
        /\ j.awaited = job[o].awaited
    BY <1>1, <1>7, <2>3 DEF PreviewTarget, JobType
  <2>5. PICK n \in JobType : n = Onward(j, "loaded", 0)
    BY OnwardIs, ConfigurationAssumption DEF Stages
  <2>6. /\ n.session = j.session /\ n.targets = j.targets /\ n.payload = j.payload
        /\ n.consumed = j.consumed /\ n.outcome = j.outcome /\ n.carried = j.carried
        /\ n.awaited = j.awaited
        /\ \/ n.pc = "previewing" /\ n.next \in j.targets
           \/ n.pc = "loaded"
    <3>1. "loaded" \in Stages /\ 0 \in 0..LastTarget
      BY ConfigurationAssumption DEF Stages
    <3>2. /\ n.session = j.session /\ n.targets = j.targets /\ n.payload = j.payload
          /\ n.consumed = j.consumed /\ n.outcome = j.outcome /\ n.carried = j.carried
          /\ n.awaited = j.awaited
          /\ \/ After(j) # {} /\ n.pc = j.pc /\ n.next = First(After(j))
             \/ n.pc = "loaded"
      BY <2>5, <3>1, OnwardIs
    <3>3. After(j) # {} => First(After(j)) \in j.targets
      BY TargetsInOrder
    <3> QED
      BY <2>4, <3>2, <3>3
  <2>7. PICK payload \in BOOLEAN : payload = ~n.blocked
    OBVIOUS
  <2>8. Become(o, IF n.pc = "loaded" THEN [n EXCEPT !.payload = payload] ELSE n)
    BY <1>7, <2>1, <2>2, <2>3, <2>5, <2>7 DEF PreviewTarget
  <2>9. CASE n.pc = "loaded"
    <3> DEFINE k == [n EXCEPT !.payload = payload]
    <3>1. /\ k \in JobType /\ k.session = n.session /\ k.targets = n.targets /\ k.pc = n.pc
          /\ k.consumed = n.consumed /\ k.outcome = n.outcome /\ k.carried = n.carried
          /\ k.awaited = n.awaited /\ k.next = n.next
      BY DEF JobType
    <3>2. Become(o, k)
      BY <2>8, <2>9
    <3> HIDE DEF k
    <3> QED
      BY <1>3, <1>4, <2>4, <2>6, <2>9, <3>1, <3>2
  <2>10. CASE n.pc # "loaded"
    BY <1>3, <1>4, <2>4, <2>6, <2>8, <2>10
  <2> QED
    BY <2>9, <2>10
<1> QED
  BY <1>5, <1>6, <1>7 DEF PreviewStep

\* An execution that goes on has its payload, and reports what it has done.
LEMMA ExecutionKeeps ==
    ASSUME ApplyInv, NEW o \in Previews, NEW k \in JobType, Become(o, k),
           UNCHANGED <<machine, session, form, sequence>>, setting' \in [Targets -> Nat],
           setting' = setting \/ job[o].pc \in Executing,
           job[o].pc \in Executing \/ (job[o].pc = "starting" /\ ~LeaseTaken),
           k.pc \in Executing, k.payload, k.consumed,
           k.session = job[o].session, k.targets = job[o].targets,
           k.pc # "rereading" => k.next \in k.targets,
           Reports(k), Rests(k, machine, setting')
    PROVE  ApplyInv'
<1>1. Fits(job[o])
  BY AtWork
<1>2. Fits(k)
  BY <1>1 DEF Fits, Executing
<1>3. form.operation = o => Suits(form, k)
  BY OnwardSuits
<1>4. job[o].pc # "none"
  BY DEF Executing
<1>5. k.pc \in Executing => job[o].pc \in Executing \/ ~LeaseTaken
  OBVIOUS
<1>6. k.payload /\ k.session = session =>
               \/ k.pc \in Executing \cup {"loaded"}
               \/ form.plan /\ form.operation = o /\ ~k.consumed
  OBVIOUS
<1> QED
  BY <1>2, <1>3, <1>4, <1>5, <1>6, JobKeeps

\* The plan is admitted, or refused: it was discarded, its session closed, the cluster busy.
LEMMA AdmitKeeps ==
    ASSUME ApplyInv, NEW o \in Previews, Admit(o)
    PROVE  ApplyInv'
<1>1. /\ job[o] \in JobType /\ Fits(job[o]) /\ Reports(job[o])
      /\ setting \in [Targets -> Nat]
  BY AtWork
<1>2. job[o].pc = "starting" /\ UNCHANGED <<machine, setting, session, form, sequence>>
  BY DEF Admit, JobOnly
<1>3. job[o].outcome = NoOutcome /\ job[o].carried = {}
  BY <1>1, <1>2 DEF Reports
<1>4. CASE Admissible(job[o]) /\ ~LeaseTaken
  <2> DEFINE k == [job[o] EXCEPT !.pc = "rereading", !.consumed = TRUE]
  <2>1. /\ k \in JobType /\ k.pc = "rereading" /\ k.session = job[o].session
        /\ k.targets = job[o].targets /\ k.payload = job[o].payload /\ k.consumed = TRUE
        /\ k.outcome = job[o].outcome /\ k.carried = job[o].carried
    BY <1>1 DEF JobType, Stages
  <2>2. Become(o, k) /\ job[o].payload
    BY <1>4 DEF Admit, Admissible
  <2> HIDE DEF k
  <2>3. Reports(k)
    BY <1>3, <2>1 DEF Reports, NoOutcome, JobType
  <2>4. Rests(k, machine, setting')
    BY <2>1 DEF Rests, Watching
  <2>5. k.pc \in Executing
    BY <2>1 DEF Executing
  <2> QED
    BY <1>1, <1>2, <1>4, <2>1, <2>2, <2>3, <2>4, <2>5, ExecutionKeeps
<1>5. CASE ~(Admissible(job[o]) /\ ~LeaseTaken)
  <2>1. Become(o, Conclude(job[o]))
    BY <1>5 DEF Admit
  <2>2. /\ job[o].carried \subseteq job[o].targets
        /\ \A t \in job[o].carried : job[o].outcome[t] \in {"accepted", "unconfirmed"}
        /\ \A t \in job[o].targets : job[o].outcome[t] = "accepted" => t \in job[o].carried
        /\ \A t, u \in job[o].targets :
               t < u /\ job[o].outcome[u] \in {"accepted", "unconfirmed"}
               => job[o].outcome[t] = "accepted"
    BY <1>1 DEF Reports
  <2> QED
    BY <1>1, <1>2, <2>1, <2>2, ReturnKeeps
<1> QED
  BY <1>4, <1>5

\* What was read at the preview is read again, and nothing is sent when it differs.
LEMMA RereadKeeps ==
    ASSUME ApplyInv, NEW o \in Previews, Reread(o)
    PROVE  ApplyInv'
<1>1. /\ job[o] \in JobType /\ Fits(job[o]) /\ Reports(job[o])
      /\ setting \in [Targets -> Nat]
  BY AtWork
<1>2. job[o].pc = "rereading" /\ UNCHANGED <<machine, setting, session, form, sequence>>
  BY DEF Reread, JobOnly
<1>3. /\ job[o].outcome = NoOutcome /\ job[o].carried = {} /\ job[o].payload
      /\ job[o].consumed /\ job[o].targets # {} /\ job[o].pc \in Executing
  BY <1>1, <1>2 DEF Reports, Fits, Executing
<1> DEFINE first == First(job[o].targets)
           k == [job[o] EXCEPT !.pc = "rechecking", !.next = first]
<1>4. first \in job[o].targets /\ first \in 0..LastTarget /\ \A t \in job[o].targets : t >= first
  BY <1>1, <1>3, TargetsInOrder
<1>5. /\ k \in JobType /\ k.pc = "rechecking" /\ k.session = job[o].session
      /\ k.targets = job[o].targets /\ k.payload = job[o].payload
      /\ k.consumed = job[o].consumed /\ k.next = first /\ k.machines = job[o].machines
      /\ k.outcome = job[o].outcome /\ k.carried = job[o].carried
  BY <1>1, <1>4 DEF JobType, Stages
<1>6. Become(o, k)
  BY DEF Reread
<1> HIDE DEF k, first
<1>7. Reports(k)
  BY <1>3, <1>5 DEF Reports, NoOutcome, JobType
<1>8. Rests(k, machine, setting')
  <2>1. \A t \in k.targets : machine[t] = k.machines[t]
    BY <1>5 DEF Reread, SameMachines
  <2>2. Looked(k) = {}
    BY <1>1, <1>4, <1>5 DEF Looked, JobType, Targets
  <2> QED
    BY <2>1, <2>2 DEF Rests
<1>9. k.pc \in Executing
  BY <1>5 DEF Executing
<1> QED
  <2>1. k.payload /\ k.consumed /\ k.next \in k.targets
    BY <1>3, <1>4, <1>5
  <2>2. /\ UNCHANGED <<machine, session, form, sequence>> /\ setting' \in [Targets -> Nat]
        /\ setting' = setting \/ job[o].pc \in Executing
        /\ job[o].pc \in Executing \/ (job[o].pc = "starting" /\ ~LeaseTaken)
    BY <1>1, <1>2, <1>3
  <2>3. k \in JobType /\ k.session = job[o].session /\ k.targets = job[o].targets
    BY <1>5
  <2> QED
    BY <1>6, <1>7, <1>8, <1>9, <2>1, <2>2, <2>3, ExecutionKeeps

\* An execution that returns before anything was sent reports nothing.
LEMMA RefuseKeeps ==
    ASSUME ApplyInv, NEW o \in Previews, RereadRefuses(o) \/ RecheckRefuses(o)
    PROVE  ApplyInv'
<1>1. job[o] \in JobType /\ Reports(job[o]) /\ setting \in [Targets -> Nat]
  BY AtWork
<1>2. /\ Become(o, Conclude(job[o])) /\ UNCHANGED <<machine, setting, session, form, sequence>>
      /\ job[o].pc \in Executing
  BY DEF RereadRefuses, RecheckRefuses, JobOnly, Executing
<1>3. /\ job[o].carried \subseteq job[o].targets
      /\ \A t \in job[o].carried : job[o].outcome[t] \in {"accepted", "unconfirmed"}
      /\ \A t \in job[o].targets : job[o].outcome[t] = "accepted" => t \in job[o].carried
      /\ \A t, u \in job[o].targets :
             t < u /\ job[o].outcome[u] \in {"accepted", "unconfirmed"}
             => job[o].outcome[t] = "accepted"
  BY <1>1 DEF Reports
<1> QED
  BY <1>1, <1>2, <1>3, ReturnKeeps

\* A target is looked at again; when it was the last, all of them were.
LEMMA RecheckKeeps ==
    ASSUME ApplyInv, NEW o \in Previews, Recheck(o)
    PROVE  ApplyInv'
<1>1. /\ job[o] \in JobType /\ Fits(job[o]) /\ Reports(job[o]) /\ Rests(job[o], machine, setting)
      /\ setting \in [Targets -> Nat]
  BY AtWork
<1>2. /\ job[o].pc = "rechecking" /\ setting[job[o].next] = job[o].settings[job[o].next]
      /\ UNCHANGED <<machine, setting, session, form, sequence>>
  BY DEF Recheck, JobOnly, DryRun
<1>3. /\ job[o].outcome = NoOutcome /\ job[o].carried = {} /\ job[o].payload
      /\ job[o].consumed /\ job[o].next \in job[o].targets /\ job[o].pc \in Executing
  BY <1>1, <1>2 DEF Reports, Fits, Executing
<1>4. PICK j \in JobType : j = [job[o] EXCEPT !.edited = @ \ {job[o].next}]
  BY <1>1 DEF JobType
<1>5. /\ j.pc = "rechecking" /\ j.targets = job[o].targets /\ j.next = job[o].next
      /\ j.session = job[o].session /\ j.payload = job[o].payload
      /\ j.consumed = job[o].consumed /\ j.machines = job[o].machines
      /\ j.settings = job[o].settings /\ j.outcome = job[o].outcome
      /\ j.carried = job[o].carried /\ j.swapped = job[o].swapped
      /\ j.edited = job[o].edited \ {job[o].next}
  BY <1>1, <1>2, <1>4 DEF JobType
<1>6. PICK first \in 0..LastTarget : first = First(job[o].targets)
  BY <1>1, <1>3, TargetsInOrder
<1>7. first \in j.targets /\ \A t \in j.targets : t >= first
  BY <1>1, <1>3, <1>5, <1>6, TargetsInOrder
<1>8. PICK k \in JobType : k = Onward(j, "sending", first)
  BY OnwardIs DEF Stages
<1>9. "sending" \in Stages
  BY DEF Stages
<1>10. /\ k.session = j.session /\ k.targets = j.targets /\ k.machines = j.machines
       /\ k.settings = j.settings /\ k.payload = j.payload /\ k.consumed = j.consumed
       /\ k.outcome = j.outcome /\ k.carried = j.carried /\ k.swapped = j.swapped
       /\ k.edited = j.edited
       /\ \/ After(j) # {} /\ k.pc = "rechecking" /\ k.next = First(After(j))
          \/ After(j) = {} /\ k.pc = "sending" /\ k.next = first
  BY <1>5, <1>8, <1>9, OnwardIs
<1>11. /\ After(j) # {} => /\ First(After(j)) \in j.targets
                           /\ \A t \in j.targets : t < First(After(j)) <=> t <= j.next
       /\ After(j) = {} => \A t \in j.targets : t <= j.next
  BY TargetsInOrder
<1>12. Become(o, k)
  BY <1>4, <1>6, <1>8 DEF Recheck
<1>13. Reports(k)
  <2>1. \A t \in k.targets : k.outcome[t] = "none"
    BY <1>3, <1>5, <1>10 DEF NoOutcome, JobType
  <2>2. k.pc = "sending" => \A t \in k.targets : ~(t < k.next)
    BY <1>1, <1>6, <1>7, <1>10 DEF JobType, Targets
  <2> QED
    BY <1>3, <1>5, <1>10, <2>1, <2>2 DEF Reports
<1>14. Rests(k, machine, setting')
  <2>1. \A t \in k.targets : machine[t] = k.machines[t] \/ t \in k.swapped
    BY <1>1, <1>2, <1>5, <1>10 DEF Rests, Watching
  <2>2. \A t \in Looked(k) : t \in job[o].targets /\ t <= job[o].next
    BY <1>5, <1>10, <1>11 DEF Looked
  <2>3. \A t \in Looked(k) : t = job[o].next \/ t \in Looked(job[o])
    <3>1. \A t \in job[o].targets : t < job[o].next => t \in Looked(job[o])
      BY <1>2 DEF Looked
    <3>2. \A t \in job[o].targets : t <= job[o].next => t < job[o].next \/ t = job[o].next
      BY <1>1 DEF JobType, Targets
    <3> QED
      BY <2>2, <3>1, <3>2
  <2>4. \A t \in Looked(k) : setting[t] = k.settings[t] \/ t \in k.edited
    BY <1>1, <1>2, <1>5, <1>10, <2>3 DEF Rests, Watching
  <2> QED
    BY <1>2, <2>1, <2>4 DEF Rests
<1>15. k.pc \in Executing /\ k.payload /\ k.consumed /\ k.next \in k.targets
       /\ k.session = job[o].session /\ k.targets = job[o].targets
  BY <1>3, <1>5, <1>7, <1>10, <1>11 DEF Executing
<1> QED
  BY <1>1, <1>2, <1>3, <1>12, <1>13, <1>14, <1>15, ExecutionKeeps

\* A call is made: the target it is for is the next one still.
LEMMA SendKeeps ==
    ASSUME ApplyInv, NEW o \in Previews, Send(o)
    PROVE  ApplyInv'
<1>1. /\ job[o] \in JobType /\ Fits(job[o]) /\ Reports(job[o]) /\ Rests(job[o], machine, setting)
      /\ setting \in [Targets -> Nat]
  BY AtWork
<1>2. /\ job[o].pc = "sending" /\ UNCHANGED <<machine, setting, session, form, sequence>>
      /\ job[o].payload /\ job[o].consumed /\ job[o].next \in job[o].targets
      /\ job[o].pc \in Executing
  BY <1>1 DEF Send, JobOnly, Fits, Executing
<1>3. PICK k \in JobType : k = [job[o] EXCEPT !.pc = "inflight"]
  BY <1>1 DEF JobType, Stages
<1>4. /\ k.pc = "inflight" /\ k.targets = job[o].targets /\ k.next = job[o].next
      /\ k.session = job[o].session /\ k.payload = job[o].payload
      /\ k.consumed = job[o].consumed /\ k.machines = job[o].machines
      /\ k.settings = job[o].settings /\ k.outcome = job[o].outcome
      /\ k.carried = job[o].carried /\ k.swapped = job[o].swapped /\ k.edited = job[o].edited
  BY <1>1, <1>3 DEF JobType
<1>5. Become(o, k)
  BY <1>3 DEF Send
<1>6. Reports(k)
  BY <1>1, <1>2, <1>4 DEF Reports
<1>7. Rests(k, machine, setting')
  <2>1. Looked(k) = Looked(job[o])
    BY <1>2, <1>4 DEF Looked
  <2> QED
    BY <1>1, <1>2, <1>4, <2>1 DEF Rests, Watching
<1>8. k.pc \in Executing /\ k.payload /\ k.consumed /\ k.next \in k.targets
  BY <1>2, <1>4 DEF Executing
<1> QED
  BY <1>1, <1>2, <1>4, <1>5, <1>6, <1>7, <1>8, ExecutionKeeps

\* The targets that were not sent to are reported as not attempted.
LEMMA StopSendingKeeps ==
    ASSUME ApplyInv, NEW o \in Previews, StopSending(o)
    PROVE  ApplyInv'
<1>1. job[o] \in JobType /\ Fits(job[o]) /\ Reports(job[o]) /\ setting \in [Targets -> Nat]
  BY AtWork
<1>2. /\ job[o].pc = "sending" /\ UNCHANGED <<machine, setting, session, form, sequence>>
      /\ job[o].pc \in Executing
  BY DEF StopSending, JobOnly, Executing
<1> DEFINE rest == {job[o].next} \cup After(job[o])
<1>3. PICK told \in [Targets -> Outcomes] : told = Skip(job[o], rest)
  BY <1>1 DEF Skip, JobType, Outcomes
<1>4. \A t \in job[o].targets : told[t] = IF t >= job[o].next THEN "notAttempted" ELSE "accepted"
  <2>1. \A t \in job[o].targets : t \in rest <=> t >= job[o].next
    BY <1>1 DEF After, JobType, Targets
  <2>2. \A t \in job[o].targets : ~(t >= job[o].next) => job[o].outcome[t] = "accepted"
    BY <1>1, <1>2 DEF Reports, JobType, Targets
  <2> HIDE DEF rest
  <2> QED
    BY <1>1, <1>3, <2>1, <2>2 DEF Skip, JobType
<1> HIDE DEF rest
<1>5. PICK j \in JobType : j = [job[o] EXCEPT !.outcome = told]
  BY <1>1 DEF JobType
<1>6. /\ j.targets = job[o].targets /\ j.session = job[o].session
      /\ j.consumed = job[o].consumed /\ j.payload = job[o].payload
      /\ j.carried = job[o].carried /\ j.outcome = told
  BY <1>1, <1>5 DEF JobType
<1>7. Become(o, Conclude(j))
  BY <1>3, <1>5 DEF StopSending, rest
<1>8. \A t \in j.targets : t \in j.carried <=> t < job[o].next
  BY <1>1, <1>2, <1>6 DEF Reports
<1>9. /\ j.carried \subseteq j.targets
      /\ \A t \in j.carried : j.outcome[t] \in {"accepted", "unconfirmed"}
      /\ \A t \in j.targets : j.outcome[t] = "accepted" => t \in j.carried
      /\ \A t, u \in j.targets :
             t < u /\ j.outcome[u] \in {"accepted", "unconfirmed"} => j.outcome[t] = "accepted"
  <2>1. j.carried \subseteq j.targets
    BY <1>1, <1>6 DEF Reports
  <2>2. j.targets \subseteq Nat /\ job[o].next \in Nat
    BY <1>1, <1>6 DEF JobType, Targets
  <2> QED
    BY <1>4, <1>6, <1>8, <2>1, <2>2
<1> QED
  BY <1>1, <1>2, <1>6, <1>7, <1>9, ReturnKeeps

\* The node took the configuration: its outcome says so, and the next target follows.
LEMMA AcceptKeeps ==
    ASSUME ApplyInv, NEW o \in Previews, Accept(o)
    PROVE  ApplyInv'
<1>1. /\ job[o] \in JobType /\ Fits(job[o]) /\ Reports(job[o]) /\ Rests(job[o], machine, setting)
      /\ setting \in [Targets -> Nat]
  BY AtWork
<1>2. PICK t \in Targets : t = job[o].next
  BY <1>1 DEF Accept, Fits, JobType
<1>3. /\ job[o].pc = "inflight" /\ UNCHANGED <<machine, session, form, sequence>>
      /\ job[o].payload /\ job[o].consumed /\ t \in job[o].targets
      /\ job[o].pc \in Executing /\ setting' = [setting EXCEPT ![t] = Applied]
  BY <1>1, <1>2 DEF Accept, Fits, Executing, Configure
<1>4. /\ setting' \in [Targets -> Nat]
      /\ \A u \in Targets : u # t => setting'[u] = setting[u]
  BY <1>1, <1>2, <1>3 DEF Applied
<1>5. PICK told \in [Targets -> Outcomes] : told = [job[o].outcome EXCEPT ![t] = "accepted"]
  BY <1>1 DEF JobType, Outcomes
<1>6. PICK took \in SUBSET Targets : took = job[o].carried \cup {t}
  BY <1>1 DEF JobType
<1>7. PICK j \in JobType : j = [job[o] EXCEPT !.pc = "sending", !.outcome = told, !.carried = took]
  BY <1>1 DEF JobType, Stages
<1>8. /\ j.pc = "sending" /\ j.targets = job[o].targets /\ j.next = t
      /\ j.session = job[o].session /\ j.payload = job[o].payload
      /\ j.consumed = job[o].consumed /\ j.machines = job[o].machines
      /\ j.settings = job[o].settings /\ j.outcome = told
      /\ j.carried = took /\ j.swapped = job[o].swapped /\ j.edited = job[o].edited
  BY <1>1, <1>2, <1>7 DEF JobType
<1>9. "done" \in Stages /\ 0 \in 0..LastTarget
  BY ConfigurationAssumption DEF Stages
<1>10. PICK n \in JobType : n = Onward(j, "done", 0)
  BY <1>9, OnwardIs
<1>11. /\ n.session = j.session /\ n.targets = j.targets /\ n.machines = j.machines
       /\ n.settings = j.settings /\ n.payload = j.payload /\ n.consumed = j.consumed
       /\ n.outcome = j.outcome /\ n.carried = j.carried /\ n.swapped = j.swapped
       /\ n.edited = j.edited
       /\ \/ After(j) # {} /\ n.pc = "sending" /\ n.next = First(After(j))
          \/ After(j) = {} /\ n.pc = "done"
  BY <1>8, <1>9, <1>10, OnwardIs
<1>12. /\ After(j) # {} => /\ First(After(j)) \in j.targets
                           /\ \A u \in j.targets : u < First(After(j)) <=> u <= j.next
       /\ After(j) = {} => \A u \in j.targets : u <= j.next
  BY TargetsInOrder
<1>13. Become(o, IF n.pc = "done" THEN Conclude(n) ELSE n)
  BY <1>2, <1>5, <1>6, <1>7, <1>10 DEF Accept
<1>14. \A u \in j.targets :
           /\ u <= t => told[u] = "accepted" /\ u \in took
           /\ ~(u <= t) => told[u] = "none" /\ u \notin took
  <2>1. j.targets \subseteq Nat /\ t \in Nat
    BY <1>1, <1>3, <1>8 DEF JobType, Targets
  <2>2. \A u \in j.targets : /\ u < t => job[o].outcome[u] = "accepted"
                             /\ u >= t => job[o].outcome[u] = "none"
                             /\ u \in job[o].carried <=> u < t
    BY <1>1, <1>2, <1>3, <1>8 DEF Reports
  <2>3. told[t] = "accepted" /\ t \in took
    BY <1>1, <1>5, <1>6 DEF JobType
  <2>4. \A u \in Targets : u # t => told[u] = job[o].outcome[u] /\ (u \in took <=> u \in job[o].carried)
    BY <1>1, <1>5, <1>6 DEF JobType
  <2>5. \A u \in j.targets : u \in Targets
    BY DEF JobType
  <2> QED
    BY <2>1, <2>2, <2>3, <2>4, <2>5
<1>15. /\ n.carried \subseteq n.targets
       /\ \A u \in n.carried : n.outcome[u] \in {"accepted", "unconfirmed"}
       /\ \A u \in n.targets : n.outcome[u] = "accepted" => u \in n.carried
       /\ \A u, v \in n.targets :
              u < v /\ n.outcome[v] \in {"accepted", "unconfirmed"} => n.outcome[u] = "accepted"
  <2>1. n.carried \subseteq n.targets
    BY <1>1, <1>3, <1>6, <1>8, <1>11 DEF Reports
  <2>2. n.targets = j.targets /\ n.outcome = told /\ n.carried = took
    BY <1>8, <1>11
  <2>3. j.targets \subseteq Nat /\ t \in Nat
    BY <1>1, <1>3, <1>8 DEF JobType, Targets
  <2>4. \A u, v \in j.targets : u < v /\ v <= t => u <= t
    BY <2>3
  <2>5. \A u \in took : u \in j.targets /\ told[u] = "accepted"
    BY <1>14, <2>1, <2>2
  <2>6. \A u \in j.targets : told[u] \in {"accepted", "unconfirmed"} => u <= t
    BY <1>14
  <2>7. \A u \in j.targets : u <= t => told[u] = "accepted" /\ u \in took
    BY <1>14
  <2> QED
    BY <2>1, <2>2, <2>4, <2>5, <2>6, <2>7
<1>16. CASE n.pc = "done"
  BY ZenonT(40), <1>1, <1>3, <1>4, <1>8, <1>11, <1>13, <1>15, <1>16, ReturnKeeps
<1>17. CASE n.pc # "done"
  <2>1. n.pc = "sending" /\ n.next \in n.targets /\ \A u \in n.targets : u < n.next <=> u <= t
    BY <1>8, <1>11, <1>12, <1>17
  <2>2. n.pc \in Executing /\ n.payload /\ n.consumed /\ n.session = job[o].session
        /\ n.targets = job[o].targets
    BY <1>3, <1>8, <1>11, <2>1 DEF Executing
  <2>3. \A u \in n.targets : ~(u < n.next) <=> u >= n.next
    BY SMTT(20), <2>1 DEF JobType, Targets
  <2>4. Reports(n)
    BY <1>8, <1>11, <1>14, <1>15, <2>1, <2>3 DEF Reports
  <2>5. Rests(n, machine, setting')
    <3>1. \A u \in n.targets : machine[u] = n.machines[u] \/ u \in n.swapped
      BY <1>1, <1>3, <1>8, <1>11 DEF Rests, Watching
    <3>2. \A u \in Looked(n) : u \in n.targets /\ u >= n.next
      BY <2>1 DEF Looked
    <3>3. \A u \in Looked(n) : u \in Targets /\ u \in job[o].targets /\ ~(u <= t)
      BY <1>8, <1>11, <2>1, <2>3, <3>2 DEF JobType
    <3>4. \A u \in Targets : ~(u <= t) => u >= t /\ u # t
      BY DEF Targets
    <3>5. \A u \in job[o].targets : u >= t => u \in Looked(job[o])
      BY <1>2, <1>3 DEF Looked
    <3>6. \A u \in Looked(n) : setting'[u] = setting[u] /\ u \in Looked(job[o])
      BY <1>4, <3>3, <3>4, <3>5
    <3>7. \A u \in Looked(n) : setting'[u] = n.settings[u] \/ u \in n.edited
      BY <1>1, <1>3, <1>8, <1>11, <3>6 DEF Rests, Watching
    <3> QED
      BY <3>1, <3>7 DEF Rests
  <2>6. Become(o, n)
    BY <1>13, <1>17
  <2> QED
    BY <1>3, <1>4, <2>1, <2>2, <2>4, <2>5, <2>6, ExecutionKeeps
<1> QED
  BY <1>16, <1>17

\* Whether a call that failed was carried out is not known: its target is unconfirmed, and
\* the rest is not attempted.
LEMMA CallFailsKeeps ==
    ASSUME ApplyInv, NEW o \in Previews, NEW carried \in BOOLEAN, CallFails(o, carried)
    PROVE  ApplyInv'
<1>1. /\ job[o] \in JobType /\ Fits(job[o]) /\ Reports(job[o]) /\ setting \in [Targets -> Nat]
  BY AtWork
<1>2. PICK t \in Targets : t = job[o].next
  BY <1>1 DEF CallFails, Fits, JobType
<1>3. /\ job[o].pc = "inflight" /\ UNCHANGED <<machine, session, form, sequence>>
      /\ t \in job[o].targets /\ job[o].pc \in Executing
  BY <1>1, <1>2 DEF CallFails, Fits, Executing
<1>4. setting' \in [Targets -> Nat]
  BY <1>1, <1>2 DEF CallFails, Configure, Applied
<1>5. PICK told \in [Targets -> Outcomes] : told = Failed(job[o], t)
  BY <1>1 DEF Failed, Skip, JobType, Outcomes
<1>6. PICK took \in SUBSET Targets : took = IF carried THEN job[o].carried \cup {t} ELSE job[o].carried
  BY <1>1 DEF JobType
<1>7. PICK j \in JobType : j = [job[o] EXCEPT !.outcome = told, !.carried = took]
  BY <1>1 DEF JobType
<1>8. /\ j.targets = job[o].targets /\ j.session = job[o].session
      /\ j.consumed = job[o].consumed /\ j.payload = job[o].payload
      /\ j.outcome = told /\ j.carried = took
  BY <1>1, <1>7 DEF JobType
<1>9. Become(o, Conclude(j))
  <2>1. [job[o] EXCEPT !.outcome = Failed(job[o], job[o].next),
                       !.carried = IF carried THEN @ \cup {job[o].next} ELSE @] = j
    BY <1>2, <1>5, <1>6, <1>7
  <2> QED
    BY <2>1 DEF CallFails
<1>10. j.targets \subseteq Nat /\ t \in Nat /\ j.targets \subseteq Targets
  BY <1>1, <1>3, <1>8 DEF JobType, Targets
<1>11. \A u \in j.targets :
           /\ u < t => told[u] = "accepted" /\ u \in took
           /\ u = t => told[u] = "unconfirmed"
           /\ u > t => told[u] = "notAttempted" /\ u \notin took
  <2>1. \A u \in j.targets : /\ u < t => job[o].outcome[u] = "accepted"
                             /\ u \in job[o].carried <=> u < t
    BY <1>1, <1>2, <1>3, <1>8 DEF Reports
  <2>2. \A u \in j.targets : u \in After(job[o]) <=> u > t
    BY <1>2, <1>8 DEF After
  <2>3. \A u \in Targets : u # t => told[u] = IF u \in After(job[o]) THEN "notAttempted"
                                                                   ELSE job[o].outcome[u]
    BY <1>1, <1>5 DEF Failed, Skip, JobType
  <2>4. told[t] = "unconfirmed"
    BY <1>5 DEF Failed, Skip
  <2>5. \A u \in j.targets : u # t => (u \in took <=> u \in job[o].carried)
    BY <1>6
  <2>6. \A u \in j.targets : (u < t => u # t /\ ~(u > t)) /\ (u > t => u # t /\ ~(u < t))
    BY <1>10
  <2> QED
    BY <1>10, <2>1, <2>2, <2>3, <2>4, <2>5, <2>6
<1>12. /\ j.carried \subseteq j.targets
       /\ \A u \in j.carried : j.outcome[u] \in {"accepted", "unconfirmed"}
       /\ \A u \in j.targets : j.outcome[u] = "accepted" => u \in j.carried
       /\ \A u, v \in j.targets :
              u < v /\ j.outcome[v] \in {"accepted", "unconfirmed"} => j.outcome[u] = "accepted"
  <2>1. took \subseteq j.targets
    BY <1>1, <1>3, <1>6, <1>8 DEF Reports
  <2>2. \A u \in j.targets : u < t \/ u = t \/ u > t
    BY <1>10
  <2>3. \A u \in j.targets : u \in took => told[u] \in {"accepted", "unconfirmed"}
    BY <1>11, <2>2
  <2>4. \A u \in j.targets : told[u] = "accepted" => u \in took
    BY <1>11, <2>2
  <2>5. \A v \in j.targets : told[v] \in {"accepted", "unconfirmed"} => v < t \/ v = t
    BY <1>11, <2>2
  <2>6. \A u, v \in j.targets : u < v /\ (v < t \/ v = t) => u < t
    BY <1>10
  <2>7. \A u, v \in j.targets :
            u < v /\ told[v] \in {"accepted", "unconfirmed"} => told[u] = "accepted"
    BY <1>11, <2>5, <2>6
  <2> QED
    BY <1>8, <2>1, <2>3, <2>4, <2>7
<1> QED
  BY <1>3, <1>4, <1>8, <1>9, <1>12, ReturnKeeps

\* A step of the execution.
LEMMA ApplyKeeps ==
    ASSUME ApplyInv, NEW o \in Previews, ApplyStep(o)
    PROVE  ApplyInv'
BY AdmitKeeps, RereadKeeps, RefuseKeeps, RecheckKeeps, SendKeeps, StopSendingKeeps, AcceptKeeps,
   CallFailsKeeps DEF ApplyStep

-----------------------------------------------------------------------------
(* What the dialog and its messages do to the jobs *)

\* Job k is job j canceled, cleared or handed over, or forgotten.
Softer(j, k) ==
    \/ k = NoJob
    \/ /\ k \in JobType
       /\ k.session = j.session /\ k.targets = j.targets /\ k.next = j.next
       /\ k.machines = j.machines /\ k.settings = j.settings /\ k.consumed = j.consumed
       /\ k.outcome = j.outcome /\ k.carried = j.carried
       /\ k.swapped = j.swapped /\ k.edited = j.edited
       /\ k.pc = j.pc \/ (j.pc = "loaded" /\ k.pc = "held")
       /\ k.payload => j.payload
       /\ j.pc \in Executing => k.payload
       /\ k.awaited => j.awaited

\* A preview that begins.
Begins(k) ==
    /\ k \in JobType /\ k.pc = "reading" /\ k.targets # {}
    /\ k.outcome = NoOutcome /\ k.carried = {}
    /\ ~k.payload /\ ~k.consumed /\ ~k.awaited

\* A job stays fine when it softens.
LEMMA SofterIsFine ==
    ASSUME NEW j \in JobType, NEW k, Softer(j, k), NEW m, NEW s,
           Fits(j), Reports(j), Rests(j, m, s)
    PROVE  /\ k \in JobType /\ Fits(k) /\ Reports(k) /\ Rests(k, m, s)
           /\ k.pc # "none" => j.pc # "none" /\ k.session = j.session
           /\ k.pc \in Executing => j.pc \in Executing
           /\ k.session \in {0, j.session}
<1>1. CASE k = NoJob
  BY <1>1, NoJobIsFine DEF Executing
<1>2. CASE k # NoJob
  <2>1. k \in JobType /\ k.session = j.session /\ k.targets = j.targets /\ k.next = j.next
        /\ k.machines = j.machines /\ k.settings = j.settings /\ k.consumed = j.consumed
        /\ k.outcome = j.outcome /\ k.carried = j.carried
        /\ k.swapped = j.swapped /\ k.edited = j.edited
    BY <1>2 DEF Softer
  <2>2. k.pc = j.pc \/ (j.pc = "loaded" /\ k.pc = "held")
    BY <1>2 DEF Softer
  <2>3. (k.payload => j.payload) /\ (j.pc \in Executing => k.payload) /\ (k.awaited => j.awaited)
    BY <1>2 DEF Softer
  <2>4. Fits(k)
    BY <2>1, <2>2, <2>3 DEF Fits, Executing
  <2>5. Reports(k)
    BY <2>1, <2>2 DEF Reports
  <2>6. Rests(k, m, s)
    BY <2>1, <2>2 DEF Rests, Watching, Looked
  <2>7. k.pc # "none" => j.pc # "none"
    BY <2>2
  <2>8. k.pc \in Executing => j.pc \in Executing
    BY <2>2 DEF Executing
  <2> QED
    BY <2>1, <2>4, <2>5, <2>6, <2>7, <2>8
<1> QED
  BY <1>1, <1>2

\* The jobs soften or begin, whatever becomes of the dialog and the session.
LEMMA SofterJobs ==
    ASSUME ApplyTyped, Jobs, Alone, UNCHANGED <<machine, setting>>, form' \in FormType,
           session' \in Nat, session' >= session, sequence' \in sequence..MaxPreviews,
           NEW after, job' = after, after = [p \in Previews |-> after[p]],
           \A p \in Previews : \/ Softer(job[p], after[p])
                               \/ Begins(after[p]) /\ after[p].session = session' /\ p <= sequence'
    PROVE  ApplyTyped' /\ Jobs' /\ Alone'
<1>1. \A p \in Previews :
          /\ job[p] \in JobType /\ Fits(job[p]) /\ Reports(job[p]) /\ Rests(job[p], machine, setting)
          /\ job[p].session <= session /\ job[p].session \in Nat /\ (p > sequence => job[p].pc = "none")
  BY DEF ApplyTyped, Jobs, JobFine, JobType
<1>2. session \in Nat \ {0} /\ sequence \in 0..MaxPreviews /\ MaxPreviews \in Nat
  BY ConfigurationAssumption DEF ApplyTyped
<1>3. \A p \in Previews :
          /\ after[p] \in JobType /\ Fits(after[p]) /\ Reports(after[p])
          /\ Rests(after[p], machine, setting)
          /\ after[p].session <= session' /\ (p > sequence' => after[p].pc = "none")
          /\ after[p].pc \in Executing => job[p].pc \in Executing
  <2> TAKE p \in Previews
  <2>1. CASE Softer(job[p], after[p])
    <3>1. /\ after[p] \in JobType /\ Fits(after[p]) /\ Reports(after[p])
          /\ Rests(after[p], machine, setting)
          /\ after[p].pc # "none" => job[p].pc # "none" /\ after[p].session = job[p].session
          /\ after[p].pc \in Executing => job[p].pc \in Executing
          /\ after[p].session \in {0, job[p].session}
      BY <1>1, <2>1, SofterIsFine
    <3>2. after[p].session <= session'
      BY <1>1, <1>2, <3>1
    <3>3. p > sequence' => p > sequence
      BY <1>2 DEF Previews
    <3> QED
      BY <1>1, <3>1, <3>2, <3>3
  <2>2. CASE Begins(after[p]) /\ after[p].session = session' /\ p <= sequence'
    <3>1. Fits(after[p])
      BY <2>2 DEF Begins, Fits, Executing
    <3>2. Reports(after[p])
      BY <2>2 DEF Begins, Reports, NoOutcome, JobType
    <3>3. Rests(after[p], machine, setting)
      BY <2>2 DEF Begins, Rests, Watching
    <3>4. ~(p > sequence') /\ after[p].session <= session'
      BY <1>2, <2>2 DEF Previews
    <3>5. after[p].pc \notin Executing /\ after[p] \in JobType
      BY <2>2 DEF Begins, Executing
    <3> QED
      BY <3>1, <3>2, <3>3, <3>4, <3>5
  <2> QED
    BY <2>1, <2>2
<1>4. \A p \in Previews : job'[p] = after[p]
  OBVIOUS
<1>5. ApplyTyped'
  <2>1. after \in [Previews -> JobType]
    BY <1>3
  <2>2. session' \in Nat \ {0} /\ sequence' \in 0..MaxPreviews
    BY <1>2
  <2> QED
    BY <2>1, <2>2 DEF ApplyTyped
<1>6. Jobs'
  BY <1>3, <1>4 DEF Jobs, JobFine
<1>7. Alone'
  BY <1>3, <1>4 DEF Alone
<1> QED
  BY <1>5, <1>6, <1>7

\* A message or a key that concerns one job leaves the others to the dialog they are of.
LEMMA OneSoftens ==
    ASSUME ApplyInv, NEW o \in Previews, NEW k, Softer(job[o], k), Become(o, k),
           UNCHANGED <<machine, setting, session, sequence>>, form' \in FormType,
           k.payload /\ k.session = session =>
               \/ k.pc \in Executing \cup {"loaded"}
               \/ form'.plan /\ form'.operation = o /\ ~k.consumed,
           form'.operation = form.operation, form.operation # o => form' = form,
           form.operation = o => Suits(form', k),
           form'.plan <=> form'.phase \in {"reviewing", "confirming", "applying", "complete"},
           form'.phase # "editing" => form.phase # "editing"
    PROVE  ApplyInv'
<1>1. ApplyTyped /\ Jobs /\ Alone /\ Owned /\ Phased
  BY DEF ApplyInv
<1>2. job'[o] = k /\ \A p \in Previews \ {o} : job'[p] = job[p]
  BY <1>1, JobAt
<1>3. ApplyTyped' /\ Jobs' /\ Alone'
  <2>1. PICK after : after = [job EXCEPT ![o] = k]
    OBVIOUS
  <2>2. job' = after /\ after = [p \in Previews |-> after[p]]
    BY <1>1, <2>1 DEF ApplyTyped, Become
  <2>3. \A p \in Previews : Softer(job[p], after[p])
    <3>1. \A p \in Previews : job[p] \in JobType => Softer(job[p], job[p])
      BY AtWork DEF Softer, Fits
    <3> QED
      BY <1>1, <1>2, <2>2, <3>1 DEF ApplyTyped
  <2>4. session' \in Nat /\ session' >= session /\ sequence' \in sequence..MaxPreviews
    BY <1>1, ConfigurationAssumption DEF ApplyTyped
  <2> QED
    BY <1>1, <2>2, <2>3, <2>4, SofterJobs
<1>4. Owned'
  BY <1>1, <1>2 DEF Owned
<1>5. Phased'
  <2>1. form'.operation \in Previews => Suits(form', job'[form'.operation])
    BY <1>1, <1>2 DEF Phased
  <2>2. Suits(form, job[form.operation])' <=> Suits(form', job'[form'.operation])
    BY DEF Suits
  <2> QED
    BY <1>1, <2>1, <2>2 DEF Phased
<1> QED
  BY <1>3, <1>4, <1>5 DEF ApplyInv

\* The phase the dialog is at tells the stage of its job, and the stage the phase.
LEMMA StageOf ==
    ASSUME ApplyInv, NEW o \in Previews, form.operation = o
    PROVE  /\ Suits(form, job[o])
           /\ job[o].pc \in {"reading", "previewing", "failed", "loaded"} => form.phase = "preparing"
           /\ job[o].pc = "held" => form.phase \in {"reviewing", "confirming"}
           /\ job[o].awaited => form.phase = "applying"
           /\ job[o].pc # "none" => job[o].session = session
           /\ form.plan <=> form.phase \in {"reviewing", "confirming", "applying", "complete"}
           /\ form \in FormType
<1>1. Suits(form, job[o]) /\ form \in FormType
      /\ (form.plan <=> form.phase \in {"reviewing", "confirming", "applying", "complete"})
  BY DEF ApplyInv, Phased, ApplyTyped
<1>2. job[o].awaited => job[o].pc \in Executing \cup {"starting", "done"}
  BY AtWork DEF Fits
<1> QED
  BY <1>1, <1>2 DEF Suits, Executing, FormType

\* What nothing refers to any more holds no payload.
LEMMA KeptIs ==
    ASSUME NEW j, NEW k, Softer(j, k)
    PROVE  /\ Softer(j, Kept(k))
           /\ Kept(k) = k \/ (Kept(k) = NoJob /\ ~k.payload /\ k.pc \in {"held", "done"})
           /\ k.pc = "held" /\ ~k.payload /\ ~k.awaited => Kept(k) = NoJob
BY DEF Kept, Forgotten, Softer

\* The preview's answer: the dialog that waits for it takes the plan, any other gives it up.
LEMMA LoadedKeeps ==
    ASSUME ApplyInv, NEW o \in Previews, Loaded(o)
    PROVE  ApplyInv'
<1>1. job[o] \in JobType /\ Fits(job[o]) /\ form \in FormType
  BY AtWork DEF ApplyInv, ApplyTyped
<1>2. /\ job[o].pc = "loaded" /\ UNCHANGED <<machine, setting, session, sequence>>
      /\ ~job[o].consumed /\ ~job[o].awaited /\ job[o].pc \notin Executing
  BY <1>1 DEF Loaded, worldVars, Fits, Executing
<1>3. form.operation = o => /\ form.phase = "preparing" /\ job[o].session = session /\ ~form.plan
                            /\ Suits(form, job[o])
  BY <1>2, StageOf
<1>4. form.plan <=> form.phase \in {"reviewing", "confirming", "applying", "complete"}
  BY DEF ApplyInv, Phased
<1>5. CASE Heard(o)
  <2>1. PICK k \in JobType : k = [job[o] EXCEPT !.pc = "held"]
    BY <1>1 DEF JobType, Stages
  <2>2. Become(o, k) /\ form' = [form EXCEPT !.plan = TRUE, !.phase = "reviewing"]
    BY <1>5, <2>1 DEF Loaded
  <2>3. Softer(job[o], k) /\ k.pc = "held" /\ k.session = job[o].session /\ ~k.consumed
    BY <1>1, <1>2, <2>1 DEF Softer, JobType
  <2>4. form.operation = o /\ job[o].session = session
    BY <1>5 DEF Heard
  <2>5. /\ form' \in FormType /\ form'.plan = TRUE /\ form'.phase = "reviewing"
        /\ form'.operation = form.operation
    BY <1>1, <2>2 DEF FormType
  <2>6. Suits(form', k)
    BY <2>3, <2>4, <2>5 DEF Suits
  <2>7. form.phase # "editing"
    BY <1>3, <2>4
  <2> QED
    BY <1>2, <2>2, <2>3, <2>4, <2>5, <2>6, <2>7, OneSoftens
<1>6. CASE ~Heard(o)
  <2>1. PICK payload \in BOOLEAN :
            payload = (job[o].payload /\ (job[o].consumed \/ job[o].session # session))
    OBVIOUS
  <2>2. PICK j \in JobType : j = [job[o] EXCEPT !.payload = payload, !.pc = "held"]
    BY <1>1 DEF JobType, Stages
  <2>3. j = [Clear(job[o]) EXCEPT !.pc = "held"]
    BY <1>1, <2>1, <2>2 DEF Clear
  <2>4. Become(o, Kept(j)) /\ form' = form
    BY <1>6, <2>3 DEF Loaded
  <2>5. /\ Softer(job[o], j) /\ j.pc = "held" /\ j.session = job[o].session
        /\ j.payload = payload /\ ~j.awaited
    BY <1>1, <1>2, <2>1, <2>2 DEF Softer, JobType
  <2>6. /\ Softer(job[o], Kept(j))
        /\ Kept(j) = j \/ (Kept(j) = NoJob /\ ~j.payload /\ j.pc \in {"held", "done"})
        /\ j.pc = "held" /\ ~j.payload /\ ~j.awaited => Kept(j) = NoJob
    BY <2>5, KeptIs
  <2>7. ~(Kept(j).payload /\ Kept(j).session = session)
    BY <1>2, <2>1, <2>5, <2>6, NoJobIsFine
  <2>8. form.operation = o => Suits(form, Kept(j))
    <3>1. form.operation = o => Kept(j) = NoJob
      BY <1>2, <1>3, <2>1, <2>5, <2>6
    <3> QED
      BY <1>3, <3>1, NoJobIsFine DEF Suits
  <2> QED
    BY <1>1, <1>2, <1>4, <2>4, <2>6, <2>7, <2>8, OneSoftens
<1> QED
  BY <1>5, <1>6

\* A preview that failed is over, and the dialog that waits for it reads again.
LEMMA LoadFailedKeeps ==
    ASSUME ApplyInv, NEW o \in Previews, LoadFailed(o)
    PROVE  ApplyInv'
<1>1. form \in FormType
  BY DEF ApplyInv, ApplyTyped
<1>2. /\ job[o].pc = "failed" /\ UNCHANGED <<machine, setting, session, sequence>>
      /\ Become(o, NoJob) /\ Softer(job[o], NoJob)
  BY DEF LoadFailed, worldVars, Softer
<1>3. form.operation = o => form.phase = "preparing" /\ ~form.plan
  BY <1>2, StageOf
<1>4. form.plan <=> form.phase \in {"reviewing", "confirming", "applying", "complete"}
  BY DEF ApplyInv, Phased
<1>5. CASE Heard(o)
  <2>1. form' = [form EXCEPT !.phase = "editing"] /\ form.operation = o
    BY <1>5 DEF LoadFailed, Heard
  <2>2. form' \in FormType /\ form'.plan = form.plan /\ form'.phase = "editing"
        /\ form'.operation = form.operation
    BY <1>1, <2>1 DEF FormType
  <2>3. Suits(form', NoJob)
    BY <2>2, NoJobIsFine DEF Suits
  <2> QED
    BY <1>2, <1>3, <2>1, <2>2, <2>3, NoJobIsFine, OneSoftens
<1>6. CASE ~Heard(o)
  <2>1. form' = form
    BY <1>6 DEF LoadFailed
  <2>2. form.operation = o => Suits(form, NoJob)
    BY <1>3, NoJobIsFine DEF Suits
  <2> QED
    BY <1>1, <1>2, <1>4, <2>1, <2>2, NoJobIsFine, OneSoftens
<1> QED
  BY <1>5, <1>6

\* A job that is told of less is the same job, in the dialog and outside of it.
LEMMA ToldSuits ==
    ASSUME ApplyInv, NEW o \in Previews, job[o].awaited, NEW j \in JobType,
           Softer(job[o], j), j.pc = job[o].pc, j.payload = job[o].payload,
           NEW k \in {j, Kept(j)}, form'.plan = form.plan, form'.operation = form.operation
    PROVE  /\ Softer(job[o], k)
           /\ k.payload /\ k.session = session =>
                 \/ k.pc \in Executing \cup {"loaded"}
                 \/ form'.plan /\ form'.operation = o /\ ~k.consumed
           /\ form.operation = o /\ form'.phase = "applying" => Suits(form', k)
<1>1. Softer(job[o], k) /\ (k = j \/ k = NoJob)
  BY KeptIs
<1>2. NoJob.payload = FALSE /\ NoJob.pc = "none"
  BY DEF NoJob
<1>3. k # NoJob => k.session = job[o].session /\ k.consumed = job[o].consumed
                   /\ k.pc = job[o].pc /\ k.payload = job[o].payload
  BY <1>1 DEF Softer
<1>4. k.payload /\ k.session = session =>
          \/ k.pc \in Executing \cup {"loaded"}
          \/ form'.plan /\ form'.operation = o /\ ~k.consumed
  <2>1. CASE k = NoJob
    BY <1>2, <2>1
  <2>2. CASE k # NoJob
    BY <1>3, <2>2 DEF ApplyInv, Owned
  <2> QED
    BY <2>1, <2>2
<1>5. ASSUME form.operation = o, form'.phase = "applying"
      PROVE  Suits(form', k)
  <2>1. Suits(form, job[o]) /\ form.phase = "applying"
    BY <1>5, StageOf
  <2>2. k.pc \in Executing \cup {"none", "starting", "done"} /\ (k.pc # "none" => k.session = session)
    BY <1>1, <1>2, <1>3, <2>1 DEF Suits
  <2> QED
    BY <1>5, <2>2 DEF Suits
<1> QED
  BY <1>1, <1>4, <1>5

\* The result of a target is shown, or dropped with the rest of them.
LEMMA ApplyTargetShownKeeps ==
    ASSUME ApplyInv, NEW o \in Previews, TargetShown(o)
    PROVE  ApplyInv'
<1>1. job[o] \in JobType /\ form \in FormType
  BY AtWork DEF ApplyInv, ApplyTyped
<1>2. job[o].awaited /\ UNCHANGED <<machine, setting, session, sequence>>
  BY DEF TargetShown, worldVars
<1>3. form.plan <=> form.phase \in {"reviewing", "confirming", "applying", "complete"}
  BY DEF ApplyInv, Phased
<1>4. form.operation = o => form.phase = "applying"
  BY <1>2, StageOf
<1>5. PICK t \in Targets : t = First(PendingItems(job[o])) /\ t \in 0..LastTarget
  <2>1. PendingItems(job[o]) \subseteq Targets /\ PendingItems(job[o]) # {}
    BY <1>1 DEF TargetShown, PendingItems, JobType
  <2>2. Targets \subseteq Nat /\ \A t \in Targets : t \in 0..LastTarget
    BY ConfigurationAssumption DEF Targets
  <2> QED
    BY <2>1, <2>2, FirstIsLeast
<1>6. CASE Heard(o)
  <2>1. PICK j \in JobType : j = [job[o] EXCEPT !.taken = t, !.awaited = TRUE]
    BY <1>1, <1>5 DEF JobType
  <2>2. Become(o, j) /\ form' = [form EXCEPT !.results[t] = job[o].outcome[t]]
    BY <1>5, <1>6, <2>1 DEF TargetShown, AwaitNext
  <2>3. Softer(job[o], j) /\ j.pc = job[o].pc /\ j.payload = job[o].payload
    <3>1. /\ j.session = job[o].session /\ j.targets = job[o].targets /\ j.next = job[o].next
          /\ j.machines = job[o].machines /\ j.settings = job[o].settings
          /\ j.consumed = job[o].consumed /\ j.outcome = job[o].outcome
          /\ j.carried = job[o].carried /\ j.swapped = job[o].swapped
          /\ j.edited = job[o].edited /\ j.pc = job[o].pc /\ j.payload = job[o].payload
      BY <1>1, <2>1 DEF JobType
    <3>2. job[o].pc \in Executing => job[o].payload
      BY AtWork DEF Fits
    <3> QED
      BY <1>2, <3>1, <3>2 DEF Softer
  <2>4. job[o].outcome[t] \in Outcomes
    BY <1>1 DEF JobType
  <2>5. form' \in FormType /\ form'.plan = form.plan /\ form'.phase = form.phase
        /\ form'.operation = form.operation /\ form.operation = o
    BY <1>1, <1>6, <2>2, <2>4 DEF FormType, Heard
  <2>6. /\ j.payload /\ j.session = session =>
              \/ j.pc \in Executing \cup {"loaded"}
              \/ form'.plan /\ form'.operation = o /\ ~j.consumed
        /\ form.operation = o /\ form'.phase = "applying" => Suits(form', j)
    BY <1>2, <2>3, <2>5, ToldSuits
  <2> QED
    <3>1. /\ form'.plan <=> form'.phase \in {"reviewing", "confirming", "applying", "complete"}
          /\ form'.phase # "editing" => form.phase # "editing"
      BY <1>3, <2>5
    <3>2. Suits(form', j)
      BY <1>4, <2>5, <2>6
    <3>3. Become(o, j) /\ Softer(job[o], j) /\ form'.operation = form.operation
          /\ form.operation = o /\ form' \in FormType
      BY <2>2, <2>3, <2>5
    <3> QED
      BY <1>2, <2>6, <3>1, <3>2, <3>3, OneSoftens
<1>7. CASE ~Heard(o)
  <2>1. PICK j \in JobType : j = [job[o] EXCEPT !.taken = 0, !.awaited = FALSE]
    <3>1. 0 \in 0..LastTarget
      BY ConfigurationAssumption
    <3> QED
      BY <1>1, <3>1 DEF JobType
  <2>2. Become(o, Kept(j)) /\ form' = form
    BY <1>7, <2>1 DEF TargetShown
  <2>3. Softer(job[o], j) /\ j.pc = job[o].pc /\ j.payload = job[o].payload
    <3>1. /\ j.session = job[o].session /\ j.targets = job[o].targets /\ j.next = job[o].next
          /\ j.machines = job[o].machines /\ j.settings = job[o].settings
          /\ j.consumed = job[o].consumed /\ j.outcome = job[o].outcome
          /\ j.carried = job[o].carried /\ j.swapped = job[o].swapped
          /\ j.edited = job[o].edited /\ j.pc = job[o].pc /\ j.payload = job[o].payload
          /\ j.awaited = FALSE
      BY <1>1, <2>1 DEF JobType
    <3>2. job[o].pc \in Executing => job[o].payload
      BY AtWork DEF Fits
    <3> QED
      BY <3>1, <3>2 DEF Softer
  <2>4. PICK k : k = Kept(j)
    OBVIOUS
  <2>5. /\ Softer(job[o], k)
        /\ k.payload /\ k.session = session =>
              \/ k.pc \in Executing \cup {"loaded"}
              \/ form'.plan /\ form'.operation = o /\ ~k.consumed
        /\ form.operation = o /\ form'.phase = "applying" => Suits(form', k)
    BY <1>2, <2>2, <2>3, <2>4, ToldSuits
  <2> QED
    BY <1>1, <1>2, <1>3, <1>4, <2>2, <2>4, <2>5, OneSoftens
<1> QED
  BY <1>6, <1>7

\* The end of the results: the dialog that waits for it shows what the call reported.
LEMMA ApplyFinishedKeeps ==
    ASSUME ApplyInv, NEW o \in Previews, ApplyFinished(o)
    PROVE  ApplyInv'
<1>1. job[o] \in JobType /\ form \in FormType
  BY AtWork DEF ApplyInv, ApplyTyped
<1>2. /\ job[o].awaited /\ job[o].pc = "done"
      /\ UNCHANGED <<machine, setting, session, sequence>>
  BY DEF ApplyFinished, Finished, worldVars
<1>3. form.plan <=> form.phase \in {"reviewing", "confirming", "applying", "complete"}
  BY DEF ApplyInv, Phased
<1>4. form.operation = o => form.phase = "applying" /\ job[o].session = session
  BY <1>2, StageOf
<1>5. PICK j \in JobType : j = [job[o] EXCEPT !.awaited = FALSE]
  BY <1>1 DEF JobType
<1>6. /\ Softer(job[o], j) /\ j.pc = job[o].pc /\ j.payload = job[o].payload
      /\ j.awaited = FALSE /\ j.outcome = job[o].outcome /\ j.session = job[o].session
  <2>1. /\ j.session = job[o].session /\ j.targets = job[o].targets /\ j.next = job[o].next
        /\ j.machines = job[o].machines /\ j.settings = job[o].settings
        /\ j.consumed = job[o].consumed /\ j.outcome = job[o].outcome
        /\ j.carried = job[o].carried /\ j.swapped = job[o].swapped
        /\ j.edited = job[o].edited /\ j.pc = job[o].pc /\ j.payload = job[o].payload
        /\ j.awaited = FALSE
    BY <1>1, <1>5 DEF JobType
  <2>2. job[o].pc \in Executing => job[o].payload
    BY AtWork DEF Fits
  <2> QED
    BY <2>1, <2>2 DEF Softer
<1>7. PICK k \in {j, Kept(j)} : k = IF form.operation = o THEN j ELSE Kept(j)
  OBVIOUS
<1>8. Become(o, k)
  BY <1>5, <1>7 DEF ApplyFinished
<1>9. form' = IF Heard(o) THEN [form EXCEPT !.phase = "complete", !.results = job[o].outcome]
                          ELSE form
  BY DEF ApplyFinished
<1>10. /\ form' \in FormType /\ form'.plan = form.plan /\ form'.operation = form.operation
       /\ Heard(o) => form'.phase = "complete" /\ form'.results = job[o].outcome
       /\ ~Heard(o) => form' = form
  BY <1>1, <1>9 DEF FormType, JobType
<1>11. /\ Softer(job[o], k)
       /\ k.payload /\ k.session = session =>
             \/ k.pc \in Executing \cup {"loaded"}
             \/ form'.plan /\ form'.operation = o /\ ~k.consumed
       /\ form.operation = o /\ form'.phase = "applying" => Suits(form', k)
  BY <1>2, <1>6, <1>7, <1>10, ToldSuits
<1>12. form.operation # o => form' = form
  BY <1>9 DEF Heard
<1>13. form.operation = o => Suits(form', k)
  <2>1. CASE Heard(o)
    BY <1>2, <1>4, <1>6, <1>7, <1>10, <2>1 DEF Suits
  <2>2. CASE ~Heard(o)
    BY <1>4, <1>10, <1>11, <2>2
  <2> QED
    BY <2>1, <2>2
<1>14. /\ form'.plan <=> form'.phase \in {"reviewing", "confirming", "applying", "complete"}
       /\ form'.phase # "editing" => form.phase # "editing"
  <2>1. Heard(o) => form.operation = o
    BY DEF Heard
  <2> QED
    BY <1>3, <1>4, <1>10, <2>1
<1> QED
  BY <1>2, <1>8, <1>10, <1>11, <1>12, <1>13, <1>14, OneSoftens

\* A message about a job.
LEMMA MessageKeeps ==
    ASSUME ApplyInv, NEW o \in Previews, Message(o)
    PROVE  ApplyInv'
BY LoadedKeeps, LoadFailedKeeps, ApplyTargetShownKeeps, ApplyFinishedKeeps DEF Message

-----------------------------------------------------------------------------
(* The world and the keys *)

\* A job that watches its targets notes what others change.
LEMMA OthersKeep ==
    ASSUME ApplyInv, NEW t \in Disturbed, Replace(t) \/ Edit(t)
    PROVE  ApplyInv'
<1>1. ApplyTyped /\ Jobs /\ Alone /\ Owned /\ Phased /\ t \in Targets
  BY ConfigurationAssumption DEF ApplyInv, Targets
<1>2. UNCHANGED <<session, form, sequence>>
  BY DEF Replace, Edit
<1>3. machine' \in [Targets -> {0, 1}] /\ setting' \in [Targets -> Nat]
  BY <1>1 DEF Replace, Edit, ApplyTyped
<1>4. \A p \in Previews :
         /\ job'[p] \in JobType
         /\ job'[p].pc = job[p].pc /\ job'[p].session = job[p].session
         /\ job'[p].targets = job[p].targets /\ job'[p].next = job[p].next
         /\ job'[p].machines = job[p].machines /\ job'[p].settings = job[p].settings
         /\ job'[p].payload = job[p].payload /\ job'[p].consumed = job[p].consumed
         /\ job'[p].outcome = job[p].outcome /\ job'[p].carried = job[p].carried
         /\ job'[p].awaited = job[p].awaited
         /\ job[p].swapped \subseteq job'[p].swapped /\ job[p].edited \subseteq job'[p].edited
         /\ Watching(job[p]) => \A u \in Targets :
                /\ machine'[u] = machine[u] \/ u \in job'[p].swapped
                /\ setting'[u] = setting[u] \/ u \in job'[p].edited
  <2> TAKE p \in Previews
  <2>1. job[p] \in JobType
    BY AtWork
  <2>2. CASE Replace(t)
    <3>1. PICK swapped \in SUBSET Targets : swapped = job[p].swapped \cup {t}
      BY <1>1, <2>1 DEF JobType
    <3>2. PICK k \in JobType : k = [job[p] EXCEPT !.swapped = swapped]
      BY <2>1 DEF JobType
    <3>3. job'[p] = IF Watching(job[p]) THEN k ELSE job[p]
      BY <2>2, <3>1, <3>2 DEF Replace
    <3>4. setting' = setting /\ \A u \in Targets : u # t => machine'[u] = machine[u]
      BY <1>1, <2>2 DEF Replace, ApplyTyped
    <3>5. /\ k.pc = job[p].pc /\ k.session = job[p].session /\ k.targets = job[p].targets
          /\ k.next = job[p].next /\ k.machines = job[p].machines
          /\ k.settings = job[p].settings /\ k.payload = job[p].payload
          /\ k.consumed = job[p].consumed /\ k.outcome = job[p].outcome
          /\ k.carried = job[p].carried /\ k.awaited = job[p].awaited
          /\ k.swapped = job[p].swapped \cup {t} /\ k.edited = job[p].edited
      BY <2>1, <3>1, <3>2 DEF JobType
    <3> QED
      BY <2>1, <3>3, <3>4, <3>5
  <2>3. CASE Edit(t)
    <3>1. PICK edited \in SUBSET Targets : edited = job[p].edited \cup {t}
      BY <1>1, <2>1 DEF JobType
    <3>2. PICK k \in JobType : k = [job[p] EXCEPT !.edited = edited]
      BY <2>1 DEF JobType
    <3>3. job'[p] = IF Watching(job[p]) THEN k ELSE job[p]
      BY <2>3, <3>1, <3>2 DEF Edit
    <3>4. machine' = machine /\ \A u \in Targets : u # t => setting'[u] = setting[u]
      BY <1>1, <2>3 DEF Edit, ApplyTyped
    <3>5. /\ k.pc = job[p].pc /\ k.session = job[p].session /\ k.targets = job[p].targets
          /\ k.next = job[p].next /\ k.machines = job[p].machines
          /\ k.settings = job[p].settings /\ k.payload = job[p].payload
          /\ k.consumed = job[p].consumed /\ k.outcome = job[p].outcome
          /\ k.carried = job[p].carried /\ k.awaited = job[p].awaited
          /\ k.edited = job[p].edited \cup {t} /\ k.swapped = job[p].swapped
      BY <2>1, <3>1, <3>2 DEF JobType
    <3> QED
      BY <2>1, <3>3, <3>4, <3>5
  <2> QED
    BY <2>2, <2>3
<1>5. ApplyTyped'
  <2>1. job' = [p \in Previews |-> job'[p]]
    BY DEF Replace, Edit
  <2>2. job' \in [Previews -> JobType]
    BY <1>4, <2>1
  <2> QED
    BY <1>1, <1>2, <1>3, <2>2 DEF ApplyTyped
<1>6. Jobs'
  <2> SUFFICES ASSUME NEW p \in Previews
               PROVE  (JobFine(job[p]) /\ (p > sequence => job[p].pc = "none"))'
    BY DEF Jobs
  <2>1. /\ Fits(job[p]) /\ Reports(job[p]) /\ Rests(job[p], machine, setting)
        /\ job[p].session <= session /\ (p > sequence => job[p].pc = "none")
    BY <1>1 DEF Jobs, JobFine
  <2>2. Fits(job'[p])
    BY <1>4, <2>1 DEF Fits
  <2>3. Reports(job'[p])
    BY <1>4, <2>1 DEF Reports
  <2>4. Rests(job'[p], machine', setting')
    <3> SUFFICES ASSUME Watching(job[p])
                 PROVE  /\ \A u \in job[p].targets :
                               machine'[u] = job[p].machines[u] \/ u \in job'[p].swapped
                        /\ \A u \in Looked(job[p]) :
                               setting'[u] = job[p].settings[u] \/ u \in job'[p].edited
      BY <1>4 DEF Rests, Watching, Looked
    <3>1. job[p].targets \subseteq Targets /\ Looked(job[p]) \subseteq Targets
      BY AtWork DEF Looked, JobType
    <3> QED
      BY <1>4, <2>1, <3>1 DEF Rests
  <2>5. (JobFine(job[p]))'
    BY <1>2, <1>4, <2>1, <2>2, <2>3, <2>4 DEF JobFine
  <2> QED
    BY <1>2, <1>4, <2>1, <2>5
<1>7. Alone'
  BY <1>1, <1>4 DEF Alone
<1>8. Owned'
  BY <1>1, <1>2, <1>4 DEF Owned
<1>9. Phased'
  BY <1>1, <1>2, <1>4 DEF Phased, Suits
<1> QED
  BY <1>5, <1>6, <1>7, <1>8, <1>9 DEF ApplyInv

\* A job is a softer one of itself.
LEMMA Unsoftened ==
    ASSUME ApplyInv, NEW p \in Previews
    PROVE  Softer(job[p], job[p])
BY AtWork DEF Softer, Fits

\* The dialog that is discarded cancels its job and gives up its plan; what it held back
\* of another session stays with that session.
LEMMA DiscardedIs ==
    ASSUME ApplyInv, NEW p \in Previews
    PROVE  /\ Softer(job[p], Discarded[p])
           /\ Discarded[p].payload /\ Discarded[p].session = session =>
                  Discarded[p].pc \in Executing \cup {"loaded"}
           /\ form.operation = p /\ form.plan /\ job[p].pc = "held" => Discarded[p] = NoJob
<1>1. job[p] \in JobType /\ Fits(job[p])
  BY AtWork
<1>2. job[p].payload /\ job[p].session = session =>
          \/ job[p].pc \in Executing \cup {"loaded"}
          \/ form.plan /\ form.operation = p /\ ~job[p].consumed
  BY DEF ApplyInv, Owned
<1>3. CASE p # form.operation
  <2>1. Discarded[p] = job[p]
    BY <1>3 DEF Discarded
  <2> QED
    BY <1>2, <1>3, <2>1, Unsoftened
<1>4. CASE p = form.operation
  <2>1. PICK canceled \in BOOLEAN : canceled = (job[p].canceled \/ Live(job[p]))
    OBVIOUS
  <2>2. PICK j \in JobType : j = [job[p] EXCEPT !.canceled = canceled]
    BY <1>1 DEF JobType
  <2>3. PICK payload \in BOOLEAN :
            payload = (job[p].payload /\ (form.plan => job[p].consumed \/ job[p].session # session))
    OBVIOUS
  <2>4. PICK k \in JobType : k = [j EXCEPT !.payload = payload]
    BY DEF JobType
  <2>5. /\ k.session = job[p].session /\ k.targets = job[p].targets /\ k.next = job[p].next
        /\ k.machines = job[p].machines /\ k.settings = job[p].settings
        /\ k.consumed = job[p].consumed /\ k.outcome = job[p].outcome
        /\ k.carried = job[p].carried /\ k.swapped = job[p].swapped
        /\ k.edited = job[p].edited /\ k.pc = job[p].pc /\ k.awaited = job[p].awaited
        /\ k.payload = payload
    BY <1>1, <2>2, <2>4 DEF JobType
  <2>6. k = IF form.plan THEN Clear(j) ELSE j
    <3>1. j.payload = job[p].payload /\ j.consumed = job[p].consumed /\ j.session = job[p].session
          /\ j.payload \in BOOLEAN
      BY <1>1, <2>2 DEF JobType
    <3>2. CASE form.plan
      <4>1. payload = (j.payload /\ (j.consumed \/ j.session # session))
        BY <2>3, <3>1, <3>2
      <4> QED
        BY <2>4, <3>2, <4>1 DEF Clear
    <3>3. CASE ~form.plan
      <4>1. payload = j.payload
        BY <2>3, <3>1, <3>3
      <4>2. [j EXCEPT !.payload = j.payload] = j
        BY DEF JobType
      <4> QED
        BY <2>4, <3>3, <4>1, <4>2
    <3> QED
      BY <3>2, <3>3
  <2>7. Discarded[p] = Kept(k)
    BY <1>4, <2>1, <2>2, <2>6 DEF Discarded
  <2>8. Softer(job[p], k)
    <3>1. job[p].pc \in Executing => job[p].payload /\ job[p].consumed
      BY <1>1 DEF Fits
    <3> QED
      BY <2>3, <2>5, <3>1 DEF Softer
  <2>9. /\ Softer(job[p], Kept(k))
        /\ Kept(k) = k \/ (Kept(k) = NoJob /\ ~k.payload /\ k.pc \in {"held", "done"})
        /\ k.pc = "held" /\ ~k.payload /\ ~k.awaited => Kept(k) = NoJob
    BY <2>8, KeptIs
  <2>10. k.payload /\ k.session = session => k.pc \in Executing \cup {"loaded"}
    BY <1>2, <2>3, <2>5
  <2>11. ASSUME form.plan, job[p].pc = "held"
         PROVE  Discarded[p] = NoJob
    <3>1. job[p].session = session
      BY <1>4, <2>11, StageOf
    <3>2. ~job[p].consumed /\ ~job[p].awaited
      BY <1>1, <2>11 DEF Fits, Executing
    <3>3. ~payload
      BY <2>3, <2>11, <3>1, <3>2
    <3> QED
      BY <2>5, <2>7, <2>9, <2>11, <3>2, <3>3
  <2>12. Kept(k).payload /\ Kept(k).session = session => Kept(k).pc \in Executing \cup {"loaded"}
    BY <2>9, <2>10, NoJobIsFine
  <2> QED
    BY <2>7, <2>9, <2>11, <2>12
<1> QED
  BY <1>3, <1>4

\* A blank form has no operation, and no plan.
LEMMA BlankSuits == /\ Blank \in FormType /\ Blank.phase = "editing" /\ Blank.operation = 0
                    /\ Blank.plan = FALSE /\ 0 \notin Previews
<1>1. NoOutcome \in [Targets -> Outcomes]
  BY DEF NoOutcome, Outcomes
<1> QED
  BY <1>1 DEF Blank, FormType, Previews

\* The dialog is discarded for a new one, for another view or for another session.
LEMMA DiscardKeeps ==
    ASSUME ApplyInv, OpenDialog \/ CloseDialog \/ SwitchContext
    PROVE  ApplyInv'
<1>1. /\ job' = Discarded /\ form' = Blank /\ UNCHANGED <<machine, setting, sequence>>
      /\ session' = session \/ session' = session + 1
  BY DEF OpenDialog, CloseDialog, SwitchContext, worldVars
<1>2. ApplyTyped /\ Jobs /\ Alone /\ session \in Nat /\ sequence \in 0..MaxPreviews
      /\ MaxPreviews \in Nat
  BY ConfigurationAssumption DEF ApplyInv, ApplyTyped
<1>3. Discarded = [p \in Previews |-> Discarded[p]]
  BY DEF Discarded
<1>4. \A p \in Previews : Softer(job[p], Discarded[p])
  BY DiscardedIs
<1>5. ApplyTyped' /\ Jobs' /\ Alone'
  <2>1. session' \in Nat /\ session' >= session /\ sequence' \in sequence..MaxPreviews
    BY <1>1, <1>2
  <2>2. form' \in FormType
    BY <1>1, BlankSuits
  <2>3. PICK after : after = Discarded
    OBVIOUS
  <2> QED
    BY <1>1, <1>2, <1>3, <1>4, <2>1, <2>2, <2>3, SofterJobs
<1>6. Owned'
  <2> SUFFICES ASSUME NEW p \in Previews, Discarded[p].payload, Discarded[p].session = session'
               PROVE  Discarded[p].pc \in Executing \cup {"loaded"}
    BY <1>1 DEF Owned
  <2>1. Discarded[p].session \in {0, job[p].session} /\ Discarded[p].session # 0
    <3>1. \/ Discarded[p] = NoJob
          \/ Discarded[p].session = job[p].session
      BY DiscardedIs DEF Softer
    <3>2. Discarded[p].session # 0
      BY <1>1, <1>2 DEF ApplyTyped
    <3> QED
      BY <3>1, <3>2, NoJobIsFine
  <2>2. job[p].session <= session /\ job[p].session \in Nat
    BY <1>2 DEF Jobs, JobFine, ApplyTyped, JobType
  <2>3. session' = session
    BY <1>1, <1>2, <2>1, <2>2
  <2> QED
    BY <2>3, DiscardedIs
<1>7. Phased'
  BY <1>1, BlankSuits DEF Phased
<1> QED
  BY <1>5, <1>6, <1>7 DEF ApplyInv

\* A preview is started, under a number of its own.
LEMMA StartPreviewKeeps ==
    ASSUME ApplyInv, NEW targets \in Choices, StartPreview(targets)
    PROVE  ApplyInv'
<1>1. ApplyTyped /\ Jobs /\ Alone /\ session \in Nat /\ sequence \in 0..MaxPreviews
      /\ MaxPreviews \in Nat /\ targets \in SUBSET Targets /\ targets # {}
  BY ConfigurationAssumption DEF ApplyInv, ApplyTyped, Targets
<1>2. /\ sequence < MaxPreviews /\ sequence' = sequence + 1
      /\ UNCHANGED <<machine, setting, session>>
      /\ form' = [Blank EXCEPT !.phase = "preparing", !.operation = sequence + 1]
  BY DEF StartPreview, worldVars
<1>3. PICK o \in Previews : o = sequence + 1
  BY <1>1, <1>2 DEF Previews
<1>4. PICK k \in JobType : k = [NoJob EXCEPT !.pc = "reading", !.session = session, !.targets = targets]
  BY <1>1, NoJobIsFine DEF JobType, Stages
<1>5. /\ k.pc = "reading" /\ k.session = session /\ k.targets = targets
      /\ k.outcome = NoOutcome /\ k.carried = {} /\ k.payload = FALSE
      /\ k.consumed = FALSE /\ k.awaited = FALSE
  BY <1>4 DEF NoJob
<1>6. PICK after : after = [Discarded EXCEPT ![o] = k]
  OBVIOUS
<1>7. job' = after
  BY <1>3, <1>4, <1>6 DEF StartPreview
<1>8. /\ after = [p \in Previews |-> after[p]] /\ after[o] = k
      /\ \A p \in Previews \ {o} : after[p] = Discarded[p]
  BY <1>6 DEF Discarded
<1>9. /\ form' \in FormType /\ form'.phase = "preparing" /\ form'.operation = o
      /\ form'.plan = FALSE
  <2>1. form' = [Blank EXCEPT !.phase = "preparing", !.operation = o] /\ o \in Nat
    BY <1>2, <1>3 DEF Previews
  <2> QED
    BY <2>1, BlankSuits DEF FormType
<1>10. ApplyTyped' /\ Jobs' /\ Alone'
  <2>1. session' \in Nat /\ session' >= session /\ sequence' \in sequence..MaxPreviews
    BY <1>1, <1>2
  <2>2. \A p \in Previews : \/ Softer(job[p], after[p])
                            \/ Begins(after[p]) /\ after[p].session = session' /\ p <= sequence'
    <3> TAKE p \in Previews
    <3>1. CASE p = o
      <4>1. p <= sequence'
        BY <1>1, <1>2, <1>3, <3>1
      <4> QED
        BY <1>1, <1>2, <1>5, <1>8, <3>1, <4>1 DEF Begins
    <3>2. CASE p # o
      BY <1>8, <3>2, DiscardedIs
    <3> QED
      BY <3>1, <3>2
  <2> QED
    BY <1>1, <1>2, <1>7, <1>8, <1>9, <2>1, <2>2, SofterJobs
<1>11. Owned'
  <2> SUFFICES ASSUME NEW p \in Previews, after[p].payload, after[p].session = session
               PROVE  after[p].pc \in Executing \cup {"loaded"}
    BY <1>2, <1>7 DEF Owned
  <2>1. p # o
    BY <1>5, <1>8
  <2> QED
    BY <1>8, <2>1, DiscardedIs
<1>12. Phased'
  <2>1. Suits(form', after[o])
    BY <1>2, <1>5, <1>8, <1>9 DEF Suits
  <2>2. form'.operation = sequence'
    BY <1>2, <1>3, <1>9
  <2> QED
    BY <1>2, <1>7, <1>9, <2>1, <2>2 DEF Phased, Suits
<1> QED
  BY <1>10, <1>11, <1>12 DEF ApplyInv

\* A preview is canceled: what is made from then on has another number.
LEMMA CancelPreviewKeeps ==
    ASSUME ApplyInv, CancelPreview
    PROVE  ApplyInv'
<1>1. ApplyTyped /\ Jobs /\ Alone /\ Owned /\ session \in Nat /\ sequence \in 0..MaxPreviews
      /\ MaxPreviews \in Nat /\ form \in FormType
  BY ConfigurationAssumption DEF ApplyInv, ApplyTyped
<1>2. form.phase = "preparing" /\ UNCHANGED <<machine, setting, session, sequence>>
      /\ form' = [form EXCEPT !.operation = form.operation + 1, !.phase = "editing"]
  BY DEF CancelPreview, Reads, worldVars
<1>3. ~form.plan /\ form.operation = sequence
  BY <1>2 DEF ApplyInv, Phased
<1>4. PICK o \in Previews : o = form.operation
  BY <1>2 DEF ApplyInv, Phased
<1>5. PICK canceled \in BOOLEAN : canceled = Live(job[o])
  <2>1. Live(job[o]) \in BOOLEAN
    BY DEF Live
  <2> QED
    BY <2>1
<1>6. PICK after : after = [job EXCEPT ![o].canceled = canceled]
  OBVIOUS
<1>7. job' = after
  BY <1>4, <1>5, <1>6 DEF CancelPreview
<1>8. /\ after = [p \in Previews |-> after[p]]
      /\ after[o] = [job[o] EXCEPT !.canceled = canceled]
      /\ \A p \in Previews \ {o} : after[p] = job[p]
  BY <1>1, <1>6 DEF ApplyTyped
<1>9. form' \in FormType /\ form'.phase = "editing" /\ form'.plan = FALSE
      /\ form'.operation = sequence + 1
  <2>1. PICK n \in Nat : n = sequence + 1
    BY <1>1
  <2>2. form' = [form EXCEPT !.operation = n, !.phase = "editing"]
    BY <1>2, <1>3, <2>1
  <2>3. form' \in FormType /\ form'.phase = "editing" /\ form'.plan = form.plan
        /\ form'.operation = n
    BY <1>1, <2>2 DEF FormType
  <2>4. form.plan = FALSE
    BY <1>1, <1>3 DEF FormType
  <2> QED
    BY <2>1, <2>3, <2>4
<1>10. \A p \in Previews : /\ Softer(job[p], after[p]) /\ after[p].payload = job[p].payload
                           /\ after[p].session = job[p].session /\ after[p].pc = job[p].pc
  <2> TAKE p \in Previews
  <2>1. CASE p # o
    BY <1>8, <2>1, Unsoftened
  <2>2. CASE p = o
    <3>1. PICK k \in JobType : k = [job[o] EXCEPT !.canceled = canceled]
      BY ZenonT(40), AtWork DEF JobType
    <3>2. /\ k.session = job[o].session /\ k.targets = job[o].targets /\ k.next = job[o].next
          /\ k.machines = job[o].machines /\ k.settings = job[o].settings
          /\ k.consumed = job[o].consumed /\ k.outcome = job[o].outcome
          /\ k.carried = job[o].carried /\ k.swapped = job[o].swapped
          /\ k.edited = job[o].edited /\ k.pc = job[o].pc /\ k.payload = job[o].payload
          /\ k.awaited = job[o].awaited
      BY <3>1, AtWork DEF JobType
    <3>3. Softer(job[o], job[o])
      BY Unsoftened
    <3>4. job[o].pc \in Executing => job[o].payload
      BY AtWork DEF Fits
    <3>5. Softer(job[o], k)
      BY <3>2, <3>4 DEF Softer
    <3> QED
      BY <1>8, <2>2, <3>1, <3>2, <3>5
  <2> QED
    BY <2>1, <2>2
<1>11. ApplyTyped' /\ Jobs' /\ Alone'
  <2>1. session' \in Nat /\ session' >= session /\ sequence' \in sequence..MaxPreviews
    BY <1>1, <1>2
  <2> QED
    BY <1>1, <1>2, <1>7, <1>8, <1>9, <1>10, <2>1, SofterJobs
<1>12. Owned'
  <2>1. \A p \in Previews : job[p].payload /\ job[p].session = session =>
                             job[p].pc \in Executing \cup {"loaded"}
    BY <1>1, <1>3 DEF Owned
  <2> QED
    BY <1>2, <1>7, <1>10, <2>1 DEF Owned
<1>13. Phased'
  <2>1. ASSUME form'.operation \in Previews
        PROVE  after[form'.operation].pc = "none"
    <3>1. form'.operation > sequence
      BY <1>1, <1>9
    <3> QED
      BY <1>1, <1>10, <2>1, <3>1 DEF Jobs
  <2> QED
    BY <1>7, <1>9, <2>1 DEF Phased, Suits
<1> QED
  BY <1>11, <1>12, <1>13 DEF ApplyInv

\* Escape while the plan is reviewed: the plan is given up.
LEMMA EditAgainKeeps ==
    ASSUME ApplyInv, EditAgain
    PROVE  ApplyInv'
<1>1. /\ form.phase = "reviewing" /\ UNCHANGED <<machine, setting, session, sequence>>
      /\ form' = [form EXCEPT !.phase = "editing", !.plan = FALSE] /\ job' = Discarded
  BY DEF EditAgain, Reads, worldVars
<1>2. form \in FormType /\ job \in [Previews -> JobType]
  BY DEF ApplyInv, ApplyTyped
<1>3. PICK o \in Previews : o = form.operation
  BY <1>1 DEF ApplyInv, Phased
<1>4. form.plan /\ job[o].pc = "held"
  BY <1>1, <1>3 DEF ApplyInv, Phased, Suits
<1>5. Become(o, NoJob)
  <2>1. Discarded[o] = NoJob
    BY <1>3, <1>4, DiscardedIs
  <2>2. \A p \in Previews \ {o} : Discarded[p] = job[p]
    BY <1>3 DEF Discarded
  <2>3. Discarded = [p \in Previews |-> Discarded[p]]
    BY DEF Discarded
  <2>4. PICK after : after = Discarded
    OBVIOUS
  <2>5. after = [job EXCEPT ![o] = NoJob]
    BY <1>2, <2>1, <2>2, <2>3, <2>4
  <2> QED
    BY <1>1, <2>4, <2>5 DEF Become
<1>6. form' \in FormType /\ form'.phase = "editing" /\ form'.plan = FALSE
      /\ form'.operation = form.operation
  BY <1>1, <1>2 DEF FormType
<1>7. Suits(form', NoJob)
  BY <1>6, NoJobIsFine DEF Suits
<1>8. Softer(job[o], NoJob)
  BY DEF Softer
<1> QED
  BY <1>1, <1>3, <1>5, <1>6, <1>7, <1>8, NoJobIsFine, OneSoftens

\* The review and the question for the phrase: the plan stays what it is.
LEMMA ReviewKeeps ==
    ASSUME ApplyInv, Review \/ BackToReview
    PROVE  ApplyInv'
<1>1. /\ form.phase \in {"reviewing", "confirming"}
      /\ UNCHANGED <<machine, setting, session, sequence, job>>
      /\ \E phase \in {"reviewing", "confirming"} : form' = [form EXCEPT !.phase = phase]
  BY DEF Review, BackToReview, Reads, worldVars
<1>2. form \in FormType /\ job \in [Previews -> JobType]
  BY DEF ApplyInv, ApplyTyped
<1>3. PICK o \in Previews : o = form.operation
  BY <1>1 DEF ApplyInv, Phased
<1>4. form.plan /\ job[o].pc = "held" /\ job[o].session = session
  BY <1>1, <1>3 DEF ApplyInv, Phased, Suits
<1>5. /\ form' \in FormType /\ form'.phase \in {"reviewing", "confirming"}
      /\ form'.plan = form.plan /\ form'.operation = form.operation
  BY <1>1, <1>2 DEF FormType
<1>6. Become(o, job[o]) /\ Softer(job[o], job[o])
  BY <1>1, <1>2, Unsoftened DEF Become
<1>7. Suits(form', job[o])
  BY <1>4, <1>5 DEF Suits
<1>8. job[o].payload /\ job[o].session = session => ~job[o].consumed
  BY <1>4, AtWork DEF Fits, Executing
<1>9. form'.plan <=> form'.phase \in {"reviewing", "confirming", "applying", "complete"}
  BY <1>4, <1>5
<1>10. form'.operation = o /\ form.operation = o /\ form.phase # "editing" /\ form'.plan
  BY <1>1, <1>3, <1>4, <1>5
<1> QED
  BY <1>1, <1>5, <1>6, <1>7, <1>8, <1>9, <1>10, OneSoftens

\* The phrase was typed: the execution begins, in the session of the plan.
LEMMA StartApplyKeeps ==
    ASSUME ApplyInv, StartApply
    PROVE  ApplyInv'
<1>1. /\ form.phase = "confirming" /\ form.plan
      /\ UNCHANGED <<machine, setting, session, sequence>>
      /\ form' = [form EXCEPT !.phase = "applying", !.results = NoOutcome]
  BY DEF StartApply, Reads, worldVars
<1>2. ApplyTyped /\ Jobs /\ Alone /\ Owned /\ Phased /\ form \in FormType
      /\ job \in [Previews -> JobType]
  BY DEF ApplyInv, ApplyTyped
<1>3. PICK o \in Previews : o = form.operation /\ form.operation = sequence
  BY <1>1, <1>2 DEF Phased
<1>4. job[o].pc = "held" /\ job[o].session = session
  BY <1>1, <1>2, <1>3 DEF Phased, Suits
<1>5. /\ job[o] \in JobType /\ Fits(job[o]) /\ Reports(job[o]) /\ job[o].session <= session
      /\ setting \in [Targets -> Nat]
  BY <1>2, AtWork DEF Jobs, JobFine
<1>6. PICK k \in JobType : k = [job[o] EXCEPT !.pc = "starting", !.awaited = TRUE, !.canceled = FALSE]
  BY <1>5 DEF JobType, Stages
<1>7. /\ k.session = job[o].session /\ k.targets = job[o].targets /\ k.next = job[o].next
      /\ k.machines = job[o].machines /\ k.settings = job[o].settings
      /\ k.consumed = job[o].consumed /\ k.outcome = job[o].outcome
      /\ k.carried = job[o].carried /\ k.swapped = job[o].swapped
      /\ k.edited = job[o].edited /\ k.payload = job[o].payload
      /\ k.pc = "starting"
  BY <1>5, <1>6 DEF JobType
<1>8. Become(o, k)
  BY <1>3, <1>6 DEF StartApply, Become
<1>9. ~k.consumed
  BY <1>4, <1>5, <1>7 DEF Fits, Executing
<1>10. Fits(k)
  BY <1>4, <1>5, <1>7, <1>9 DEF Fits, Executing
<1>11. Reports(k)
  BY <1>4, <1>5, <1>7 DEF Reports
<1>12. Rests(k, machine, setting')
  BY <1>7 DEF Rests, Watching
<1>13. /\ form' \in FormType /\ form'.phase = "applying" /\ form'.plan = form.plan
       /\ form'.operation = form.operation
  <2>1. NoOutcome \in [Targets -> Outcomes]
    BY DEF NoOutcome, Outcomes
  <2> QED
    BY <1>1, <1>2, <2>1 DEF FormType
<1>14. ApplyTyped' /\ Jobs' /\ Alone'
  <2>1. k.pc \notin Executing /\ job[o].pc # "none" /\ k.session <= session
    BY <1>4, <1>5, <1>7 DEF Executing
  <2> QED
    BY <1>1, <1>2, <1>5, <1>8, <1>10, <1>11, <1>12, <1>13, <2>1, JobsStep
<1>15. job'[o] = k /\ \A p \in Previews \ {o} : job'[p] = job[p]
  BY <1>2, <1>8, JobAt
<1>16. Owned'
  <2>1. \A p \in Previews \ {o} : job[p].payload /\ job[p].session = session =>
                                   job[p].pc \in Executing \cup {"loaded"}
    BY <1>2, <1>3 DEF Owned
  <2>2. form'.plan /\ form'.operation = o
    BY <1>1, <1>3, <1>13
  <2> QED
    BY <1>1, <1>9, <1>15, <2>1, <2>2 DEF Owned
<1>17. Phased'
  <2>1. form'.operation = o /\ form'.plan /\ form'.operation = sequence'
    BY <1>1, <1>3, <1>13
  <2>2. k.session = session'
    BY <1>1, <1>4, <1>7
  <2> QED
    BY <1>7, <1>13, <1>15, <2>1, <2>2 DEF Phased, Suits
<1> QED
  BY <1>14, <1>16, <1>17 DEF ApplyInv

\* The running execution is canceled; what it has sent stays sent.
LEMMA CancelApplyKeeps ==
    ASSUME ApplyInv, CancelApply
    PROVE  ApplyInv'
<1>1. form.phase = "applying" /\ UNCHANGED <<machine, setting, session, sequence, form>>
  BY DEF CancelApply, Reads, worldVars
<1>2. form \in FormType /\ job \in [Previews -> JobType]
  BY DEF ApplyInv, ApplyTyped
<1>3. PICK o \in Previews : o = form.operation
  BY <1>1 DEF ApplyInv, Phased
<1>4. PICK k \in JobType : k = [job[o] EXCEPT !.canceled = TRUE]
  BY ZenonT(40), <1>2 DEF JobType
<1>5. /\ k.session = job[o].session /\ k.targets = job[o].targets /\ k.next = job[o].next
      /\ k.machines = job[o].machines /\ k.settings = job[o].settings
      /\ k.consumed = job[o].consumed /\ k.outcome = job[o].outcome
      /\ k.carried = job[o].carried /\ k.swapped = job[o].swapped
      /\ k.edited = job[o].edited /\ k.payload = job[o].payload
      /\ k.pc = job[o].pc /\ k.awaited = job[o].awaited
  BY <1>2, <1>4 DEF JobType
<1>6. Become(o, k)
  BY <1>2, <1>3, <1>4 DEF CancelApply, Become
<1>7. Softer(job[o], k)
  <2>1. job[o].pc \in Executing => job[o].payload
    BY AtWork DEF Fits
  <2> QED
    BY <1>5, <2>1 DEF Softer
<1>8. Suits(form', k)
  <2>1. Suits(form, job[o])
    BY <1>3, StageOf
  <2>2. \/ job[o].pc = "none" 
        \/ job[o].session = session
    BY <1>1, <2>1 DEF Suits
  <2>3. k.pc \in Executing \cup {"none", "starting", "done"}
    BY <1>1, <1>5, <2>1 DEF Suits
  <2> QED
    BY <1>1, <1>5, <2>2, <2>3 DEF Suits
<1>9. k.payload /\ k.session = session =>
          \/ k.pc \in Executing \cup {"loaded"}
          \/ form'.plan /\ form'.operation = o /\ ~k.consumed
  BY <1>1, <1>5 DEF ApplyInv, Owned
<1>10. form'.plan <=> form'.phase \in {"reviewing", "confirming", "applying", "complete"}
  BY <1>1 DEF ApplyInv, Phased
<1> QED
  BY <1>1, <1>2, <1>3, <1>6, <1>7, <1>8, <1>9, <1>10, OneSoftens

\* What is seen of the dialog, and failures elsewhere, are not in the invariant.
LEMMA ViewKeeps ==
    ASSUME ApplyInv, UNCHANGED <<machine, setting, session, form, sequence, job>>
    PROVE  ApplyInv'
BY DEF ApplyInv, ApplyTyped, Jobs, JobFine, Alone, Owned, Phased, Suits

\* A key pressed in the dialog, or elsewhere.
LEMMA DialogKeeps ==
    ASSUME ApplyInv, Dialog
    PROVE  ApplyInv'
<1>1. CASE Leave \/ Cover \/ Uncover
  <2>1. UNCHANGED <<machine, setting, session, form, sequence, job>>
    BY <1>1 DEF Leave, Cover, Uncover, worldVars
  <2> QED
    BY <2>1, ViewKeeps
<1>2. CASE OpenDialog \/ CloseDialog \/ SwitchContext
  BY <1>2, DiscardKeeps
<1>3. CASE \E targets \in Choices : StartPreview(targets)
  BY <1>3, StartPreviewKeeps
<1>4. CASE CancelPreview
  BY <1>4, CancelPreviewKeeps
<1>5. CASE EditAgain
  BY <1>5, EditAgainKeeps
<1>6. CASE Review \/ BackToReview
  BY <1>6, ReviewKeeps
<1>7. CASE StartApply
  BY <1>7, StartApplyKeeps
<1>8. CASE CancelApply
  BY <1>8, CancelApplyKeeps
<1> QED
  BY <1>1, <1>2, <1>3, <1>4, <1>5, <1>6, <1>7, <1>8 DEF Dialog

\* The invariant holds at the start, of a dialog that was never opened.
LEMMA ApplyStarts ==
    ASSUME ConfigurationInit
    PROVE  ApplyInv
<1>1. job = [o \in Previews |-> NoJob] /\ form = Blank /\ session = 1 /\ sequence = 0
      /\ machine = [t \in Targets |-> 0] /\ setting = [t \in Targets |-> 0]
  BY DEF ConfigurationInit
<1>2. \A o \in Previews : job[o] = NoJob
  BY <1>1
<1>3. ApplyTyped
  BY <1>1, NoJobIsFine, BlankSuits, ConfigurationAssumption DEF ApplyTyped
<1>4. Jobs
  BY <1>1, <1>2, NoJobIsFine DEF Jobs, JobFine
<1>5. Alone /\ Owned
  BY <1>2, NoJobIsFine DEF Alone, Owned, Executing
<1>6. Phased
  BY <1>1, BlankSuits DEF Phased
<1> QED
  BY <1>3, <1>4, <1>5, <1>6 DEF ApplyInv

\* In every state the jobs and the dialog are as the invariant says.
THEOREM ApplyInductive == ConfigurationSpec => []ApplyInv
<1>1. ConfigurationInit => ApplyInv
  BY ApplyStarts
<1>2. ApplyInv /\ [ConfigurationNext]_configurationVars => ApplyInv'
  <2> SUFFICES ASSUME ApplyInv, [ConfigurationNext]_configurationVars
               PROVE  ApplyInv'
    OBVIOUS
  <2>1. CASE Dialog
    BY <2>1, DialogKeeps
  <2>2. CASE Others
    BY <2>2, OthersKeep DEF Others
  <2>3. CASE \E o \in Previews : PreviewStep(o) \/ ApplyStep(o) \/ Message(o)
    BY <2>3, PreviewKeeps, ApplyKeeps, MessageKeeps
  <2>4. CASE UNCHANGED configurationVars
    BY <2>4, ViewKeeps DEF configurationVars
  <2> QED
    BY <2>1, <2>2, <2>3, <2>4 DEF ConfigurationNext
<1> QED
  BY <1>1, <1>2, PTL DEF ConfigurationSpec

\* What the operator is told of a target is what became of it: what took the configuration
\* is never called not attempted, what is called accepted took it, and nothing is sent after
\* a target that was not (ExecuteConfiguration, applyConfigurationTarget).
THEOREM OutcomesAreTrue == ConfigurationSpec => []OutcomesTruthful
<1>1. ApplyInv => OutcomesTruthful
  <2> SUFFICES ASSUME ApplyInv
               PROVE  OutcomesTruthful
    OBVIOUS
  <2>1. \A o \in Previews : Reports(job[o])
    BY AtWork
  <2>2. form.phase = "complete" => form.results = job[form.operation].outcome
    BY DEF ApplyInv, Phased, Suits
  <2> QED
    BY <2>1, <2>2 DEF OutcomesTruthful, Reports
<1> QED
  BY <1>1, ApplyInductive, PTL

\* A payload is there while a call needs it, and of the open session only with who holds
\* its plan (DiscardConfiguration and the deferred clear of ExecuteConfiguration).
THEOREM PayloadIsOwned == ConfigurationSpec => []PayloadOwned
<1>1. ApplyInv => PayloadOwned
  <2> SUFFICES ASSUME ApplyInv
               PROVE  PayloadOwned
    OBVIOUS
  <2>1. \A o \in Previews : job[o].pc \in Executing => job[o].payload
    BY AtWork DEF Fits
  <2> QED
    BY <2>1 DEF PayloadOwned, ApplyInv, Owned
<1> QED
  BY <1>1, ApplyInductive, PTL

\* What is sent to a node is what was previewed on it: the same payload, to the same machine
\* and on top of the same configuration, but for what others change after the recheck, and
\* by the one call that holds the lease of the cluster (ExecuteConfiguration).
THEOREM AppliesWhatWasPreviewed == ConfigurationSpec => AppliedAsPreviewed
<1>1. ApplyInv => \A o \in Previews : job[o].pc = "sending" =>
          /\ job[o].payload
          /\ machine[job[o].next] = job[o].machines[job[o].next] \/ job[o].next \in job[o].swapped
          /\ setting[job[o].next] = job[o].settings[job[o].next] \/ job[o].next \in job[o].edited
          /\ \A p \in Previews \ {o} : job[p].pc \notin Executing
  <2> SUFFICES ASSUME ApplyInv, NEW o \in Previews, job[o].pc = "sending"
               PROVE  /\ job[o].payload
                      /\ \/ machine[job[o].next] = job[o].machines[job[o].next]
                         \/ job[o].next \in job[o].swapped
                      /\ \/ setting[job[o].next] = job[o].settings[job[o].next]
                         \/ job[o].next \in job[o].edited
                      /\ \A p \in Previews \ {o} : job[p].pc \notin Executing
    OBVIOUS
  <2>1. job[o] \in JobType /\ job[o].next \in job[o].targets /\ job[o].payload
        /\ job[o].pc \in Executing
    BY AtWork DEF Fits, Executing
  <2>2. job[o].next \in Looked(job[o])
    BY <2>1 DEF Looked, JobType, Targets
  <2>3. \A p \in Previews \ {o} : job[p].pc \notin Executing
    BY <2>1 DEF ApplyInv, Alone
  <2> QED
    BY <2>1, <2>2, <2>3, AtWork DEF Rests, Watching
<1>2. ApplyInv => \A o \in Previews : (job[o].pc = "sending" /\ job'[o].pc = "inflight") =>
          LET j == job[o]
              t == j.next
          IN  /\ j.payload
              /\ machine[t] = j.machines[t] \/ t \in j.swapped
              /\ setting[t] = j.settings[t] \/ t \in j.edited
              /\ \A p \in Previews \ {o} : job[p].pc \notin Executing
  BY <1>1
<1> QED
  BY <1>2, ApplyInductive, PTL DEF AppliedAsPreviewed
=============================================================================
