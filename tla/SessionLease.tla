---------------------------- MODULE SessionLease ----------------------------
(***************************************************************************)
(* Mutation admission of internal/application: sessions, one-shot prepared *)
(* plans, the per-session busy flag and the process-wide registry of       *)
(* clusters being changed (session.go, mutation.go, mutation_registry.go,  *)
(* action_plan.go).                                                        *)
(*                                                                         *)
(* Callers are the goroutines that run an Execute method; any number of    *)
(* them may present any plan to any session at any time, while sessions    *)
(* are closed, parents canceled and deadlines fire.  Everything done under *)
(* one hold of a mutex is one action.                                      *)
(***************************************************************************)
EXTENDS Naturals

CONSTANTS Session, Cluster, Plan, Caller,
          ClusterOf,   \* the cluster a session's adapter talks to
          Writable,    \* sessions opened with Options.WritesEnabled
          NoUID,       \* the empty clusterUID of a session that has not learned it
          NoSession, NoPlan, NoCaller

ASSUME SessionAssumption ==
    /\ ClusterOf \in [Session -> Cluster]
    /\ Writable \subseteq Session
    /\ NoUID \notin Cluster
    /\ NoSession \notin Session
    /\ NoPlan \notin Plan
    /\ NoCaller \notin Caller

VARIABLES
    closed,      \* Session.closed
    lifetimeEnd, \* Session.lifetimeCtx has been canceled
    clusterUID,  \* Session.clusterUID
    busy,        \* Session.mutationBusy
    plan,        \* the preparedState records
    known,       \* mutationRegistry.known; an absent key counts 0
    unknown,     \* mutationRegistry.unknown
    call         \* the Execute calls

vars == <<closed, lifetimeEnd, clusterUID, busy, plan, known, unknown, call>>

Scope == Cluster \cup {NoUID}

\* "reading": a Prepare method has passed its entry checks and reads the facts
\* of the assessment, without any lock.
PlanState == [stage    : {"none", "reading", "ready"},
              upgrade  : BOOLEAN,  \* a Kubernetes upgrade, else a node, service,
                                   \* etcd or configuration action
              session  : Session \cup {NoSession},
              consumed : BOOLEAN,
              blocked  : BOOLEAN]  \* assessment.Blocked # ""

\* "dispatched": the mutation RPC has been sent.  "unwinding": the deferred
\* release is about to run.  "clusterFreed": it has left the registry but not
\* yet cleared mutationBusy.  A refused call goes straight to "returned"; what the
\* operation found, and which error a refusal reports, is left out.
Phase == {"idle", "checking", "dispatched", "unwinding", "clusterFreed", "returned"}

Call == [pc : Phase, session : Session \cup {NoSession}, plan : Plan \cup {NoPlan},
         scope : Scope, timed : BOOLEAN, canceled : BOOLEAN, admitted : BOOLEAN]

IdleCall == [pc |-> "idle", session |-> NoSession, plan |-> NoPlan, scope |-> NoUID,
             timed |-> FALSE, canceled |-> FALSE, admitted |-> FALSE]

NoPlanState == [stage |-> "none", upgrade |-> FALSE, session |-> NoSession, consumed |-> FALSE,
                blocked |-> FALSE]

Init ==
    /\ closed = [s \in Session |-> FALSE]
    /\ lifetimeEnd = [s \in Session |-> FALSE]
    /\ clusterUID = [s \in Session |-> NoUID]
    /\ busy = [s \in Session |-> FALSE]
    /\ plan = [p \in Plan |-> NoPlanState]
    /\ known = [k \in Cluster |-> 0]
    /\ unknown = 0
    /\ call = [c \in Caller |-> IdleCall]

-----------------------------------------------------------------------------
(* Preparing *)

Alive(s) == ~closed[s] /\ ~lifetimeEnd[s]

\* The entry of a Prepare method: operationContext needs a session that is
\* alive, and every one but PrepareKubernetesUpgrade checks writesEnabled.
BeginPrepare(s, p, upgrade) ==
    /\ plan[p].stage = "none"
    /\ Alive(s)
    /\ upgrade \/ s \in Writable
    /\ plan' = [plan EXCEPT ![p] = [@ EXCEPT !.stage = "reading", !.upgrade = upgrade,
                                           !.session = s]]
    /\ UNCHANGED <<closed, lifetimeEnd, clusterUID, busy, known, unknown, call>>

\* PrepareNodeAction, PrepareServiceAction, PrepareEtcdAction and
\* PrepareConfiguration return a plan with what their reads found.  The session
\* may have been closed meanwhile; a failed read just never gets here.
FinishPrepareAction(p) ==
    /\ plan[p].stage = "reading" /\ ~plan[p].upgrade
    /\ \E blocked \in BOOLEAN :
           plan' = [plan EXCEPT ![p] = [@ EXCEPT !.stage = "ready", !.blocked = blocked]]
    /\ UNCHANGED <<closed, lifetimeEnd, clusterUID, busy, known, unknown, call>>

\* The locked end of PrepareKubernetesUpgrade: the session learns the identity
\* of its cluster, possibly while a mutation admitted under the empty scope is
\* still running.  A UID other than the one already learned is refused.
FinishPrepareUpgrade(p) ==
    LET s == plan[p].session IN
    /\ plan[p].stage = "reading" /\ plan[p].upgrade
    /\ Alive(s)
    /\ clusterUID[s] \in {NoUID, ClusterOf[s]}
    /\ clusterUID' = [clusterUID EXCEPT ![s] = ClusterOf[s]]
    /\ plan' = [plan EXCEPT ![p].stage = "ready"]
    /\ UNCHANGED <<closed, lifetimeEnd, busy, known, unknown, call>>

-----------------------------------------------------------------------------
(* Admission *)

\* Mutant: an unidentified cluster looks at nothing that is identified.
UnknownIgnoresKnown(scope) ==
    unknown > 0 \/ (scope # NoUID /\ known[scope] > 0)

\* mutationRegistry.acquire refuses: an operation of unknown cluster excludes
\* every other one, and one of a known cluster excludes its equals.
RegistryBusy(scope) ==
    \/ unknown > 0
    \/ scope = NoUID /\ \E k \in Cluster : known[k] > 0
    \/ scope # NoUID /\ known[scope] > 0

\* The checks of Session.admit.  "confirmed": the confirmation is approved and
\* carries the token, if the assessment requires one.
Admissible(s, p, confirmed) ==
    /\ Alive(s)
    /\ s \in Writable
    /\ plan[p].session = s
    /\ ~plan[p].consumed
    /\ ~plan[p].blocked
    /\ confirmed
    /\ ~busy[s]
    /\ ~RegistryBusy(clusterUID[s])

\* Mutants of the definitions that follow.
SpendNothing(p) == plan
CurrentScope(c) == clusterUID[call[c].session]

\* A plan admits one call (plan.consumed).
Spend(p) == [plan EXCEPT ![p].consumed = TRUE]

\* The scope the release closure captured when the call was admitted.
CapturedScope(c) == call[c].scope

\* mutationRegistry.acquire, success.
Acquire(scope) ==
    /\ known' = IF scope = NoUID THEN known ELSE [known EXCEPT ![scope] = @ + 1]
    /\ unknown' = IF scope = NoUID THEN unknown + 1 ELSE unknown

\* The release closure returned by mutationRegistry.acquire.
ReleaseScope(scope) ==
    /\ known' = IF scope = NoUID THEN known
                ELSE [known EXCEPT ![scope] = IF @ <= 1 THEN 0 ELSE @ - 1]
    /\ unknown' = IF scope = NoUID THEN unknown - 1 ELSE unknown

\* Session.admit lets the call in: it spends the plan, takes the session and
\* the registry entry, and links the operation context to the caller.  Node,
\* service, etcd and configuration actions other than a Talos upgrade run under a
\* deadline, the upgrades under none.
Admit(c, s, p, confirmed, timed) ==
    /\ call[c].pc = "idle"
    /\ plan[p].stage = "ready"
    /\ Admissible(s, p, confirmed)
    /\ timed => ~plan[p].upgrade
    /\ Acquire(clusterUID[s])
    /\ plan' = Spend(p)
    /\ busy' = [busy EXCEPT ![s] = TRUE]
    /\ call' = [call EXCEPT ![c] = [pc |-> "checking", session |-> s, plan |-> p,
                                    scope |-> clusterUID[s], timed |-> timed,
                                    canceled |-> FALSE, admitted |-> TRUE]]
    /\ UNCHANGED <<closed, lifetimeEnd, clusterUID>>

\* Session.admit refuses: nothing of the session, plan or registry changes.
Refuse(c, s, p, confirmed) ==
    /\ call[c].pc = "idle"
    /\ plan[p].stage = "ready"
    /\ ~Admissible(s, p, confirmed)
    /\ call' = [call EXCEPT ![c].pc = "returned"]
    /\ UNCHANGED <<closed, lifetimeEnd, clusterUID, busy, plan, known, unknown>>

-----------------------------------------------------------------------------
(* The admitted operation *)

\* The recheck of the facts fails (capability, assessment changed, blocked, or
\* the operation context has ended): the call returns without an RPC.
AbandonCheck(c) ==
    /\ call[c].pc = "checking"
    /\ call' = [call EXCEPT ![c].pc = "unwinding"]
    /\ UNCHANGED <<closed, lifetimeEnd, clusterUID, busy, plan, known, unknown>>

\* The recheck holds and operationCtx.Err() was nil: the RPC goes out.
Dispatch(c) ==
    /\ call[c].pc = "checking"
    /\ ~call[c].canceled
    /\ call' = [call EXCEPT ![c].pc = "dispatched"]
    /\ UNCHANGED <<closed, lifetimeEnd, clusterUID, busy, plan, known, unknown>>

\* The RPC returns.
RpcReturns(c) ==
    /\ call[c].pc = "dispatched"
    /\ call' = [call EXCEPT ![c].pc = "unwinding"]
    /\ UNCHANGED <<closed, lifetimeEnd, clusterUID, busy, plan, known, unknown>>

\* release(), first half: cancel the operation context and leave the registry
\* under the scope captured at admission.
FreeCluster(c) ==
    /\ call[c].pc = "unwinding"
    /\ ReleaseScope(CapturedScope(c))
    /\ call' = [call EXCEPT ![c] = [@ EXCEPT !.pc = "clusterFreed", !.canceled = TRUE]]
    /\ UNCHANGED <<closed, lifetimeEnd, clusterUID, busy, plan>>

\* release(), second half: clear mutationBusy under the session mutex.
FreeSession(c) ==
    /\ call[c].pc = "clusterFreed"
    /\ busy' = [busy EXCEPT ![call[c].session] = FALSE]
    /\ call' = [call EXCEPT ![c].pc = "returned"]
    /\ UNCHANGED <<closed, lifetimeEnd, clusterUID, plan, known, unknown>>

-----------------------------------------------------------------------------
(* Contexts and closing *)

Running(c) == call[c].pc \in {"checking", "dispatched"}

CancelCall(c) ==
    /\ Running(c) /\ ~call[c].canceled
    /\ call' = [call EXCEPT ![c].canceled = TRUE]
    /\ UNCHANGED <<closed, lifetimeEnd, clusterUID, busy, plan, known, unknown>>

\* The caller cancels the context it passed to Execute.
CallerCancels(c) == CancelCall(c)

\* Mutant of the two that follow: nothing ever cancels the operation context.
NeverLinked(c) == FALSE

\* The deadline given to operationContextLocked expires.
DeadlineExpires(c) == call[c].timed /\ CancelCall(c)

\* context.AfterFunc(lifetimeCtx, cancel): a goroutine of its own, some time
\* after the lifetime ended.
LifetimeReaches(c) ==
    /\ Running(c)
    /\ lifetimeEnd[call[c].session]
    /\ CancelCall(c)

\* Session.Close, under the mutex (closeOnce).  Called by the owner, or by the
\* AfterFunc that Client.Open registered on the lifetime.
CloseMarks(s) ==
    /\ ~closed[s]
    /\ closed' = [closed EXCEPT ![s] = TRUE]
    /\ UNCHANGED <<lifetimeEnd, clusterUID, busy, plan, known, unknown, call>>

\* Session.Close calls lifetimeCancel after unlocking.
CloseEndsLifetime(s) ==
    /\ closed[s] /\ ~lifetimeEnd[s]
    /\ lifetimeEnd' = [lifetimeEnd EXCEPT ![s] = TRUE]
    /\ UNCHANGED <<closed, clusterUID, busy, plan, known, unknown, call>>

\* The parent context of the session is canceled.
ParentCancels(s) ==
    /\ ~lifetimeEnd[s]
    /\ lifetimeEnd' = [lifetimeEnd EXCEPT ![s] = TRUE]
    /\ UNCHANGED <<closed, clusterUID, busy, plan, known, unknown, call>>

-----------------------------------------------------------------------------
Next ==
    \/ \E s \in Session, p \in Plan :
           \/ \E upgrade \in BOOLEAN : BeginPrepare(s, p, upgrade)
           \/ \E c \in Caller, confirmed \in BOOLEAN :
                  \/ \E timed \in BOOLEAN : Admit(c, s, p, confirmed, timed)
                  \/ Refuse(c, s, p, confirmed)
    \/ \E p \in Plan : FinishPrepareAction(p) \/ FinishPrepareUpgrade(p)
    \/ \E c \in Caller :
           \/ AbandonCheck(c) \/ Dispatch(c) \/ RpcReturns(c)
           \/ FreeCluster(c) \/ FreeSession(c)
           \/ CallerCancels(c) \/ DeadlineExpires(c) \/ LifetimeReaches(c)
    \/ \E s \in Session : CloseMarks(s) \/ CloseEndsLifetime(s) \/ ParentCancels(s)

Spec == Init /\ [][Next]_vars

\* The reads of the recheck carry unaryReadTimeout, a canceled RPC returns,
\* timers fire, AfterFunc callbacks run and deferred releases run.  An RPC
\* whose context is never canceled may hang, and nobody has to cancel or close.
\* Client.Open runs Session.Close when the lifetime ends.
Fairness ==
    /\ \A c \in Caller :
           /\ WF_vars(AbandonCheck(c) \/ Dispatch(c))
           /\ WF_vars(call[c].canceled /\ RpcReturns(c))
           /\ WF_vars(FreeCluster(c))
           /\ WF_vars(FreeSession(c))
           /\ WF_vars(DeadlineExpires(c))
           /\ WF_vars(LifetimeReaches(c))
    /\ \A s \in Session :
           /\ WF_vars(CloseEndsLifetime(s))
           /\ WF_vars(lifetimeEnd[s] /\ CloseMarks(s))

FairSpec == Spec /\ Fairness

-----------------------------------------------------------------------------
(* Properties *)

TypeOK ==
    /\ closed \in [Session -> BOOLEAN]
    /\ lifetimeEnd \in [Session -> BOOLEAN]
    /\ clusterUID \in [Session -> Scope]
    /\ busy \in [Session -> BOOLEAN]
    /\ plan \in [Plan -> PlanState]
    /\ known \in [Cluster -> Nat]
    /\ unknown \in Nat
    /\ call \in [Caller -> Call]

\* The calls that hold a registry entry, and those that keep their session busy.
HoldsCluster(c) == call[c].pc \in {"checking", "dispatched", "unwinding"}
HoldsSession(c) == HoldsCluster(c) \/ call[c].pc = "clusterFreed"

\* Two mutations never run at once against one cluster, whichever sessions they
\* came through and whether or not these sessions knew which cluster it was when
\* the mutation was admitted (session A may learn its UID while a mutation of A
\* runs under the empty scope).
ClusterExclusion ==
    \A c, d \in Caller :
        /\ c # d /\ HoldsCluster(c) /\ HoldsCluster(d)
        => ClusterOf[call[c].session] # ClusterOf[call[d].session]

\* The counts of the registry are exactly the entries its holders will release:
\* no entry leaks (the cluster would be refused for ever), none is released twice
\* or under another scope than it was taken.
RegistryExact ==
    /\ \A k \in Cluster : known[k] = IF \E c \in Caller : HoldsCluster(c) /\ call[c].scope = k
                                     THEN 1 ELSE 0
    /\ unknown = IF \E c \in Caller : HoldsCluster(c) /\ call[c].scope = NoUID THEN 1 ELSE 0

\* A mutation of an unidentified cluster runs alone in the process.
UnknownRunsAlone ==
    \A c, d \in Caller :
        c # d /\ HoldsCluster(c) /\ HoldsCluster(d) => call[c].scope # NoUID

\* mutationBusy is set exactly while one call of the session is between its
\* admission and the end of its release.
BusyExact ==
    /\ \A s \in Session : busy[s] <=> \E c \in Caller : HoldsSession(c) /\ call[c].session = s
    /\ \A c, d \in Caller : c # d /\ HoldsSession(c) /\ HoldsSession(d)
                            => call[c].session # call[d].session

\* A prepared plan admits at most one call, through any copy of it and any number
\* of concurrent Execute calls, whatever became of the first one.
OneShotPlans ==
    /\ \A c \in Caller : call[c].admitted => plan[call[c].plan].consumed
    /\ \A c, d \in Caller : c # d /\ call[c].admitted /\ call[d].admitted
                            => call[c].plan # call[d].plan

\* What runs was approved: the plan of an admitted call belongs to its session,
\* was not blocked, and its session may write.  The inductive invariant needs it.
AdmittedLegitimately ==
    \A c \in Caller : call[c].admitted =>
        /\ plan[call[c].plan].stage = "ready"
        /\ plan[call[c].plan].session = call[c].session
        /\ ~plan[call[c].plan].blocked
        /\ call[c].session \in Writable

\* No mutation keeps its session or its cluster for ever, even against a node
\* that never answers and with a caller that never cancels: closing the session,
\* or canceling its parent, ends its mutation and frees the session for good, and
\* a mutation admitted with a timeout returns.
MutationsDrain ==
    /\ \A s \in Session :
          closed[s] \/ lifetimeEnd[s] ~> [](closed[s] /\ lifetimeEnd[s] /\ ~busy[s])
    /\ \A c \in Caller : call[c].timed ~> call[c].pc = "returned"

\* The operation changing cluster k, for the abstract specification.
Holder(k) ==
    IF \E c \in Caller : HoldsCluster(c) /\ ClusterOf[call[c].session] = k
    THEN CHOOSE c \in Caller : HoldsCluster(c) /\ ClusterOf[call[c].session] = k
    ELSE NoCaller

Lease == INSTANCE ClusterLease WITH
    holder <- [k \in Cluster |-> Holder(k)],
    spent  <- {p \in Plan : plan[p].consumed}

\* The sessions, their flags and the registry implement the lease per cluster.
ImplementsLease == Lease!LeaseSpec
=============================================================================
