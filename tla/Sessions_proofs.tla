---------------------------- MODULE Sessions_proofs --------------------------
(***************************************************************************)
(* For any number of sessions, clusters, plans and concurrent calls: the   *)
(* types, the exclusion of mutations per cluster, the exactness of the     *)
(* registry and of the busy flags, the one-shot plans, and the refinement  *)
(* of ClusterLease.  For any number of opens, however their answers, the   *)
(* operator's switches, the end of the program and its two cleanups        *)
(* interleave: no session is lost and none is closed twice.                *)
(***************************************************************************)
EXTENDS SessionLease, SessionSwitch, TLAPS


\* What a call carries: an admitted call has the session and the plan it was
\* admitted with, under the scope its session knew then.
CallsWellFormed ==
    \A c \in Caller :
        /\ call[c].pc = "idle" => ~call[c].admitted
        /\ HoldsSession(c) => call[c].admitted
        /\ call[c].admitted => /\ call[c].session \in Session
                               /\ call[c].plan \in Plan
                               /\ call[c].scope \in {NoUID, ClusterOf[call[c].session]}

\* A session learns no other UID than that of its cluster.
UIDsTrue == \A s \in Session : clusterUID[s] \in {NoUID, ClusterOf[s]}

\* Scopes of simultaneous holders differ, and none is the empty one.
ScopesExclusive ==
    \A c, d \in Caller :
        c # d /\ HoldsCluster(c) /\ HoldsCluster(d)
        => call[c].scope # NoUID /\ call[c].scope # call[d].scope

\* A plan that is being prepared or is ready has a session.
PlansOwned == \A p \in Plan : plan[p].stage # "none" => plan[p].session \in Session

IInv ==
    /\ TypeOK
    /\ CallsWellFormed
    /\ UIDsTrue
    /\ PlansOwned
    /\ ScopesExclusive
    /\ RegistryExact
    /\ BusyExact
    /\ OneShotPlans
    /\ AdmittedLegitimately

-----------------------------------------------------------------------------
(* Lemmas *)

\* Every action that moves one call along leaves the table of calls well typed.
LEMMA CallStep ==
    ASSUME TypeOK, NEW c \in Caller, NEW r \in Call,
           call' = [call EXCEPT ![c] = r]
    PROVE  call' \in [Caller -> Call]
  BY DEF TypeOK

\* What a step that neither admits nor releases keeps of every call.
SameHolders ==
    \A c \in Caller :
        /\ HoldsCluster(c)' = HoldsCluster(c)
        /\ HoldsSession(c)' = HoldsSession(c)
        /\ call'[c].admitted = call[c].admitted
        /\ call'[c].session = call[c].session
        /\ call'[c].plan = call[c].plan
        /\ call'[c].scope = call[c].scope
        /\ call'[c].pc = "idle" => call[c].pc = "idle"

\* Such a step preserves the invariant if it leaves plans, registry, identities
\* and busy flags alone.
LEMMA HoldersKept ==
    ASSUME IInv, SameHolders, call' \in [Caller -> Call],
           closed' \in [Session -> BOOLEAN], lifetimeEnd' \in [Session -> BOOLEAN],
           UNCHANGED <<clusterUID, busy, plan, known, unknown>>
    PROVE  IInv'
<1>1. TypeOK'
  BY DEF IInv, TypeOK
<1>2. CallsWellFormed'
  BY DEF IInv, SameHolders, CallsWellFormed
<1>3. UIDsTrue' /\ PlansOwned'
  BY DEF IInv, UIDsTrue, PlansOwned
<1>4. ScopesExclusive'
  BY DEF IInv, SameHolders, ScopesExclusive
<1>5. RegistryExact'
  BY DEF IInv, SameHolders, RegistryExact
<1>6. BusyExact'
  BY DEF IInv, SameHolders, BusyExact
<1>7. OneShotPlans'
  BY DEF IInv, SameHolders, OneShotPlans
<1>8. AdmittedLegitimately'
  BY DEF IInv, SameHolders, AdmittedLegitimately
<1> QED
  BY <1>1, <1>2, <1>3, <1>4, <1>5, <1>6, <1>7, <1>8 DEF IInv

\* Preparing a plan preserves the invariant: it may change a plan that has
\* admitted nothing, and teach its session its own cluster.
LEMMA PlanStep ==
    ASSUME IInv, NEW p \in Plan, NEW r \in PlanState,
           plan[p].stage # "ready", plan' = [plan EXCEPT ![p] = r],
           r.consumed = plan[p].consumed, r.session \in Session,
           clusterUID' \in [Session -> Scope],
           \A s \in Session : clusterUID'[s] \in {clusterUID[s], ClusterOf[s]},
           UNCHANGED <<closed, lifetimeEnd, busy, known, unknown, call>>
    PROVE  IInv'
<1>1. TypeOK'
  BY DEF IInv, TypeOK
<1>2. CallsWellFormed'
  BY DEF IInv, CallsWellFormed, HoldsSession, HoldsCluster
<1>3. UIDsTrue'
  BY DEF IInv, UIDsTrue
<1>4. PlansOwned'
  BY DEF IInv, PlansOwned, TypeOK
<1>5. ScopesExclusive'
  BY DEF IInv, ScopesExclusive, HoldsCluster
<1>6. RegistryExact'
  BY DEF IInv, RegistryExact, HoldsCluster
<1>7. BusyExact'
  BY DEF IInv, BusyExact, HoldsSession, HoldsCluster
<1>8. \A c \in Caller : call[c].admitted => call[c].plan # p /\ call[c].plan \in Plan
  BY DEF IInv, AdmittedLegitimately, CallsWellFormed
<1>9. OneShotPlans'
  BY <1>8 DEF IInv, OneShotPlans, TypeOK
<1>10. AdmittedLegitimately'
  BY <1>8 DEF IInv, AdmittedLegitimately, TypeOK
<1> QED
  BY <1>1, <1>2, <1>3, <1>4, <1>5, <1>6, <1>7, <1>9, <1>10 DEF IInv

-----------------------------------------------------------------------------
(* The steps that admit and release *)

\* Admission takes a free scope, a free session and a fresh plan.
LEMMA AdmitStep ==
    ASSUME IInv, NEW c \in Caller, NEW s \in Session, NEW p \in Plan,
           NEW confirmed \in BOOLEAN, NEW timed \in BOOLEAN,
           Admit(c, s, p, confirmed, timed)
    PROVE  IInv'
<1> DEFINE r == [pc |-> "checking", session |-> s, plan |-> p, scope |-> clusterUID[s],
                 timed |-> timed, canceled |-> FALSE, admitted |-> TRUE]
<1>1. /\ call' = [call EXCEPT ![c] = r] /\ r \in Call
      /\ call' \in [Caller -> Call]
  <2>1. r \in Call
    BY DEF IInv, TypeOK, Call, Phase
  <2> QED
    BY <2>1, CallStep DEF Admit, IInv
<1>2. /\ call'[c] = r
      /\ \A d \in Caller : d # c => call'[d] = call[d]
      /\ ~HoldsSession(c) /\ ~HoldsCluster(c) /\ ~call[c].admitted
  BY <1>1 DEF IInv, TypeOK, Admit, CallsWellFormed, HoldsSession, HoldsCluster
<1>3. /\ HoldsCluster(c)' /\ HoldsSession(c)'
      /\ \A d \in Caller : d # c => /\ HoldsCluster(d)' = HoldsCluster(d)
                                    /\ HoldsSession(d)' = HoldsSession(d)
  BY <1>2 DEF HoldsCluster, HoldsSession
<1>4. /\ ~busy[s] /\ ~plan[p].consumed /\ ~RegistryBusy(clusterUID[s])
      /\ plan[p].session = s /\ ~plan[p].blocked /\ s \in Writable
      /\ plan[p].stage = "ready"
  BY DEF Admit, Admissible
<1>5. /\ plan' = [plan EXCEPT ![p].consumed = TRUE]
      /\ busy' = [busy EXCEPT ![s] = TRUE]
      /\ UNCHANGED <<closed, lifetimeEnd, clusterUID>>
  BY DEF Admit, Spend
<1>6. /\ known' = IF clusterUID[s] = NoUID THEN known
                  ELSE [known EXCEPT ![clusterUID[s]] = @ + 1]
      /\ unknown' = IF clusterUID[s] = NoUID THEN unknown + 1 ELSE unknown
  BY DEF Admit, Acquire
<1>7. /\ unknown = 0
      /\ clusterUID[s] = NoUID => \A k \in Cluster : known[k] = 0
      /\ clusterUID[s] # NoUID => clusterUID[s] \in Cluster /\ known[clusterUID[s]] = 0
  BY <1>4, SessionAssumption DEF RegistryBusy, IInv, TypeOK, Scope
<1>8. \A d \in Caller : HoldsCluster(d) =>
          call[d].scope # NoUID /\ clusterUID[s] # NoUID /\ call[d].scope # clusterUID[s]
  <2> SUFFICES ASSUME NEW d \in Caller, HoldsCluster(d)
               PROVE  call[d].scope # NoUID /\ clusterUID[s] # NoUID
                      /\ call[d].scope # clusterUID[s]
    OBVIOUS
  <2>1. call[d].scope \in Scope
    BY DEF IInv, TypeOK, Call
  <2>2. call[d].scope # NoUID
    BY <1>7 DEF IInv, RegistryExact
  <2>3. call[d].scope \in Cluster /\ known[call[d].scope] = 1
    BY <2>1, <2>2 DEF IInv, RegistryExact, Scope
  <2> QED
    BY <1>7, <2>2, <2>3
<1>9. TypeOK'
  <2>1. plan' \in [Plan -> PlanState]
    BY ZenonT(40), <1>5 DEF IInv, TypeOK, PlanState
  <2>2. busy' \in [Session -> BOOLEAN]
    BY <1>5 DEF IInv, TypeOK
  <2>3. known' \in [Cluster -> Nat] /\ unknown' \in Nat
    BY <1>6, <1>7 DEF IInv, TypeOK
  <2> QED
    BY <1>1, <1>5, <2>1, <2>2, <2>3 DEF IInv, TypeOK
<1>10. CallsWellFormed'
  BY <1>2, <1>3 DEF IInv, CallsWellFormed, UIDsTrue
<1>11. UIDsTrue' /\ PlansOwned'
  BY <1>4, <1>5 DEF IInv, UIDsTrue, PlansOwned, TypeOK, PlanState
<1>12. ScopesExclusive'
  BY <1>2, <1>3, <1>8 DEF IInv, ScopesExclusive
<1>13. RegistryExact'
  <2>1. ASSUME NEW k \in Cluster
        PROVE  known'[k] = IF \E d \in Caller : HoldsCluster(d)' /\ call'[d].scope = k
                           THEN 1 ELSE 0
    <3>1. CASE clusterUID[s] = k
      BY <1>2, <1>3, <1>6, <1>7, <3>1, SessionAssumption DEF IInv, TypeOK
    <3>2. CASE clusterUID[s] # k
      <4>1. known'[k] = known[k]
        BY <1>6, <1>7, <3>2 DEF IInv, TypeOK
      <4>2. (\E d \in Caller : HoldsCluster(d)' /\ call'[d].scope = k)
            <=> (\E d \in Caller : HoldsCluster(d) /\ call[d].scope = k)
        BY <1>2, <1>3, <3>2
      <4> QED
        BY <4>1, <4>2 DEF IInv, RegistryExact
    <3> QED
      BY <3>1, <3>2
  <2>2. unknown' = IF \E d \in Caller : HoldsCluster(d)' /\ call'[d].scope = NoUID
                   THEN 1 ELSE 0
    <3>1. CASE clusterUID[s] = NoUID
      BY <1>2, <1>3, <1>6, <1>7, <3>1
    <3>2. CASE clusterUID[s] # NoUID
      BY <1>2, <1>3, <1>6, <1>7, <1>8, <3>2
    <3> QED
      BY <3>1, <3>2
  <2> QED
    BY <2>1, <2>2 DEF RegistryExact
<1>14. BusyExact'
  <2>1. \A d \in Caller : HoldsSession(d) => call[d].session # s
    BY <1>4 DEF IInv, BusyExact
  <2>2. \A t \in Session : busy'[t] <=> \E d \in Caller : HoldsSession(d)' /\ call'[d].session = t
    BY <1>2, <1>3, <1>5 DEF IInv, BusyExact, TypeOK
  <2> QED
    BY <1>2, <1>3, <2>1, <2>2 DEF IInv, BusyExact
<1>15. OneShotPlans'
  <2>1. \A d \in Caller : call[d].admitted => call[d].plan \in Plan /\ call[d].plan # p
    BY <1>4 DEF IInv, OneShotPlans, CallsWellFormed
  <2>2. plan'[p].consumed /\ \A q \in Plan : q # p => plan'[q] = plan[q]
    BY <1>5 DEF IInv, TypeOK, PlanState
  <2> QED
    BY <1>2, <2>1, <2>2 DEF IInv, OneShotPlans
<1>16. AdmittedLegitimately'
  <2>1. \A q \in Plan : /\ plan'[q].stage = plan[q].stage
                        /\ plan'[q].session = plan[q].session
                        /\ plan'[q].blocked = plan[q].blocked
    BY <1>5 DEF IInv, TypeOK, PlanState
  <2> QED
    BY <1>2, <1>4, <2>1 DEF IInv, AdmittedLegitimately, CallsWellFormed
<1> QED
  BY <1>9, <1>10, <1>11, <1>12, <1>13, <1>14, <1>15, <1>16 DEF IInv

\* The first half of a release gives back exactly the entry taken at admission.
LEMMA FreeClusterStep ==
    ASSUME IInv, NEW c \in Caller, FreeCluster(c)
    PROVE  IInv'
<1> DEFINE r == [call[c] EXCEPT !.pc = "clusterFreed", !.canceled = TRUE]
           sc == call[c].scope
<1>1. call' = [call EXCEPT ![c] = r] /\ call' \in [Caller -> Call]
  <2>1. r \in Call
    BY ZenonT(40) DEF IInv, TypeOK, Call, Phase
  <2> QED
    BY <2>1, CallStep DEF FreeCluster, IInv
<1>2. /\ \A d \in Caller : d # c => call'[d] = call[d]
      /\ call'[c].pc = "clusterFreed"
      /\ \A d \in Caller : /\ call'[d].admitted = call[d].admitted
                           /\ call'[d].session = call[d].session
                           /\ call'[d].plan = call[d].plan
                           /\ call'[d].scope = call[d].scope
                           /\ call'[d].pc = "idle" => call[d].pc = "idle"
  BY <1>1 DEF IInv, TypeOK, Call
<1>3. /\ HoldsCluster(c) /\ ~HoldsCluster(c)'
      /\ \A d \in Caller : d # c => HoldsCluster(d)' = HoldsCluster(d)
      /\ \A d \in Caller : HoldsSession(d)' = HoldsSession(d)
  BY <1>2 DEF HoldsCluster, HoldsSession, FreeCluster
<1>4. UNCHANGED <<closed, lifetimeEnd, clusterUID, busy, plan>>
  BY DEF FreeCluster
<1>5. /\ known' = IF sc = NoUID THEN known
                  ELSE [known EXCEPT ![sc] = IF @ <= 1 THEN 0 ELSE @ - 1]
      /\ unknown' = IF sc = NoUID THEN unknown - 1 ELSE unknown
  BY DEF FreeCluster, ReleaseScope, CapturedScope
<1>6. /\ sc = NoUID => unknown = 1
      /\ sc # NoUID => sc \in Cluster /\ known[sc] = 1
  BY <1>3 DEF IInv, RegistryExact, TypeOK, Call, Scope
<1>7. \A d \in Caller : d # c /\ HoldsCluster(d) => call[d].scope # sc
  BY <1>3 DEF IInv, ScopesExclusive
<1>8. TypeOK'
  <2>1. known' \in [Cluster -> Nat] /\ unknown' \in Nat
    BY <1>5, <1>6 DEF IInv, TypeOK
  <2> QED
    BY <1>1, <1>4, <2>1 DEF IInv, TypeOK
<1>9. CallsWellFormed'
  BY <1>2, <1>3 DEF IInv, CallsWellFormed
<1>10. UIDsTrue' /\ PlansOwned'
  BY <1>4 DEF IInv, UIDsTrue, PlansOwned
<1>11. ScopesExclusive'
  BY <1>2, <1>3 DEF IInv, ScopesExclusive
<1>12. RegistryExact'
  <2>1. ASSUME NEW k \in Cluster
        PROVE  known'[k] = IF \E d \in Caller : HoldsCluster(d)' /\ call'[d].scope = k
                           THEN 1 ELSE 0
    <3>1. CASE sc = k
      BY <1>2, <1>3, <1>5, <1>6, <1>7, <3>1, SessionAssumption DEF IInv, TypeOK
    <3>2. CASE sc # k
      <4>1. known'[k] = known[k]
        BY <1>5, <1>6, <3>2 DEF IInv, TypeOK
      <4>2. (\E d \in Caller : HoldsCluster(d)' /\ call'[d].scope = k)
            <=> (\E d \in Caller : HoldsCluster(d) /\ call[d].scope = k)
        BY <1>2, <1>3, <3>2
      <4> QED
        BY <4>1, <4>2 DEF IInv, RegistryExact
    <3> QED
      BY <3>1, <3>2
  <2>2. unknown' = IF \E d \in Caller : HoldsCluster(d)' /\ call'[d].scope = NoUID
                   THEN 1 ELSE 0
    <3>1. CASE sc = NoUID
      BY <1>2, <1>3, <1>5, <1>6, <1>7, <3>1
    <3>2. CASE sc # NoUID
      BY <1>2, <1>3, <1>5, <3>2 DEF IInv, RegistryExact
    <3> QED
      BY <3>1, <3>2
  <2> QED
    BY <2>1, <2>2 DEF RegistryExact
<1>13. BusyExact'
  BY <1>2, <1>3, <1>4 DEF IInv, BusyExact
<1>14. OneShotPlans' /\ AdmittedLegitimately'
  BY <1>2, <1>4 DEF IInv, OneShotPlans, AdmittedLegitimately
<1> QED
  BY <1>8, <1>9, <1>10, <1>11, <1>12, <1>13, <1>14 DEF IInv

\* The second half clears the flag of a session nobody else holds.
LEMMA FreeSessionStep ==
    ASSUME IInv, NEW c \in Caller, FreeSession(c)
    PROVE  IInv'
<1> DEFINE r == [call[c] EXCEPT !.pc = "returned"]
           s == call[c].session
<1>1. call' = [call EXCEPT ![c] = r] /\ call' \in [Caller -> Call]
  <2>1. r \in Call
    BY DEF IInv, TypeOK, Call, Phase
  <2> QED
    BY <2>1, CallStep DEF FreeSession, IInv
<1>2. /\ \A d \in Caller : d # c => call'[d] = call[d]
      /\ call'[c].pc = "returned"
      /\ \A d \in Caller : /\ call'[d].admitted = call[d].admitted
                           /\ call'[d].session = call[d].session
                           /\ call'[d].plan = call[d].plan
                           /\ call'[d].scope = call[d].scope
                           /\ call'[d].pc = "idle" => call[d].pc = "idle"
  BY <1>1 DEF IInv, TypeOK, Call
<1>3. /\ HoldsSession(c) /\ ~HoldsSession(c)'
      /\ \A d \in Caller : d # c => HoldsSession(d)' = HoldsSession(d)
      /\ \A d \in Caller : HoldsCluster(d)' = HoldsCluster(d)
  BY <1>2 DEF HoldsCluster, HoldsSession, FreeSession
<1>4. /\ UNCHANGED <<closed, lifetimeEnd, clusterUID, plan, known, unknown>>
      /\ busy' = [busy EXCEPT ![s] = FALSE]
  BY DEF FreeSession
<1>5. TypeOK'
  <2>1. busy' \in [Session -> BOOLEAN]
    BY <1>4 DEF IInv, TypeOK
  <2> QED
    BY <1>1, <1>4, <2>1 DEF IInv, TypeOK
<1>6. CallsWellFormed'
  BY <1>2, <1>3 DEF IInv, CallsWellFormed
<1>7. UIDsTrue' /\ PlansOwned'
  BY <1>4 DEF IInv, UIDsTrue, PlansOwned
<1>8. ScopesExclusive'
  BY <1>2, <1>3 DEF IInv, ScopesExclusive
<1>9. RegistryExact'
  BY <1>2, <1>3, <1>4 DEF IInv, RegistryExact
<1>10. BusyExact'
  <2>1. \A d \in Caller : d # c /\ HoldsSession(d) => call[d].session # s
    BY <1>3 DEF IInv, BusyExact
  <2>2. \A t \in Session : busy'[t] <=> t # s /\ busy[t]
    BY <1>4 DEF IInv, TypeOK
  <2>3. \A t \in Session : busy'[t] <=> \E d \in Caller : HoldsSession(d)' /\ call'[d].session = t
    BY <1>2, <1>3, <2>1, <2>2 DEF IInv, BusyExact
  <2> QED
    BY <1>2, <1>3, <2>3 DEF IInv, BusyExact
<1>11. OneShotPlans' /\ AdmittedLegitimately'
  BY <1>2, <1>4 DEF IInv, OneShotPlans, AdmittedLegitimately
<1> QED
  BY <1>5, <1>6, <1>7, <1>8, <1>9, <1>10, <1>11 DEF IInv

\* A step that moves one call between two phases in which it holds the same
\* things, or cancels its context.
LEMMA QuietCallStep ==
    ASSUME IInv, NEW c \in Caller,
           \/ \E s \in Session, p \in Plan, confirmed \in BOOLEAN : Refuse(c, s, p, confirmed)
           \/ AbandonCheck(c) \/ Dispatch(c) \/ RpcReturns(c)
           \/ CallerCancels(c) \/ DeadlineExpires(c) \/ LifetimeReaches(c)
    PROVE  /\ UNCHANGED <<closed, lifetimeEnd, clusterUID, busy, plan, known, unknown>>
           /\ SameHolders /\ call' \in [Caller -> Call]
<1>1. UNCHANGED <<closed, lifetimeEnd, clusterUID, busy, plan, known, unknown>>
  BY DEF Refuse, AbandonCheck, Dispatch, RpcReturns, CallerCancels, DeadlineExpires,
              LifetimeReaches, CancelCall
<1>2. \E ph \in Phase, b \in BOOLEAN :
          /\ call' = [call EXCEPT ![c] = [call[c] EXCEPT !.pc = ph, !.canceled = b]]
          /\ \/ call[c].pc = "idle" /\ ph = "returned"
             \/ call[c].pc = "checking" /\ ph = "unwinding"
             \/ call[c].pc = "checking" /\ ph = "dispatched"
             \/ call[c].pc = "dispatched" /\ ph = "unwinding"
             \/ call[c].pc = ph
  <2>1. CASE CallerCancels(c) \/ DeadlineExpires(c) \/ LifetimeReaches(c)
    <3>1. call' = [call EXCEPT ![c] = [call[c] EXCEPT !.pc = call[c].pc, !.canceled = TRUE]]
      BY <2>1 DEF CallerCancels, DeadlineExpires, LifetimeReaches, CancelCall, IInv, TypeOK, Call
    <3>2. call[c].pc \in Phase
      BY DEF IInv, TypeOK, Call
    <3> QED
      BY <3>1, <3>2
  <2>2. CASE ~(CallerCancels(c) \/ DeadlineExpires(c) \/ LifetimeReaches(c))
    <3>1. PICK ph \in {"returned", "unwinding", "dispatched"} :
              /\ call' = [call EXCEPT ![c].pc = ph]
              /\ \/ call[c].pc = "idle" /\ ph = "returned"
                 \/ call[c].pc = "checking" /\ ph = "unwinding"
                 \/ call[c].pc = "checking" /\ ph = "dispatched"
                 \/ call[c].pc = "dispatched" /\ ph = "unwinding"
      BY <2>2 DEF Refuse, AbandonCheck, Dispatch, RpcReturns
    <3>2. call' = [call EXCEPT ![c] = [call[c] EXCEPT !.pc = ph, !.canceled = call[c].canceled]]
      BY <3>1 DEF IInv, TypeOK, Call
    <3>3. ph \in Phase /\ call[c].canceled \in BOOLEAN
      BY DEF IInv, TypeOK, Call, Phase
    <3> QED
      BY <3>1, <3>2, <3>3
  <2> QED
    BY <2>1, <2>2
<1>3. PICK ph \in Phase, b \in BOOLEAN :
          /\ call' = [call EXCEPT ![c] = [call[c] EXCEPT !.pc = ph, !.canceled = b]]
          /\ \/ call[c].pc = "idle" /\ ph = "returned"
             \/ call[c].pc = "checking" /\ ph = "unwinding"
             \/ call[c].pc = "checking" /\ ph = "dispatched"
             \/ call[c].pc = "dispatched" /\ ph = "unwinding"
             \/ call[c].pc = ph
  BY <1>2
<1>4. [call[c] EXCEPT !.pc = ph, !.canceled = b] \in Call
  BY DEF IInv, TypeOK, Call
<1>5. call' \in [Caller -> Call]
  BY <1>3, <1>4, CallStep DEF IInv
<1>6. SameHolders
  BY <1>3, <1>4 DEF SameHolders, HoldsCluster, HoldsSession, IInv, TypeOK, Call
<1> QED
  BY <1>1, <1>5, <1>6

-----------------------------------------------------------------------------
(* The inductive invariant *)

\* Any step, or none, preserves the invariant.
LEMMA StepKeepsIInv == ASSUME IInv, [Next]_vars PROVE IInv'
<1>1. ASSUME NEW s \in Session, NEW p \in Plan, NEW upgrade \in BOOLEAN,
             BeginPrepare(s, p, upgrade)
      PROVE  IInv'
  <2> DEFINE r == [plan[p] EXCEPT !.stage = "reading", !.upgrade = upgrade, !.session = s]
  <2>1. r \in PlanState /\ r.consumed = plan[p].consumed /\ r.session \in Session
    BY DEF IInv, TypeOK, PlanState
  <2>2. /\ plan' = [plan EXCEPT ![p] = r] /\ plan[p].stage # "ready"
        /\ UNCHANGED <<closed, lifetimeEnd, clusterUID, busy, known, unknown, call>>
    BY <1>1 DEF BeginPrepare
  <2>3. /\ clusterUID' \in [Session -> Scope]
        /\ \A t \in Session : clusterUID'[t] \in {clusterUID[t], ClusterOf[t]}
    BY <2>2 DEF IInv, TypeOK
  <2> HIDE DEF r
  <2> QED
    BY <2>1, <2>2, <2>3, PlanStep
<1>2. ASSUME NEW p \in Plan, FinishPrepareAction(p) PROVE IInv'
  <2>1. PICK blocked \in BOOLEAN :
            plan' = [plan EXCEPT ![p] = [plan[p] EXCEPT !.stage = "ready", !.blocked = blocked]]
    BY <1>2 DEF FinishPrepareAction
  <2> DEFINE r == [plan[p] EXCEPT !.stage = "ready", !.blocked = blocked]
  <2>2. r \in PlanState /\ r.consumed = plan[p].consumed /\ r.session \in Session
    BY ZenonT(40), <1>2 DEF IInv, TypeOK, PlanState, PlansOwned, FinishPrepareAction
  <2>3. /\ plan[p].stage # "ready"
        /\ UNCHANGED <<closed, lifetimeEnd, clusterUID, busy, known, unknown, call>>
    BY <1>2 DEF FinishPrepareAction
  <2>4. /\ clusterUID' \in [Session -> Scope]
        /\ \A t \in Session : clusterUID'[t] \in {clusterUID[t], ClusterOf[t]}
    BY <2>3 DEF IInv, TypeOK
  <2>5. plan' = [plan EXCEPT ![p] = r]
    BY <2>1
  <2> HIDE DEF r
  <2> QED
    BY <2>2, <2>3, <2>4, <2>5, PlanStep
<1>3. ASSUME NEW p \in Plan, FinishPrepareUpgrade(p) PROVE IInv'
  <2> DEFINE r == [plan[p] EXCEPT !.stage = "ready"]
             s == plan[p].session
  <2>1. r \in PlanState /\ r.consumed = plan[p].consumed /\ r.session \in Session
        /\ s \in Session
    BY <1>3 DEF IInv, TypeOK, PlanState, PlansOwned, FinishPrepareUpgrade
  <2>2. /\ plan' = [plan EXCEPT ![p] = r] /\ plan[p].stage # "ready"
        /\ clusterUID' = [clusterUID EXCEPT ![s] = ClusterOf[s]]
        /\ UNCHANGED <<closed, lifetimeEnd, busy, known, unknown, call>>
    BY <1>3 DEF FinishPrepareUpgrade
  <2>3. /\ clusterUID' \in [Session -> Scope]
        /\ \A t \in Session : clusterUID'[t] \in {clusterUID[t], ClusterOf[t]}
    BY <2>1, <2>2, SessionAssumption DEF IInv, TypeOK, Scope
  <2> HIDE DEF r
  <2> QED
    BY <2>1, <2>2, <2>3, PlanStep
<1>4. ASSUME NEW c \in Caller, NEW s \in Session, NEW p \in Plan,
             NEW confirmed \in BOOLEAN, NEW timed \in BOOLEAN,
             Admit(c, s, p, confirmed, timed)
      PROVE  IInv'
  BY <1>4, AdmitStep
<1>5. ASSUME NEW c \in Caller, FreeCluster(c) \/ FreeSession(c) PROVE IInv'
  BY <1>5, FreeClusterStep, FreeSessionStep
<1>6. ASSUME NEW c \in Caller,
             \/ \E s \in Session, p \in Plan, confirmed \in BOOLEAN : Refuse(c, s, p, confirmed)
             \/ AbandonCheck(c) \/ Dispatch(c) \/ RpcReturns(c)
             \/ CallerCancels(c) \/ DeadlineExpires(c) \/ LifetimeReaches(c)
      PROVE  IInv'
  <2>1. /\ UNCHANGED <<closed, lifetimeEnd, clusterUID, busy, plan, known, unknown>>
        /\ SameHolders /\ call' \in [Caller -> Call]
    BY <1>6, QuietCallStep
  <2>2. closed' \in [Session -> BOOLEAN] /\ lifetimeEnd' \in [Session -> BOOLEAN]
    BY <2>1 DEF IInv, TypeOK
  <2> QED
    BY <2>1, <2>2, HoldersKept
<1>7. ASSUME NEW s \in Session, CloseMarks(s) \/ CloseEndsLifetime(s) \/ ParentCancels(s)
      PROVE  IInv'
  <2>1. /\ closed' \in [Session -> BOOLEAN] /\ lifetimeEnd' \in [Session -> BOOLEAN]
        /\ UNCHANGED <<clusterUID, busy, plan, known, unknown, call>>
    BY <1>7 DEF CloseMarks, CloseEndsLifetime, ParentCancels, IInv, TypeOK
  <2>2. SameHolders /\ call' \in [Caller -> Call]
    BY <2>1 DEF SameHolders, HoldsCluster, HoldsSession, IInv, TypeOK
  <2> QED
    BY <2>1, <2>2, HoldersKept
<1>8. CASE UNCHANGED vars
  <2>1. /\ closed' \in [Session -> BOOLEAN] /\ lifetimeEnd' \in [Session -> BOOLEAN]
        /\ UNCHANGED <<clusterUID, busy, plan, known, unknown, call>>
    BY <1>8 DEF vars, IInv, TypeOK
  <2>2. SameHolders /\ call' \in [Caller -> Call]
    BY <2>1 DEF SameHolders, HoldsCluster, HoldsSession, IInv, TypeOK
  <2> QED
    BY <2>1, <2>2, HoldersKept
<1> QED
  BY <1>1, <1>2, <1>3, <1>4, <1>5, <1>6, <1>7, <1>8 DEF Next

\* The invariant holds at the start.
LEMMA InitIInv == Init => IInv
<1> SUFFICES ASSUME Init PROVE IInv
  OBVIOUS
<1>1. TypeOK
  BY SessionAssumption DEF Init, TypeOK, PlanState, NoPlanState, Call, IdleCall, Scope, Phase
<1>2. \A c \in Caller : call[c].pc = "idle" /\ ~call[c].admitted /\ ~HoldsCluster(c)
                        /\ ~HoldsSession(c)
  BY DEF Init, IdleCall, HoldsCluster, HoldsSession
<1>3. CallsWellFormed /\ ScopesExclusive /\ OneShotPlans /\ AdmittedLegitimately
  BY <1>2 DEF CallsWellFormed, ScopesExclusive, OneShotPlans, AdmittedLegitimately
<1>4. UIDsTrue /\ PlansOwned
  BY DEF Init, UIDsTrue, PlansOwned, NoPlanState
<1>5. RegistryExact /\ BusyExact
  BY <1>2 DEF Init, RegistryExact, BusyExact
<1> QED
  BY <1>1, <1>3, <1>4, <1>5 DEF IInv

\* Every reachable state satisfies the inductive invariant.
THEOREM Inductive == Spec => []IInv
<1>1. IInv /\ [Next]_vars => IInv'
  BY StepKeepsIInv
<1> QED
  BY InitIInv, <1>1, PTL DEF Spec

\* Every reachable state is well typed (the count of unknown-cluster operations
\* never goes below zero: a uint32 that would wrap).
THEOREM TypeCorrect == Spec => []TypeOK
<1>1. IInv => TypeOK
  BY DEF IInv
<1> QED
  BY Inductive, <1>1, PTL

\* Two scopes that differ and are not empty name different clusters.
LEMMA ScopesNameClusters == IInv => ClusterExclusion /\ UnknownRunsAlone
<1> SUFFICES ASSUME IInv, NEW c \in Caller, NEW d \in Caller, c # d,
                    HoldsCluster(c), HoldsCluster(d)
             PROVE  /\ ClusterOf[call[c].session] # ClusterOf[call[d].session]
                    /\ call[c].scope # NoUID
  BY DEF ClusterExclusion, UnknownRunsAlone
<1>1. call[c].scope # NoUID /\ call[d].scope # NoUID /\ call[c].scope # call[d].scope
  BY DEF IInv, ScopesExclusive
<1>2. /\ call[c].scope \in {NoUID, ClusterOf[call[c].session]}
      /\ call[d].scope \in {NoUID, ClusterOf[call[d].session]}
  BY DEF IInv, CallsWellFormed, HoldsSession
<1> QED
  BY <1>1, <1>2

\* No two mutations run at once against one cluster.
THEOREM Exclusion == Spec => []ClusterExclusion
<1>1. IInv => ClusterExclusion
  BY ScopesNameClusters
<1> QED
  BY Inductive, <1>1, PTL

\* A mutation of an unidentified cluster runs alone in the process.
THEOREM UnknownAlone == Spec => []UnknownRunsAlone
<1>1. IInv => UnknownRunsAlone
  BY ScopesNameClusters
<1> QED
  BY Inductive, <1>1, PTL

\* The registry counts exactly the running mutations.
THEOREM RegistryIsExact == Spec => []RegistryExact
<1>1. IInv => RegistryExact
  BY DEF IInv
<1> QED
  BY Inductive, <1>1, PTL

\* A session is busy exactly while one call of it runs.
THEOREM BusyIsExact == Spec => []BusyExact
<1>1. IInv => BusyExact
  BY DEF IInv
<1> QED
  BY Inductive, <1>1, PTL

\* A plan admits at most one call.
THEOREM PlansAreOneShot == Spec => []OneShotPlans
<1>1. IInv => OneShotPlans
  BY DEF IInv
<1> QED
  BY Inductive, <1>1, PTL

-----------------------------------------------------------------------------
(* Refinement of ClusterLease *)

HolderMap == [k \in Cluster |-> Holder(k)]
SpentPlans == {p \in Plan : plan[p].consumed}

\* Under the invariant, Holder names exactly the call that runs on a cluster.
LEMMA HolderIs ==
    ASSUME ClusterExclusion, NEW k \in Cluster, NEW c \in Caller,
           HoldsCluster(c), ClusterOf[call[c].session] = k
    PROVE  Holder(k) = c
<1>1. \A d \in Caller : HoldsCluster(d) /\ ClusterOf[call[d].session] = k <=> d = c
  BY DEF ClusterExclusion
<1> QED
  BY <1>1 DEF Holder

\* A cluster is free in the abstraction when no call runs on it.
LEMMA HolderNone ==
    ASSUME NEW k \in Cluster,
           \A c \in Caller : HoldsCluster(c) => ClusterOf[call[c].session] # k
    PROVE  Holder(k) = NoCaller
  BY DEF Holder

\* The value Holder takes in the next state, in the same two cases.
LEMMA HolderIsNext ==
    ASSUME ClusterExclusion', NEW k \in Cluster, NEW c \in Caller,
           HoldsCluster(c)', ClusterOf[call'[c].session] = k
    PROVE  Holder(k)' = c
<1>1. \A d \in Caller : HoldsCluster(d)' /\ ClusterOf[call'[d].session] = k <=> d = c
  BY DEF ClusterExclusion
<1> QED
  BY <1>1 DEF Holder

\* The same, of a cluster that nobody holds.
LEMMA HolderNoneNext ==
    ASSUME NEW k \in Cluster,
           \A c \in Caller : HoldsCluster(c)' => ClusterOf[call'[c].session] # k
    PROVE  Holder(k)' = NoCaller
  BY DEF Holder

\* A step that moves no holder leaves the abstract holders alone.
LEMMA HoldersStutter ==
    ASSUME ClusterExclusion,
           \A c \in Caller : HoldsCluster(c)' = HoldsCluster(c)
                             /\ call'[c].session = call[c].session
    PROVE  HolderMap' = HolderMap
<1>1. ClusterExclusion'
  BY DEF ClusterExclusion
<1>2. ASSUME NEW k \in Cluster PROVE Holder(k)' = Holder(k)
  <2>1. CASE \E c \in Caller : HoldsCluster(c) /\ ClusterOf[call[c].session] = k
    <3>1. PICK c \in Caller : HoldsCluster(c) /\ ClusterOf[call[c].session] = k
      BY <2>1
    <3>2. Holder(k) = c
      BY <3>1, HolderIs
    <3>3. Holder(k)' = c
      BY <1>1, <3>1, HolderIsNext
    <3> QED
      BY <3>2, <3>3
  <2>2. CASE ~\E c \in Caller : HoldsCluster(c) /\ ClusterOf[call[c].session] = k
    <3>1. Holder(k) = NoCaller
      BY <2>2, HolderNone
    <3>2. Holder(k)' = NoCaller
      BY <2>2, HolderNoneNext
    <3> QED
      BY <3>1, <3>2
  <2> QED
    BY <2>1, <2>2
<1> QED
  BY <1>2 DEF HolderMap

\* Admission is the abstract Start on the cluster of the session.
LEMMA AdmitStarts ==
    ASSUME IInv, IInv', NEW c \in Caller, NEW s \in Session, NEW p \in Plan,
           NEW confirmed \in BOOLEAN, NEW timed \in BOOLEAN,
           Admit(c, s, p, confirmed, timed)
    PROVE  Lease!LeaseNext
<1> DEFINE k == ClusterOf[s]
<1>1. k \in Cluster /\ ClusterExclusion /\ ClusterExclusion'
  BY SessionAssumption, ScopesNameClusters DEF IInv, CallsWellFormed, HoldsSession,
     ClusterExclusion, ScopesExclusive
<1>2. /\ call'[c].session = s /\ HoldsCluster(c)' /\ ~HoldsCluster(c)
      /\ \A d \in Caller : d # c => call'[d] = call[d] /\ HoldsCluster(d)' = HoldsCluster(d)
  BY DEF Admit, HoldsCluster, IInv, TypeOK
<1>3. Holder(k) = NoCaller
  <2>1. \A d \in Caller : HoldsCluster(d) => ClusterOf[call[d].session] # k
    BY <1>1, <1>2 DEF ClusterExclusion
  <2> QED
    BY <1>1, <2>1, HolderNone
<1>4. Holder(k)' = c
  BY <1>1, <1>2, HolderIsNext
<1>5. ASSUME NEW j \in Cluster, j # k PROVE Holder(j)' = Holder(j)
  <2>1. CASE \E d \in Caller : HoldsCluster(d) /\ ClusterOf[call[d].session] = j
    <3>1. PICK d \in Caller : HoldsCluster(d) /\ ClusterOf[call[d].session] = j
      BY <2>1
    <3>2. HoldsCluster(d)' /\ ClusterOf[call'[d].session] = j
      BY <1>2, <3>1
    <3>3. Holder(j) = d
      BY <1>1, <3>1, HolderIs
    <3>4. Holder(j)' = d
      BY <1>1, <3>2, HolderIsNext
    <3> QED
      BY <3>3, <3>4
  <2>2. CASE \A d \in Caller : HoldsCluster(d) => ClusterOf[call[d].session] # j
    <3>1. \A d \in Caller : HoldsCluster(d)' => ClusterOf[call'[d].session] # j
      BY <1>2, <1>5, <2>2
    <3>2. Holder(j) = NoCaller
      BY <2>2, HolderNone
    <3>3. Holder(j)' = NoCaller
      BY <3>1, HolderNoneNext
    <3> QED
      BY <3>2, <3>3
  <2> QED
    BY <2>1, <2>2
<1>6. HolderMap' = [HolderMap EXCEPT ![k] = c] /\ HolderMap[k] = NoCaller
  BY <1>1, <1>3, <1>4, <1>5 DEF HolderMap
<1>7. p \notin SpentPlans /\ SpentPlans' = SpentPlans \cup {p}
  BY DEF Admit, Admissible, Spend, SpentPlans, IInv, TypeOK, PlanState
<1>8. Lease!Start(c, p, k)
  BY <1>6, <1>7 DEF Lease!Start, HolderMap, SpentPlans
<1> QED
  BY <1>1, <1>8 DEF Lease!LeaseNext

\* The first half of a release is the abstract Finish.
LEMMA FreeClusterFinishes ==
    ASSUME IInv, IInv', NEW c \in Caller, FreeCluster(c)
    PROVE  Lease!LeaseNext
<1>0. ClusterExclusion /\ ClusterOf[call[c].session] \in Cluster
  BY ScopesNameClusters, SessionAssumption
     DEF FreeCluster, IInv, CallsWellFormed, HoldsSession, HoldsCluster
<1> PICK k \in Cluster : k = ClusterOf[call[c].session]
  BY <1>0
<1>1. /\ HoldsCluster(c) /\ ~HoldsCluster(c)'
      /\ \A d \in Caller : d # c => call'[d] = call[d] /\ HoldsCluster(d)' = HoldsCluster(d)
      /\ UNCHANGED plan
  BY DEF FreeCluster, HoldsCluster, IInv, TypeOK, Call
<1>2. ClusterExclusion /\ ClusterExclusion'
  BY <1>0, <1>1 DEF ClusterExclusion
<1>3. Holder(k) = c
  BY <1>1, <1>2, HolderIs
<1>4. Holder(k)' = NoCaller
  <2>1. \A d \in Caller : HoldsCluster(d)' => ClusterOf[call'[d].session] # k
    BY <1>1, <1>2 DEF ClusterExclusion
  <2> QED
    BY <1>2, <2>1, HolderNoneNext
<1>5. ASSUME NEW j \in Cluster, j # k PROVE Holder(j)' = Holder(j)
  <2>1. CASE \E d \in Caller : HoldsCluster(d) /\ ClusterOf[call[d].session] = j
    <3>1. PICK d \in Caller : HoldsCluster(d) /\ ClusterOf[call[d].session] = j
      BY <2>1
    <3>2. HoldsCluster(d)' /\ ClusterOf[call'[d].session] = j
      BY <1>1, <1>5, <3>1
    <3>3. Holder(j) = d
      BY <1>2, <3>1, HolderIs
    <3>4. Holder(j)' = d
      BY <1>2, <3>2, HolderIsNext
    <3> QED
      BY <3>3, <3>4
  <2>2. CASE \A d \in Caller : HoldsCluster(d) => ClusterOf[call[d].session] # j
    <3>1. \A d \in Caller : HoldsCluster(d)' => ClusterOf[call'[d].session] # j
      BY <1>1, <2>2
    <3>2. Holder(j) = NoCaller
      BY <2>2, HolderNone
    <3>3. Holder(j)' = NoCaller
      BY <3>1, HolderNoneNext
    <3> QED
      BY <3>2, <3>3
  <2> QED
    BY <2>1, <2>2
<1>6. HolderMap' = [HolderMap EXCEPT ![k] = NoCaller] /\ HolderMap[k] = c
  BY <1>2, <1>3, <1>4, <1>5 DEF HolderMap
<1>7. SpentPlans' = SpentPlans
  BY <1>1 DEF SpentPlans
<1>8. Lease!Finish(c, k)
  BY <1>6, <1>7 DEF Lease!Finish, HolderMap, SpentPlans
<1> QED
  BY <1>2, <1>8 DEF Lease!LeaseNext

\* Every other step leaves the abstract state as it is.
LEMMA OthersStutter ==
    ASSUME IInv, [Next]_vars,
           \A c \in Caller, s \in Session, p \in Plan, confirmed, timed \in BOOLEAN :
               ~Admit(c, s, p, confirmed, timed),
           \A c \in Caller : ~FreeCluster(c)
    PROVE  UNCHANGED Lease!leaseVars
<1>1. /\ \A c \in Caller : HoldsCluster(c)' = HoldsCluster(c)
                           /\ call'[c].session = call[c].session
      /\ \A p \in Plan : plan'[p].consumed = plan[p].consumed
  <2>1. ASSUME NEW s \in Session, NEW p \in Plan, NEW upgrade \in BOOLEAN,
               BeginPrepare(s, p, upgrade)
        PROVE  <1>1!1 /\ <1>1!2
    BY <2>1 DEF BeginPrepare, HoldsCluster, IInv, TypeOK, PlanState
  <2>2. ASSUME NEW p \in Plan, FinishPrepareAction(p) \/ FinishPrepareUpgrade(p)
        PROVE  <1>1!1 /\ <1>1!2
    <3>1. UNCHANGED call
      BY <2>2 DEF FinishPrepareAction, FinishPrepareUpgrade
    <3>2. PICK r \in PlanState : plan' = [plan EXCEPT ![p] = r] /\ r.consumed = plan[p].consumed
      <4>1. CASE FinishPrepareAction(p)
        <5>1. PICK blocked \in BOOLEAN :
                  plan' = [plan EXCEPT ![p] = [plan[p] EXCEPT !.stage = "ready",
                                                              !.blocked = blocked]]
          BY <4>1 DEF FinishPrepareAction
        <5>2. [plan[p] EXCEPT !.stage = "ready", !.blocked = blocked] \in PlanState
          BY DEF IInv, TypeOK, PlanState
        <5> QED
          BY <5>1, <5>2 DEF IInv, TypeOK, PlanState
      <4>2. CASE FinishPrepareUpgrade(p)
        <5>1. [plan[p] EXCEPT !.stage = "ready"] \in PlanState
          BY DEF IInv, TypeOK, PlanState
        <5> QED
          BY <4>2, <5>1 DEF FinishPrepareUpgrade, IInv, TypeOK, PlanState
      <4> QED
        BY <2>2, <4>1, <4>2
    <3> QED
      BY <3>1, <3>2 DEF HoldsCluster, IInv, TypeOK
  <2>3. ASSUME NEW c \in Caller, FreeSession(c) PROVE <1>1!1 /\ <1>1!2
    BY <2>3 DEF FreeSession, HoldsCluster, IInv, TypeOK, Call
  <2>4. ASSUME NEW c \in Caller,
               \/ \E s \in Session, p \in Plan, confirmed \in BOOLEAN : Refuse(c, s, p, confirmed)
               \/ AbandonCheck(c) \/ Dispatch(c) \/ RpcReturns(c)
               \/ CallerCancels(c) \/ DeadlineExpires(c) \/ LifetimeReaches(c)
        PROVE  <1>1!1 /\ <1>1!2
    BY <2>4, QuietCallStep DEF SameHolders
  <2>5. ASSUME NEW s \in Session, CloseMarks(s) \/ CloseEndsLifetime(s) \/ ParentCancels(s)
        PROVE  <1>1!1 /\ <1>1!2
    BY <2>5 DEF CloseMarks, CloseEndsLifetime, ParentCancels, HoldsCluster
  <2>6. CASE UNCHANGED vars
    BY <2>6 DEF vars, HoldsCluster
  <2> QED
    BY <2>1, <2>2, <2>3, <2>4, <2>5, <2>6 DEF Next
<1>2. HolderMap' = HolderMap
  BY <1>1, ScopesNameClusters, HoldersStutter
<1>3. SpentPlans' = SpentPlans
  BY <1>1 DEF SpentPlans
<1> QED
  BY <1>2, <1>3 DEF Lease!leaseVars, HolderMap, SpentPlans

\* Sessions, busy flags and registry implement the abstract lease: the shared
\* cluster is taken by one operation at a time, through a plan spent once.
THEOREM Refinement == Spec => ImplementsLease
<1>1. Init => Lease!LeaseInit
  <2> SUFFICES ASSUME Init PROVE Lease!LeaseInit
    OBVIOUS
  <2>1. \A c \in Caller : ~HoldsCluster(c)
    BY DEF Init, IdleCall, HoldsCluster
  <2>2. HolderMap = [k \in Cluster |-> NoCaller]
    BY <2>1, HolderNone DEF HolderMap
  <2>3. SpentPlans = {}
    BY DEF Init, NoPlanState, SpentPlans
  <2> QED
    BY <2>2, <2>3 DEF Lease!LeaseInit, HolderMap, SpentPlans
<1>2. IInv /\ IInv' /\ [Next]_vars => [Lease!LeaseNext]_(Lease!leaseVars)
  BY AdmitStarts, FreeClusterFinishes, OthersStutter
<1> QED
  BY <1>1, <1>2, Inductive, PTL DEF Spec, ImplementsLease, Lease!LeaseSpec

-----------------------------------------------------------------------------
(* Sessions that are opened and closed: the invariant *)

\* What has become of an open and its adapter: a session takes the adapter over and
\* closes it once; an open that fails has closed it itself.
Sound(r) ==
    /\ r \in OpenState
    /\ r.result => r.pc \in {"posted", "done"} /\ r.adapter
    /\ r.pc = "resolving" => r.adapter
    /\ r.pc \in {"idle", "queued", "factory"} => ~r.adapter
    /\ r.closed => r.pc \in {"resolving", "posted", "done"} /\ r.adapter
    /\ r.closes = IF r.closed \/ (r.adapter /\ r.pc # "resolving" /\ ~r.result) THEN 1 ELSE 0

SoundCalls == [Open -> {r \in OpenState : Sound(r)}]

\* Whoever closes a session has it from an open that returned it.
Held == {o \in Open : open[o].result} \cup {NoOpen}

Holders ==
    /\ current \in Open \cup {NoOpen} /\ slot \in Open \cup {NoOpen}
    /\ session \in Held /\ tracked \in Held
    /\ cleanup \in [Worker -> CleanupState]
    /\ \A w \in Worker : cleanup[w].session \in Held

\* The UI holds nothing but the session of its latest attempt.
HeldIsCurrent == session \in {NoOpen, current}

SwitchInv == open \in SoundCalls /\ Holders /\ HeldIsCurrent /\ NoStraySession

-----------------------------------------------------------------------------
(* What a step does to one open *)

\* An open that posts its message keeps the rest of its record.
LEMMA RecordPosts ==
    ASSUME NEW r \in OpenState, NEW d, d = [r EXCEPT !.pc = "posted"]
    PROVE  /\ d \in OpenState
           /\ d.pc = "posted" /\ d.closes = r.closes
           /\ d.adapter = r.adapter /\ d.closed = r.closed /\ d.result = r.result
<1>1. d \in OpenState
  BY DEF OpenState
<1>2. /\ d.pc = "posted" /\ d.closes = r.closes
      /\ d.adapter = r.adapter /\ d.closed = r.closed /\ d.result = r.result
  BY DEF OpenState
<1> QED
  BY <1>1, <1>2

\* Closing the session of an open keeps its account right.
LEMMA ClosedSound ==
    ASSUME open \in SoundCalls, NEW o \in Open, open[o].result \/ open[o].pc = "resolving"
    PROVE  /\ Closed(o) \in OpenState /\ Sound(Closed(o))
           /\ Closed(o).closed
           /\ Closed(o).result = open[o].result
           /\ Closed(o).pc = open[o].pc
<1>1. open[o] \in OpenState /\ Sound(open[o])
  BY DEF SoundCalls
<1>2. CASE open[o].closed
  BY <1>1, <1>2 DEF Closed
<1>3. CASE ~open[o].closed
  <2>1. PICK r \in OpenState, n \in Nat : r = open[o] /\ n = r.closes + 1
    BY <1>1 DEF OpenState
  <2>2. Closed(o) = [r EXCEPT !.closed = TRUE, !.closes = n]
    BY <1>3, <2>1 DEF Closed
  <2>3. Closed(o) \in OpenState
    BY <2>2 DEF OpenState
  <2>4. /\ Closed(o).closed /\ Closed(o).closes = n
        /\ Closed(o).pc = r.pc /\ Closed(o).adapter = r.adapter /\ Closed(o).result = r.result
    BY <2>2 DEF OpenState
  <2> QED
    BY <1>1, <1>3, <2>1, <2>3, <2>4 DEF Sound
<1> QED
  BY <1>2, <1>3

\* Closing what somebody holds, if anything, is one.
LEMMA CloseHolds ==
    ASSUME open \in SoundCalls, NEW h \in Held,
           NEW f, f = IF h = NoOpen THEN open ELSE [open EXCEPT ![h] = Closed(h)]
    PROVE  /\ f \in SoundCalls
           /\ \A o \in Open : /\ f[o].result = open[o].result
                              /\ f[o].pc = open[o].pc
                              /\ open[o].closed => f[o].closed
           /\ h # NoOpen => f[h].closed
<1>1. CASE h = NoOpen
  BY <1>1
<1>2. CASE h # NoOpen
  <2>1. h \in Open /\ open[h].result
    BY <1>2 DEF Held
  <2>2. f = [open EXCEPT ![h] = Closed(h)]
    BY <1>2
  <2>3. /\ Closed(h) \in OpenState /\ Sound(Closed(h)) /\ Closed(h).closed
        /\ Closed(h).result = open[h].result /\ Closed(h).pc = open[h].pc
    BY <2>1, ClosedSound
  <2>4. /\ f \in SoundCalls /\ f[h] = Closed(h)
        /\ \A p \in Open \ {h} : f[p] = open[p]
    BY <2>1, <2>2, <2>3 DEF SoundCalls, Sound
  <2> QED
    BY <2>1, <2>3, <2>4
<1> QED
  BY <1>1, <1>2

-----------------------------------------------------------------------------
(* Every step preserves the invariant *)

\* The goroutine of an open, and the end of its lifetime.
LEMMA OpenSteps ==
    ASSUME SwitchInv, NEW o \in Open, OpenStep(o)
    PROVE  SwitchInv'
<1> USE DEF SwitchInv, Holders, Held, HeldIsCurrent, NoStraySession
<1>1. Sound(open[o]) /\ open[o] \in OpenState
  BY DEF SoundCalls
<1>2. ASSUME NEW r, open' = [open EXCEPT ![o] = r], Sound(r),
             open[o].result => r.result /\ r.pc = open[o].pc, open[o].closed => r.closed,
             r.result /\ ~open[o].result => r.pc # "done",
             UNCHANGED <<ui, current, slot, session, tracked, rootCanceled, canceled, cleanup>>
      PROVE  SwitchInv'
  <2>1. /\ (open \in SoundCalls)' /\ open'[o] = r
        /\ \A p \in Open \ {o} : open'[p] = open[p]
    BY <1>2 DEF SoundCalls, Sound
  <2> QED
    BY <1>2, <2>1
<1>3. CASE SkipCanceled(o)
  BY <1>1, <1>2, <1>3 DEF SkipCanceled, Sound, OpenState
<1>4. CASE StartOpen(o)
  BY <1>1, <1>2, <1>4 DEF StartOpen, Sound, OpenState
<1>5. ASSUME NEW adapter \in BOOLEAN, NEW err \in BOOLEAN, FactoryReturns(o, adapter, err)
      PROVE  SwitchInv'
  BY <1>1, <1>2, <1>5 DEF FactoryReturns, TakeAdapter, Sound, OpenState
<1>6. CASE OpenReturns(o)
  <2>1. open[o].pc = "resolving" /\ ~open[o].result
    BY <1>1, <1>6 DEF OpenReturns, Sound
  <2>2. CASE Canceled(o)
    <3> DEFINE r == [Closed(o) EXCEPT !.pc = "posted"]
    <3>1. open' = [open EXCEPT ![o] = r]
      BY <1>6, <2>2 DEF OpenReturns
    <3>2. Sound(Closed(o)) /\ Closed(o) \in OpenState /\ Closed(o).closed /\ ~Closed(o).result
      BY <2>1, ClosedSound DEF Sound
    <3>3. Sound(r) /\ r.closed /\ ~r.result
      BY <2>1, <3>2, RecordPosts DEF Sound
    <3> QED
      BY <1>2, <1>6, <2>1, <3>1, <3>3 DEF OpenReturns
  <2>3. CASE ~Canceled(o)
    <3> DEFINE r == [open[o] EXCEPT !.pc = "posted", !.result = TRUE]
    <3>1. open' = [open EXCEPT ![o] = r]
      BY <1>6, <2>3 DEF OpenReturns
    <3>2. Sound(r) /\ r.pc = "posted" /\ r.closed = open[o].closed
      BY <1>1, <2>1 DEF Sound, OpenState
    <3> QED
      BY <1>2, <1>6, <2>1, <3>1, <3>2 DEF OpenReturns
  <2> QED
    BY <2>2, <2>3
<1>7. CASE LifetimeCloses(o)
  BY <1>1, <1>2, <1>7, ClosedSound DEF LifetimeCloses
<1> QED
  BY <1>3, <1>4, <1>5, <1>6, <1>7 DEF OpenStep

\* A switch closes what the UI holds, and an answer is installed or closed.
LEMMA UISteps ==
    ASSUME SwitchInv, NEW o \in Open, BeginSessionOpen(o) \/ SessionOpened(o)
    PROVE  SwitchInv'
<1> USE DEF SwitchInv, Holders, HeldIsCurrent
<1>1. Sound(open[o]) /\ open[o] \in OpenState
  BY DEF SoundCalls
<1>2. CASE BeginSessionOpen(o)
  <2> DEFINE f == CloseHeld
             r == [f[o] EXCEPT !.pc = "queued"]
  <2>1. /\ f \in SoundCalls
        /\ \A p \in Open : /\ f[p].result = open[p].result
                           /\ f[p].pc = open[p].pc
                           /\ open[p].closed => f[p].closed
        /\ session # NoOpen => f[session].closed
    BY ZenonT(40), CloseHolds DEF CloseHeld
  <2> HIDE DEF f
  <2>2. /\ open[o].pc = "idle" /\ open' = [f EXCEPT ![o] = r]
        /\ session' = NoOpen /\ current' = o /\ slot' = o
        /\ tracked' \in {tracked, NoOpen} /\ cleanup' = cleanup
    BY <1>2 DEF BeginSessionOpen, Untracked, f
  <2>3. f[o] \in OpenState /\ Sound(f[o]) /\ f[o].pc = "idle" /\ ~f[o].result
    BY <1>1, <2>1, <2>2 DEF SoundCalls, Sound
  <2>4. Sound(r) /\ ~r.result /\ r.pc = "queued"
    BY <2>3 DEF Sound, OpenState
  <2>5. /\ (open \in SoundCalls)' /\ open'[o] = r
        /\ \A p \in Open \ {o} : open'[p] = f[p]
    BY <2>1, <2>2, <2>4 DEF SoundCalls, Sound
  <2>6. \A p \in Open : open[p].result => open'[p].result
    BY <1>1, <2>1, <2>3, <2>4, <2>5
  <2>7. Holders'
    BY <2>2, <2>6 DEF Held
  <2>8. NoStraySession'
    BY <2>1, <2>2, <2>4, <2>5 DEF NoStraySession, Held
  <2> QED
    BY <2>2, <2>5, <2>7, <2>8
<1>3. CASE SessionOpened(o)
  <2>1. open[o].pc = "posted" /\ UNCHANGED <<current, slot, cleanup>>
    BY <1>3 DEF SessionOpened
  <2>2. ASSUME NEW r \in OpenState, Sound(r), r.pc = "done", r.result = open[o].result,
               open' = [open EXCEPT ![o] = r],
               \/ Fresh(o) /\ r.result /\ session' = o /\ tracked' = o
               \/ (r.result => r.closed) /\ UNCHANGED <<session, tracked>>
        PROVE  SwitchInv'
    <3>1. /\ (open \in SoundCalls)' /\ open'[o] = r
          /\ \A p \in Open \ {o} : open'[p] = open[p]
      BY <2>2 DEF SoundCalls, Sound
    <3>2. \A p \in Open : open'[p].result = open[p].result
      BY <2>2, <3>1
    <3>3. Holders'
      BY <2>1, <2>2, <3>1, <3>2 DEF Held
    <3>4. HeldIsCurrent'
      BY <2>1, <2>2 DEF Fresh
    <3>5. NoStraySession'
      BY <2>1, <2>2, <3>1, OpenAssumption DEF NoStraySession, Fresh
    <3> QED
      BY <3>1, <3>3, <3>4, <3>5
  <2>3. CASE Fresh(o) \/ ~open[o].result
    <3> DEFINE r == [open[o] EXCEPT !.pc = "done"]
    <3>1. Sound(r) /\ r.pc = "done" /\ r.result = open[o].result
      BY <1>1, <2>1 DEF Sound, OpenState
    <3>2. open' = [open EXCEPT ![o] = r]
      BY <1>3, <2>3 DEF SessionOpened
    <3>3. \/ Fresh(o) /\ open[o].result /\ session' = o /\ tracked' = o
          \/ ~open[o].result /\ UNCHANGED <<session, tracked>>
      BY <1>3, <2>3 DEF SessionOpened
    <3> QED
      BY <2>2, <3>1, <3>2, <3>3 DEF Sound
  <2>4. CASE ~Fresh(o) /\ open[o].result
    <3> DEFINE r == [Closed(o) EXCEPT !.pc = "done"]
    <3>1. PICK c \in OpenState :
              c = Closed(o) /\ Sound(c) /\ c.closed /\ c.pc = "posted" /\ c.result
      BY <2>1, <2>4, ClosedSound DEF Sound
    <3>2. r = [c EXCEPT !.pc = "done"]
      BY <3>1
    <3>3. Sound(r) /\ r.pc = "done" /\ r.result = open[o].result /\ r.closed
      BY <2>4, <3>1, <3>2 DEF Sound, OpenState
    <3>4. open' = [open EXCEPT ![o] = r] /\ UNCHANGED <<session, tracked>>
      BY <1>3, <2>4 DEF SessionOpened
    <3> QED
      BY <2>2, <3>3, <3>4 DEF Sound
  <2> QED
    BY <2>3, <2>4
<1> QED
  BY <1>2, <1>3

\* A cleanup closes sessions that an open has returned, whoever holds them by now.
LEMMA CleanupSteps ==
    ASSUME SwitchInv, (\E w \in Worker : CleanupStep(w)) \/ PressQuit \/ LoopEnds
    PROVE  SwitchInv'
<1> USE DEF SwitchInv, Holders, HeldIsCurrent
<1>1. ASSUME NEW w \in Worker, CleanupCancels(w) \/ CleanupCancelsAll(w)
      PROVE  SwitchInv'
  <2>1. UNCHANGED <<open, current, session, tracked>> /\ slot' \in {slot, NoOpen}
    BY <1>1 DEF CleanupCancels, CleanupCancelsAll
  <2>2. PICK pc \in {"close", "done"} : cleanup' = [cleanup EXCEPT ![w].pc = pc]
    BY <1>1 DEF CleanupCancels, CleanupCancelsAll
  <2>3. /\ (cleanup \in [Worker -> CleanupState])'
        /\ \A v \in Worker : cleanup'[v].session = cleanup[v].session
    BY <2>2 DEF CleanupState
  <2> QED
    BY <2>1, <2>3 DEF NoStraySession, Held
<1>2. ASSUME NEW w \in Worker, NEW h \in Held,
             open' = IF h = NoOpen THEN open ELSE [open EXCEPT ![h] = Closed(h)],
             tracked' \in {tracked, NoOpen},
             NEW pc \in {"take", "cancelAll"}, cleanup' = [cleanup EXCEPT ![w].pc = pc],
             UNCHANGED <<current, slot, session>>
      PROVE  SwitchInv'
  <2>1. /\ (open \in SoundCalls)'
        /\ \A o \in Open : /\ open'[o].result = open[o].result
                           /\ open'[o].pc = open[o].pc
                           /\ open[o].closed => open'[o].closed
    BY <1>2, CloseHolds
  <2>2. /\ (cleanup \in [Worker -> CleanupState])'
        /\ \A v \in Worker : cleanup'[v].session = cleanup[v].session
    BY <1>2 DEF CleanupState
  <2> QED
    BY <1>2, <2>1, <2>2 DEF NoStraySession, Held
<1>3. ASSUME NEW w \in Worker, CleanupCloses(w)
      PROVE  SwitchInv'
  BY <1>2, <1>3 DEF CleanupCloses
<1>4. ASSUME NEW w \in Worker, CleanupTakes(w)
      PROVE  SwitchInv'
  BY <1>2, <1>4 DEF CleanupTakes
<1>5. CASE PressQuit
  <2>1. cleanup' \in [Worker -> CleanupState]
    BY <1>5 DEF PressQuit, CleanupState, Held
  <2>2. \A v \in Worker : cleanup'[v].session \in {cleanup[v].session, session}
    BY <1>5 DEF PressQuit
  <2> QED
    BY <1>5, <2>1, <2>2 DEF PressQuit, NoStraySession, Held
<1>6. CASE LoopEnds
  <2>1. cleanup' \in [Worker -> CleanupState]
    BY <1>6 DEF LoopEnds, CleanupState
  <2>2. \A v \in Worker : cleanup'[v].session = cleanup[v].session
    BY <1>6 DEF LoopEnds, CleanupState
  <2> QED
    BY <1>6, <2>1, <2>2 DEF LoopEnds, NoStraySession, Held
<1> QED
  BY <1>1, <1>3, <1>4, <1>5, <1>6 DEF CleanupStep

-----------------------------------------------------------------------------
(* The theorems *)

\* The invariant holds in every reachable state.
THEOREM SwitchInductive == SwitchSpec => []SwitchInv
<1>1. SwitchInit => SwitchInv
  <2> SUFFICES ASSUME SwitchInit
               PROVE  SwitchInv
    OBVIOUS
  <2> USE DEF SwitchInit
  <2>1. open \in SoundCalls
    BY DEF SoundCalls, Sound, OpenState
  <2>2. cleanup \in [Worker -> CleanupState] /\ \A w \in Worker : cleanup[w].session = NoOpen
    BY DEF CleanupState
  <2>3. Holders /\ HeldIsCurrent
    BY <2>2 DEF Holders, HeldIsCurrent, Held
  <2>4. NoStraySession
    BY DEF NoStraySession
  <2> QED
    BY <2>1, <2>3, <2>4 DEF SwitchInv
<1>2. SwitchInv /\ [SwitchNext]_switchVars => SwitchInv'
  <2>1. ASSUME SwitchInv, UNCHANGED switchVars
        PROVE  SwitchInv'
    BY <2>1 DEF SwitchInv, Holders, Held, HeldIsCurrent, NoStraySession, switchVars
  <2> QED
    BY <2>1, OpenSteps, UISteps, CleanupSteps DEF SwitchNext
<1> QED
  BY <1>1, <1>2, PTL DEF SwitchSpec

\* A session whose message was handled is the one held, or it is closed.
THEOREM NoneAstray == SwitchSpec => []NoStraySession
<1>1. SwitchInv => NoStraySession
  BY DEF SwitchInv
<1> QED
  BY <1>1, SwitchInductive, PTL

\* However many want to, an adapter is closed once at most; and an open that returns
\* no session has closed the adapter it was given.
THEOREM ClosedOnce ==
    SwitchSpec => [](\A o \in Open :
                         /\ open[o].closes <= 1
                         /\ open[o].adapter /\ open[o].pc = "posted" /\ ~open[o].result
                                => open[o].closes = 1)
<1>1. SwitchInv => \A o \in Open :
                       /\ open[o].closes <= 1
                       /\ open[o].adapter /\ open[o].pc = "posted" /\ ~open[o].result
                              => open[o].closes = 1
  BY DEF SwitchInv, SoundCalls, Sound
<1> QED
  BY <1>1, SwitchInductive, PTL
=============================================================================
