---------------------------- MODULE ClusterLease ----------------------------
(***************************************************************************)
(* What t9s promises about mutations inside one process, whatever session  *)
(* machinery stands behind it: a cluster is changed by at most one         *)
(* operation at a time, and a confirmation (a prepared plan) is spent by   *)
(* the operation it admits, so it never starts a second one.               *)
(***************************************************************************)
CONSTANTS Cluster, Caller, Plan,
          NoCaller   \* not a caller

VARIABLES holder,  \* holder[k]: the operation changing cluster k, or NoCaller
          spent    \* plans that have admitted an operation

leaseVars == <<holder, spent>>

LeaseInit ==
    /\ holder = [k \in Cluster |-> NoCaller]
    /\ spent = {}

\* An operation starts on an idle cluster by spending a fresh plan.
Start(c, p, k) ==
    /\ holder[k] = NoCaller
    /\ p \notin spent
    /\ holder' = [holder EXCEPT ![k] = c]
    /\ spent' = spent \cup {p}

\* Only the operation that holds a cluster gives it up.
Finish(c, k) ==
    /\ holder[k] = c
    /\ holder' = [holder EXCEPT ![k] = NoCaller]
    /\ UNCHANGED spent

LeaseNext ==
    \E c \in Caller, k \in Cluster :
        \/ \E p \in Plan : Start(c, p, k)
        \/ Finish(c, k)

LeaseSpec == LeaseInit /\ [][LeaseNext]_leaseVars
=============================================================================
