----------------------------- MODULE MCSessions -----------------------------
(***************************************************************************)
(* Two instances side by side, "part" says which of them takes steps:      *)
(*   "lease"   SessionLease with two sessions of one cluster; a second     *)
(*             cluster that no session is of must stay free;               *)
(*   "switch"  SessionSwitch with two opens: one switch, at whose time the *)
(*             first open may still run, have posted its result or have    *)
(*             been installed.                                             *)
(* What is fair of one is disabled in the initial state of the other.      *)
(***************************************************************************)
EXTENDS SessionLease, SessionSwitch, TLC

CONSTANTS s1, s2, k1, k2
MCClusterOf == (s1 :> k1) @@ (s2 :> k1)

VARIABLE part

MCInit == part \in {"lease", "switch"} /\ Init /\ SwitchInit
MCNext ==
    \/ part = "lease" /\ Next /\ UNCHANGED <<part, switchVars>>
    \/ part = "switch" /\ SwitchNext /\ UNCHANGED <<part, vars>>
MCSpec == MCInit /\ [][MCNext]_<<part, vars, switchVars>> /\ Fairness /\ SwitchFairness
=============================================================================
