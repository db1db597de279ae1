------------------------------- MODULE MCViews -------------------------------
(***************************************************************************)
(* Three instances side by side, "part" says which of them takes steps:    *)
(*   "requests"    ViewRequests with two nodes, a screen of each sort and  *)
(*                 four requests in two sessions;                          *)
(*   "selection"   ListSelection with four rows and five filters, for each *)
(*                 of its policies;                                        *)
(*   "health"      ClusterHealth with two hosts, two contexts, a refresh   *)
(*                 of each and a read of each that goes wrong; another one *)
(*                 only adds a diagnosis, or makes the answer partial.     *)
(***************************************************************************)
EXTENDS ViewRequests, ListSelection, ClusterHealth, TLC

VARIABLE part

mcVars == <<part, requestVars, listVars, healthVars>>

MCInit ==
    /\ part \in {"requests", "selection", "health"}
    /\ RequestsInit /\ SelectionInit /\ HealthInit
    /\ part # "selection" => policy = "position"
MCNext ==
    \/ part = "requests" /\ RequestsNext /\ UNCHANGED <<part, listVars, healthVars>>
    \/ part = "selection" /\ SelectionNext /\ UNCHANGED <<part, requestVars, healthVars>>
    \/ part = "health" /\ HealthNext /\ UNCHANGED <<part, requestVars, listVars>>
MCSpec == MCInit /\ [][MCNext]_mcVars

HostSymmetry == Permutations(Host)
=============================================================================
