----------------------------- MODULE MCUpgrades -----------------------------
(***************************************************************************)
(* Two instances side by side, "part" says which of them takes steps:      *)
(*   "talos"        TalosUpgrade, which has no parameters: one upgrade of  *)
(*                  one node;                                              *)
(*   "kubernetes"   KubernetesUpgrade with two nodes and three minor       *)
(*                  releases.                                              *)
(* The other one stays in one initial state.  What is fair of TalosUpgrade *)
(* is disabled there; what is fair of KubernetesUpgrade is asked for only  *)
(* where it takes steps, and so is its liveness.                           *)
(***************************************************************************)
EXTENDS TalosUpgrade, KubernetesUpgrade

VARIABLE part

MCInit ==
    /\ part \in {"talos", "kubernetes"} /\ Init /\ KubernetesInit
    /\ part = "kubernetes" =>
           /\ ~downtime /\ ~drift
           /\ object = [cordon |-> "none", ready |-> TRUE, booted |-> FALSE, bootID |-> TRUE]
MCNext ==
    \/ part = "talos" /\ Next /\ UNCHANGED <<part, kubernetesVars>>
    \/ part = "kubernetes" /\ KubernetesNext /\ UNCHANGED <<part, vars>>
MCSpec ==
    /\ MCInit /\ [][MCNext]_<<part, vars, kubernetesVars>>
    /\ Fairness
    /\ part = "kubernetes" => KubernetesFairness
=============================================================================
