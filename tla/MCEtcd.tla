------------------------------- MODULE MCEtcd -------------------------------
(***************************************************************************)
(* Two instances side by side, "part" says which of them takes steps:      *)
(*   "gates"   EtcdQuorum with up to four members on three hosts, the      *)
(*             fourth a second registration of the third host; host 4 is   *)
(*             an address that the second one's URLs name;                 *)
(*   "action"  EtcdAction with three control-plane hosts of a member each, *)
(*             and a fourth member ID that stands for a new registration   *)
(*             of the first host.                                          *)
(***************************************************************************)
EXTENDS EtcdQuorum, EtcdAction, TLC

CONSTANTS m1, m2, m3, m4

MCHost == 1 .. 4

\* The gates.

Registered(m) == CASE m = m1 -> 1 [] m = m2 -> 2 [] OTHER -> 3
Urls(m) == IF m = m2 THEN {4} ELSE {}

MCListing ==
    UNION {{[m \in S |-> [host |-> Registered(m), urls |-> Urls(m), learner |-> m \in learners,
                          leader |-> FALSE, status |-> "unread"]]
            : learners \in SUBSET S} : S \in SUBSET Member}

\* The action.

MCHostOf == (m1 :> 1) @@ (m2 :> 2) @@ (m3 :> 3) @@ (m4 :> 1)

\* A member that changes is named by ID, by host or both; it may be selected by
\* way of another node.
MCRequest ==
    [kind : {"remove", "leave", "forfeit"}, node : {1}, id : {m1}, host : {NoHost}]
    \cup [kind : {"remove"}, node : {3}, id : {NoMember}, host : {3}]
    \cup [kind : {"leave", "snapshot"}, node : {3}, id : {m3}, host : {3}]
    \cup [kind : {"remove"}, node : {2}, id : {m1}, host : {1}]
    \cup [kind : {"snapshot", "maintain"}, node : {2}, id : {NoMember}, host : {NoHost}]

\* At most one member is ill, at most one node is unknown, and the third member
\* may be a learner.
MCStart ==
    { [membership |-> [m \in Member |-> IF m = m4 THEN "absent"
                                          ELSE IF m = m3 THEN third ELSE "voter"],
       health |-> [m \in Member |-> IF m = ill THEN "ill" ELSE "up"],
       inventory |-> [h \in Host |-> IF h \in {unknown, 4} THEN "absent" ELSE "control"]]
      : third \in {"voter", "learner"}, ill \in {m1, m2, m3, m4}, unknown \in 0 .. 3 }

VARIABLE part

MCInit ==
    /\ part \in {"gates", "action"} /\ Init /\ ActionInit
    /\ part = "gates" => /\ health = [m \in Member |-> IF m = m4 THEN "ill" ELSE "up"]
                         /\ inventory = [h \in Host |-> IF h = 4 THEN "absent" ELSE "control"]
                         /\ membership[m3] = "voter"
    /\ part = "action" => etcd = Unavailable
MCNext ==
    \/ part = "gates" /\ Next /\ UNCHANGED <<part, actionVars>>
    \/ part = "action" /\ ActionNext /\ UNCHANGED <<part, vars>>
MCSpec == MCInit /\ [][MCNext]_<<part, vars, actionVars>>
=============================================================================
