------------------------------- MODULE MCNodes -------------------------------
(***************************************************************************)
(* Two instances side by side, "part" says which of them takes steps:      *)
(*   "action"   NodeAction with three control-plane machines, the third    *)
(*              without a hostname in discovery, a worker, and a machine   *)
(*              that may take the place of the first one under its         *)
(*              hostname and address;                                      *)
(*   "stream"   LifecycleStream with the views of logs and of the health   *)
(*              check of a cluster; LifecycleStream.cfg has the one of the *)
(*              events, and liveness.                                      *)
(***************************************************************************)
EXTENDS NodeAction, LifecycleStream, TLC

CONSTANTS cp1, cp2, cp3, work, spare

\* Hostnames are 1 to 4, addresses 11 to 14.
MCHost == {1, 2, 3, 4, 11, 12, 13, 14}
MCNameOf == (cp1 :> 1) @@ (cp2 :> 2) @@ (cp3 :> NoHost) @@ (work :> 4) @@ (spare :> 1)
MCAddressOf == (cp1 :> 11) @@ (cp2 :> 12) @@ (cp3 :> 13) @@ (work :> 14) @@ (spare :> 11)
MCMemberHost == (cp1 :> 1) @@ (cp2 :> 2) @@ (cp3 :> 3) @@ (work :> 4) @@ (spare :> 1)

System == [name |-> "sda", serial |-> 0, system |-> TRUE, readonly |-> FALSE]
User(number) == [name |-> "sdb", serial |-> number, system |-> FALSE, readonly |-> FALSE]

\* A disk replaced under its name, missing, or read-only; and the names swapped.
MCDisks == {{System, User(1)}, {System, User(2)}, {System},
            {System, [User(1) EXCEPT !.readonly = TRUE]},
            {[System EXCEPT !.name = "sdb"], [User(1) EXCEPT !.name = "sda"]}}

Ask(kind, targets, mode, devices) ==
    [kind |-> kind, targets |-> targets, mode |-> mode, devices |-> devices]

MCRequest ==
    {Ask("reboot", {1, 11}, "none", {}), Ask("reboot", {1, 14}, "none", {}),
     Ask("reboot", {2, 13}, "none", {}), Ask("stopEtcd", {13}, "none", {}),
     Ask("service", {11}, "none", {}), Ask("reboot", {cp1, 2}, "none", {}), Ask("service", {}, "none", {}),
     Ask("reset", {1, 4}, "system", {}), Ask("reset", {11}, "all", {}),
     Ask("reset", {1}, "user", {"sdb"}), Ask("wipe", {1}, "none", {"sdb"})}

\* At most one voter is ill, and one machine unknown to discovery.
MCStart ==
    {[inventory |-> [m \in Machine |-> IF m \in {unknown, spare} THEN "absent"
                                       ELSE IF m = work THEN "worker" ELSE "control"],
      etcd |-> [m \in Machine |-> IF m \in {work, spare} THEN "none" ELSE IF m = ill THEN "ill" ELSE "up"],
      disks |-> [m \in Machine |-> {System, User(1)}]]
     : unknown \in {cp2, spare}, ill \in {cp2, work}}

VARIABLE part

MCInit ==
    /\ part \in {"action", "stream"} /\ Init /\ StreamInit
    /\ part = "stream" => /\ etcd = [m \in Machine |-> IF m \in {work, spare} THEN "none" ELSE "up"]
                          /\ inventory[cp2] = "control"
MCNext ==
    \/ part = "action" /\ Next /\ UNCHANGED <<part, streamVars>>
    \/ part = "stream" /\ StreamNext /\ UNCHANGED <<part, vars>>
MCSpec == MCInit /\ [][MCNext]_<<part, vars, streamVars>>
=============================================================================
