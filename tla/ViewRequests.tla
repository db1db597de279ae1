----------------------------- MODULE ViewRequests -----------------------------
(***************************************************************************)
(* The reads behind the screens of the TUI: the slots of                   *)
(* internal/tui/requests.go, the stack of views of navigation.go, and the  *)
(* commands of diagnostic_commands.go, resource_commands.go and            *)
(* cluster_commands.go, which run beside the event loop and whose messages *)
(* arrive whenever they do.                                                *)
(*                                                                         *)
(* A key opens a view, refreshes it or leaves it, and the heartbeat        *)
(* presses "r" every two seconds; each read takes a slot, and the read the *)
(* slot had is canceled.  What a view shows is named by the request that   *)
(* read it.                                                                *)
(*                                                                         *)
(* Simplifications: "list" stands for the screens of one read per node     *)
(* (processes, disks, network, sockets, mounts, memory, CPU and time),     *)
(* "usage" for the directory scan of one mount, "help" for the help, which *)
(* is pushed without a read (so are the BGP peers, whose "r" is left out), *)
(* and "nodes" for every screen that shows the cluster's own reads, which  *)
(* replace the whole stack.  Row selection is in ListSelection; a session  *)
(* is open as soon as it is selected, since nothing is asked of one that   *)
(* is not.                                                                 *)
(***************************************************************************)
EXTENDS Naturals, Sequences, SequencesExt

CONSTANTS
    Node,         \* the nodes of the cluster
    Screens,      \* the screens in use
    Status,       \* the sessions in use: whether they read node statuses
    MaxRequests,  \* bound: requests begun
    MaxSessions   \* bound: sessions selected after the first

NoNode == "none"

ASSUME ViewRequestsAssumption ==
    /\ NoNode \notin Node
    /\ Screens \subseteq {"list", "usage", "containers", "resources"}
    /\ Status \in BOOLEAN
    /\ MaxRequests \in Nat \ {0} /\ MaxSessions \in Nat

VARIABLES
    session,   \* generationCounter
    stack,     \* m.views
    serial,    \* directRequests.serial
    slots,     \* directRequests.slots: the requests that have one
    commands,  \* the commands under way and the messages not yet handled
    shown,     \* each screen's model: the request whose answer it shows
    attached,  \* the stream that a streamed screen's model holds
    streams,   \* the streams that are open, named by their request
    wanted     \* pendingResourceKind: open the kind once the kinds are read

requestVars == <<session, stack, serial, slots, commands, shown, attached, streams, wanted>>

Resources == {"kinds", "instances", "object"}
Streamed  == {"containers", "usage"}
Read      == {"nodes", "status", "list"} \cup Streamed \cup Resources
Polled    == {"nodes", "list", "kinds", "instances"}

\* The model that a frame of this kind shows.
ModelOf(kind) ==
    CASE kind = "detail" -> "list"
      [] kind = "item"   -> "containers"
      [] OTHER           -> kind

\* viewFrame; "opened" is the first request this opening of the view made.
Frame(kind, node, scope, opened) ==
    [kind |-> kind, node |-> node, scope |-> scope, opened |-> opened]
Root == Frame("nodes", NoNode, "", 0)
Top == Last(stack)
Scopes == {"system", "cri", "images"}     \* of the screen of containers

\* A directRequest; "auto" when no key asked for it.
NoRequest == [id |-> 0, kind |-> "none", node |-> NoNode, scope |-> "", session |-> 0, auto |-> FALSE]

IsStream(r) == r.kind = "usage" \/ (r.kind = "containers" /\ r.scope = "images")

Asked(r) == [request |-> r, does |-> IF IsStream(r) THEN "open" ELSE "read",
             at |-> "queued", result |-> "none"]

FirstRead == [NoRequest EXCEPT !.id = 1, !.kind = "nodes"]

RequestsInit ==
    /\ session = 0 /\ stack = <<Root>> /\ serial = 1
    /\ slots = {FirstRead} /\ commands = {Asked(FirstRead)}
    /\ shown = [k \in Read |-> NoRequest]
    /\ attached = [k \in Streamed |-> 0]
    /\ streams = {}
    /\ wanted = FALSE

-----------------------------------------------------------------------------
(* Slots and open views *)

\* Mutant: a request of this session counts, whatever came after it.
OfSession(r) == r.session = session

\* directRequests.current, and the generation of the session.
Current(r) == r \in slots /\ r.session = session

\* beginWithContext cancels what the slot had.
WithoutSlot(held, kind, node) == {r \in held : r.kind # kind \/ r.node # node}

Ask(kind, node, scope, auto, held) ==
    /\ serial < MaxRequests
    /\ serial' = serial + 1
    /\ LET r == [id |-> serial + 1, kind |-> kind, node |-> node, scope |-> scope,
                 session |-> session, auto |-> auto]
       IN  /\ slots' = WithoutSlot(held, kind, node) \cup {r}
           /\ commands' = commands \cup {Asked(r)}

\* directDiagnosticOpen, directDiskUsageOpen and the frames of resources.
OpenIn(views, kind, node) ==
    \E i \in DOMAIN views : ModelOf(views[i].kind) = kind /\ views[i].node = node

Closes(views, kind, node) == OpenIn(stack, kind, node) /\ ~OpenIn(views, kind, node)

\* What leaving views cancels: popDirectView, popDirectResourceView,
\* cancelClosedDirectDiagnostics and cancelClosedDirectResources.
HeldIn(views) == {r \in slots : ~Closes(views, r.kind, r.node)}
StreamLeft(views, kind) == \E f \in ToSet(stack) : Closes(views, kind, f.node) /\ ModelOf(f.kind) = kind

\* Mutant: the model of the screen is replaced, its stream is not closed.
NothingClosed(kinds) ==
    /\ attached' = [k \in Streamed |-> IF k \in kinds THEN 0 ELSE attached[k]]
    /\ UNCHANGED streams

\* containersModel.close and diskUsageModel.close.
CloseStreams(kinds) ==
    /\ attached' = [k \in Streamed |-> IF k \in kinds THEN 0 ELSE attached[k]]
    /\ streams' = streams \ {attached[k] : k \in kinds}

Leave(views) ==
    /\ stack' = views
    /\ CloseStreams({k \in Streamed : StreamLeft(views, k)})

-----------------------------------------------------------------------------
(* Keys and commands that change the view *)

Stays == UNCHANGED <<session, attached, streams, wanted>>

\* openDirectDiagnostic and openDirectContainers, on the selected node.
OpenNodeScreen(kind, node) ==
    /\ kind \in Screens \cap {"list", "containers"} /\ Top.kind = "nodes"
    /\ LET scope == IF kind = "containers" THEN "system" ELSE ""
       IN  /\ stack' = Append(stack, Frame(kind, node, scope, serial + 1))
           /\ Ask(kind, node, scope, FALSE, slots)
    /\ shown' = [shown EXCEPT ![kind] = NoRequest]
    /\ Stays

\* openDirectDiskUsage, on the selected mount.
OpenUsage ==
    /\ "usage" \in Screens /\ Top.kind = "list" /\ shown["list"] # NoRequest
    /\ stack' = Append(stack, Frame("usage", Top.node, "", serial + 1))
    /\ Ask("usage", Top.node, "", FALSE, slots)
    /\ shown' = [shown EXCEPT !["usage"] = NoRequest]
    /\ Stays

\* Enter on a row of a list or of the containers: a view without a read.
OpenRow ==
    /\ Top.kind \in {"list", "containers"} /\ shown[Top.kind] # NoRequest
    /\ stack' = Append(stack, [Top EXCEPT !.kind = IF Top.kind = "list" THEN "detail" ELSE "item"])
    /\ UNCHANGED <<serial, slots, commands, shown>>
    /\ Stays

\* "?" pushes the help; bound: once.
OpenHelp ==
    /\ ~OpenIn(stack, "help", NoNode)
    /\ stack' = Append(stack, Frame("help", NoNode, "", 0))
    /\ UNCHANGED <<serial, slots, commands, shown>>
    /\ Stays

\* "n" and "i" on the containers: switchDirectContainerScope.
SwitchScope(scope) ==
    /\ Top.kind = "containers" /\ scope \in Scopes \ {Top.scope}
    /\ stack' = [stack EXCEPT ![Len(stack)] = Frame("containers", Top.node, scope, serial + 1)]
    /\ Ask("containers", Top.node, scope, FALSE, slots)
    /\ shown' = [shown EXCEPT !["containers"] = NoRequest]
    /\ CloseStreams({"containers"})
    /\ UNCHANGED <<session, wanted>>

UpTo(kind) == SelectInSeq(stack, LAMBDA f : f.kind = kind)

\* openDirectResources: back to the kinds where they are open, else on top.
OpenResources(kind) ==
    /\ "resources" \in Screens
    /\ LET views == IF UpTo("kinds") = 0
                    THEN Append(stack, Frame("kinds", NoNode, "", serial + 1))
                    ELSE Append(SubSeq(stack, 1, UpTo("kinds") - 1),
                                Frame("kinds", NoNode, "", serial + 1))
       IN  /\ Leave(views)
           /\ Ask("kinds", NoNode, "", FALSE, HeldIn(views))
    /\ shown' = [k \in Read |-> IF k \in Resources THEN NoRequest ELSE shown[k]]
    /\ wanted' = kind
    /\ UNCHANGED session

\* Enter on a kind: openDirectResourceInstances, for the selected node.
OpenInstances(node) ==
    /\ Top.kind = "kinds" /\ shown["kinds"] # NoRequest
    /\ stack' = Append(stack, Frame("instances", node, "", serial + 1))
    /\ Ask("instances", node, "", FALSE, slots)
    /\ shown' = [shown EXCEPT !["instances"] = NoRequest]
    /\ Stays

OpenObject ==
    /\ Top.kind = "instances" /\ shown["instances"] # NoRequest
    /\ stack' = Append(stack, Frame("object", Top.node, "", serial + 1))
    /\ Ask("object", Top.node, "", FALSE, slots)
    /\ shown' = [shown EXCEPT !["object"] = NoRequest]
    /\ Stays

\* q and Escape.
Back ==
    /\ Len(stack) > 1
    /\ Leave(Front(stack))
    /\ slots' = HeldIn(Front(stack))
    /\ wanted' = (wanted /\ Top.kind # "kinds")
    /\ UNCHANGED <<session, serial, commands, shown>>

\* ":nodes" and its kin replace the whole stack.
ReplaceRoot ==
    /\ Len(stack) > 1
    /\ Leave(<<Root>>)
    /\ slots' = HeldIn(<<Root>>)
    /\ wanted' = (wanted /\ UpTo("kinds") = 0)
    /\ UNCHANGED <<session, serial, commands, shown>>

\* beginSessionOpen, and startClusterObservations of the session it opens;
\* the requests of the earlier session end with its context.
SelectSession ==
    /\ session < MaxSessions /\ serial < MaxRequests
    /\ session' = session + 1
    /\ stack' = <<Root>>
    /\ CloseStreams(Streamed)
    /\ wanted' = FALSE
    /\ serial' = serial + 1
    /\ LET first == [FirstRead EXCEPT !.id = serial + 1, !.session = session + 1]
       IN  slots' = {first} /\ commands' = commands \cup {Asked(first)}
    /\ UNCHANGED shown

-----------------------------------------------------------------------------
(* Refreshing what is on top *)

\* refreshDirectDiagnostic, refreshDirectResources and refreshDirectNodes: the
\* rows stay.  refreshDirectContainers and refreshDirectDiskUsage start over.
Refresh(auto) ==
    /\ Top.kind \in Read
    /\ Ask(Top.kind, Top.node, Top.scope, auto, slots)
    /\ shown' = IF Top.kind \in Streamed THEN [shown EXCEPT ![Top.kind] = NoRequest] ELSE shown
    /\ CloseStreams(Streamed \cap {Top.kind})
    /\ UNCHANGED <<session, stack, wanted>>

\* Mutant: the heartbeat does not look at what is under way.
NeverPending(frame) == FALSE

\* activeRefreshPending
Pending(frame) == \E r \in slots : Current(r) /\ r.kind = frame.kind /\ r.node = frame.node

\* The heartbeat presses "r" for the operator.
Tick ==
    /\ Top.kind \in Polled /\ ~Pending(Top)
    /\ Refresh(TRUE)

-----------------------------------------------------------------------------
(* Commands *)

Settled(c) == commands' = commands \ {c}
Posted(c, result) ==
    commands' = (commands \ {c}) \cup {[c EXCEPT !.at = "posted", !.result = result]}

LoopAside == UNCHANGED <<session, stack, serial, slots, shown, attached, wanted>>

\* directCommand does nothing once its context has ended.
Skip(c) ==
    /\ c \in commands /\ c.at = "queued" /\ ~Current(c.request)
    /\ Settled(c)
    /\ UNCHANGED streams
    /\ LoopAside

\* The call answers; one that opens a stream may hand it over.
Call(c, result) ==
    /\ c \in commands /\ c.at = "queued" /\ Current(c.request)
    /\ result \in IF c.does = "next" THEN {"more", "end"} ELSE {"ok", "failed"}
    /\ Posted(c, result)
    /\ streams' = IF c.does = "open" /\ result = "ok" THEN streams \cup {c.request.id} ELSE streams
    /\ LoopAside

-----------------------------------------------------------------------------
(* Messages *)

\* Mutant: only the view on top is looked at.
OpenOnTop(r) ==
    CASE r.kind \in {"nodes", "status"}         -> TRUE
      [] r.kind = "instances"                   ->
            \/ Top.kind = "instances" /\ Top.node = r.node
            \/ Top.kind = "object" /\ Top.node = r.node
      [] OTHER -> Top.kind = r.kind /\ Top.node = r.node /\ Top.scope = r.scope

\* Whether the view that asked is there.  Only the instances and the object
\* of a resource, and the kinds, must be on top (or just below their object).
StillOpen(r) ==
    CASE r.kind \in {"nodes", "status"} -> TRUE
      [] r.kind \in {"kinds", "object"} -> Top.kind = r.kind /\ Top.node = r.node
      [] r.kind = "instances" ->
            \/ Top.kind = "instances" /\ Top.node = r.node
            \/ /\ Top.kind = "object" /\ Top.node = r.node
               /\ Last(Front(stack)).kind = "instances" /\ Last(Front(stack)).node = r.node
      [] OTHER -> \E f \in ToSet(stack) :
                      ModelOf(f.kind) = r.kind /\ f.node = r.node /\ f.scope = r.scope

Accepted(c) == c \in commands /\ c.at = "posted" /\ Current(c.request) /\ StillOpen(c.request)

\* A message that came too late: its stream is closed.
Discard(c) ==
    /\ c \in commands /\ c.at = "posted" /\ ~Accepted(c)
    /\ Settled(c)
    /\ streams' = streams \ {c.request.id}
    /\ LoopAside

\* A failed read empties a list; the resources keep what they had.
AnswerOf(c) ==
    IF c.result = "failed" /\ c.request.kind \in Resources
    THEN shown[c.request.kind] ELSE c.request

FollowedByStatus(c)    == c.request.kind = "nodes" /\ Status
FollowedByInstances(c) == c.request.kind = "kinds" /\ wanted

\* The answer of a read that no other read follows.
AcceptRead(c) ==
    /\ Accepted(c) /\ c.does = "read"
    /\ ~FollowedByStatus(c) /\ ~FollowedByInstances(c)
    /\ shown' = [shown EXCEPT ![c.request.kind] = AnswerOf(c)]
    /\ slots' = slots \ {c.request}
    /\ Settled(c)
    /\ UNCHANGED <<session, stack, serial, attached, streams, wanted>>

\* The nodes are followed by their statuses (bound: while requests are left).
AcceptNodes(c) ==
    /\ Accepted(c) /\ FollowedByStatus(c)
    /\ shown' = [shown EXCEPT !["nodes"] = c.request]
    /\ IF serial < MaxRequests
       THEN LET r == [c.request EXCEPT !.id = serial + 1, !.kind = "status"]
            IN  /\ serial' = serial + 1
                /\ slots' = WithoutSlot(slots \ {c.request}, "status", NoNode) \cup {r}
                /\ commands' = (commands \ {c}) \cup {Asked(r)}
       ELSE slots' = slots \ {c.request} /\ Settled(c) /\ UNCHANGED serial
    /\ UNCHANGED <<session, stack, attached, streams, wanted>>

\* The kinds are followed by the instances of the kind that was asked for, if
\* it is one of them (bound: while requests are left).
AcceptKinds(c, node, found) ==
    /\ Accepted(c) /\ FollowedByInstances(c)
    /\ wanted' = FALSE
    /\ IF c.result = "ok" /\ found /\ serial < MaxRequests
       THEN LET r == [NoRequest EXCEPT !.id = serial + 1, !.kind = "instances", !.node = node,
                                       !.session = session]
            IN  /\ serial' = serial + 1
                /\ stack' = Append(stack, Frame("instances", node, "", serial + 1))
                /\ slots' = WithoutSlot(slots \ {c.request}, "instances", node) \cup {r}
                /\ commands' = (commands \ {c}) \cup {Asked(r)}
                /\ shown' = [shown EXCEPT !["kinds"] = c.request, !["instances"] = NoRequest]
       ELSE /\ slots' = slots \ {c.request} /\ Settled(c)
            /\ shown' = [shown EXCEPT !["kinds"] = AnswerOf(c)]
            /\ UNCHANGED <<serial, stack>>
    /\ UNCHANGED <<session, attached, streams>>

NextBatch(c) == [c EXCEPT !.does = "next", !.at = "queued", !.result = "none"]

\* A stream is open, or could not be opened.
AcceptOpened(c) ==
    /\ Accepted(c) /\ c.does = "open"
    /\ IF c.result = "ok"
       THEN /\ attached' = [attached EXCEPT ![c.request.kind] = c.request.id]
            /\ commands' = (commands \ {c}) \cup {NextBatch(c)}
            /\ UNCHANGED slots
       ELSE Settled(c) /\ slots' = slots \ {c.request} /\ UNCHANGED attached
    /\ UNCHANGED <<session, stack, serial, shown, streams, wanted>>

\* A batch of rows; the last one, or an error, closes the stream.
AcceptBatch(c) ==
    /\ Accepted(c) /\ c.does = "next"
    /\ shown' = [shown EXCEPT ![c.request.kind] = c.request]
    /\ IF c.result = "more"
       THEN commands' = (commands \ {c}) \cup {NextBatch(c)} /\ UNCHANGED <<slots, attached, streams>>
       ELSE /\ Settled(c) /\ slots' = slots \ {c.request}
            /\ attached' = [attached EXCEPT ![c.request.kind] = 0]
            /\ streams' = streams \ {c.request.id}
    /\ UNCHANGED <<session, stack, serial, wanted>>

-----------------------------------------------------------------------------
RequestKey ==
    \/ \E node \in Node : OpenInstances(node) \/ \E kind \in Screens : OpenNodeScreen(kind, node)
    \/ OpenUsage \/ OpenRow \/ OpenHelp \/ OpenObject \/ Back \/ ReplaceRoot \/ SelectSession
    \/ \E scope \in Scopes : SwitchScope(scope)
    \/ \E kind \in BOOLEAN : OpenResources(kind)
    \/ Refresh(FALSE)

RequestMessage ==
    \E c \in commands :
        \/ Skip(c) \/ Discard(c)
        \/ \E result \in {"ok", "failed", "more", "end"} : Call(c, result)
        \/ AcceptRead(c) \/ AcceptNodes(c) \/ AcceptOpened(c) \/ AcceptBatch(c)
        \/ \E node \in Node, found \in BOOLEAN : AcceptKinds(c, node, found)

RequestsNext == RequestKey \/ Tick \/ RequestMessage

RequestsSpec == RequestsInit /\ [][RequestsNext]_requestVars

-----------------------------------------------------------------------------
(***************************************************************************)
(* Properties                                                              *)
(***************************************************************************)

\* What a view shows was read for it: for its node and its scope, in the
\* session that is open, and by a request begun since this view was opened,
\* however late the answers to earlier openings, scopes and sessions arrive.
\* The disk a wipe would take is the row shown and the node of the frame.
ShownIsOfView ==
    \A f \in ToSet(stack) :
        LET r == IF ModelOf(f.kind) \in Read THEN shown[ModelOf(f.kind)] ELSE NoRequest
        IN  (r # NoRequest /\ f.kind # "nodes") =>
                /\ r.kind = ModelOf(f.kind) /\ r.node = f.node /\ r.scope = f.scope
                /\ r.session = session /\ r.id >= f.opened

UnderWay(r) == \E c \in commands : c.request = r

\* Nothing is left behind: a request keeps its slot only while its read is under
\* way, else the heartbeat, which waits for the slot, would never read the list
\* again (for the resources see ActiveListRefreshes); and a stream is open only
\* while the model of an open view holds it, or a message that is still to be
\* handled will close it.
NothingLeftBehind ==
    /\ \A r \in slots : Current(r) /\ r.kind \notin Resources => UnderWay(r)
    /\ \A s \in streams :
          \/ \E k \in Streamed : attached[k] = s /\ \E f \in ToSet(stack) : ModelOf(f.kind) = k
          \/ \E c \in commands : c.at = "posted" /\ c.request.id = s

\* "The active list also refreshes automatically every 2 seconds ... The same
\* behavior applies to ... resource lists": what keeps the heartbeat from
\* reading the list on top is a read of it that is under way.
ActiveListRefreshes ==
    Top.kind \in Polled =>
        \A r \in slots :
            (Current(r) /\ r.kind = Top.kind /\ r.node = Top.node) => UnderWay(r)

Superseded(r) ==
    /\ Current(r) /\ r \notin slots' /\ session' = session
    /\ \E new \in slots' \ slots : new.auto /\ new.kind = r.kind /\ new.node = r.node

\* The heartbeat never cancels a read that is under way, however slow: "automatic
\* refresh must not repeatedly cancel a read slower than the heartbeat" (shell.go).
\* The statuses of the nodes are left out: directNodeServicesLoaded reads them
\* anew after each read of the nodes, and cancels the read before.
HeartbeatKeepsReads == [][\A r \in slots : r.kind # "status" => ~Superseded(r)]_requestVars
=============================================================================
