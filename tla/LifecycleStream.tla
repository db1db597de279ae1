--------------------------- MODULE LifecycleStream ---------------------------
(***************************************************************************)
(* The live views: service logs, dmesg, followed machine events and the    *)
(* cluster health check.  A stream of the application (lifecycleStream in  *)
(* internal/application/streams.go) owns one RPC; the terminal UI          *)
(* (internal/tui/stream_commands.go) keeps one request per view, opens and *)
(* reads in commands that run beside it, and handles their messages later. *)
(*                                                                         *)
(* A stream is named by the serial number of its request.  Contexts form a *)
(* tree: root, session, request, stream; an AfterFunc of the stream's      *)
(* context closes it.  The adapters below (the RPC and its buffering) are  *)
(* the choices of OpenReturns and NextReturns.                             *)
(***************************************************************************)
EXTENDS Naturals, Sequences

CONSTANTS Slots,      \* the live views in use
          MaxStream,  \* bound: requests begun
          MaxSwitch,  \* bound: sessions opened after the first
          MaxLine,    \* bound: lines a server sends on one stream
          MaxRows     \* rows a view retains (5000, 2000 or 500 in the code)

ASSUME StreamAssumption ==
    /\ Slots \subseteq {"logs", "dmesg", "events", "health"}
    /\ MaxStream \in Nat /\ MaxSwitch \in Nat /\ MaxLine \in Nat
    /\ MaxRows \in Nat \ {0}

Stream == 1 .. MaxStream
NoStream == 0

VARIABLES
    running,      \* the event loop handles messages
    rootCanceled,
    generation,   \* generationCounter: an earlier session's context has ended
    session,      \* m.session is set
    view,         \* frames of each live view in the view stack
    slot,         \* the request in each slot of directRequests
    ui,           \* the model of each live view
    snapshot,     \* the request for the recent events is under way
    conn,         \* each request, its stream and its Next
    serial,       \* directRequests.serial
    cleanup       \* fallbackCleanup of the quit key: steps done, streams it saw

streamVars == <<running, rootCanceled, generation, session, view, slot, ui, snapshot,
          conn, serial, cleanup>>

\* A request and its stream.  "gen" is the session's, "canceled" that the request's
\* own cancel was called; "pc" goes over "queued" and "opening" to the Opened
\* message, with a stream ("opened") or without ("failed"), and "done"; "upstream"
\* is the RPC: none, open or closed; "next" the Next: queued, receiving, posted;
\* "sent" counts the lines the stream has returned, "count" those of the posted
\* batch; "end" is the batch's: none, eof or error; "own" tells that it ended
\* because this program canceled it.
Idle == [slot |-> "none", gen |-> 0, canceled |-> FALSE, pc |-> "idle",
         upstream |-> "none", next |-> "none", sent |-> 0, count |-> 0,
         end |-> "none", own |-> FALSE]

\* A view, with a row for each line it retains; "status" is closed, loading, ready
\* or failed, and for the events "ready" is eventFollow.following; "verdict" is
\* VerdictReady of the health check, with whose EOF it was ("server" or "own");
\* "seen" counts the lines shown of the request since the last clear.
Blank == [request |-> NoStream, stream |-> NoStream, status |-> "closed",
          eof |-> FALSE, verdict |-> "none", rows |-> <<>>, seen |-> 0]

StreamInit ==
    /\ running = TRUE /\ rootCanceled = FALSE
    /\ generation = 0 /\ session = TRUE /\ snapshot = TRUE
    /\ view = [s \in Slots |-> 0]
    /\ slot = [s \in Slots |-> NoStream]
    /\ ui = [s \in Slots |-> Blank]
    /\ conn = [h \in Stream |-> Idle]
    /\ serial = 0
    /\ cleanup = [step |-> 0, streams |-> [s \in Slots |-> NoStream]]

-----------------------------------------------------------------------------
(* Contexts, requests and closing *)

\* The request's context, a child of the session's.
RequestEnded(h) == conn[h].canceled \/ conn[h].gen # generation \/ rootCanceled

\* The stream's context; closeCore cancels it.
StreamEnded(h) == RequestEnded(h) \/ conn[h].upstream = "closed"

\* Mutant: a canceled request that still has its slot counts as current.
InSlot(h) == slot[conn[h].slot] = h

\* directRequests.current.
Current(h) == slot[conn[h].slot] = h /\ ~RequestEnded(h)

\* The cancel function of a slot's request.
Canceled(c, h) == IF h = NoStream THEN c ELSE [c EXCEPT ![h].canceled = TRUE]

\* lifecycleStream.Close: once, whoever calls it.
Closed(c, h) ==
    IF h \in Stream /\ c[h].upstream = "open"
    THEN [c EXCEPT ![h].upstream = "closed"] ELSE c

\* closeDirectLogs, closeDirectEventFollow, closeDirectHealth, for the slots S:
\* cancelSlot, then Close of the streams a model holds.
ClosedSlots(c, S, streams) ==
    [h \in Stream |->
        [c[h] EXCEPT
            !.canceled = @ \/ \E s \in S : slot[s] = h,
            !.upstream = IF @ = "open" /\ \E s \in S : streams[s] = h
                         THEN "closed" ELSE @]]

Held == [s \in Slots |-> ui[s].stream]
Emptied(S) == [s \in Slots |-> IF s \in S THEN NoStream ELSE slot[s]]

\* What closing leaves of a view's model; only the events change their status.
LetGo(s) == [ui[s] EXCEPT !.stream = NoStream,
                          !.status = IF s = "events" THEN "closed" ELSE @]

\* beginWithContext: the slot's earlier request is canceled.
Begun(c, s) ==
    [Canceled(c, slot[s]) EXCEPT
        ![serial + 1] = [Idle EXCEPT !.slot = s, !.gen = generation, !.pc = "queued"]]

Begin(s, c) ==
    /\ serial < MaxStream
    /\ serial' = serial + 1
    /\ slot' = [slot EXCEPT ![s] = serial + 1]
    /\ conn' = Begun(c, s)

-----------------------------------------------------------------------------
(* The application's stream, in the commands' goroutines *)

\* directCommand drops a request that ended before it ran.
SkipOpen(h) ==
    /\ conn[h].pc = "queued" /\ RequestEnded(h)
    /\ conn' = [conn EXCEPT ![h].pc = "done"]
    /\ UNCHANGED <<running, rootCanceled, generation, session, view, slot, ui,
                   snapshot, serial, cleanup>>

StartOpen(h) ==
    /\ conn[h].pc = "queued" /\ ~RequestEnded(h)
    /\ conn' = [conn EXCEPT ![h].pc = "opening"]
    /\ UNCHANGED <<running, rootCanceled, generation, session, view, slot, ui,
                   snapshot, serial, cleanup>>

\* openLifecycleStream: a stream that comes after its context ended is closed
\* and not returned; another one gets closeCore as the AfterFunc of its context.
OpenReturns(h) ==
    /\ conn[h].pc = "opening"
    /\ \/ conn' = [conn EXCEPT ![h].pc = "failed"]
       \/ conn' = [conn EXCEPT ![h].pc = IF RequestEnded(h) THEN "failed" ELSE "opened",
                               ![h].upstream = IF RequestEnded(h) THEN "closed" ELSE "open"]
    /\ UNCHANGED <<running, rootCanceled, generation, session, view, slot, ui,
                   snapshot, serial, cleanup>>

\* The AfterFunc of the stream's context, and the one of a pending Next.
ContextCloses(h) ==
    /\ conn[h].upstream = "open" /\ RequestEnded(h)
    /\ conn' = Closed(conn, h)
    /\ UNCHANGED <<running, rootCanceled, generation, session, view, slot, ui,
                   snapshot, serial, cleanup>>

SkipNext(h) ==
    /\ conn[h].next = "queued" /\ RequestEnded(h)
    /\ conn' = [conn EXCEPT ![h].next = "none"]
    /\ UNCHANGED <<running, rootCanceled, generation, session, view, slot, ui,
                   snapshot, serial, cleanup>>

StartNext(h) ==
    /\ conn[h].next = "queued" /\ ~RequestEnded(h)
    /\ conn' = [conn EXCEPT ![h].next = "receiving"]
    /\ UNCHANGED <<running, rootCanceled, generation, session, view, slot, ui,
                   snapshot, serial, cleanup>>

\* lifecycleStream.Next, after the adapter answered with n lines and an end: a
\* terminal payload or EOF is returned as it is, an ended context turns lines
\* into an error, and every end closes the stream.
Posted(h, n, end, own) ==
    LET final == IF end = "none" /\ StreamEnded(h) THEN "error" ELSE end
        c     == IF final = "none" THEN conn ELSE Closed(conn, h)
    IN conn' = [c EXCEPT ![h].next = "posted", ![h].sent = @ + n, ![h].count = n,
                         ![h].end = final, ![h].own = own]

IsLog(s) == s \in {"logs", "dmesg"}

\* What the server sent: lines (a batch of them from a log only, where EOF may
\* complete a last one), EOF, or an error, an Err payload included.  Lines that
\* were buffered still come after the end of the context.  The adapter of the
\* health check takes a Canceled for EOF, also one the server sent.
ServerAnswers(h) ==
    /\ conn[h].next = "receiving"
    /\ \E n \in 0 .. MaxLine - conn[h].sent :
          /\ n < 2 \/ IsLog(conn[h].slot)
          /\ \/ n > 0 /\ Posted(h, n, "none", FALSE)
             \/ n = 0 /\ Posted(h, n, "eof", FALSE)
             \/ n = 1 /\ IsLog(conn[h].slot) /\ Posted(h, n, "eof", FALSE)
             \/ n = 0 /\ Posted(h, n, "error", FALSE)
    /\ UNCHANGED <<running, rootCanceled, generation, session, view, slot, ui,
                   snapshot, serial, cleanup>>

\* The program itself ended the call: an error, but EOF of a health check.
OwnCancelAnswers(h) ==
    /\ conn[h].next = "receiving" /\ StreamEnded(h)
    /\ Posted(h, 0, IF conn[h].slot = "health" THEN "eof" ELSE "error", TRUE)
    /\ UNCHANGED <<running, rootCanceled, generation, session, view, slot, ui,
                   snapshot, serial, cleanup>>

-----------------------------------------------------------------------------
(* The event loop: messages *)

\* A request of a view whose messages are still wanted: the stamp is the
\* current one, of this view, and the events are being followed.
Wanted(h) ==
    LET s == conn[h].slot IN
    /\ Current(h)
    /\ IsLog(s) \/ ui[s].request = h
    /\ s = "events" => ui[s].status = "ready"

\* A late or unwanted stream is closed; its request gives up the slot.
DisposeOpened(h) ==
    LET s == conn[h].slot IN
    /\ running /\ conn[h].pc \in {"opened", "failed"}
    /\ ~Wanted(h) \/ view[s] = 0
    /\ conn' = [Closed(IF Current(h) THEN Canceled(conn, h) ELSE conn, h)
                EXCEPT ![h].pc = "done"]
    /\ slot' = IF Current(h) THEN Emptied({s}) ELSE slot
    /\ UNCHANGED <<running, rootCanceled, generation, session, view, ui, snapshot,
                   serial, cleanup>>

\* Mutant: the view goes on loading.
FailedSilently(s) == ui[s]

\* How a failure to open appears.
Failed(s) == [ui[s] EXCEPT !.status = IF s = "events" THEN "closed" ELSE "failed"]

OpenFailed(h) ==
    LET s == conn[h].slot IN
    /\ running /\ conn[h].pc = "failed"
    /\ Wanted(h) /\ view[s] > 0
    /\ ui' = [ui EXCEPT ![s] = Failed(s)]
    /\ slot' = Emptied({s})
    /\ conn' = [Canceled(conn, h) EXCEPT ![h].pc = "done"]
    /\ UNCHANGED <<running, rootCanceled, generation, session, view, snapshot,
                   serial, cleanup>>

AdoptStream(h) ==
    LET s == conn[h].slot IN
    /\ running /\ conn[h].pc = "opened"
    /\ Wanted(h) /\ view[s] > 0
    /\ ui' = [ui EXCEPT ![s].stream = h, ![s].status = "ready"]
    /\ conn' = [conn EXCEPT ![h].pc = "done", ![h].next = "queued"]
    /\ UNCHANGED <<running, rootCanceled, generation, session, view, slot, snapshot,
                   serial, cleanup>>

\* Mutant: every row is retained.
AppendedAll(rows, batch) == rows \o batch

\* appendBoundedLines, appendBoundedEvents: the last MaxRows rows.
Appended(rows, batch) ==
    LET all == rows \o batch
    IN SubSeq(all, IF Len(all) > MaxRows THEN Len(all) - MaxRows + 1 ELSE 1, Len(all))

Batch(h) == [i \in 1 .. conn[h].count |-> <<h, conn[h].sent - conn[h].count + i>>]

\* The view with the batch of h.
WithBatch(s, h) == [ui[s] EXCEPT !.rows = Appended(@, Batch(h)), !.seen = @ + conn[h].count]

\* The message is gone.
Handled(c) == [c EXCEPT !.next = "none", !.count = 0, !.end = "none", !.own = FALSE]

DropBatch(h) ==
    /\ running /\ conn[h].next = "posted"
    /\ ~(Wanted(h) /\ ui[conn[h].slot].request = h)
    /\ conn' = [conn EXCEPT ![h] = Handled(@)]
    /\ UNCHANGED <<running, rootCanceled, generation, session, view, slot, ui,
                   snapshot, serial, cleanup>>

\* A batch of lines: the next Next reads the stream the view holds.
ShowBatch(h) ==
    LET s == conn[h].slot IN
    /\ running /\ conn[h].next = "posted" /\ conn[h].end = "none"
    /\ Wanted(h) /\ ui[s].request = h
    /\ ui' = [ui EXCEPT ![s] = WithBatch(s, h)]
    /\ conn' = [conn EXCEPT ![h] = [Handled(@) EXCEPT !.next = "queued"]]
    /\ UNCHANGED <<running, rootCanceled, generation, session, view, slot, snapshot,
                   serial, cleanup>>

\* The last batch.  A log keeps its stream, which its own Next has closed; the
\* events and the health check close it.  Only EOF of the health check is a verdict.
EndStream(h) ==
    LET s == conn[h].slot IN
    /\ running /\ conn[h].next = "posted" /\ conn[h].end # "none"
    /\ Wanted(h) /\ ui[s].request = h
    /\ ui' = [ui EXCEPT ![s] =
           [WithBatch(s, h) EXCEPT
               !.stream  = IF IsLog(s) THEN @ ELSE NoStream,
               !.eof     = conn[h].end = "eof" /\ s # "events",
               !.verdict = IF conn[h].end = "error" \/ s # "health" THEN "none"
                           ELSE IF conn[h].own THEN "own" ELSE "server",
               !.status  = IF s = "events" THEN "closed"
                           ELSE IF conn[h].end = "error" THEN "failed" ELSE "ready"]]
    /\ slot' = Emptied({s})
    /\ conn' = [ClosedSlots(conn, {s}, [Held EXCEPT ![s] = IF IsLog(s) THEN NoStream ELSE @])
                EXCEPT ![h] = Handled(@)]
    /\ UNCHANGED <<running, rootCanceled, generation, session, view, snapshot,
                   serial, cleanup>>

\* directEventsLoaded: a fresh list of recent events replaces what is shown.
SnapshotArrives ==
    /\ running /\ snapshot /\ ~rootCanceled
    /\ snapshot' = FALSE
    /\ ui' = [ui EXCEPT !["events"].rows = <<>>]
    /\ UNCHANGED <<running, rootCanceled, generation, session, view, slot, conn,
                   serial, cleanup>>

-----------------------------------------------------------------------------
(* The event loop: keys *)

\* A new request in a view that starts from nothing.
Fresh(s) == [Blank EXCEPT !.request = serial + 1, !.status = "loading"]

\* openDirectServiceLogs, openDirectDmesg, openDirectClusterHealth: a log opens
\* from a list below which no log is open; the health check from everywhere.
OpenView(s) ==
    /\ running /\ session
    /\ IsLog(s) => view[s] = 0
    /\ Begin(s, conn)
    /\ ui' = [ui EXCEPT ![s] = Fresh(s)]
    /\ view' = [view EXCEPT ![s] = @ + 1]
    /\ UNCHANGED <<running, rootCanceled, generation, session, snapshot, cleanup>>

\* Mutant: the recent events that are being read may still arrive.
SnapshotLeft == snapshot

\* cancelSlot("cluster-events").
SnapshotCanceled == FALSE

\* The key s of the events: openDirectEventFollow keeps the rows.
StartFollow ==
    /\ running /\ session /\ view["events"] > 0 /\ ui["events"].status # "ready"
    /\ Begin("events", conn)
    /\ snapshot' = SnapshotCanceled
    /\ ui' = [ui EXCEPT !["events"] =
           [Blank EXCEPT !.request = serial + 1, !.status = "ready",
                 !.rows = ui["events"].rows]]
    /\ UNCHANGED <<running, rootCanceled, generation, session, view, cleanup>>

\* The streams of the views S are closed, as their models hold them.
Close(S) ==
    /\ conn' = ClosedSlots(conn, S, Held)
    /\ slot' = Emptied(S)
    /\ ui' = [s \in Slots |-> IF s \in S THEN LetGo(s) ELSE ui[s]]

StopFollow ==
    /\ running /\ session /\ view["events"] > 0 /\ ui["events"].status = "ready"
    /\ Close({"events"})
    /\ UNCHANGED <<running, rootCanceled, generation, session, view, snapshot, serial,
                   cleanup>>

\* reconnectDirectLogs, reconnectDirectClusterHealth.
Reconnect(s) ==
    /\ running /\ session /\ view[s] > 0
    /\ Begin(s, ClosedSlots(conn, {s}, Held))
    /\ ui' = [ui EXCEPT ![s] = Fresh(s)]
    /\ UNCHANGED <<running, rootCanceled, generation, session, view, snapshot, cleanup>>

\* directClearLogs, which any later request may meet, and the key C of health.
Clear(s) ==
    /\ running /\ ui[s].request # NoStream
    /\ s = "health" => view[s] > 0
    /\ ui' = [ui EXCEPT ![s].rows = <<>>, ![s].seen = 0]
    /\ UNCHANGED <<running, rootCanceled, generation, session, view, slot, snapshot,
                   conn, serial, cleanup>>

\* Mutant: a view is left without closing its stream.
ClosedNowhere(after) == {}

\* closeStreamsOutsideView: the views that are in the stack no more.
ClosedViews(after) == {s \in Slots : view[s] > 0 /\ after[s] = 0}

\* Esc or q.
LeaveView(s) ==
    /\ running /\ view[s] > 0
    /\ LET after == [view EXCEPT ![s] = @ - 1]
       IN view' = after /\ Close(ClosedViews(after))
    /\ UNCHANGED <<running, rootCanceled, generation, session, snapshot, serial, cleanup>>

\* A command of the palette that replaces the whole stack.
ReplaceRoot(after) ==
    /\ running
    /\ view' = after /\ Close(ClosedViews(after))
    /\ UNCHANGED <<running, rootCanceled, generation, session, snapshot, serial, cleanup>>

NoViews == [s \in Slots |-> 0]
EventsOnly == [s \in Slots |-> IF s = "events" THEN 1 ELSE 0]

\* refreshDirectSummary and the key r of the events: not while they are followed.
RefreshEvents ==
    /\ running /\ session /\ ~snapshot /\ ui["events"].status # "ready"
    /\ snapshot' = TRUE
    /\ UNCHANGED <<running, rootCanceled, generation, session, view, slot, ui, conn,
                   serial, cleanup>>

\* beginSessionOpen, and the session that opens later with its first reads.
SwitchSession ==
    /\ running /\ generation < MaxSwitch
    /\ generation' = generation + 1
    /\ conn' = ClosedSlots(conn, Slots, Held)
    /\ slot' = Emptied(Slots)
    /\ ui' = [s \in Slots |-> IF s = "events" THEN [LetGo(s) EXCEPT !.rows = <<>>]
                              ELSE LetGo(s)]
    /\ session' = FALSE /\ view' = NoViews /\ snapshot' = FALSE
    /\ UNCHANGED <<running, rootCanceled, serial, cleanup>>

SessionOpened ==
    /\ running /\ ~session /\ ~rootCanceled
    /\ session' = TRUE /\ snapshot' = TRUE
    /\ UNCHANGED <<running, rootCanceled, generation, view, slot, ui, conn, serial, cleanup>>

-----------------------------------------------------------------------------
(* The end of the program *)

\* The quit key starts fallbackCleanup beside the loop, on a copy of the model.
Quit ==
    /\ running /\ cleanup.step = 0
    /\ cleanup' = [step |-> 1, streams |-> Held]
    /\ UNCHANGED <<running, rootCanceled, generation, session, view, slot, ui, snapshot,
                   conn, serial>>

Order == SelectSeq(<<"logs", "dmesg", "events", "health">>, LAMBDA s : s \in Slots)

\* One view after the other, with the slots that are shared with the loop ...
CleanupView ==
    /\ cleanup.step \in DOMAIN Order
    /\ \E s \in Slots :
          /\ s = Order[cleanup.step]
          /\ conn' = ClosedSlots(conn, {s}, cleanup.streams) /\ slot' = Emptied({s})
          /\ cleanup' = [cleanup EXCEPT !.step = @ + 1, !.streams[s] = NoStream]
    /\ UNCHANGED <<running, rootCanceled, generation, session, view, ui, snapshot, serial>>

\* ... then rootCancel, under which the session is closed ...
CleanupRoot ==
    /\ cleanup.step = Len(Order) + 1
    /\ rootCanceled' = TRUE
    /\ cleanup' = [cleanup EXCEPT !.step = @ + 1]
    /\ UNCHANGED <<running, generation, session, view, slot, ui, snapshot, conn, serial>>

\* ... then cancelAll.
CleanupAll ==
    /\ cleanup.step = Len(Order) + 2
    /\ conn' = ClosedSlots(conn, Slots, NoViews)
    /\ slot' = Emptied(Slots)
    /\ cleanup' = [cleanup EXCEPT !.step = @ + 1]
    /\ UNCHANGED <<running, rootCanceled, generation, session, view, ui, snapshot, serial>>

\* The loop stops, after the cleanup or for a reason of its own ...
Stop ==
    /\ running
    /\ running' = FALSE
    /\ UNCHANGED <<rootCanceled, generation, session, view, slot, ui, snapshot, conn,
                   serial, cleanup>>

\* ... and cli/run.go runs fallbackCleanup on the model it built.
ExitCleanup ==
    /\ ~running /\ ~rootCanceled
    /\ rootCanceled' = TRUE
    /\ conn' = ClosedSlots(conn, Slots, NoViews)
    /\ slot' = Emptied(Slots)
    /\ UNCHANGED <<running, generation, session, view, ui, snapshot, serial, cleanup>>

-----------------------------------------------------------------------------

Command(h) ==
    \/ SkipOpen(h) \/ StartOpen(h) \/ OpenReturns(h) \/ ContextCloses(h)
    \/ SkipNext(h) \/ StartNext(h) \/ ServerAnswers(h) \/ OwnCancelAnswers(h)

Message(h) ==
    \/ DisposeOpened(h) \/ OpenFailed(h) \/ AdoptStream(h)
    \/ DropBatch(h) \/ ShowBatch(h) \/ EndStream(h)

Key ==
    \/ \E s \in Slots \ {"events"} : OpenView(s) \/ Reconnect(s) \/ Clear(s) \/ LeaveView(s)
    \/ "events" \in Slots /\ (StartFollow \/ StopFollow \/ RefreshEvents \/ SnapshotArrives)
    \/ ReplaceRoot(NoViews) \/ ReplaceRoot(EventsOnly)
    \/ SwitchSession \/ SessionOpened

StreamNext ==
    \/ \E h \in Stream : Command(h) \/ Message(h)
    \/ Key
    \/ Quit \/ CleanupView \/ CleanupRoot \/ CleanupAll \/ Stop \/ ExitCleanup

\* The goroutines of an open and of a Next: they run, and their RPCs return once
\* their context has ended.  A server, and an open whose context lives, owe nothing.
Opening(h) == SkipOpen(h) \/ StartOpen(h) \/ (RequestEnded(h) /\ OpenReturns(h))
Reading(h) == SkipNext(h) \/ StartNext(h) \/ OwnCancelAnswers(h)

\* An AfterFunc runs, the loop handles what was posted as long as it runs, and a
\* cleanup that began goes on.
StreamFairness ==
    /\ \A h \in Stream :
          /\ WF_streamVars(Opening(h)) /\ WF_streamVars(Reading(h))
          /\ WF_streamVars(ContextCloses(h)) /\ WF_streamVars(Message(h))
    /\ WF_streamVars(CleanupView \/ CleanupRoot \/ CleanupAll) /\ WF_streamVars(ExitCleanup)

StreamSpec == StreamInit /\ [][StreamNext]_streamVars /\ StreamFairness

-----------------------------------------------------------------------------
(* Properties *)

\* The view that shows s claims that more may come.
Live(s) == view[s] > 0 /\ ui[s].status \in {"loading", "ready"} /\ ~ui[s].eof

\* A view that says it loads, streams or follows has a request under way that
\* will tell it otherwise: an open or a Next that runs or whose message waits.
NeverAbandoned ==
    running /\ session /\ cleanup.step = 0 =>
        \A s \in Slots : Live(s) =>
            LET h == ui[s].request
            IN /\ h # NoStream /\ Current(h)
               /\ \/ conn[h].pc \in {"queued", "opening", "opened", "failed"}
                  \/ conn[h].next # "none"

\* "cluster is healthy" is the end of the server's check, never of a call that
\* this program itself canceled, although both reach the view as EOF.
VerdictIsServers == \A s \in Slots : ui[s].verdict # "own"

\* The last line of a stream that its view has handled.
LastShown(c) == c.sent - IF c.next = "posted" THEN c.count ELSE 0

\* The rows that a stream of so many lines keeps.
Kept(seen) == IF seen < MaxRows THEN seen ELSE MaxRows

\* The last rows are the lines of h up to "last", as many as are kept; the rows
\* before them are not of h.
EndsWith(rows, h, seen, last) ==
    /\ Kept(seen) <= Len(rows)
    /\ \A i \in DOMAIN rows :
          LET before == Len(rows) - i
          IN  IF before < Kept(seen) THEN rows[i] = <<h, last - before>> ELSE rows[i][1] # h

\* The rows of the stream in view are the lines it returned, each once and in
\* order, up to the last one handled: a reconnect, a late batch or a late list
\* of recent events removes none and adds none.
RowsAreTheStream ==
    \A s \in Slots : Live(s) /\ Current(ui[s].request) =>
        LET h == ui[s].request
        IN /\ EndsWith(ui[s].rows, h, ui[s].seen, LastShown(conn[h]))
           /\ IsLog(s) \/ s = "health" => Len(ui[s].rows) = Kept(ui[s].seen)

\* What the operator looks at.
Shown(h) ==
    LET s == conn[h].slot IN
    /\ running /\ cleanup.step = 0 /\ conn[h].pc # "idle"
    /\ Live(s) /\ ui[s].request = h

\* The RPC is closed and no goroutine waits for it.
Released(h) ==
    /\ conn[h].upstream # "open" /\ conn[h].pc # "opening"
    /\ conn[h].next \notin {"queued", "receiving"}

\* A stream that nobody looks at any more (left, replaced, ended, of another
\* context, or open when the program quits) is closed, and its calls return.
StreamsReleased == \A h \in Stream : conn[h].pc # "idle" /\ ~Shown(h) ~> Released(h)
=============================================================================
