--------------------------- MODULE SessionSwitch ----------------------------
(***************************************************************************)
(* Opening, switching and abandoning sessions: Client.Open and             *)
(* Session.Close (internal/application), with the terminal UI that starts  *)
(* an open per selected context, installs or discards its result, and      *)
(* tears everything down when it quits (internal/tui/direct_model.go).     *)
(*                                                                         *)
(* The UI handles one message at a time.  Each open runs in a goroutine of *)
(* its own and posts its result, which may arrive after the user has moved *)
(* on, or never if the program has stopped.  Cleanup runs beside the UI,   *)
(* on a copy of the model.  Contexts form a tree: root, one per open, the  *)
(* session's lifetime.                                                     *)
(***************************************************************************)
EXTENDS Naturals

CONSTANTS Open,   \* open attempts; an attempt is its generation and request stamp
          NoOpen

ASSUME OpenAssumption == NoOpen \notin Open

VARIABLES
    ui,           \* "running", "stopped": the event loop
    current,      \* generationCounter: the latest attempt
    slot,         \* attempt in the request slot "session-open"
    session,      \* model.session
    tracked,      \* directLifecycle.session
    rootCanceled,
    canceled,     \* attempts whose own context was canceled
    open,         \* the Client.Open calls and their sessions
    cleanup       \* the two runs of fallbackCleanup

switchVars == <<ui, current, slot, session, tracked, rootCanceled, canceled, open, cleanup>>

\* "posted": the command returned its directSessionOpened message.
OpenState == [pc      : {"idle", "queued", "factory", "resolving", "posted", "done"},
              adapter : BOOLEAN,  \* the factory delivered an adapter
              closed  : BOOLEAN,  \* Session.closed
              closes  : Nat,      \* calls of adapter.Close
              result  : BOOLEAN]  \* the message carries a session

\* "key": the quit key, on the model it was pressed in.  "exit": the fallback of
\* cli/run.go, on the model as it was built, before any session.
Worker == {"key", "exit"}
CleanupState == [pc : {"idle", "cancel", "close", "take", "cancelAll", "done"},
                 session : Open \cup {NoOpen}, attempt : Open \cup {NoOpen}]

SwitchInit ==
    /\ ui = "running"
    /\ current = NoOpen /\ slot = NoOpen /\ session = NoOpen /\ tracked = NoOpen
    /\ rootCanceled = FALSE /\ canceled = {}
    /\ open = [o \in Open |-> [pc |-> "idle", adapter |-> FALSE, closed |-> FALSE,
                               closes |-> 0, result |-> FALSE]]
    /\ cleanup = [w \in Worker |-> [pc |-> "idle", session |-> NoOpen, attempt |-> NoOpen]]

\* The context of an attempt is a child of the root context.
Canceled(o) == rootCanceled \/ o \in canceled

\* Mutant: Close forgets that it has run.
ClosedTwice(o) == [open[o] EXCEPT !.closed = TRUE, !.closes = @ + 1]

\* Session.Close of the session of o (closeOnce): no effect the second time.
Closed(o) == IF open[o].closed THEN open[o]
             ELSE [open[o] EXCEPT !.closed = TRUE, !.closes = @ + 1]

-----------------------------------------------------------------------------
(* Client.Open, in the goroutine of directOpenSessionCommand *)

\* directCommand drops a request canceled before it ran: no message at all.
SkipCanceled(o) ==
    /\ open[o].pc = "queued" /\ Canceled(o)
    /\ open' = [open EXCEPT ![o].pc = "done"]
    /\ UNCHANGED <<ui, current, slot, session, tracked, rootCanceled, canceled, cleanup>>

StartOpen(o) ==
    /\ open[o].pc = "queued" /\ ~Canceled(o)
    /\ open' = [open EXCEPT ![o].pc = "factory"]
    /\ UNCHANGED <<ui, current, slot, session, tracked, rootCanceled, canceled, cleanup>>

\* Mutant: an adapter delivered to a canceled open is forgotten.
KeepsNothing(o, adapter, err) ==
    open' = [open EXCEPT ![o] =
        IF ~err /\ ~Canceled(o) /\ adapter
        THEN [@ EXCEPT !.pc = "resolving", !.adapter = TRUE]
        ELSE [@ EXCEPT !.pc = "posted", !.adapter = adapter]]

\* What Open does with the factory's answer: an adapter that comes with an
\* error, or after the context ended, is closed at once; no adapter is an error.
\* Otherwise the session exists, and its lifetime has Close as its AfterFunc.
TakeAdapter(o, adapter, err) ==
    open' = [open EXCEPT ![o] =
        IF ~err /\ ~Canceled(o) /\ adapter
        THEN [@ EXCEPT !.pc = "resolving", !.adapter = TRUE]
        ELSE [@ EXCEPT !.pc = "posted", !.adapter = adapter,
                       !.closes = IF adapter THEN 1 ELSE 0]]

FactoryReturns(o, adapter, err) ==
    /\ open[o].pc = "factory"
    /\ TakeAdapter(o, adapter, err)
    /\ UNCHANGED <<ui, current, slot, session, tracked, rootCanceled, canceled, cleanup>>

\* The optional Kubernetes resolver is done, whatever it found; Open and then the
\* command look at the context and give the session back closed if it ended.
OpenReturns(o) ==
    /\ open[o].pc = "resolving"
    /\ open' = [open EXCEPT ![o] =
           IF Canceled(o) THEN [Closed(o) EXCEPT !.pc = "posted"]
           ELSE [@ EXCEPT !.pc = "posted", !.result = TRUE]]
    /\ UNCHANGED <<ui, current, slot, session, tracked, rootCanceled, canceled, cleanup>>

\* Mutant: nothing is registered on the lifetime.
NoAfterFunc(o) == FALSE

\* context.AfterFunc(lifetimeCtx, session.Close).
LifetimeCloses(o) ==
    /\ Canceled(o)
    /\ open[o].pc = "resolving" \/ open[o].result
    /\ ~open[o].closed
    /\ open' = [open EXCEPT ![o] = Closed(o)]
    /\ UNCHANGED <<ui, current, slot, session, tracked, rootCanceled, canceled, cleanup>>

-----------------------------------------------------------------------------
(* The UI *)

\* Mutant: a switch forgets the session it leaves.
KeepOldSession == open

\* closeDirectSession, on the session a model holds.
CloseHeld == IF session = NoOpen THEN open ELSE [open EXCEPT ![session] = Closed(session)]

\* lifecycle.setSession(nil), only with a session to close.
Untracked == IF session = NoOpen THEN tracked ELSE NoOpen

\* The attempts whose cancel functions beginSessionOpen calls, if they are set.
Left == {current, slot} \ {NoOpen}

\* beginSessionOpen: a context was resolved or selected.  The old session is
\* closed and its contexts are canceled before the new attempt is queued.
BeginSessionOpen(o) ==
    /\ ui = "running"
    /\ open[o].pc = "idle"
    /\ open' = [CloseHeld EXCEPT ![o].pc = "queued"]
    /\ canceled' = canceled \cup Left
    /\ tracked' = Untracked
    /\ session' = NoOpen
    /\ current' = o
    /\ slot' = o
    /\ UNCHANGED <<ui, rootCanceled, cleanup>>

\* requests.current and the generation check.
Fresh(o) == slot = o /\ ~Canceled(o) /\ current = o

\* The handler of directSessionOpened.
SessionOpened(o) ==
    /\ ui = "running"
    /\ open[o].pc = "posted"
    /\ IF Fresh(o)
       THEN /\ open' = [open EXCEPT ![o].pc = "done"]
            /\ session' = IF open[o].result THEN o ELSE session
            /\ tracked' = IF open[o].result THEN o ELSE tracked
       ELSE /\ open' = [open EXCEPT ![o] = IF open[o].result
                                           THEN [Closed(o) EXCEPT !.pc = "done"]
                                           ELSE [@ EXCEPT !.pc = "done"]]
            /\ UNCHANGED <<session, tracked>>
    /\ UNCHANGED <<ui, current, slot, rootCanceled, canceled, cleanup>>

\* A quit key: the cleanup command keeps a copy of the model of this moment.
PressQuit ==
    /\ ui = "running"
    /\ cleanup["key"].pc = "idle"
    /\ cleanup' = [cleanup EXCEPT !["key"] = [pc |-> "cancel", session |-> session,
                                              attempt |-> current]]
    /\ UNCHANGED <<ui, current, slot, session, tracked, rootCanceled, canceled, open>>

\* The loop ends with the quit message of the cleanup, or because the terminal or
\* the program failed; cli/run.go then runs the fallback.
LoopEnds ==
    /\ ui = "running"
    /\ ui' = "stopped"
    /\ cleanup' = [cleanup EXCEPT !["exit"].pc = "cancel"]
    /\ UNCHANGED <<current, slot, session, tracked, rootCanceled, canceled, open>>

-----------------------------------------------------------------------------
(* fallbackCleanup *)

\* The root context ends, and that of the captured request.
CleanupCancels(w) ==
    /\ cleanup[w].pc = "cancel"
    /\ rootCanceled' = TRUE
    /\ canceled' = canceled \cup ({cleanup[w].attempt} \ {NoOpen})
    /\ cleanup' = [cleanup EXCEPT ![w].pc = "close"]
    /\ UNCHANGED <<ui, current, slot, session, tracked, open>>

\* closeDirectSession on the captured copy: it may clear the record of a session
\* the UI has installed since.
CleanupCloses(w) ==
    LET held == cleanup[w].session IN
    /\ cleanup[w].pc = "close"
    /\ open' = IF held = NoOpen THEN open ELSE [open EXCEPT ![held] = Closed(held)]
    /\ tracked' = IF held = NoOpen THEN tracked ELSE NoOpen
    /\ cleanup' = [cleanup EXCEPT ![w].pc = "take"]
    /\ UNCHANGED <<ui, current, slot, session, rootCanceled, canceled>>

\* lifecycle.takeSession: the session of the UI, shared by every copy.
CleanupTakes(w) ==
    /\ cleanup[w].pc = "take"
    /\ open' = IF tracked = NoOpen THEN open ELSE [open EXCEPT ![tracked] = Closed(tracked)]
    /\ tracked' = NoOpen
    /\ cleanup' = [cleanup EXCEPT ![w].pc = "cancelAll"]
    /\ UNCHANGED <<ui, current, slot, session, rootCanceled, canceled>>

\* requests.cancelAll.
CleanupCancelsAll(w) ==
    /\ cleanup[w].pc = "cancelAll"
    /\ slot' = NoOpen
    /\ canceled' = canceled \cup ({slot} \ {NoOpen})
    /\ cleanup' = [cleanup EXCEPT ![w].pc = "done"]
    /\ UNCHANGED <<ui, current, session, tracked, rootCanceled, open>>

-----------------------------------------------------------------------------
OpenStep(o) ==
    \/ SkipCanceled(o) \/ StartOpen(o)
    \/ \E adapter, err \in BOOLEAN : FactoryReturns(o, adapter, err)
    \/ OpenReturns(o) \/ LifetimeCloses(o)

CleanupStep(w) ==
    CleanupCancels(w) \/ CleanupCloses(w) \/ CleanupTakes(w) \/ CleanupCancelsAll(w)

SwitchNext ==
    \/ \E o \in Open : OpenStep(o) \/ BeginSessionOpen(o) \/ SessionOpened(o)
    \/ \E w \in Worker : CleanupStep(w)
    \/ PressQuit \/ LoopEnds

SwitchSpec == SwitchInit /\ [][SwitchNext]_switchVars

\* Goroutines and AfterFunc callbacks run; a factory or a resolver whose context
\* has ended returns.  One whose context lives may hang, the user may do nothing,
\* and a posted message may never be handled.
SwitchFairness ==
    /\ \A o \in Open :
           /\ WF_switchVars(SkipCanceled(o) \/ StartOpen(o))
           /\ WF_switchVars(Canceled(o) /\ \E adapter, err \in BOOLEAN : FactoryReturns(o, adapter, err))
           /\ WF_switchVars(Canceled(o) /\ OpenReturns(o))
           /\ WF_switchVars(LifetimeCloses(o))
    /\ \A w \in Worker : WF_switchVars(CleanupStep(w))

SwitchFairSpec == SwitchSpec /\ SwitchFairness

-----------------------------------------------------------------------------
(* Properties *)

\* A session whose message was handled is either the one held or closed.
NoStraySession ==
    \A o \in Open : open[o].pc = "done" /\ open[o].result /\ o # session => open[o].closed

\* Every adapter of an open the user has left, even one that is delivered late
\* or whose message is never handled, and every adapter once the program stops,
\* is closed in the end and just once, though the failing open, the switch, the
\* discarding of a late result, the end of the lifetime and two cleanups may all
\* want to.
AbandonedIsClosed ==
    \A o \in Open :
        open[o].adapter /\ (current # o \/ ui = "stopped") ~> [](open[o].closes = 1)
=============================================================================
