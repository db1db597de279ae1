---------------------------- MODULE ListSelection ----------------------------
(***************************************************************************)
(* The selection of a row in the lists of the TUI: listControl             *)
(* (internal/tui/list_control.go) and the screen models that own one.  A   *)
(* refresh replaces the rows every two seconds while the operator moves,   *)
(* filters and presses the keys of actions, which take the row under the   *)
(* cursor.                                                                 *)
(*                                                                         *)
(* The screens keep their selection in seven ways:                         *)
(*   "position"  mounts, sockets, memory: the cursor stays where it was;   *)
(*   "usage"     directory usage: so it does while rows are appended;      *)
(*   "images"    images: likewise, but see AppendRows;                     *)
(*   "row"       processes, disks, links: the row under the cursor is      *)
(*               looked for in the new rows;                               *)
(*   "last"      resource kinds and instances: the row that was last under *)
(*               the cursor is;                                            *)
(*   "key"       nodes, etcd members, problems: a key is remembered while  *)
(*               its row is visible;                                       *)
(*   "held"      services, events: the key is remembered while its row     *)
(*               exists, though a filter hides it.                         *)
(* A row is its identity; a filter is the set of rows that match it.       *)
(***************************************************************************)
EXTENDS Naturals, Sequences, SequencesExt, FiniteSetsExt

CONSTANTS
    Row,       \* the rows there may be
    Filters    \* what may be typed, as the rows that match it

NoRow == 0

ASSUME ListSelectionAssumption ==
    /\ Row \subseteq Nat \ {NoRow}
    /\ Filters \subseteq SUBSET Row

VARIABLES
    policy,    \* the way of the screen
    rows,      \* the rows of the last answer
    filter,    \* what is typed; Row when nothing is
    editing,   \* filtering: keys are text
    control,   \* listControl: count and cursor
    key,       \* selectedID, selectedKey; NoRow for ""
    failed     \* the stream of rows ended in an error

listVars == <<policy, rows, filter, editing, control, key, failed>>

Streaming  == {"usage", "images"}
ByPosition == {"position", "row"} \cup Streaming

SelectionInit ==
    /\ policy \in ByPosition \cup {"last", "key", "held"}
    /\ rows = <<>> /\ filter = Row /\ editing = FALSE
    /\ control = [count |-> 0, cursor |-> 0]
    /\ key = NoRow /\ failed = FALSE

-----------------------------------------------------------------------------
\* visibleNodes, visibleDisks and their kin.
Visible(all, typed) == SelectSeq(all, LAMBDA row : row \in typed)

Selected ==
    LET seen == Visible(rows, filter)
    IN  IF control.cursor < Len(seen) THEN seen[control.cursor + 1] ELSE NoRow

PositionOf(row, seen) == SelectInSeq(seen, LAMBDA r : r = row) - 1

\* SetCursor; positions start at 0.
Clamped(cursor, count) == IF count = 0 THEN 0 ELSE Min({cursor, count - 1})

\* The key that normalizeSelection leaves; "near" is the row it comes to when
\* it does not find the key.
KeyOfCursor(seen, near) == IF seen = <<>> THEN key ELSE near
KeyOfShown(seen, near)  == IF seen = <<>> THEN NoRow ELSE IF key \in ToSet(seen) THEN key ELSE near
KeyOfExisting(all, seen, near) ==
    IF key \in ToSet(all) THEN key ELSE IF seen = <<>> THEN NoRow ELSE near

\* normalizeSelection, each screen's own: the cursor and the key that a new
\* set of rows, or a new filter, leaves.
Normalized(all, typed, closest) ==
    LET seen  == Visible(all, typed)
        close == Clamped(closest, Len(seen))
        near  == IF seen = <<>> THEN NoRow ELSE seen[close + 1]
    IN  /\ control' = [count  |-> Len(seen),
                       cursor |-> IF policy \in {"key", "held"} /\ key \in ToSet(seen)
                                  THEN PositionOf(key, seen) ELSE close]
        /\ key' = CASE policy \in ByPosition -> NoRow
                    [] policy = "last"       -> KeyOfCursor(seen, near)
                    [] policy = "key"        -> KeyOfShown(seen, near)
                    [] policy = "held"       -> KeyOfExisting(all, seen, near)

\* Mutant: the new rows are not searched.
WhereItWas(all) == control.cursor

\* The row that setResult, setKinds and setInstances look for in the new rows
\* before they normalize.
Sought == CASE policy = "row" -> Selected [] policy = "last" -> key [] OTHER -> NoRow

WhereItIs(all) ==
    LET seen == Visible(all, filter)
    IN  IF Sought \in ToSet(seen) THEN PositionOf(Sought, seen) ELSE control.cursor

\* An answer arrives, in any order of its rows.
RefreshRows(all) ==
    /\ policy \notin Streaming
    /\ rows' = all
    /\ Normalized(all, filter, WhereItIs(all))
    /\ UNCHANGED <<policy, filter, editing, failed>>

\* A batch of rows of a stream, the last one perhaps with the error that ends
\* it: acceptImages appends its rows, and does not count them.
AppendRows(more, fails) ==
    /\ policy \in Streaming /\ ~failed
    /\ ToSet(more) \cap ToSet(rows) = {}
    /\ rows' = rows \o more /\ failed' = fails
    /\ IF policy = "images" /\ fails THEN UNCHANGED <<control, key>>
       ELSE Normalized(rows \o more, filter, control.cursor)
    /\ UNCHANGED <<policy, filter, editing>>

\* Another context: the rows are forgotten, the count is not.  A new opening
\* of the other screens starts with a new model.
ForgetRows ==
    /\ rows' = <<>> /\ filter' = Row /\ editing' = FALSE /\ key' = NoRow /\ failed' = FALSE
    /\ control' = [count |-> IF policy \in {"key", "held"} THEN control.count ELSE 0, cursor |-> 0]
    /\ UNCHANGED policy

-----------------------------------------------------------------------------
(* Keys *)

StartFilter ==
    /\ ~editing /\ editing' = TRUE
    /\ UNCHANGED <<policy, rows, filter, control, key, failed>>

\* A character more or less.
TypeFilter(typed) ==
    /\ editing /\ filter' = typed
    /\ Normalized(rows, typed, control.cursor)
    /\ UNCHANGED <<policy, rows, editing, failed>>

KeepFilter ==
    /\ editing /\ editing' = FALSE
    /\ UNCHANGED <<policy, rows, filter, control, key, failed>>

\* Escape, while a filter is typed or after it was kept.
ClearFilter ==
    /\ editing' = FALSE /\ filter' = Row
    /\ Normalized(rows, Row, control.cursor)
    /\ UNCHANGED <<policy, rows, failed>>

\* moveSelection and rememberSelection: up, down, top and bottom; the count
\* bounds the cursor, and the row it comes to is remembered.
Move(target) ==
    /\ ~editing
    /\ LET seen   == Visible(rows, filter)
           cursor == Clamped(target, control.count)
       IN  /\ control' = [control EXCEPT !.cursor = cursor]
           /\ key' = IF policy \in ByPosition \/ seen = <<>> THEN key ELSE seen[cursor + 1]
    /\ UNCHANGED <<policy, rows, filter, editing, failed>>

Moves == {0, control.count, control.cursor + 1} \cup (IF control.cursor = 0 THEN {} ELSE {control.cursor - 1})

\* The answers: some of the rows, each once, in any order.
Answers == UNION {SetToSeqs(some) : some \in SUBSET Row}

SelectionNext ==
    \/ \E all \in Answers : RefreshRows(all) \/ \E fails \in BOOLEAN : AppendRows(all, fails)
    \/ \E typed \in Filters : TypeFilter(typed)
    \/ \E target \in Moves : Move(target)
    \/ ForgetRows \/ StartFilter \/ KeepFilter \/ ClearFilter

SelectionSpec == SelectionInit /\ [][SelectionNext]_listVars

-----------------------------------------------------------------------------
(***************************************************************************)
(* Properties                                                              *)
(***************************************************************************)

\* The screens that look for the row, or only append others to it; those that
\* hold a key do so only while it is the key of the row under the cursor.
FollowsRow == policy \in {"row", "last", "key"} \cup Streaming \/ (policy = "held" /\ key = Selected)

\* A refresh under the operator's hand does not change the row that the next
\* key acts on, however the new rows are ordered, as long as it is there.
SelectionKept ==
    [][(rows' # rows /\ FollowsRow /\ Selected \in ToSet(Visible(rows', filter')))
       => Selected' = Selected]_listVars
=============================================================================
