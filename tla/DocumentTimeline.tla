-------------------------- MODULE DocumentTimeline --------------------------
(***************************************************************************)
(* What undo and redo promise: the states of the open document form a line *)
(* and a cursor moves along it.  An edit cuts off what lies ahead of the   *)
(* cursor and appends the edited document; undo and redo move the cursor   *)
(* and leave every document as it was; opening a clip starts a new line.   *)
(***************************************************************************)
EXTENDS Naturals, Sequences

VARIABLES docs, cursor

vars == <<docs, cursor>>

Init == Len(docs) = 1 /\ cursor = 1

Edit ==
  /\ cursor' = cursor + 1
  /\ Len(docs') = cursor'
  /\ SubSeq(docs', 1, cursor) = SubSeq(docs, 1, cursor)

Undo == cursor > 1 /\ cursor' = cursor - 1 /\ UNCHANGED docs

Redo == cursor < Len(docs) /\ cursor' = cursor + 1 /\ UNCHANGED docs

Open == Len(docs') = 1 /\ cursor' = 1

Next == Edit \/ Undo \/ Redo \/ Open

Spec == Init /\ [][Next]_vars
=============================================================================
