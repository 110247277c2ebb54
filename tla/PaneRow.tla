------------------------------- MODULE PaneRow -------------------------------
(***************************************************************************)
(* What a tab promises about its panes, without its tree: they stand in a  *)
(* row, the order goto_split next and previous walk. A command changes one *)
(* place of the row and leaves the order of the rest alone; the focus      *)
(* names a pane of the row.                                                *)
(***************************************************************************)
EXTENDS Naturals, Sequences, SequencesExt

CONSTANTS Panes, Null

VARIABLES
  row,     \* the panes, first to last
  focus,   \* the active pane, or Null
  zoom     \* the pane that fills the tab, or Null

vars == <<row, focus, zoom>>

Init == row = <<>> /\ focus = Null /\ zoom = Null

Open(p) ==
  /\ row = <<>>
  /\ row' = <<p>> /\ focus' = p /\ zoom' = Null

(* The new pane next to the i-th, on either side, and with the focus.      *)
Split(i, p) ==
  /\ p \notin ToSet(row)
  /\ \E at \in {i, i + 1} : row' = InsertAt(row, at, p)
  /\ focus' = p
  /\ zoom' = Null

(* The i-th pane goes. If it had the focus another pane gets it: the next  *)
(* one, or one before it, where its split began.                           *)
Close(i) ==
  /\ Len(row) > 1
  /\ row' = RemoveAt(row, i)
  /\ zoom' = Null
  /\ IF focus # row[i] THEN UNCHANGED focus
     ELSE \E k \in (1 .. i - 1) \cup ({i + 1} \cap DOMAIN row) : focus' = row[k]

(* One pane in another's place; an active pane hands over the focus, and a *)
(* newcomer may take it.                                                   *)
Swap(i, p) ==
  /\ p \notin ToSet(row)
  /\ row' = [row EXCEPT ![i] = p]
  /\ focus' \in {p} \cup {f \in {focus} : f # row[i]}
  /\ zoom' = Null

Go(i) == focus' = row[i] /\ UNCHANGED <<row, zoom>>

ToggleZoom ==
  /\ \/ zoom # Null /\ zoom' = Null /\ UNCHANGED focus
     \/ zoom = Null /\ Len(row) > 1 /\ zoom' \in ToSet(row) /\ focus' = zoom'
  /\ UNCHANGED row

End == row' = <<>> /\ focus' = Null /\ zoom' = Null

Next ==
  \/ \E p \in Panes : Open(p)
  \/ \E i \in DOMAIN row, p \in Panes : Split(i, p) \/ Swap(i, p)
  \/ \E i \in DOMAIN row : Close(i) \/ Go(i)
  \/ ToggleZoom
  \/ End

Spec == Init /\ [][Next]_vars
=============================================================================
