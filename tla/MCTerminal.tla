----------------------------- MODULE MCTerminal -----------------------------
(* Three checks side by side, on disjoint variables: the input of a pane,  *)
(* the life of its surface, and the close gate of its window. Only one of  *)
(* them moves in a behaviour; the panel starts with any scale when it is   *)
(* the surface's turn.                                                     *)
EXTENDS TerminalInput, SurfaceLife, WindowClose, TLC

VARIABLE part

Parts == {"input", "surface", "close"}

MCInit ==
  /\ part \in Parts
  /\ Init /\ SurfaceInit /\ CloseInit
  /\ part # "surface" => scale = 0 /\ root = 2

MCNext ==
  /\ part' = part
  /\ \/ part = "input"   /\ Next        /\ UNCHANGED <<surfaceVars, closeVars>>
     \/ part = "surface" /\ SurfaceNext /\ UNCHANGED <<vars, closeVars>>
     \/ part = "close"   /\ CloseNext   /\ UNCHANGED <<vars, surfaceVars>>

MCSpec == MCInit /\ [][MCNext]_<<vars, surfaceVars, closeVars, part>>

(* Characters, tabs and panes are interchangeable. *)
TerminalSymmetry == Permutations(Chars) \cup Permutations(Tabs) \cup Permutations(Panes)
=============================================================================
