------------------------------- MODULE MCMoves -------------------------------
(* Three checks side by side, on disjoint variables: tabs that move        *)
(* between windows, the focus among the panes of one window, no further    *)
(* than the lapses PaneFocus keeps apart, and its command palette. Only    *)
(* one of them moves in a behaviour. The tabs of the first also serve as   *)
(* panes of the second, its windows as tabs there and as actions of the    *)
(* third.                                                                  *)
EXTENDS TabMove, PaneFocus, Palette, TLC

VARIABLE part

(* Nothing of TabMove, nothing of PaneFocus: all names are alike. *)
NoWindow ==
  /\ phase = [w \in Windows |-> "unborn"]
  /\ items = [w \in Windows |-> {}] /\ tabs = items /\ panels = items
  /\ windows = {} /\ listed = {} /\ hosts = {} /\ checks = {} /\ born = {} /\ alive = {}
  /\ pressed = None /\ item = None /\ inFlight = FALSE /\ drag = NoDrag
  /\ asked = {} /\ hurt = {} /\ stray = {}

NoPane ==
  /\ home = [p \in Panes |-> Null] /\ shell = home /\ selected = Null
  /\ active = [t \in Strip |-> Null] /\ zoomed = active
  /\ loaded = {} /\ context = {} /\ search = {} /\ popup = FALSE
  /\ focus = Elsewhere /\ back = focus /\ events = <<>>
  /\ engage = [p \in Panes |-> FALSE] /\ typed = Null /\ lib = {}
  /\ fg = FALSE /\ acts = <<>> /\ told = FALSE /\ queued = {} /\ astray = {}

(* Bound: search bars that are open, activations not yet raised and        *)
(* closures that wait, together.                                           *)
Outstanding == Cardinality(search) + Len(acts) + Cardinality(queued)

MCInit ==
  /\ PaletteInit
  /\ \/ part = "move"    /\ Init     /\ NoPane
     \/ part = "focus"   /\ NoWindow /\ FocusInit
     \/ part = "palette" /\ NoWindow /\ NoPane

MCNext ==
  /\ part' = part
  /\ \/ part = "move"    /\ Next                      /\ UNCHANGED <<focusVars, paletteVars>>
     \/ part = "focus"   /\ astray = {} /\ FocusNext  /\ UNCHANGED <<vars, paletteVars>>
                         /\ Outstanding' <= 2
     \/ part = "palette" /\ PaletteNext               /\ UNCHANGED <<vars, focusVars>>

MCSpec == MCInit /\ [][MCNext]_<<vars, focusVars, paletteVars, part>>

(* Windows and tabs are interchangeable. *)
MoveSymmetry == Permutations(Windows) \cup Permutations(Tabs)
=============================================================================
