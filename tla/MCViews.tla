------------------------------- MODULE MCViews -------------------------------
(* Two checks side by side, on disjoint variables: the tree of one tab,    *)
(* under an allocator that hands a freed address out again at the first    *)
(* chance (the case in which a stale address would be taken for a live     *)
(* Branch), and what the windows look like. Only one of them moves in a    *)
(* behaviour.                                                              *)
EXTENDS PaneTree, WindowChrome, TLC

CONSTANTS Red, Blue

VARIABLE part

Addresses == 1 .. 6

LowestFirst(free, k) ==
  IF Cardinality(free) < k THEN {}
  ELSE {SubSeq(SetToSortSeq(free, <), 1, k)}

(* The configs differ in all a window reads of them again. *)
Clear == [opacity |-> "clear", blur |-> FALSE, decorated |-> TRUE, step |-> TRUE, background |-> Red]
Solid == [opacity |-> "solid", blur |-> FALSE, decorated |-> FALSE, step |-> FALSE, background |-> Red]

TwoConfigs == {Clear, Solid}
TwoColours == {Red, Blue}

MCInit ==
  /\ part \in {"tree", "chrome"}
  /\ Init /\ ChromeInit
  /\ part # "chrome" => config = Clear

MCNext ==
  /\ part' = part
  /\ \/ part = "tree"   /\ Next       /\ UNCHANGED chromeVars
     \/ part = "chrome" /\ ChromeNext /\ UNCHANGED vars

MCSpec == MCInit /\ [][MCNext]_<<vars, chromeVars, part>>

(* Panes, windows and controls are interchangeable; the panes of the first *)
(* check are the tabs of the second.                                       *)
ViewSymmetry == Permutations(Panes) \cup Permutations(Windows) \cup Permutations(Controls)
=============================================================================
