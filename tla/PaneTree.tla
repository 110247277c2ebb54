------------------------------ MODULE PaneTree ------------------------------
(***************************************************************************)
(* The split arrangement of one tab, down to its pointers: Tree and Branch *)
(* of Core/Panes, the SplitPanel that keeps its Children in step with the  *)
(* tree, the Tab's active pane, and the shells that wait outside the tree  *)
(* while a WSL pane has their slot.                                        *)
(*                                                                         *)
(* An address of Nodes is free again once its Branch is destroyed, and the *)
(* allocator may hand it out again. A pane id nothing refers to any longer *)
(* stands for a new one. What the layout pass reads and writes is left out *)
(* (the axis and the ratio of a split, the sizes and positions), so an     *)
(* arrow of goto_split reaches any other pane or none.                     *)
(***************************************************************************)
EXTENDS Naturals, Sequences, SequencesExt

CONSTANTS
  Panes,   \* pane ids; an id also names the pane's control
  Nodes,   \* the addresses a Branch can have
  Null,    \* no node, no pane
  Alloc(_, _)  \* Alloc(free, k): what k allocations may return, in order

\* The control of a pane and the Border of a split are different elements.
ASSUME NamesAssumption == Null \notin Panes \cup Nodes /\ Panes \cap Nodes = {}
ASSUME AllocAssumption ==
  \A free \in SUBSET Nodes, k \in 1 .. 3 : \A a \in Alloc(free, k) :
    a \in [1 .. k -> free] /\ \A i, j \in 1 .. k : a[i] = a[j] => i = j

VARIABLES
  heap,      \* the live Branches, by address
  root,      \* Tree::m_root
  zoomed,    \* Tree::m_zoomed
  children,  \* SplitPanel::Children(): controls, and the Border of a split
  hidden,    \* the children whose Visibility is Collapsed
  splitters, \* the branches of SplitPanel::m_splitters
  dragging,  \* SplitPanel::m_draggingBranch
  active,    \* Tab::m_activePane
  creating,  \* the pane SplitPanel::SplitPane has returned and nobody activated yet
  sessions,  \* Tab::m_inPlace: the WSL pane, and the shell it stands in for
  attached,  \* the panes whose control has its surface
  phase      \* "new", "open", "gone"

treeVars  == <<heap, root, zoomed>>
panelVars == <<children, hidden, splitters, dragging>>
tabVars   == <<active, creating, sessions, attached, phase>>
vars == <<treeVars, panelVars, tabVars>>

-----------------------------------------------------------------------------
(* Branches and walks. *)

Leaf(p, up) == [pane |-> p, left |-> Null, right |-> Null, parent |-> up]

Fork(left, right) == [pane |-> Null, left |-> left, right |-> right, parent |-> Null]

IsPane(h, n) == h[n].pane # Null

(* The subtree at r in depth-first order: the panes only, or the splits as *)
(* well, each between its two children.                                    *)
Walk(h, r, splitsToo) ==
  LET walk[n \in Nodes \cup {Null}] ==
        IF n \notin DOMAIN h THEN <<>>
        ELSE IF IsPane(h, n) THEN <<n>>
        ELSE walk[h[n].left] \o (IF splitsToo THEN <<n>> ELSE <<>>) \o walk[h[n].right]
  IN  walk[r]

PanesOf(h, r) == Walk(h, r, FALSE)
NodesOf(h, r) == Walk(h, r, TRUE)
SplitsOf(h, r) == {n \in ToSet(NodesOf(h, r)) : ~IsPane(h, n)}

Shown == PanesOf(heap, root)
Present == {heap[n].pane : n \in ToSet(Shown)}

(* FindByPaneId, FindPaneBySurface, TryFindBranch. *)
NodeOf(p) == CHOOSE n \in ToSet(Shown) : heap[n].pane = p

New(k) == Alloc(Nodes \ DOMAIN heap, k)

-----------------------------------------------------------------------------
(* The mutations of Tree, and what SplitPanel does after each. *)

(* Fault: the new subtree ends up on the other side. *)
RelinkSwapped(h, up, old, new) ==
  IF up = Null THEN h
  ELSE IF h[up].left = old THEN [h EXCEPT ![up].left = h[up].right, ![up].right = new]
  ELSE [h EXCEPT ![up].right = new]

(* The slot of up that held old holds new. *)
Relink(h, up, old, new) ==
  IF up = Null THEN h
  ELSE IF h[up].left = old THEN [h EXCEPT ![up].left = new]
  ELSE [h EXCEPT ![up].right = new]

Without(h, gone) == [n \in DOMAIN h \ gone |-> h[n]]

Union(h, g) == [n \in DOMAIN h \cup DOMAIN g |-> IF n \in DOMAIN g THEN g[n] ELSE h[n]]

(* Tree::ReplacePane: the subtree g with root top takes the place of n. *)
Replaced(n, top, g) ==
  Union(Without(Relink(heap, heap[n].parent, n, top), {n}),
        [g EXCEPT ![top].parent = heap[n].parent])

(* Tree::RemovePane, where n is not the root: its sibling takes the place  *)
(* of their split.                                                         *)
Sibling(n) == LET up == heap[heap[n].parent] IN IF up.left = n THEN up.right ELSE up.left

(* Fault: the sibling still names the split that is gone as its parent. *)
CollapsedStale(n) ==
  LET up == heap[n].parent
  IN  Without(Relink(heap, heap[up].parent, up, Sibling(n)), {n, up})

Collapsed(n) ==
  LET up == heap[n].parent
      linked == Relink(heap, heap[up].parent, up, Sibling(n))
  IN  Without([linked EXCEPT ![Sibling(n)].parent = heap[up].parent], {n, up})

Elements(h, r) ==
  LET walked == NodesOf(h, r)
  IN  [i \in DOMAIN walked |-> IF IsPane(h, walked[i]) THEN h[walked[i]].pane ELSE walked[i]]

(* The elements of s that S has, in their order. *)
Kept(s, S) ==
  LET kept[i \in 0 .. Len(s)] ==
        IF i = 0 THEN <<>>
        ELSE IF s[i] \in S THEN Append(kept[i - 1], s[i])
        ELSE kept[i - 1]
  IN  kept[Len(s)]

(* e in the i-th place of s, moved there if it is further on. *)
PutAt(s, i, e) ==
  LET later == {j \in i + 1 .. Len(s) : s[j] = e}
  IN  IF i <= Len(s) /\ s[i] = e THEN s
      ELSE InsertAt(IF later = {} THEN s ELSE RemoveAt(s, CHOOSE j \in later : TRUE), i, e)

(* The diff of SyncChildrenFromTree: what is not desired goes, then each   *)
(* place is made right in turn.                                            *)
Reconciled(desired) ==
  LET placed[i \in 0 .. Len(desired)] ==
        IF i = 0 THEN Kept(children, ToSet(desired))
        ELSE PutAt(placed[i - 1], i, desired[i])
  IN  placed[Len(desired)]

(* Fault: what a zoom hid stays hidden when the mutation ends the zoom. *)
ReshapeStaysHidden(h, r) ==
  /\ heap' = h
  /\ root' = r
  /\ zoomed' = Null
  /\ children' = Reconciled(Elements(h, r))
  /\ hidden' = hidden \cap ToSet(Elements(h, r))
  /\ splitters' = SplitsOf(h, r)
  /\ dragging' = Null

(* A new shape of the tree, and SyncChildrenFromTree. *)
Reshape(h, r) ==
  /\ heap' = h
  /\ root' = r
  /\ zoomed' = Null
  /\ children' = Reconciled(Elements(h, r))
  /\ hidden' = {}
  /\ splitters' = SplitsOf(h, r)
  /\ dragging' = Null

ReplacePane(n, top, g) == Reshape(Replaced(n, top, g), IF n = root THEN top ELSE root)

RemovePane(n) == Reshape(Collapsed(n), IF heap[n].parent = root THEN Sibling(n) ELSE root)

Overlays == {s.overlay : s \in sessions}
Parked == {s.parked : s \in sessions} \ {Null}
SessionOf(p) == CHOOSE s \in sessions : s.overlay = p

-----------------------------------------------------------------------------
(* The operations. *)

Init ==
  /\ heap = <<>> /\ root = Null /\ zoomed = Null
  /\ children = <<>> /\ hidden = {} /\ splitters = {} /\ dragging = Null
  /\ active = Null /\ creating = Null /\ sessions = {} /\ attached = {} /\ phase = "new"

(* The UI thread runs one operation at a time. *)
Ready == phase = "open" /\ creating = Null

(* TabFactory::Make: SetRoot, then the Tab's constructor. *)
OpenTab(p) ==
  /\ phase = "new"
  /\ \E a \in New(1) : Reshape([n \in {a[1]} |-> Leaf(p, Null)], a[1]) /\ active' = a[1]
  /\ attached' = {p}
  /\ phase' = "open"
  /\ UNCHANGED <<creating, sessions>>

(* SplitActivePane up to and including SplitPanel::SplitPane. The source's *)
(* Branch is replaced by a split of a copy of it and the new pane, which   *)
(* comes first for a split to the left or up.                              *)
SplitPane(p, newPaneFirst, q) ==
  /\ Ready /\ q \notin attached
  /\ \E a \in New(3) :
       /\ LET fresh == a[1]
              copy == a[2]
              split == a[3]
              fork == IF newPaneFirst THEN Fork(fresh, copy) ELSE Fork(copy, fresh)
          IN  ReplacePane(NodeOf(p), split,
                [n \in {fresh, copy, split} |->
                   IF n = split THEN fork ELSE Leaf(IF n = fresh THEN q ELSE p, split)])
       /\ creating' = a[1]
  /\ attached' = attached \cup {q}
  /\ UNCHANGED <<active, sessions, phase>>

(* The rest of SplitActivePane. *)
ActivateCreated ==
  /\ creating # Null
  /\ active' = creating
  /\ creating' = Null
  /\ UNCHANGED <<treeVars, panelVars, sessions, attached, phase>>

(* TearDownTab: DetachAll, and with the Tab everything goes. *)
TearDownTab ==
  /\ Reshape(<<>>, Null)
  /\ active' = Null
  /\ sessions' = {}
  /\ attached' = {}
  /\ phase' = "gone"
  /\ UNCHANGED creating

CloseTab == Ready /\ TearDownTab

(* Fault: the surface of the WSL pane is not freed. *)
RestoreLeaksOverlay(p) ==
  LET n == NodeOf(p)
      parked == SessionOf(p).parked
  IN  /\ \E a \in New(1) :
           /\ ReplacePane(n, a[1], [m \in {a[1]} |-> Leaf(parked, Null)])
           /\ active' = IF active = n THEN a[1] ELSE active
      /\ sessions' = sessions \ {SessionOf(p)}
      /\ UNCHANGED <<attached, creating, phase>>

(* RestoreParkedPane: the shell goes back in the slot of its WSL pane. *)
RestoreParkedPane(p) ==
  LET n == NodeOf(p)
      parked == SessionOf(p).parked
  IN  /\ \E a \in New(1) :
           /\ ReplacePane(n, a[1], [m \in {a[1]} |-> Leaf(parked, Null)])
           /\ active' = IF active = n THEN a[1] ELSE active
      /\ attached' = attached \ {p}
      /\ sessions' = sessions \ {SessionOf(p)}
      /\ UNCHANGED <<creating, phase>>

(* RemovePaneByIdApproved. The tab's only pane may be parked for an undo   *)
(* instead, with the whole tab: then only its session goes.                *)
RemovePaneByIdApproved(p) ==
  /\ Ready
  /\ \/ /\ p \in Overlays /\ SessionOf(p).parked # Null
        /\ RestoreParkedPane(p)
     \/ /\ p \in Overlays => SessionOf(p).parked = Null
        /\ NodeOf(p) = root
        /\ TearDownTab
     \/ /\ p \in Overlays /\ SessionOf(p).parked = Null
        /\ NodeOf(p) = root
        /\ sessions' = sessions \ {SessionOf(p)}
        /\ UNCHANGED <<treeVars, panelVars, active, creating, attached, phase>>
     \/ /\ p \in Overlays => SessionOf(p).parked = Null
        /\ NodeOf(p) # root
        /\ LET n == NodeOf(p) IN
             /\ active' = IF active = n THEN Head(PanesOf(heap, Sibling(n))) ELSE active
             /\ RemovePane(n)
        /\ attached' = attached \ {p}
        /\ sessions' = {s \in sessions : s.overlay # p}
        /\ UNCHANGED <<creating, phase>>

(* OpenWslInPane: the WSL pane q takes the slot of the shell p. *)
OpenWslInPane(p, q) ==
  /\ Ready /\ p \notin Overlays /\ q \notin attached
  /\ \E a \in New(1) :
       /\ ReplacePane(NodeOf(p), a[1], [m \in {a[1]} |-> Leaf(q, Null)])
       /\ active' = a[1]
  /\ sessions' = sessions \cup {[overlay |-> q, parked |-> p]}
  /\ attached' = attached \cup {q}
  /\ UNCHANGED <<creating, phase>>

(* CloseSurfaceByPaneId for a shell that dies while it is parked. *)
ParkedShellDies(p) ==
  /\ Ready /\ p \in Parked
  /\ sessions' = {[s EXCEPT !.parked = IF @ = p THEN Null ELSE @] : s \in sessions}
  /\ attached' = attached \ {p}
  /\ UNCHANGED <<treeVars, panelVars, active, creating, phase>>

SetZoomed(n) ==
  /\ zoomed' = n
  /\ hidden' = IF n = Null THEN {} ELSE ToSet(children) \ {heap[n].pane}

(* Fault: the zoomed pane does not become the active one. *)
ToggleZoomOnly(p) ==
  /\ Ready
  /\ \/ zoomed # Null /\ SetZoomed(Null)
     \/ zoomed = Null /\ NodeOf(p) # root /\ SetZoomed(NodeOf(p))
  /\ UNCHANGED <<active, heap, root, children, splitters, dragging, creating, sessions,
                 attached, phase>>

ToggleZoom(p) ==
  /\ Ready
  /\ \/ zoomed # Null /\ SetZoomed(Null) /\ UNCHANGED active
     \/ /\ zoomed = Null /\ NodeOf(p) # root
        /\ SetZoomed(NodeOf(p)) /\ active' = NodeOf(p)
  /\ UNCHANGED <<heap, root, children, splitters, dragging, creating, sessions, attached, phase>>

Activate(n) ==
  /\ active' = n
  /\ UNCHANGED <<treeVars, panelVars, creating, sessions, attached, phase>>

(* GotoSplitFromAction. *)
GotoSplit(p, target) ==
  /\ Ready /\ Len(Shown) > 1
  /\ LET panes == Shown
         i == CHOOSE k \in DOMAIN panes : heap[panes[k]].pane = p
         size == Len(panes)
     IN  \/ target = "next" /\ Activate(panes[(i % size) + 1])
         \/ target = "previous" /\ Activate(panes[IF i = 1 THEN size ELSE i - 1])
         \/ target = "arrow" /\ \E k \in DOMAIN panes \ {i} : Activate(panes[k])

(* A click on a pane, or any other way XAML gives its control the focus. *)
NotifySurfaceFocused(p) == Ready /\ Activate(NodeOf(p))

PressSplitter(n) ==
  /\ Ready /\ n \in ToSet(children) \cap splitters /\ n \notin hidden
  /\ dragging' = n
  /\ UNCHANGED <<treeVars, children, hidden, splitters, tabVars>>

ReleaseSplitter ==
  /\ Ready /\ dragging # Null
  /\ dragging' = Null
  /\ UNCHANGED <<treeVars, children, hidden, splitters, tabVars>>

(* FindByPaneId finds the pane; what it does not find changes nothing. *)
PaneStep(p) ==
  \/ \E q \in Panes : OpenWslInPane(p, q) \/ \E first \in BOOLEAN : SplitPane(p, first, q)
  \/ RemovePaneByIdApproved(p)
  \/ ToggleZoom(p) \/ NotifySurfaceFocused(p)
  \/ \E target \in {"next", "previous", "arrow"} : GotoSplit(p, target)

Next ==
  \/ \E p \in Panes : OpenTab(p) \/ ParkedShellDies(p)
  \/ \E p \in Present : PaneStep(p)
  \/ \E n \in Nodes : PressSplitter(n)
  \/ ReleaseSplitter \/ ActivateCreated \/ CloseTab

Spec == Init /\ [][Next]_vars

-----------------------------------------------------------------------------
(* Properties. *)

Branches ==
  [pane : Panes \cup {Null}, left : Nodes \cup {Null}, right : Nodes \cup {Null},
   parent : Nodes \cup {Null}]

(* The kind of value each variable of the tab holds. *)
TypeOK ==
  /\ DOMAIN heap \subseteq Nodes /\ \A n \in DOMAIN heap : heap[n] \in Branches
  /\ {root, zoomed, dragging, active, creating} \subseteq Nodes \cup {Null}
  /\ children \in Seq(Panes \cup Nodes) /\ hidden \subseteq Panes \cup Nodes
  /\ splitters \subseteq Nodes
  /\ sessions \subseteq [overlay : Panes, parked : Panes \cup {Null}]
  /\ attached \subseteq Panes /\ phase \in {"new", "open", "gone"}

TreeShape ==
  /\ \A n \in DOMAIN heap :
       IsPane(heap, n) \/ \A kid \in {heap[n].left, heap[n].right} :
                            kid \in DOMAIN heap /\ heap[kid].parent = n
  /\ root # Null => root \in DOMAIN heap /\ heap[root].parent = Null
  /\ ToSet(NodesOf(heap, root)) = DOMAIN heap
  /\ IsInjective(NodesOf(heap, root))

(* Every live Branch is met exactly once on a walk from the root, over     *)
(* children that name their parent, so that no mutation leaks a subtree or *)
(* links one twice; and the raw pointers that SplitPanel and Tab keep into *)
(* the tree name live Branches of the right kind whenever an operation is  *)
(* over.                                                                   *)
PointersLive ==
  /\ TreeShape
  /\ creating = Null =>
       /\ {zoomed, active} \subseteq ToSet(Shown) \cup {Null}
       /\ dragging \in splitters \cup {Null}
       /\ splitters = SplitsOf(heap, root)
       /\ phase = "open" => active # Null

(* The panel's children are the panes and the dividers of the tree in its  *)
(* order, and all are visible unless one pane is zoomed and alone is.      *)
PanelShowsTree ==
  /\ children = Elements(heap, root)
  /\ hidden = IF zoomed = Null THEN {} ELSE ToSet(children) \ {heap[zoomed].pane}

(* A surface is alive exactly while its pane is in the tree or parked      *)
(* behind a WSL pane that is, and no shell is both.                        *)
SurfacesHeld ==
  /\ attached = Present \cup Parked
  /\ Present \cap Parked = {}
  /\ Overlays \subseteq Present \ Parked
  /\ \A s, t \in sessions :
       (s.overlay = t.overlay \/ (s.parked = t.parked /\ s.parked # Null)) => s = t

(* SplitPanel.cpp: no mutation reorders the survivors, so an element that  *)
(* stays is never detached, which would make XAML move the focus away; and *)
(* a shell that gave its slot to a WSL pane comes back between the same    *)
(* neighbours.                                                             *)
StaysInPlace ==
  [][/\ \A i, j \in DOMAIN children, k, l \in DOMAIN children' :
          children'[k] = children[i] /\ children'[l] = children[j] /\ i < j => k < l
     /\ \A s \in sessions : s.parked # Null /\ s.parked \in {heap'[n].pane : n \in DOMAIN heap'} =>
          children' = [i \in DOMAIN children |->
                         IF children[i] = s.overlay THEN s.parked ELSE children[i]]]_vars

-----------------------------------------------------------------------------
(* The promise this module keeps. *)

PaneAt(n) == IF n \in DOMAIN heap THEN heap[n].pane ELSE Null

Row == INSTANCE PaneRow WITH
         row   <- Kept(children, Panes),
         focus <- PaneAt(IF creating # Null THEN creating ELSE active),
         zoom  <- PaneAt(zoomed)

(* Every operation on the tree is a step of PaneRow: it changes one place  *)
(* of the row of panes, and the focus follows as PaneRow says.             *)
KeepsRow == Row!Spec
=============================================================================
