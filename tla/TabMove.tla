------------------------------ MODULE TabMove ------------------------------
(***************************************************************************)
(* Tabs that move between the windows of the App: the drag of a header,    *)
(* the drop on another strip, the drop outside and the move_tab action,    *)
(* with the window that is made for a torn-out tab (TabDrag, PressedTab,   *)
(* TearOut, MainWindows, App, MainWindow).                                 *)
(*                                                                         *)
(* The order of a strip, its selection and the undo stack are the subject  *)
(* of UndoPark, the confirmation of a close that of WindowClose: a closed  *)
(* tab ends here.                                                          *)
(***************************************************************************)
EXTENDS Naturals, FiniteSets

CONSTANTS
  Windows,   \* bound: every window that is ever made
  Tabs,      \* bound: every tab that is ever made, its item and its panel
  None       \* no tab, no window

ASSUME NoneAssumption == None \notin Windows \cup Tabs

VARIABLES
  phase,     \* of a window: "unborn", "hidden" until Activate(), "shown" until its
             \* first Activated, "active", "dark" when that made no tab and left it
             \* under SW_HIDE, "closing" after Close(), "gone"
  windows,   \* App::m_topLevelWindows
  listed,    \* MainWindows::m_windows
  hosts,     \* the windows with m_suppressInitialTab
  items,     \* TabView().TabItems() of each window
  tabs,      \* m_tabs of each window
  panels,    \* the SplitPanels under AppContent() of each window
  checks,    \* the windows whose CloseIfTornOutEmpty lambda is queued
  born,      \* the tabs TabFactory has made
  alive,     \* the Tab objects that exist, with their surfaces and shells
  pressed,   \* BasicPressedTab::m_item
  item,      \* BasicTabDrag::m_item
  inFlight,  \* BasicTabDrag::m_inFlight
  drag,      \* the platform's drag: its window, the header grabbed, a drop accepted
  asked,     \* history: the tabs whose close, or whose window's close, was asked for
  hurt,      \* history: the tabs of moves that threw between two containers
  stray      \* history: the windows left behind by a move that threw or for want of a surface

windowVars == <<phase, windows, listed, hosts>>
homeVars   == <<items, tabs, panels>>
tabVars    == <<born, alive>>
dragVars   == <<pressed, item, inFlight, drag>>
history    == <<asked, hurt, stray>>
vars == <<windowVars, homeVars, checks, tabVars, dragVars, history>>

NoDrag == [from |-> None, tab |-> None, dropped |-> FALSE]

Made == {w \in Windows : phase[w] \notin {"unborn", "gone"}}

(* App::FindWindowByTabItem: none or one, among the tracked windows. *)
Owners(t) == {w \in windows : t \in tabs[w]}

-----------------------------------------------------------------------------
(* Windows. *)

(* RequestClose of the windows ws: Close() raises Closed, and the          *)
(* subscription of TrackWindow forgets the window.                         *)
Close(ws) ==
  /\ phase' = [w \in Windows |-> IF w \in ws THEN "closing" ELSE phase[w]]
  /\ windows' = windows \ ws

Init ==
  \E first \in Windows :
    /\ phase = [w \in Windows |-> IF w = first THEN "shown" ELSE "unborn"]
    /\ windows = {first}
    /\ listed = {} /\ hosts = {}
    /\ items = [w \in Windows |-> {}]
    /\ tabs = [w \in Windows |-> {}]
    /\ panels = [w \in Windows |-> {}]
    /\ checks = {} /\ born = {} /\ alive = {}
    /\ pressed = None /\ item = None /\ inFlight = FALSE /\ drag = NoDrag
    /\ asked = {} /\ hurt = {} /\ stray = {}

CreateNewWindow(w) ==
  /\ listed # {} /\ phase[w] = "unborn"
  /\ phase' = [phase EXCEPT ![w] = "shown"]
  /\ windows' = windows \cup {w}
  /\ UNCHANGED <<listed, hosts, homeVars, checks, tabVars, dragVars, history>>

(* CreateTabWithCommand on a window's containers. *)
AddTab(w, t) ==
  /\ t \notin born
  /\ items' = [items EXCEPT ![w] = @ \cup {t}]
  /\ tabs' = [tabs EXCEPT ![w] = @ \cup {t}]
  /\ panels' = [panels EXCEPT ![w] = @ \cup {t}]
  /\ born' = born \cup {t}
  /\ alive' = alive \cup {t}

(* The one-shot handler of the first Activated: it hides the window, which *)
(* the first frame of its tab shows. Without a surface for the tab         *)
(* (TabFactory::Make) nothing does.                                        *)
FirstActivated(w) ==
  /\ phase[w] = "shown"
  /\ listed' = listed \cup {w}
  /\ \/ /\ \/ w \in hosts /\ UNCHANGED <<homeVars, tabVars>>
           \/ w \notin hosts /\ \E t \in Tabs : AddTab(w, t)
        /\ phase' = [phase EXCEPT ![w] = "active"]
        /\ UNCHANGED stray
     \/ /\ w \notin hosts
        /\ phase' = [phase EXCEPT ![w] = "dark"]
        /\ stray' = stray \cup {w}
        /\ UNCHANGED <<homeVars, tabVars>>
  /\ UNCHANGED <<windows, hosts, checks, dragVars, asked, hurt>>

CreateTab(w, t) ==
  /\ phase[w] = "active"
  /\ AddTab(w, t)
  /\ UNCHANGED <<windowVars, checks, dragVars, history>>

(* GOTO_WINDOW activates a tracked window, one never activated as well. *)
PresentWindow(w) ==
  /\ listed # {} /\ Cardinality(windows) >= 2
  /\ w \in windows
  /\ \/ phase[w] = "hidden" /\ phase' = [phase EXCEPT ![w] = "shown"]
     \/ phase[w] = "dark" /\ phase' = [phase EXCEPT ![w] = "active"]
  /\ UNCHANGED <<windows, listed, hosts, homeVars, checks, tabVars, dragVars, history>>

(* An approved close of a tab, or its shell's end. The tab that leaves the *)
(* strip empty takes the window along and stays in it until the end.       *)
CloseTab(w, t) ==
  /\ phase[w] = "active" /\ t \in tabs[w]
  /\ pressed' = IF pressed = t THEN None ELSE pressed
  /\ items' = [items EXCEPT ![w] = @ \ {t}]
  /\ alive' = alive \ {t}
  /\ asked' = asked \cup {t}
  /\ \/ /\ items'[w] = {}
        /\ Close({w})
        /\ UNCHANGED <<tabs, panels>>
     \/ /\ items'[w] # {}
        /\ tabs' = [tabs EXCEPT ![w] = @ \ {t}]
        /\ panels' = [panels EXCEPT ![w] = @ \ {t}]
        /\ UNCHANGED <<phase, windows>>
  /\ UNCHANGED <<listed, hosts, checks, born, item, inFlight, drag, hurt, stray>>

(* An approved close of one window. *)
RequestClose(w) ==
  /\ phase[w] = "active"
  /\ Close({w})
  /\ asked' = asked \cup tabs[w]
  /\ UNCHANGED <<listed, hosts, homeVars, checks, tabVars, dragVars, hurt, stray>>

(* Quit and CLOSE_ALL_WINDOWS: every tracked window, shown or not. *)
CloseAllWindows ==
  /\ listed # {} /\ windows # {}
  /\ Close(windows)
  /\ asked' = asked \cup UNION {tabs[w] : w \in windows}
  /\ UNCHANGED <<listed, hosts, homeVars, checks, tabVars, dragVars, hurt, stray>>

(* ~MainWindow. *)
Destroy(w) ==
  /\ phase[w] = "closing"
  /\ phase' = [phase EXCEPT ![w] = "gone"]
  /\ listed' = listed \ {w}
  /\ alive' = alive \ tabs[w]
  /\ items' = [items EXCEPT ![w] = {}]
  /\ tabs' = [tabs EXCEPT ![w] = {}]
  /\ panels' = [panels EXCEPT ![w] = {}]
  /\ checks' = checks \ {w}
  /\ UNCHANGED <<windows, hosts, born, dragVars, history>>

(* Fault: the window is not looked at again. *)
CheckOnce(w) ==
  /\ w \in checks /\ w \in windows
  /\ checks' = checks \ {w}
  /\ Close({w})
  /\ UNCHANGED <<listed, hosts, homeVars, tabVars, dragVars, history>>

(* The lambda of CloseIfTornOutEmpty. *)
CheckEmpty(w) ==
  /\ w \in checks
  /\ checks' = checks \ {w}
  /\ IF tabs[w] = {} /\ w \in windows THEN Close({w}) ELSE UNCHANGED <<phase, windows>>
  /\ UNCHANGED <<listed, hosts, homeVars, tabVars, dragVars, history>>

-----------------------------------------------------------------------------
(* Moving a tab. *)

(* The calls of a move, any of which can throw: 1 the panel leaves s, 2 the *)
(* item leaves s and Extract takes the Tab, 3 the item enters d, 4 the     *)
(* panel enters d and Add gives it the Tab, 5 the tab is selected and d    *)
(* shown.                                                                  *)
Calls == 0 .. 5
Whole == 5

(* Membership of t in one kind of container, by whether it left s and      *)
(* entered d.                                                              *)
Shifted(home, t, s, left, d, entered) ==
  [w \in Windows |->
     IF w = s /\ left THEN home[w] \ {t}
     ELSE IF w = d /\ entered THEN home[w] \cup {t}
     ELSE home[w]]

(* Fault: the panel stays under the AppContent it came from. *)
HandOverKeepsPanel(s, d, t, n) ==
  /\ items' = Shifted(items, t, s, n >= 2, d, n >= 3)
  /\ tabs' = Shifted(tabs, t, s, n >= 2, d, n >= 4)
  /\ panels' = Shifted(panels, t, s, FALSE, d, n >= 4)
  /\ alive' = IF n \in {2, 3} THEN alive \ {t} ELSE alive
  /\ hurt' = IF n \in 1 .. 3 THEN hurt \cup {t} ELSE hurt

(* s.ReleaseTornOutTab and d.AdoptTornOutTab as far as the first n calls.  *)
(* Between Extract and Add the Tab is a local of the move, and an          *)
(* exception ends it with its surfaces.                                    *)
HandOver(s, d, t, n) ==
  /\ items' = Shifted(items, t, s, n >= 2, d, n >= 3)
  /\ tabs' = Shifted(tabs, t, s, n >= 2, d, n >= 4)
  /\ panels' = Shifted(panels, t, s, n >= 1, d, n >= 4)
  /\ alive' = IF n \in {2, 3} THEN alive \ {t} ELSE alive
  /\ hurt' = IF n \in 1 .. 3 THEN hurt \cup {t} ELSE hurt

(* Fault: the host of a tab that is not there stays. *)
KeepHost(h) ==
  /\ phase' = [phase EXCEPT ![h] = "hidden"]
  /\ windows' = windows \cup {h}

(* CreateTearOutWindow and, as nothing moved, RequestClose. *)
CloseHost(h) ==
  /\ phase' = [phase EXCEPT ![h] = "closing"]
  /\ UNCHANGED windows

(* TearOut::ToNewWindow. The only tab of a window never leaves it, a host  *)
(* without a tab is closed at once, and one whose move threw is left as it *)
(* is, tracked and not activated.                                          *)
ToNewWindow(s, t) ==
  \/ /\ Cardinality(tabs[s]) <= 1
     /\ UNCHANGED <<phase, windows, hosts, homeVars, alive, hurt, stray>>
  \/ /\ Cardinality(tabs[s]) > 1
     /\ \E h \in Windows :
          /\ phase[h] = "unborn"
          /\ hosts' = hosts \cup {h}
          /\ \/ /\ t \notin tabs[s]
                /\ CloseHost(h)
                /\ UNCHANGED <<homeVars, alive, hurt, stray>>
             \/ /\ t \in tabs[s]
                /\ windows' = windows \cup {h}
                /\ \E n \in Calls :
                     /\ HandOver(s, h, t, n)
                     /\ phase' = [phase EXCEPT ![h] = IF n = Whole THEN "shown" ELSE "hidden"]
                     /\ stray' = IF n = Whole THEN stray ELSE stray \cup {h}

(* The move_tab_to_new_window action. *)
MoveTabToNewWindow(w, t) ==
  /\ phase[w] = "active" /\ t \in tabs[w] /\ Cardinality(tabs[w]) > 1
  /\ ToNewWindow(w, t)
  /\ UNCHANGED <<listed, checks, born, dragVars, asked>>

(* A pointer press on a header. OLE's drag is modal: no press during one.  *)
Press(w, t) ==
  /\ drag = NoDrag
  /\ phase[w] = "active" /\ t \in items[w]
  /\ pressed' = t
  /\ UNCHANGED <<windowVars, homeVars, checks, tabVars, item, inFlight, drag, history>>

(* Fault: a drag that could not be identified keeps the item of the last. *)
DragKeepsItem(w, t) ==
  /\ drag = NoDrag
  /\ phase[w] = "active" /\ t \in items[w] /\ pressed \in {t, None}
  /\ drag' = [from |-> w, tab |-> t, dropped |-> FALSE]
  /\ item' = IF pressed = None THEN item ELSE pressed
  /\ inFlight' = (pressed # None)
  /\ pressed' = None
  /\ UNCHANGED <<windowVars, homeVars, checks, tabVars, history>>

(* TabDragStarting: PressedTab::Take and TabDrag::Begin. The press that    *)
(* the drag began with may not have been recorded.                         *)
TabDragStarting(w, t) ==
  /\ drag = NoDrag
  /\ phase[w] = "active" /\ t \in items[w] /\ pressed \in {t, None}
  /\ drag' = [from |-> w, tab |-> t, dropped |-> FALSE]
  /\ item' = pressed
  /\ inFlight' = (pressed # None)
  /\ pressed' = None
  /\ UNCHANGED <<windowVars, homeVars, checks, tabVars, history>>

(* TabStripDrop on d, which accepts nothing but a tab in flight. A tab     *)
(* that no tracked window owns, or d itself, stays. The look at an emptied *)
(* source comes last, so a move that threw skips it.                       *)
TabStripDrop(d) ==
  /\ drag # NoDrag /\ ~drag.dropped
  /\ inFlight /\ phase[d] = "active"
  /\ drag' = [drag EXCEPT !.dropped = TRUE]
  /\ \/ /\ Owners(item) \subseteq {d}
        /\ UNCHANGED <<homeVars, checks, alive, hurt, stray>>
     \/ \E s \in Owners(item) \ {d}, n \in Calls :
          /\ HandOver(s, d, item, n)
          /\ \/ /\ n = Whole
                /\ checks' = checks \cup {w \in {s} : tabs'[w] = {}}
                /\ UNCHANGED stray
             \/ /\ n # Whole
                /\ stray' = stray \cup {w \in {s, d} : tabs'[w] = {} \/ items'[w] # tabs'[w]}
                /\ UNCHANGED checks
  /\ UNCHANGED <<windowVars, born, pressed, item, inFlight, asked>>

TabDragCompleted ==
  /\ drag.dropped
  /\ inFlight' = FALSE
  /\ drag' = NoDrag
  /\ UNCHANGED <<windowVars, homeVars, checks, tabVars, pressed, item, history>>

(* A release that no strip accepted, Escape included: TabDragCompleted     *)
(* and, right after it, TabDroppedOutside, which takes the item.           *)
TabDroppedOutside ==
  /\ drag # NoDrag /\ ~drag.dropped
  /\ inFlight' = FALSE
  /\ drag' = NoDrag
  /\ \/ /\ phase[drag.from] = "gone"
        /\ UNCHANGED <<item, phase, windows, hosts, homeVars, alive, hurt, stray>>
     \/ /\ phase[drag.from] # "gone" /\ item = None
        /\ UNCHANGED <<item, phase, windows, hosts, homeVars, alive, hurt, stray>>
     \/ /\ phase[drag.from] # "gone" /\ item # None
        /\ item' = None
        /\ ToNewWindow(drag.from, item)
  /\ UNCHANGED <<listed, checks, born, pressed, asked>>

TabStep(w, t) ==
  \/ CreateTab(w, t) \/ CloseTab(w, t) \/ MoveTabToNewWindow(w, t)
  \/ Press(w, t) \/ TabDragStarting(w, t)

WindowStep(w) ==
  \/ CreateNewWindow(w) \/ FirstActivated(w) \/ PresentWindow(w)
  \/ RequestClose(w) \/ Destroy(w) \/ CheckEmpty(w) \/ TabStripDrop(w)

Next ==
  \/ \E w \in Windows, t \in Tabs : TabStep(w, t)
  \/ \E w \in Windows : WindowStep(w)
  \/ CloseAllWindows \/ TabDragCompleted \/ TabDroppedOutside

Spec == Init /\ [][Next]_vars

-----------------------------------------------------------------------------
(* Properties. *)

Phases == {"unborn", "hidden", "shown", "active", "dark", "closing", "gone"}

(* The kind of value each variable holds. BasicTabDrag is in flight only   *)
(* with an item and only during a drag of the platform: its own assertion  *)
(* in Begin never fires.                                                   *)
TypeOK ==
  /\ phase \in [Windows -> Phases]
  /\ windows \subseteq Windows /\ listed \subseteq Windows /\ hosts \subseteq Windows
  /\ items \in [Windows -> SUBSET Tabs]
  /\ tabs \in [Windows -> SUBSET Tabs]
  /\ panels \in [Windows -> SUBSET Tabs]
  /\ checks \subseteq Windows /\ born \subseteq Tabs /\ alive \subseteq born
  /\ pressed \in Tabs \cup {None} /\ item \in Tabs \cup {None}
  /\ inFlight \in BOOLEAN
  /\ drag \in [from : Windows, tab : Tabs, dropped : BOOLEAN] \cup {NoDrag}
  /\ inFlight => item # None /\ drag # NoDrag
  /\ asked \subseteq Tabs /\ hurt \subseteq Tabs /\ stray \subseteq Windows

(* A tab has one home. Every Tab that exists is in the m_tabs of one       *)
(* window, no other window owns it, and in every window its item, its Tab  *)
(* and its panel are there together. Only a move that threw half way may   *)
(* have torn the three apart.                                              *)
OneHome ==
  /\ \A t \in alive : \E w \in Made : t \in tabs[w]
  /\ \A v, w \in Windows : v # w => tabs[v] \cap tabs[w] = {}
  /\ \A w \in windows : /\ items[w] \ hurt = tabs[w] \ hurt
                        /\ panels[w] \ hurt = tabs[w] \ hurt

(* No tab dies of a move that works: what is gone was closed, went with a  *)
(* window that was closed, or was lost by a move that threw. The window    *)
(* CloseIfTornOutEmpty closes takes no tab along, even if one was dropped  *)
(* there in the meantime.                                                  *)
NothingLost == born \ alive \subseteq asked \cup hurt

(* No window is left over: one that is tracked is shown, and once it has   *)
(* lost its last tab its close is on the way. Only a move that threw may   *)
(* leave a host nobody sees or a source with nothing in it, and only a     *)
(* first tab that could not be made a window that stays hidden.            *)
NoStrayWindow ==
  \A w \in windows \ stray :
    /\ phase[w] \in {"shown", "active"}
    /\ phase[w] = "active" /\ tabs[w] = {} => w \in checks

(* What a drop moves is the header that was grabbed, whatever was pressed, *)
(* dragged, moved or closed before and during the drag.                    *)
DragMovesGrabbed ==
  [][drag # NoDrag /\ drag' # drag =>
       \A w \in Windows, t \in Tabs \ {drag.tab} : t \in tabs[w] <=> t \in tabs'[w]]_vars
=============================================================================
