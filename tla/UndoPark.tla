------------------------------ MODULE UndoPark ------------------------------
(***************************************************************************)
(* The tabs of one window: the tab strip, the Tab objects the window owns, *)
(* the panels parented under AppContent, and the tabs that were closed but *)
(* wait alive for an undo (MainWindow, Tabs, ParkedTabs, PressedTab).      *)
(*                                                                         *)
(* A tab here has one pane; panes of a split are the subject of PaneTree.  *)
(* The confirmation a close may need first is the subject of WindowClose:  *)
(* a close that reaches this module has been approved.                     *)
(***************************************************************************)
EXTENDS Naturals, Sequences, SequencesExt

CONSTANTS
  Tabs,       \* every Tab that is ever created, its strip item and its panel
  None,       \* no tab
  Timeouts    \* the values undo-timeout takes, in clock units; 0 opts out

ASSUME NoneAssumption == None \notin Tabs
ASSUME TimeoutsAssumption == Timeouts \subseteq Nat /\ Timeouts # {}

VARIABLES
  strip,        \* TabView().TabItems()
  selected,     \* TabView().SelectedItem()
  visible,      \* the panels whose Visibility is Visible
  tabs,         \* m_tabs
  panels,       \* the SplitPanels under AppContent()
  attached,     \* the tabs whose pane still has its surface, shell and swap chain
  parked,       \* ParkedTabs::m_entries
  redo,         \* ParkedTabs::m_redoItems
  undoTimeout,  \* Config::UndoTimeoutMs
  born,         \* the tabs TabFactory has made
  awaiting,     \* the tabs that have not presented a first frame
  away,         \* the tabs another window owns
  emptyCheck,   \* the lambda of CloseIfTornOutEmpty is queued
  exited,       \* the tabs whose shell process has ended
  closeReq,     \* the tabs with a queued CloseSurfaceByPaneId
  pressed,      \* the App's PressedTab slot
  phase,        \* "open", "closing" once Close() has run, "closed" when destroyed
  armed,        \* history: the timeout of the last Park
  quiet         \* history: the clock units since the last Park

stripVars == <<strip, selected, visible>>
ownerVars == <<tabs, panels, attached, born, away>>
undoVars  == <<parked, redo, armed, quiet>>
shellVars == <<exited, closeReq>>
restVars  == <<undoTimeout, awaiting, emptyCheck, pressed, phase>>
vars == <<stripVars, ownerVars, undoVars, shellVars, restVars>>

ParkedTabs == {parked[i].tab : i \in DOMAIN parked}

(* The index of t in the strip, from 1. *)
Position(t) == CHOOSE i \in DOMAIN strip : strip[i] = t

-----------------------------------------------------------------------------
(* The parts the operations are built from. *)

(* Fault: the panel shown before stays visible. *)
SelectOnTop(t) ==
  /\ selected' = t
  /\ visible' = visible \cup ({t} \ {None})

(* UpdateActivePanelVisibility: the selected tab's panel and no other. *)
Select(t) ==
  /\ selected' = t
  /\ visible' = {t} \ {None}

(* Taking an item out of the strip. TabView selects some other item when   *)
(* the selected one leaves, and the SelectionChanged handler shows it.     *)
Unlist(t) ==
  /\ strip' = RemoveAt(strip, Position(t))
  /\ \/ /\ selected = t
        /\ strip' = <<>>
        /\ Select(None)
     \/ /\ selected = t
        /\ \E s \in ToSet(strip') : Select(s)
     \/ /\ selected # t
        /\ visible' = visible \ {t}
        /\ UNCHANGED selected

(* Fault: the press on the header survives. *)
NeverForget(t) == pressed' = IF t = None THEN None ELSE pressed

Forget(t) == pressed' = IF pressed = t THEN None ELSE pressed

(* Fault: every entry keeps its own deadline. *)
NotRearmed == parked

(* ParkedTabs::Park re-arms the timer of every entry it already holds. *)
Rearmed == [i \in DOMAIN parked |-> [parked[i] EXCEPT !.left = undoTimeout]]

(* Fault: the tab is detached on its way to the stack. *)
ParkDetached(t, redoLeft) ==
  /\ Forget(t)
  /\ Unlist(t)
  /\ tabs' = tabs \ {t}
  /\ redo' = redoLeft
  /\ parked' = Append(Rearmed, [tab |-> t, index |-> Position(t) - 1, left |-> undoTimeout])
  /\ armed' = undoTimeout
  /\ quiet' = 0
  /\ attached' = attached \ {t}
  /\ UNCHANGED <<panels, phase>>

(* MainWindow::ParkTab. redoLeft is what the close leaves of the redo      *)
(* history: nothing for the user's own close, the rest for a redo.         *)
ParkTab(t, redoLeft) ==
  /\ Forget(t)
  /\ Unlist(t)
  /\ tabs' = tabs \ {t}
  /\ redo' = redoLeft
  /\ parked' = Append(Rearmed, [tab |-> t, index |-> Position(t) - 1, left |-> undoTimeout])
  /\ armed' = undoTimeout
  /\ quiet' = 0
  /\ UNCHANGED <<panels, attached, phase>>

(* MainWindow::TearDownTab. The last tab keeps its Tab and its panel until *)
(* the window is destroyed.                                                *)
TearDownTab(t) ==
  /\ Forget(t)
  /\ attached' = attached \ {t}
  /\ Unlist(t)
  /\ \/ /\ strip' = <<>>
        /\ phase' = "closing"
        /\ UNCHANGED <<tabs, panels>>
     \/ /\ strip' # <<>>
        /\ tabs' = tabs \ {t}
        /\ panels' = panels \ {t}
        /\ UNCHANGED phase
  /\ UNCHANGED undoVars

(* MainWindow::TryParkTab's two conditions. *)
CanPark == Len(strip) > 1 /\ undoTimeout # 0

-----------------------------------------------------------------------------
(* The operations. *)

Init ==
  /\ strip = <<>> /\ selected = None /\ visible = {}
  /\ tabs = {} /\ panels = {} /\ attached = {} /\ born = {} /\ away = {}
  /\ parked = <<>> /\ redo = <<>> /\ armed = 0 /\ quiet = 0
  /\ exited = {} /\ closeReq = {}
  /\ undoTimeout \in Timeouts
  /\ awaiting = {} /\ emptyCheck = FALSE /\ pressed = None /\ phase = "open"

(* A failed TabFactory::Make takes its item out again and changes nothing. *)
CreateTab(t) ==
  /\ phase = "open" /\ t \notin born
  /\ strip' = Append(strip, t)
  /\ tabs' = tabs \cup {t}
  /\ panels' = panels \cup {t}
  /\ attached' = attached \cup {t}
  /\ born' = born \cup {t}
  /\ awaiting' = awaiting \cup {t}
  /\ UNCHANGED <<selected, visible, away, undoVars, shellVars,
                 undoTimeout, emptyCheck, pressed, phase>>

(* onActivated, once the renderer has presented. For an item that has left *)
(* the strip the assignment selects nothing.                               *)
FirstFrame(t) ==
  /\ phase = "open" /\ t \in awaiting
  /\ awaiting' = awaiting \ {t}
  /\ IF t \in tabs THEN Select(t) ELSE UNCHANGED <<selected, visible>>
  /\ UNCHANGED <<strip, ownerVars, undoVars, shellVars,
                 undoTimeout, emptyCheck, pressed, phase>>

(* A click on a header, or GoToTab. *)
GoToTab(t) ==
  /\ phase = "open" /\ t \in tabs
  /\ Select(t)
  /\ UNCHANGED <<strip, ownerVars, undoVars, shellVars, restVars>>

(* MoveActiveTabBy, and TabView's own reorder of the selected item. *)
MoveActiveTab(target) ==
  /\ phase = "open" /\ selected # None
  /\ target \in DOMAIN strip \ {Position(selected)}
  /\ strip' = InsertAt(RemoveAt(strip, Position(selected)), target, selected)
  /\ Select(selected)
  /\ UNCHANGED <<ownerVars, undoVars, shellVars, restVars>>

(* Fault: the user's own close leaves the redo history. *)
CloseKeepsRedo(t) ==
  /\ phase = "open" /\ t \in tabs
  /\ IF CanPark THEN ParkTab(t, redo) ELSE TearDownTab(t)
  /\ UNCHANGED <<born, away, shellVars, undoTimeout, awaiting, emptyCheck>>

(* CloseTabByItem: the tab's X or the close_tab keybind. *)
CloseTabByItem(t) ==
  /\ phase = "open" /\ t \in tabs
  /\ IF CanPark THEN ParkTab(t, <<>>) ELSE TearDownTab(t)
  /\ UNCHANGED <<born, away, shellVars, undoTimeout, awaiting, emptyCheck>>

(* RemovePaneByIdApproved on a tab's only pane. A shell that has ended     *)
(* cannot be brought back, so its tab is not parked.                       *)
RemoveOnlyPane(t) ==
  IF CanPark /\ t \notin exited THEN ParkTab(t, <<>>) ELSE TearDownTab(t)

ClosePane(t) ==
  /\ phase = "open" /\ t \in tabs
  /\ RemoveOnlyPane(t)
  /\ UNCHANGED <<born, away, shellVars, undoTimeout, awaiting, emptyCheck>>

(* The shell ends and libghostty calls close_surface: OnCloseSurface looks *)
(* for the pane among the tabs the window lists, and queues the close.     *)
ShellExit(t) ==
  /\ phase = "open" /\ t \in attached \ (exited \cup away)
  /\ exited' = exited \cup {t}
  /\ closeReq' = IF t \in tabs THEN closeReq \cup {t} ELSE closeReq
  /\ UNCHANGED <<stripVars, ownerVars, undoVars, restVars>>

(* CloseSurfaceByPaneId. *)
DeliverClose(t) ==
  /\ phase = "open" /\ t \in closeReq
  /\ closeReq' = closeReq \ {t}
  /\ IF t \in tabs
     THEN RemoveOnlyPane(t)
     ELSE UNCHANGED <<stripVars, undoVars, tabs, panels, attached, pressed, phase>>
  /\ UNCHANGED <<born, away, exited, undoTimeout, awaiting, emptyCheck>>

(* Fault: the tab closed first comes back first. *)
UndoOldest ==
  /\ phase = "open" /\ parked # <<>>
  /\ parked' = Tail(parked)
  /\ tabs' = tabs \cup {Head(parked).tab}
  /\ strip' = Append(strip, Head(parked).tab)
  /\ redo' = Append(redo, Head(parked).tab)
  /\ Select(Head(parked).tab)
  /\ UNCHANGED <<panels, attached, born, away, armed, quiet, shellVars, restVars>>

Undo ==
  /\ phase = "open" /\ parked # <<>>
  /\ LET newest == Last(parked)
         at     == IF newest.index <= Len(strip) THEN newest.index ELSE Len(strip)
     IN  /\ parked' = Front(parked)
         /\ tabs' = tabs \cup {newest.tab}
         /\ strip' = InsertAt(strip, at + 1, newest.tab)
         /\ redo' = Append(redo, newest.tab)
         /\ Select(newest.tab)
  /\ UNCHANGED <<panels, attached, born, away, armed, quiet, shellVars, restVars>>

(* Pops candidates until one is still listed here, and closes that one.    *)
(* The guard for the last tab comes after the pop.                         *)
Redo ==
  /\ phase = "open" /\ undoTimeout # 0 /\ redo # <<>>
  /\ LET live == {i \in DOMAIN redo : redo[i] \in tabs} IN
     \/ /\ live = {}
        /\ redo' = <<>>
        /\ UNCHANGED <<stripVars, tabs, panels, attached, parked, armed, quiet, pressed, phase>>
     \/ \E i \in live :
          /\ \A j \in live : j <= i
          /\ \/ /\ Len(strip) > 1
                /\ ParkTab(redo[i], SubSeq(redo, 1, i - 1))
             \/ /\ Len(strip) <= 1
                /\ redo' = SubSeq(redo, 1, i - 1)
                /\ UNCHANGED <<stripVars, tabs, panels, attached, parked, armed, quiet,
                               pressed, phase>>
  /\ UNCHANGED <<born, away, shellVars, undoTimeout, awaiting, emptyCheck>>

(* One clock unit of every running timer. *)
Elapse ==
  /\ phase = "open"
  /\ \E i \in DOMAIN parked : parked[i].left > 0
  /\ parked' = [i \in DOMAIN parked |->
                  [parked[i] EXCEPT !.left = IF @ > 0 THEN @ - 1 ELSE 0]]
  /\ quiet' = quiet + 1
  /\ UNCHANGED <<stripVars, ownerVars, redo, armed, shellVars, restVars>>

(* Fault: the expired tab's panel stays under AppContent. *)
ExpireKeepsPanel(i) ==
  /\ phase = "open" /\ parked[i].left = 0
  /\ parked' = RemoveAt(parked, i)
  /\ attached' = attached \ {parked[i].tab}
  /\ UNCHANGED <<stripVars, tabs, panels, born, away, redo, armed, quiet, shellVars, restVars>>

(* ParkedTabs::Expire and the teardown ParkTab handed it. *)
Expire(i) ==
  /\ phase = "open" /\ parked[i].left = 0
  /\ parked' = RemoveAt(parked, i)
  /\ attached' = attached \ {parked[i].tab}
  /\ panels' = panels \ {parked[i].tab}
  /\ UNCHANGED <<stripVars, tabs, born, away, redo, armed, quiet, shellVars, restVars>>

(* ReleaseTornOutTab: a merge into another window, or a tear-out, which    *)
(* never takes the only tab. A merge that empties the window queues a      *)
(* second look at it.                                                      *)
ReleaseTornOutTab(t) ==
  /\ phase = "open" /\ t \in tabs
  /\ panels' = panels \ {t}
  /\ Unlist(t)
  /\ tabs' = tabs \ {t}
  /\ away' = away \cup {t}
  /\ emptyCheck' = (emptyCheck \/ tabs' = {})
  /\ UNCHANGED <<attached, born, undoVars, shellVars, undoTimeout, awaiting, pressed, phase>>

AdoptTornOutTab(t, at) ==
  /\ phase = "open" /\ t \in away /\ at \in 0 .. Len(strip)
  /\ strip' = InsertAt(strip, at + 1, t)
  /\ panels' = panels \cup {t}
  /\ tabs' = tabs \cup {t}
  /\ away' = away \ {t}
  /\ Select(t)
  /\ UNCHANGED <<attached, born, undoVars, shellVars, restVars>>

CloseIfTornOutEmpty ==
  /\ phase = "open" /\ emptyCheck
  /\ emptyCheck' = FALSE
  /\ phase' = IF tabs = {} THEN "closing" ELSE phase
  /\ UNCHANGED <<stripVars, ownerVars, undoVars, shellVars, undoTimeout, awaiting, pressed>>

(* The window that owns it closes a tab that left this one. *)
EndAway(t) ==
  /\ t \in away
  /\ away' = away \ {t}
  /\ attached' = attached \ {t}
  /\ Forget(t)
  /\ UNCHANGED <<stripVars, tabs, panels, born, undoVars, shellVars,
                 undoTimeout, awaiting, emptyCheck, phase>>

(* A pointer press on a header; a drag that starts takes the slot. *)
PressHeader(t) ==
  /\ phase = "open" /\ t \in tabs
  /\ pressed' = t
  /\ UNCHANGED <<stripVars, ownerVars, undoVars, shellVars, undoTimeout, awaiting, emptyCheck, phase>>

TakePress ==
  /\ pressed # None
  /\ pressed' = None
  /\ UNCHANGED <<stripVars, ownerVars, undoVars, shellVars, undoTimeout, awaiting, emptyCheck, phase>>

(* Fault: a reload starts every timer afresh. *)
ReloadRearms(n) ==
  /\ phase = "open" /\ n # undoTimeout
  /\ undoTimeout' = n
  /\ parked' = [i \in DOMAIN parked |-> [parked[i] EXCEPT !.left = n]]
  /\ UNCHANGED <<stripVars, ownerVars, redo, armed, quiet, shellVars, awaiting, emptyCheck,
                 pressed, phase>>

ReloadConfig(n) ==
  /\ phase = "open" /\ n # undoTimeout
  /\ undoTimeout' = n
  /\ UNCHANGED <<stripVars, ownerVars, undoVars, shellVars, awaiting, emptyCheck, pressed, phase>>

(* An approved close of the whole window. *)
RequestClose ==
  /\ phase = "open"
  /\ phase' = "closing"
  /\ UNCHANGED <<stripVars, ownerVars, undoVars, shellVars, undoTimeout, awaiting, emptyCheck, pressed>>

(* ~MainWindow: ParkedTabs::Shutdown, then m_tabs.Clear. *)
Destroy ==
  /\ phase = "closing"
  /\ phase' = "closed"
  /\ strip' = <<>> /\ selected' = None /\ visible' = {} /\ panels' = {}
  /\ parked' = <<>> /\ redo' = <<>> /\ tabs' = {}
  /\ attached' = attached \cap away
  /\ UNCHANGED <<born, away, armed, quiet, shellVars, undoTimeout, awaiting, emptyCheck, pressed>>

TabStep(t) ==
  \/ CreateTab(t) \/ FirstFrame(t) \/ GoToTab(t)
  \/ CloseTabByItem(t) \/ ClosePane(t) \/ ShellExit(t) \/ DeliverClose(t)
  \/ ReleaseTornOutTab(t) \/ EndAway(t) \/ PressHeader(t)
  \/ \E at \in 0 .. Len(strip) : AdoptTornOutTab(t, at)

Next ==
  \/ \E t \in Tabs : TabStep(t)
  \/ \E target \in DOMAIN strip : MoveActiveTab(target)
  \/ Undo \/ Redo \/ Elapse \/ CloseIfTornOutEmpty \/ TakePress
  \/ \E i \in DOMAIN parked : Expire(i)
  \/ \E n \in Timeouts : ReloadConfig(n)
  \/ RequestClose \/ Destroy

Spec == Init /\ [][Next]_vars

(* The clock runs and a due timer ticks; nobody has to close or undo. *)
FairSpec ==
  /\ Spec
  /\ WF_vars(Elapse)
  /\ WF_vars(\E i \in DOMAIN parked : Expire(i))
  /\ \A t \in Tabs : WF_vars(DeliverClose(t))

-----------------------------------------------------------------------------
(* Properties. *)

Entries == [tab : Tabs, index : Nat, left : Nat]

(* The kind of value each variable of the window holds. *)
TypeOK ==
  /\ strip \in Seq(Tabs) /\ selected \in Tabs \cup {None} /\ visible \subseteq Tabs
  /\ tabs \subseteq Tabs /\ panels \subseteq Tabs /\ attached \subseteq Tabs
  /\ born \subseteq Tabs /\ away \subseteq Tabs
  /\ parked \in Seq(Entries) /\ redo \in Seq(Tabs) /\ armed \in Nat /\ quiet \in Nat
  /\ exited \subseteq Tabs /\ closeReq \subseteq Tabs
  /\ undoTimeout \in Timeouts /\ awaiting \subseteq Tabs /\ emptyCheck \in BOOLEAN
  /\ pressed \in Tabs \cup {None} /\ phase \in {"open", "closing", "closed"}

(* DebugAssertPanelInvariant: the panels under AppContent are the open     *)
(* tabs' and the parked tabs', each of them once. A panel more is leaked   *)
(* for the life of the window, a panel less is a tab that shows nothing.   *)
PanelInvariant ==
  /\ panels = tabs \cup ParkedTabs
  /\ tabs \cap ParkedTabs = {}
  /\ \A i, j \in DOMAIN parked : parked[i].tab = parked[j].tab => i = j

(* The strip lists exactly the tabs the window owns, each once: an item    *)
(* without a tab cannot be closed, a tab without an item cannot be reached.*)
StripInvariant ==
  phase = "open" =>
    /\ ToSet(strip) = tabs
    /\ \A i, j \in DOMAIN strip : strip[i] = strip[j] => i = j

(* The three containers of a window agree: the panels with the tabs and    *)
(* the undo stack, and the strip with the tabs. No path that takes a tab   *)
(* out of one (park, expiry, undo, move, teardown) leaves it in another.   *)
ContainersAgree == PanelInvariant /\ StripInvariant

(* A surface, and the shell behind it, lives exactly as long as some owner *)
(* has its tab: parking keeps it, expiry and teardown free it, a tear-out  *)
(* takes it along, nothing leaks and nothing is freed under an owner.      *)
SurfaceOwned ==
  phase = "open" => attached = tabs \cup ParkedTabs \cup away

(* One panel shows, the selected tab's; a parked panel never does.         *)
OnePanelShows ==
  phase = "open" => /\ visible = {selected} \ {None}
                    /\ selected # None => selected \in tabs

(* The sliding window of ParkedTabs::Park: no entry's timer is due before  *)
(* a whole undo-timeout has passed since the last close, so a streak of    *)
(* closes stays restorable from its first tab on.                          *)
SlidingWindow == \A i \in DOMAIN parked : parked[i].left + quiet >= armed

(* Redo closes again only what undo gave back: no tab is a candidate while *)
(* it waits for an undo itself, and none is a candidate twice.             *)
RedoCandidates ==
  /\ \A i \in DOMAIN redo : redo[i] \notin ParkedTabs
  /\ \A i, j \in DOMAIN redo : redo[i] = redo[j] => i = j

(* While the window is open the press slot keeps no closed tab alive:      *)
(* every path that closes a tab forgets the press on its header.           *)
PressForgotten == phase = "open" => pressed \in tabs \cup away \cup {None}

(* Once the user stops closing tabs, a parked tab leaves the stack: it is  *)
(* restored, or its timer runs out, or the window goes.                    *)
ParkedEnds ==
  (<>[][ParkedTabs' \subseteq ParkedTabs]_vars) =>
    \A t \in Tabs : (t \in ParkedTabs /\ phase = "open")
                      ~> (t \notin ParkedTabs \/ phase # "open")

-----------------------------------------------------------------------------
(* The promise this module keeps. *)

Life == INSTANCE TabLife WITH
          open  <- tabs \cap attached,
          stack <- [i \in DOMAIN parked |-> parked[i].tab],
          gone  <- born \ attached

(* Every step of the window is a step of TabLife or none: a tab changes    *)
(* its state alone, undo returns the tab closed last with its shell still  *)
(* running, and what is gone stays gone.                                   *)
KeepsPromise == Life!Spec

=============================================================================
