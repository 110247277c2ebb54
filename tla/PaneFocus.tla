------------------------------- MODULE PaneFocus -------------------------------
(***************************************************************************)
(* Who gets the keyboard: the focus of XAML inside one window, which pane  *)
(* each tab holds for active, the edit context the OS types into and what  *)
(* libghostty was told, across focus events that come late, the search     *)
(* bar, dialogs, zoom, in-place sessions and activation of the window.     *)
(*                                                                         *)
(* Assumed of the platform: Focus() works on an element that is loaded and *)
(* visible; GotFocus and LostFocus come later, in order, bubble from the   *)
(* search bar to its control, and do not come for an element that left the *)
(* tree; a dialog puts the focus back on its own; of several contexts the  *)
(* one that entered last is typed into.  Focus() in a background window    *)
(* may bring it forward: that is SwitchTo coming right after.  The palette *)
(* hands the focus back as RunFocus does.                                  *)
(***************************************************************************)
EXTENDS Naturals, SequencesExt

CONSTANTS
  Panes,      \* bound: every pane of the tabs
  Strip,      \* bound: every tab of the window
  Null,       \* no pane, no tab
  MaxEvents   \* bound: focus events pending when the user or libghostty acts

ASSUME NullAssumption == Null \notin Strip \cup Panes

VARIABLES
  home,     \* the tab whose tree holds the pane, or Null
  shell,    \* the pane parked behind an in-place session, or Null
  loaded,   \* controls in the visual tree, after Loaded
  context,  \* panes whose EditContext has its context
  selected, \* the tab shown
  active,   \* Tab::m_activePane
  zoomed,   \* the zoomed pane of a tab, or Null
  search,   \* panes whose search bar is open
  popup,    \* a ContentDialog is open
  focus,    \* the element with XAML's focus
  back,     \* the one a closing dialog gives it back to
  events,   \* GotFocus and LostFocus not yet raised
  engage,   \* EngagementState::m_want
  typed,    \* the pane whose context the OS types into, or Null
  lib,      \* the surfaces libghostty was last told have the focus
  fg,       \* GetForegroundWindow() is this window
  acts,     \* Activated events not yet raised
  told,     \* MainWindow::m_rendererFocus
  queued,   \* closures: "focus" after a selection or a caption click, "restore" after Activated
  astray    \* history: a pane behind the zoom was made active, a dialog outlived a restore

treeVars  == <<home, shell, active, zoomed, selected>>
liveVars  == <<loaded, context>>
overlays  == <<search, popup, back>>
xamlVars == <<focus, events>>
imeVars   == <<engage, typed>>
frontVars == <<fg, acts>>
focusVars == <<treeVars, liveVars, overlays, xamlVars, imeVars, lib, frontVars, told, queued, astray>>

-----------------------------------------------------------------------------
Terminal(p) == [at |-> "terminal", pane |-> p]

Bar(p) == [at |-> "bar", pane |-> p]

Elsewhere == [at |-> "elsewhere", pane |-> Null]

PanesOf(t) == {p \in Panes : home[p] = t}

Parked(p) == \E q \in Panes : shell[q] = p

(* A surface is attached: its pane is in a tree or waits behind a session. *)
Attached(p) == home[p] # Null \/ Parked(p)

ActivePane == active[selected]

FocusInit ==
  \E there \in SUBSET Strip, first \in Strip, f \in [Strip -> Panes] :
    /\ first \in there /\ \A s, t \in there : f[s] = f[t] => s = t
    /\ home = [p \in Panes |->
                 IF \E t \in there : f[t] = p THEN CHOOSE t \in there : f[t] = p ELSE Null]
    /\ shell = [p \in Panes |-> Null]
    /\ loaded = {f[t] : t \in there}
    /\ context = {f[t] : t \in there}
    /\ selected = first
    /\ active = [t \in Strip |-> IF t \in there THEN f[t] ELSE Null]
    /\ zoomed = [t \in Strip |-> Null]
    /\ search = {} /\ popup = FALSE
    /\ focus = Terminal(f[first]) /\ back = Elsewhere
    /\ events = <<>>
    /\ engage = [p \in Panes |-> p = f[first]]
    /\ typed = f[first]
    /\ lib = {f[first]}
    /\ fg = TRUE /\ acts = <<>> /\ told = TRUE
    /\ queued = {} /\ astray = {}

-----------------------------------------------------------------------------
(* The focus of XAML, once the step has arranged the tree. *)

CanFocus(p) ==
  /\ p \in loaded' /\ home'[p] = selected'
  /\ zoomed'[selected'] \in {Null, p}

Raised(op, el) ==
  IF el.pane = Null \/ home'[el.pane] = Null THEN <<>> ELSE <<[op |-> op, pane |-> el.pane]>>

(* The events still owed, those of an element that leaves the tree struck. *)
Owed ==
  [i \in DOMAIN events |->
     IF events[i].pane # Null /\ home'[events[i].pane] = Null
     THEN [events[i] EXCEPT !.pane = Null] ELSE events[i]]

Moves(el) ==
  /\ focus' = el
  /\ events' = IF el = focus THEN Owed
               ELSE Owed \o Raised("lost", focus) \o Raised("got", el)

(* An element that is hidden or leaves the tree loses the focus. *)
Rests == Moves(IF focus.pane # Null /\ ~CanFocus(focus.pane) THEN Elsewhere ELSE focus)

(* IPaneView::TakeFocus *)
TakeFocus(p) == IF p # Null /\ CanFocus(p) THEN Moves(Terminal(p)) ELSE Rests

(* EngagementState::Want and EditContext::Perform. *)
Wants(p, b) ==
  /\ engage' = [engage EXCEPT ![p] = b]
  /\ typed' = IF p \notin context \/ engage[p] = b THEN typed
              ELSE IF b THEN p ELSE IF typed = p THEN Null ELSE typed

(* TerminalOwnsInput: no overlay of the control holds the keyboard. *)
OwnsInput(p) == focus # Bar(p)

SetFocus(p, b) == lib' = IF b THEN lib \cup {p} ELSE lib \ {p}

(* Tab::SetActivePane *)
Chooses(p) ==
  /\ active' = [active EXCEPT ![home'[p]] = p]
  /\ astray' = IF zoomed'[home'[p]] \in {Null, p} THEN astray ELSE astray \cup {"hidden"}

-----------------------------------------------------------------------------
(* Events of XAML. *)

(* Fault: the context is engaged whoever holds the keyboard. *)
OnFocusGainedAlways(p) == Wants(p, TRUE) /\ SetFocus(p, TRUE)

OnFocusGained(p) == Wants(p, OwnsInput(p)) /\ SetFocus(p, TRUE)

OnFocusLost(p) == Wants(p, FALSE) /\ SetFocus(p, FALSE)

(* Fault: the tab is not told. *)
NotifySurfaceFocusedNot(p) == UNCHANGED <<active, astray>>

NotifySurfaceFocused(p) == Chooses(p)

RaiseFocusEvent ==
  /\ events # <<>>
  /\ UNCHANGED <<home, shell, zoomed, selected, liveVars, overlays, focus, frontVars, told, queued>>
  /\ LET p == Head(events).pane IN
       IF p = Null THEN UNCHANGED <<active, astray, imeVars, lib>>
       ELSE IF Head(events).op = "got" THEN OnFocusGained(p) /\ NotifySurfaceFocused(p)
       ELSE OnFocusLost(p) /\ UNCHANGED <<active, astray>>
  /\ events' = Tail(events)

(* Loaded: the context is created unless the control had one, and the      *)
(* control takes the focus.                                                *)
Load(p) ==
  /\ home[p] # Null /\ p \notin loaded
  /\ loaded' = loaded \cup {p}
  /\ context' = context \cup {p}
  /\ typed' = IF p \notin context /\ engage[p] THEN p ELSE typed
  /\ UNCHANGED <<treeVars, overlays, engage, lib, frontVars, told, queued, astray>>
  /\ TakeFocus(p)

-----------------------------------------------------------------------------
(* The user. *)

(* The user and libghostty find the tree laid out, their controls loaded.  *)
Idle ==
  /\ Len(events) < MaxEvents
  /\ \A p \in Panes : home[p] # Null => p \in loaded

Reachable == fg /\ ~popup

Click(p) ==
  /\ Idle /\ Reachable /\ home[p] # Null
  /\ UNCHANGED <<treeVars, liveVars, overlays, imeVars, lib, frontVars, told, queued, astray>>
  /\ CanFocus(p) /\ TakeFocus(p)

ClickBar(p) ==
  /\ Idle /\ Reachable /\ p \in search
  /\ UNCHANGED <<treeVars, liveVars, overlays, imeVars, lib, frontVars, told, queued, astray>>
  /\ CanFocus(p) /\ Moves(Bar(p))

(* The caption: XAML loses the focus to nothing it knows, and the release  *)
(* asks for it through the dispatcher.                                     *)
ClickCaption ==
  /\ Idle /\ Reachable
  /\ queued' = queued \cup {"focus"}
  /\ UNCHANGED <<treeVars, liveVars, overlays, imeVars, lib, frontVars, told, astray>>
  /\ Moves(Elsewhere) \/ Rests

(* SelectionChanged: the panel is shown, the focus follows a turn later.   *)
SelectTab(t) ==
  /\ Idle /\ ~popup /\ t # selected /\ PanesOf(t) # {}
  /\ selected' = t
  /\ queued' = queued \cup {"focus"}
  /\ UNCHANGED <<home, shell, active, zoomed, liveVars, overlays, imeVars, lib, frontVars, told, astray>>
  /\ Rests \/ Moves(Elsewhere)

OpenDialog ==
  /\ Idle /\ ~popup
  /\ popup' = TRUE /\ back' = focus
  /\ UNCHANGED <<treeVars, liveVars, search, imeVars, lib, frontVars, told, queued, astray>>
  /\ Moves(Elsewhere)

CloseDialog ==
  /\ popup
  /\ popup' = FALSE /\ back' = Elsewhere
  /\ UNCHANGED <<treeVars, liveVars, search, imeVars, lib, frontVars, told, queued, astray>>
  /\ IF back.pane # Null /\ CanFocus(back.pane) /\ (back.at = "bar" => back.pane \in search)
       THEN Moves(back) ELSE Rests

(* Another window comes forward, or this one. *)
SwitchAway ==
  /\ fg /\ Len(acts) < 2
  /\ fg' = FALSE /\ acts' = Append(acts, FALSE)
  /\ UNCHANGED <<treeVars, liveVars, overlays, xamlVars, imeVars, lib, told, queued, astray>>

SwitchTo ==
  /\ ~fg /\ Len(acts) < 2
  /\ fg' = TRUE /\ acts' = Append(acts, TRUE)
  /\ UNCHANGED <<treeVars, liveVars, overlays, xamlVars, imeVars, lib, told, queued, astray>>

-----------------------------------------------------------------------------
(* What the window does when it is activated or not. *)

Deactivated ==
  /\ acts # <<>> /\ ~Head(acts)
  /\ acts' = Tail(acts)
  /\ Wants(ActivePane, FALSE)
  /\ IF told /\ ~fg THEN told' = FALSE /\ SetFocus(ActivePane, FALSE)
     ELSE UNCHANGED <<told, lib>>
  /\ UNCHANGED <<treeVars, liveVars, search, popup, back, xamlVars, fg, queued, astray>>

Activated ==
  /\ acts # <<>> /\ Head(acts)
  /\ acts' = Tail(acts)
  /\ queued' = queued \cup {"restore"}
  /\ UNCHANGED <<treeVars, liveVars, overlays, xamlVars, imeVars, lib, fg, told, astray>>

(* The low-priority closure of Activated. *)
Skips == ~fg \/ popup

Restore ==
  /\ "restore" \in queued
  /\ queued' = queued \ {"restore"}
  /\ astray' = IF popup THEN astray \cup {"skipped"} ELSE astray
  /\ UNCHANGED <<treeVars, liveVars, overlays, frontVars>>
  /\ \/ Skips /\ UNCHANGED <<xamlVars, imeVars, lib, told>>
     \/ /\ ~Skips /\ ActivePane \in search
        /\ IF CanFocus(ActivePane) THEN Moves(Bar(ActivePane)) ELSE Rests
        /\ UNCHANGED <<imeVars, lib, told>>
     \/ /\ ~Skips /\ ActivePane \notin search
        /\ TakeFocus(ActivePane)
        /\ Wants(ActivePane, TRUE)
        /\ IF told THEN UNCHANGED <<told, lib>> ELSE told' = TRUE /\ SetFocus(ActivePane, TRUE)

(* The closure of SelectionChanged and of the caption. *)
RunFocus ==
  /\ "focus" \in queued
  /\ queued' = queued \ {"focus"}
  /\ UNCHANGED <<treeVars, liveVars, overlays, imeVars, lib, frontVars, told, astray>>
  /\ TakeFocus(ActivePane)

-----------------------------------------------------------------------------
(* Actions of libghostty, each from a closure in the dispatcher's queue.   *)

StartSearch(p) ==
  /\ Idle /\ home[p] # Null
  /\ search' = search \cup {p}
  /\ UNCHANGED <<treeVars, liveVars, popup, back, imeVars, lib, frontVars, told, queued, astray>>
  /\ IF CanFocus(p) THEN Moves(Bar(p)) ELSE Rests

EndSearch(p) ==
  /\ Idle /\ home[p] # Null /\ p \in search
  /\ search' = search \ {p}
  /\ UNCHANGED <<treeVars, liveVars, popup, back, imeVars, lib, frontVars, told, queued, astray>>
  /\ TakeFocus(p)

(* Every change of the tree ends its zoom. *)
Split(p, new) ==
  /\ Idle /\ home[p] # Null /\ ~Attached(new)
  /\ home' = [home EXCEPT ![new] = home[p]]
  /\ zoomed' = [zoomed EXCEPT ![home[p]] = Null]
  /\ Chooses(new)
  /\ engage' = [engage EXCEPT ![new] = FALSE] /\ typed' = typed
  /\ lib' = lib
  /\ UNCHANGED <<shell, selected, liveVars, overlays, frontVars, told, queued>>
  /\ TakeFocus(new)

(* SurfaceHost::Detach: the context is released, engaged or not. *)
Detached(ps) ==
  /\ loaded' = loaded \ ps /\ context' = context \ ps
  /\ search' = search \ ps
  /\ engage' = [p \in Panes |-> p \notin ps /\ engage[p]]
  /\ typed' = IF typed \in ps THEN Null ELSE typed
  /\ lib' = lib \ ps

(* RemovePaneById: the sibling follows a pane that was active.             *)
ClosePane(p) ==
  /\ Idle /\ home[p] # Null /\ PanesOf(home[p]) # {p}
  /\ home' = [home EXCEPT ![p] = Null]
  /\ shell' = [shell EXCEPT ![p] = Null]
  /\ zoomed' = [zoomed EXCEPT ![home[p]] = Null]
  /\ Detached({p, shell[p]} \ {Null})
  /\ UNCHANGED <<selected, popup, back, frontVars, told, queued>>
  /\ \/ active[home[p]] # p /\ UNCHANGED <<active, astray>> /\ Rests
     \/ /\ active[home[p]] = p
        /\ \E q \in PanesOf(home[p]) \ {p} :
             Chooses(q) /\ TakeFocus(q)

GotoSplit(p, q) ==
  /\ Idle /\ p # q /\ home[p] # Null /\ home[q] = home[p]
  /\ UNCHANGED <<home, shell, zoomed, selected, liveVars, overlays, imeVars, lib, frontVars, told, queued>>
  /\ Chooses(q)
  /\ TakeFocus(q)

ToggleSplitZoom(p) ==
  /\ Idle /\ home[p] # Null
  /\ UNCHANGED <<home, shell, selected, liveVars, overlays, imeVars, lib, frontVars, told, queued>>
  /\ \/ /\ zoomed[home[p]] # Null
        /\ zoomed' = [zoomed EXCEPT ![home[p]] = Null]
        /\ UNCHANGED <<active, astray>>
        /\ Rests
     \/ /\ zoomed[home[p]] = Null /\ PanesOf(home[p]) # {p}
        /\ zoomed' = [zoomed EXCEPT ![home[p]] = p]
        /\ Chooses(p)
        /\ TakeFocus(p)

(* NotifyFocusLost on the shell that waits, which XAML tells nothing. *)
ParkedLoses(p, new) ==
  /\ engage' = [engage EXCEPT ![p] = FALSE, ![new] = FALSE]
  /\ typed' = IF typed = p THEN Null ELSE typed
  /\ lib' = lib \ {p}

(* OpenWslInPane: the shell leaves the tree for its in-place session. *)
OpenInPlace(p, new) ==
  /\ Idle /\ home[p] # Null /\ shell[p] = Null /\ ~Attached(new)
  /\ home' = [home EXCEPT ![new] = home[p], ![p] = Null]
  /\ shell' = [shell EXCEPT ![new] = p]
  /\ zoomed' = [zoomed EXCEPT ![home[p]] = Null]
  /\ Chooses(new)
  /\ loaded' = loaded \ {p} /\ context' = context
  /\ ParkedLoses(p, new)
  /\ UNCHANGED <<selected, overlays, frontVars, told, queued>>
  /\ TakeFocus(new)

(* RestoreParkedPane: the session ends and the shell is put back. *)
RestoreParked(p) ==
  /\ Idle /\ shell[p] # Null
  /\ home' = [home EXCEPT ![shell[p]] = home[p], ![p] = Null]
  /\ shell' = [shell EXCEPT ![p] = Null]
  /\ zoomed' = [zoomed EXCEPT ![home[p]] = Null]
  /\ Detached({p})
  /\ UNCHANGED <<selected, popup, back, frontVars, told, queued>>
  /\ IF active[home[p]] = p THEN Chooses(shell[p]) /\ TakeFocus(shell[p])
     ELSE UNCHANGED <<active, astray>> /\ Rests

(* PresentNotification: the tab and the pane of a toast. *)
PresentNotification(p) ==
  /\ Idle /\ home[p] # Null /\ fg
  /\ UNCHANGED <<home, shell, zoomed, liveVars, overlays, imeVars, lib, frontVars, told>>
  /\ selected' = home[p]
  /\ Chooses(p)
  /\ queued' = IF home[p] = selected THEN queued ELSE queued \cup {"focus"}
  /\ TakeFocus(p)

-----------------------------------------------------------------------------
User ==
  \/ \E p \in Panes : Click(p) \/ ClickBar(p)
  \/ \E t \in Strip : SelectTab(t)
  \/ ClickCaption \/ OpenDialog \/ CloseDialog \/ SwitchAway \/ SwitchTo

Action ==
  \/ \E p \in Panes :
       \/ StartSearch(p) \/ EndSearch(p) \/ ClosePane(p) \/ ToggleSplitZoom(p)
       \/ RestoreParked(p) \/ PresentNotification(p)
  \/ \E p, q \in Panes : Split(p, q) \/ GotoSplit(p, q) \/ OpenInPlace(p, q)

Handler ==
  \/ RaiseFocusEvent \/ Deactivated \/ Activated \/ Restore \/ RunFocus
  \/ \E p \in Panes : Load(p)

FocusNext == User \/ Action \/ Handler

FocusSpec == FocusInit /\ [][FocusNext]_focusVars

-----------------------------------------------------------------------------
Elements == {Terminal(p) : p \in Panes} \cup {Bar(p) : p \in Panes} \cup {Elsewhere}

FocusTypeOK ==
  /\ home \in [Panes -> Strip \cup {Null}] /\ shell \in [Panes -> Panes \cup {Null}]
  /\ loaded \subseteq Panes /\ context \subseteq Panes /\ search \subseteq Panes
  /\ selected \in Strip /\ active \in [Strip -> Panes \cup {Null}]
  /\ zoomed \in [Strip -> Panes \cup {Null}]
  /\ popup \in BOOLEAN /\ fg \in BOOLEAN /\ told \in BOOLEAN
  /\ focus \in Elements /\ back \in Elements
  /\ events \in Seq([op : {"got", "lost"}, pane : Panes \cup {Null}]) /\ acts \in Seq(BOOLEAN)
  /\ engage \in [Panes -> BOOLEAN] /\ typed \in Panes \cup {Null}
  /\ lib \subseteq Panes /\ astray \subseteq {"hidden", "skipped"} /\ queued \subseteq {"focus", "restore"}

(* Every event has been raised, every closure has run, and neither of the  *)
(* two lapses the model keeps apart has happened: a pane behind the zoom   *)
(* was made active, or a restore was skipped for a dialog.                 *)
Quiet ==
  /\ events = <<>> /\ acts = <<>> /\ queued = {} /\ astray = {}
  /\ \A p \in Panes : home[p] # Null => p \in loaded

(* In front, the OS types into the terminal that has the focus and into no *)
(* other, and the context of a terminal with the focus has been engaged:   *)
(* OnFocusGained, OnFocusLost, NotifyImeFocusEnter and Leave, NotifyFocus- *)
(* Lost of a parked shell and Detach agree with XAML in any order, so that *)
(* text never goes to a pane behind, or to the shell under a search bar.   *)
InputFollowsFocus ==
  Quiet /\ fg =>
    /\ typed # Null => focus = Terminal(typed)
    /\ focus.at = "terminal" => engage[focus.pane]

(* The pane with the focus is the active pane of the tab that is shown:    *)
(* splits, closes, restored shells that take the focus when they load,     *)
(* zoom and notifications leave NotifySurfaceFocused nothing to disagree   *)
(* with (MainWindow.xaml.h: the active-pane state "follows keyboard        *)
(* focus"); and of the panes shown libghostty holds only that one for      *)
(* focused, whose renderer alone keeps the fast poll (OnFocusGained,       *)
(* OnFocusLost, m_rendererFocus).                                          *)
FocusAgreed ==
  Quiet =>
    /\ focus.pane # Null => ActivePane = focus.pane
    /\ \A p \in lib : home[p] = selected => p = focus.pane
=============================================================================
