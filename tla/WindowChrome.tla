---------------------------- MODULE WindowChrome ----------------------------
(***************************************************************************)
(* What a window looks like: the backdrop, the root and the underlay of    *)
(* every pane under background-opacity and its override, the title bar     *)
(* under window-decoration, fullscreen, and the snapping of resizes to     *)
(* cells.  One config serves all windows and reaches each by a closure of  *)
(* its own, while tabs open, split, are parked and undone, and move        *)
(* between windows with the skin of the one they leave.                    *)
(*                                                                         *)
(* Float on top and the size limit, kept by Win32 alone, are left out; the *)
(* rows of the palette are in Palette and the life of a config in          *)
(* CallbackRouting.  GetMonitorInfo may fail.                              *)
(***************************************************************************)
EXTENDS Naturals

CONSTANTS
  Windows, Tabs, Controls,
  Configs,    \* records: see Fields
  Colours,
  Black,      \* m_bgColor of a window that was never activated
  None,
  MaxReloads, \* bound: hard reloads
  MaxToggles  \* bound: toggles, recolours and cell sizes

Fields == [opacity : {"clear", "solid"}, blur : BOOLEAN, decorated : BOOLEAN,
           step : BOOLEAN, background : Colours]

ASSUME FieldsAssumption == Configs \subseteq Fields
ASSUME NobodyAssumption == None \notin Windows \cup Tabs \cup Colours

VARIABLES
  config,   \* of the App, read by every window
  reports,  \* CONFIG_CHANGE closures: the window, the reload and the clone
  told,     \* history: windows that took part in the last reload or read it since
  latest,   \* history: the config of that reload
  reloads, toggles,
  stage,    \* "none", "new" or "host" (m_suppressInitialTab), "ready" after the first Activated
  opaque,   \* BackgroundOpacity::m_opaque
  override, \* WindowDecorations::m_override
  bg,       \* m_bgColor
  look,     \* the backdrop, the alpha DWM was asked for and the colour of the root
  titleBar, \* AppTitleBar is visible
  full,     \* Fullscreen::m_active
  screen,   \* NativeWindow::m_fullscreen
  cell,     \* CellSize, and the copy of NativeWindow
  subclass, \* NativeWindow::m_subclassed
  home,     \* the window of a tab
  parked,   \* tabs parked for undo
  tab,      \* the tab of a pane, in its tree or behind an in-place session
  underlay  \* the colour of a pane's OpaqueUnderlay, or None

configVars == <<config, reports, told, latest, reloads>>
tagVars    == <<opaque, override>>
skinVars   == <<bg, look, underlay>>
screenVars == <<full, screen>>
cellVars   == <<cell, subclass>>
placeVars  == <<home, parked, tab>>
chromeVars ==
  <<configVars, toggles, stage, tagVars, skinVars, titleBar, screenVars, cellVars, placeVars>>

-----------------------------------------------------------------------------
TabsOf(w) == {t \in Tabs : home[t] = w /\ t \notin parked}

Fresh(t) == home[t] = None

LiveWindows == {w \in Windows : stage[w] = "ready"}

Translucent(c, o) == c.opacity = "clear" /\ ~o

(* BackgroundOpacity::Effective, with the colour where something is painted. *)
Effective(c, o, colour) ==
  [backdrop |-> IF ~Translucent(c, o) THEN "mica" ELSE IF c.blur THEN "acrylic" ELSE "transparent",
   alpha    |-> Translucent(c, o) /\ ~c.blur,
   root     |-> IF Translucent(c, o) THEN None ELSE colour]

Underlay(c, o, colour) == IF c.opacity = "clear" /\ o THEN colour ELSE None

(* WindowDecorations::Effective *)
Decorated(c, o) == IF o = "none" THEN c.decorated ELSE o = "decorated"

NoCell == [known |-> FALSE, on |-> FALSE]

NoLook == [backdrop |-> "none", alpha |-> FALSE, root |-> None]

ChromeInit ==
  /\ config \in Configs /\ latest = config
  /\ reports = {} /\ told = {} /\ reloads = 0 /\ toggles = 0
  /\ stage = [w \in Windows |-> "none"]
  /\ opaque = [w \in Windows |-> FALSE] /\ override = [w \in Windows |-> "none"]
  /\ bg = [w \in Windows |-> Black] /\ look = [w \in Windows |-> NoLook]
  /\ titleBar = [w \in Windows |-> TRUE]
  /\ full = {} /\ screen = {}
  /\ cell = [w \in Windows |-> NoCell] /\ subclass = {}
  /\ home = [t \in Tabs |-> None] /\ parked = {}
  /\ tab = [p \in Controls |-> None] /\ underlay = [p \in Controls |-> None]

-----------------------------------------------------------------------------
(* What is left of the underlays: a pane that is gone has none. *)
Shed == [p \in Controls |-> IF tab'[p] = None THEN None ELSE underlay[p]]

(* ApplyBackgroundOpacityAppearance of w, with the config, the colour and  *)
(* the panes the step leaves: parked tabs sit out.                         *)
Repaint(w) ==
  /\ look' = [look EXCEPT ![w] = Effective(config', opaque'[w], bg'[w])]
  /\ underlay' = [p \in Controls |->
       IF tab'[p] # None /\ tab'[p] \notin parked' /\ home'[tab'[p]] = w
       THEN Underlay(config', opaque'[w], bg'[w]) ELSE Shed[p]]

(* onLeafCreated for one new pane. *)
Dressed(w, p) ==
  underlay' = [underlay EXCEPT ![p] = Underlay(config, opaque[w], bg'[w])]

(* A rule for NativeWindow, and its subclass once there is a handle. *)
SetCellSnap(w, c) ==
  /\ cell' = [cell EXCEPT ![w] = c]
  /\ subclass' = IF c.known /\ stage[w] = "ready" THEN subclass \cup {w} ELSE subclass

-----------------------------------------------------------------------------
(* Windows. CreateNewWindow starts from the state of the window it stands  *)
(* in for, or from nothing; a window that is gone leaves none.             *)
Inherits(w, o, d) ==
  opaque' = [opaque EXCEPT ![w] = o] /\ override' = [override EXCEPT ![w] = d]

Creates(w, o, d) ==
  /\ stage[w] = "none" /\ stage' = [stage EXCEPT ![w] = "new"]
  /\ Inherits(w, o, d)

CreateNewWindow(w) ==
  /\ Creates(w, FALSE, "none")
  /\ UNCHANGED <<configVars, skinVars, toggles, titleBar, screenVars, cellVars, placeVars>>

(* Fault: the rules set before the handle are not installed. *)
BindForgets(w) == subclass' = subclass

(* The config a new window reads is that of the last reload, or an older   *)
(* one whose report came after.                                            *)
ReadBy(w) == IF config = latest THEN told \cup {w} ELSE told

(* NativeWindow::Bind *)
Bind(w) == subclass' = IF cell[w].known /\ cell[w].on THEN subclass \cup {w} ELSE subclass

(* The first Activated: InitGhostty, the first tab unless a tab was moved  *)
(* here, then the title bar.                                               *)
Activated(w) ==
  /\ stage[w] \in {"new", "host"}
  /\ stage' = [stage EXCEPT ![w] = "ready"]
  /\ Bind(w)
  /\ bg' = [bg EXCEPT ![w] = config.background]
  /\ told' = IF stage[w] = "host" THEN told ELSE ReadBy(w)
  /\ IF stage[w] = "host" THEN UNCHANGED <<home, tab>>
     ELSE \E t \in Tabs, p \in Controls :
            /\ Fresh(t) /\ tab[p] = None
            /\ home' = [home EXCEPT ![t] = w] /\ tab' = [tab EXCEPT ![p] = t]
  /\ titleBar' = [titleBar EXCEPT ![w] = Decorated(config, override[w])]
  /\ UNCHANGED <<config, reports, latest, reloads, tagVars, toggles, screenVars, cell, parked>>
  /\ Repaint(w)

(* The destructor; the closures that are queued for the window will find   *)
(* it gone.                                                                *)
CloseWindow(w) ==
  /\ stage[w] = "ready"
  /\ stage' = [stage EXCEPT ![w] = "none"]
  /\ reports' = {r \in reports : r.w # w}
  /\ told' = told \ {w}
  /\ home' = [t \in Tabs |-> IF home[t] = w THEN None ELSE home[t]]
  /\ parked' = {t \in parked : home[t] # w}
  /\ tab' = [p \in Controls |-> IF tab[p] # None /\ home[tab[p]] = w THEN None ELSE tab[p]]
  /\ Inherits(w, FALSE, "none")
  /\ bg' = [bg EXCEPT ![w] = Black] /\ look' = [look EXCEPT ![w] = NoLook] /\ underlay' = Shed
  /\ titleBar' = [titleBar EXCEPT ![w] = TRUE]
  /\ full' = full \ {w} /\ screen' = screen \ {w}
  /\ cell' = [cell EXCEPT ![w] = NoCell] /\ subclass' = subclass \ {w}
  /\ UNCHANGED <<config, latest, reloads, toggles>>

-----------------------------------------------------------------------------
(* Tabs and panes. *)

(* CreateTabWithCommand: without a strip a second tab becomes a window. *)
NewTab(w) ==
  /\ stage[w] = "ready"
  /\ \/ /\ TabsOf(w) # {} /\ ~Decorated(config, override[w])
        /\ \E v \in Windows : Creates(v, opaque[w], override[w])
        /\ UNCHANGED <<configVars, skinVars, toggles, titleBar, screenVars, cellVars, placeVars>>
     \/ /\ TabsOf(w) = {} \/ Decorated(config, override[w])
        /\ UNCHANGED <<configVars, stage, tagVars, bg, look, toggles, titleBar, screenVars, cellVars, parked>>
        /\ \E t \in Tabs, p \in Controls :
             /\ Fresh(t) /\ tab[p] = None
             /\ home' = [home EXCEPT ![t] = w] /\ tab' = [tab EXCEPT ![p] = t]
             /\ Dressed(w, p)

Split(w) ==
  /\ stage[w] = "ready"
  /\ UNCHANGED <<configVars, stage, tagVars, bg, look, toggles, titleBar, screenVars, cellVars, home, parked>>
  /\ \E t \in TabsOf(w), p \in Controls :
       tab[p] = None /\ tab' = [tab EXCEPT ![p] = t] /\ Dressed(w, p)

(* OpenWslInPane: as a split, the shell is kept, and everything repainted. *)
WslInPane(w) ==
  /\ stage[w] = "ready"
  /\ UNCHANGED <<configVars, stage, tagVars, bg, toggles, titleBar, screenVars, cellVars, home, parked>>
  /\ \E t \in TabsOf(w), p \in Controls : tab[p] = None /\ tab' = [tab EXCEPT ![p] = t]
  /\ Repaint(w)

ControlsOf(t) == {p \in Controls : tab[p] = t}

(* A pane of several closes, or an in-place session does (RestoreParkedPane). *)
RemoveControl(w) ==
  /\ stage[w] = "ready"
  /\ UNCHANGED <<configVars, stage, tagVars, bg, toggles, titleBar, screenVars, cellVars, home, parked>>
  /\ \E t \in TabsOf(w) : \E p \in ControlsOf(t) :
       ControlsOf(t) # {p} /\ tab' = [tab EXCEPT ![p] = None]
  /\ (look' = look /\ underlay' = Shed) \/ Repaint(w)

ParkTab(w) ==
  /\ stage[w] = "ready"
  /\ \E t \in TabsOf(w) : TabsOf(w) # {t} /\ parked' = parked \cup {t}
  /\ UNCHANGED <<configVars, stage, tagVars, skinVars, toggles, titleBar, screenVars, cellVars, home, tab>>

(* A tab is torn down: at once, or when its timer ends. *)
EndTab(t) ==
  /\ home[t] # None
  /\ home' = [home EXCEPT ![t] = None] /\ parked' = parked \ {t}
  /\ tab' = [p \in Controls |-> IF tab[p] = t THEN None ELSE tab[p]]
  /\ underlay' = Shed
  /\ UNCHANGED <<configVars, stage, tagVars, bg, look, toggles, titleBar, screenVars, cellVars>>

(* Fault: an undone tab keeps the skin it was parked with. *)
RestatesNot(w) == UNCHANGED <<look, underlay>>

Restates(w) == Repaint(w)

Undo(t) ==
  /\ t \in parked /\ parked' = parked \ {t}
  /\ UNCHANGED <<configVars, stage, tagVars, bg, toggles, titleBar, screenVars, cellVars, home, tab>>
  /\ Restates(home[t])

(* AdoptTornOutTab, into another window or a host made for the tab, and    *)
(* the cells its surface already knows.                                    *)
Adopt(t, v) ==
  /\ home' = [home EXCEPT ![t] = v]
  /\ UNCHANGED <<parked, tab, config, reports, latest, reloads, toggles>>
  /\ Repaint(v)

MoveTab(w, v) ==
  /\ stage[w] = "ready" /\ stage[v] = "ready" /\ w # v
  /\ UNCHANGED <<stage, tagVars, bg, titleBar, screenVars, told>>
  /\ \E t \in TabsOf(w) : Adopt(t, v)
  /\ IF cell[w].known THEN SetCellSnap(v, [known |-> TRUE, on |-> config.step])
     ELSE UNCHANGED cellVars

(* The host is shown and adopts, and its first Activated comes later: a    *)
(* reload in between does not reach it.                                    *)
TearOut(w, v) ==
  /\ stage[w] = "ready" /\ stage[v] = "none"
  /\ stage' = [stage EXCEPT ![v] = "host"]
  /\ Inherits(v, opaque[w], override[w])
  /\ told' = ReadBy(v)
  /\ IF cell[w].known THEN SetCellSnap(v, [known |-> TRUE, on |-> config.step])
     ELSE UNCHANGED cellVars
  /\ UNCHANGED <<bg, titleBar, screenVars>>
  /\ \E t \in TabsOf(w) : Adopt(t, v)

-----------------------------------------------------------------------------
(* Actions of libghostty for one window. *)

(* A toggle counts towards its bound, unless it only takes one back. *)
Toggles(counted) ==
  IF counted THEN toggles < MaxToggles /\ toggles' = toggles + 1 ELSE UNCHANGED toggles

ToggleBackgroundOpacity(w) ==
  /\ stage[w] = "ready" /\ Toggles(~opaque[w])
  /\ config.opacity = "clear" /\ w \notin full
  /\ opaque' = [opaque EXCEPT ![w] = ~@]
  /\ UNCHANGED <<configVars, stage, override, bg, titleBar, screenVars, cellVars, placeVars>>
  /\ Repaint(w)

ApplyBackgroundColor(w) ==
  /\ stage[w] = "ready" /\ Toggles(TRUE)
  /\ \E c \in Colours : bg' = [bg EXCEPT ![w] = c]
  /\ UNCHANGED <<configVars, stage, tagVars, titleBar, screenVars, cellVars, placeVars>>
  /\ Repaint(w)

(* WindowDecorations::Toggle *)
Toggled(w) ==
  IF override[w] # "none" THEN "none" ELSE IF config.decorated THEN "bare" ELSE "decorated"

ToggleWindowDecorations(w) ==
  /\ stage[w] = "ready" /\ Toggles(override[w] = "none")
  /\ override' = [override EXCEPT ![w] = Toggled(w)]
  /\ titleBar' = [titleBar EXCEPT ![w] = Decorated(config, Toggled(w))]
  /\ UNCHANGED <<configVars, stage, opaque, skinVars, screenVars, cellVars, placeVars>>

ToggleFullscreen(w) ==
  /\ stage[w] = "ready" /\ Toggles(w \notin full)
  /\ \/ w \in full /\ full' = full \ {w} /\ screen' = screen \ {w}
     \/ w \notin full /\ full' = full \cup {w} /\ screen' \in {screen, screen \cup {w}}
  /\ UNCHANGED <<configVars, stage, tagVars, skinVars, titleBar, cellVars, placeVars>>

(* CELL_SIZE, for a surface of a tab in the strip. *)
ApplyCellSizeForSurface(w) ==
  /\ stage[w] = "ready" /\ TabsOf(w) # {} /\ Toggles(~cell[w].known)
  /\ SetCellSnap(w, [known |-> TRUE, on |-> config.step])
  /\ UNCHANGED <<configVars, stage, tagVars, skinVars, titleBar, screenVars, placeVars>>

(* The closure of a hard reload: libghostty reports to the windows that    *)
(* have a surface and to some window for the app, in any order, and the    *)
(* App has the new config at once.                                         *)
HardReload ==
  /\ reloads < MaxReloads /\ reloads' = reloads + 1
  /\ \E c \in Configs, app \in LiveWindows :
       /\ config' = c /\ latest' = c
       /\ told' = {app} \cup {w \in LiveWindows : TabsOf(w) # {}}
       /\ reports' = reports \cup {[w |-> w, reload |-> reloads', config |-> c] : w \in told'}
  /\ UNCHANGED <<stage, tagVars, skinVars, toggles, titleBar, screenVars, cellVars, placeVars>>

(* MainWindow::ReplaceConfig. The clone of an earlier reload may take the   *)
(* place of the config of a later one: a window that has no report to come *)
(* may now read it and keep it.                                            *)
ReplaceConfig(r) ==
  /\ \A other \in reports : r.reload <= other.reload
  /\ config' = r.config
  /\ reports' = reports \ {r}
  /\ SetCellSnap(r.w, [cell[r.w] EXCEPT !.on = config'.step])
  /\ told' = IF config' = latest THEN told ELSE told \cap {other.w : other \in reports'}
  /\ UNCHANGED <<latest, reloads, stage, tagVars, bg, toggles, titleBar, screenVars, placeVars>>
  /\ Repaint(r.w)

ChromeNext ==
  \/ \E w \in Windows :
       \/ CreateNewWindow(w) \/ Activated(w) \/ CloseWindow(w)
       \/ NewTab(w) \/ Split(w) \/ WslInPane(w) \/ RemoveControl(w) \/ ParkTab(w)
       \/ ToggleBackgroundOpacity(w) \/ ApplyBackgroundColor(w) \/ ToggleWindowDecorations(w)
       \/ ToggleFullscreen(w) \/ ApplyCellSizeForSurface(w)
       \/ \E v \in Windows : MoveTab(w, v) \/ TearOut(w, v)
  \/ \E t \in Tabs : EndTab(t) \/ Undo(t)
  \/ HardReload
  \/ \E r \in reports : ReplaceConfig(r)

ChromeSpec == ChromeInit /\ [][ChromeNext]_chromeVars

-----------------------------------------------------------------------------
(* Colours that may be worn, None for nothing painted. *)
Paints == Colours \cup {Black, None}

Looks ==
  [backdrop : {"none", "mica", "acrylic", "transparent"}, alpha : BOOLEAN, root : Paints]

(* The values of the variables. *)
ChromeTypeOK ==
  /\ config \in Configs /\ latest \in Configs
  /\ reports \subseteq [w : Windows, reload : Nat, config : Configs]
  /\ told \subseteq Windows /\ reloads \in Nat /\ toggles \in Nat
  /\ stage \in [Windows -> {"none", "new", "host", "ready"}]
  /\ opaque \in [Windows -> BOOLEAN]
  /\ override \in [Windows -> {"none", "bare", "decorated"}]
  /\ bg \in [Windows -> Paints] /\ underlay \in [Controls -> Paints]
  /\ look \in [Windows -> Looks]
  /\ titleBar \in [Windows -> BOOLEAN] /\ full \subseteq Windows /\ screen \subseteq Windows
  /\ cell \in [Windows -> [known : BOOLEAN, on : BOOLEAN]] /\ subclass \subseteq Windows
  /\ home \in [Tabs -> Windows \cup {None}] /\ parked \subseteq Tabs
  /\ tab \in [Controls -> Tabs \cup {None}]

(* The last reload has reached w, and no closure for it is left. *)
Settled(w) ==
  stage[w] = "ready" /\ w \in told /\ \A r \in reports : r.w # w

(* A window that has heard of the last reload wears what the config, its   *)
(* own override and its own colour ask for, in its backdrop, in DWM, in    *)
(* its root and in every pane of its strip, wherever the pane was when     *)
(* they changed: in another window, parked, or not yet made                *)
(* (ApplyBackgroundOpacityAppearance and onLeafCreated, MainWindow).       *)
WearsItsMode ==
  \A w \in Windows : Settled(w) =>
    /\ look[w] = Effective(latest, opaque[w], bg[w])
    /\ \A p \in Controls : tab[p] # None /\ tab[p] \in TabsOf(w) =>
         underlay[p] = Underlay(latest, opaque[w], bg[w])

(* Once it knows its cells, a window snaps exactly when the config says,   *)
(* though CELL_SIZE does not come again: not for a reload, not for a tab   *)
(* that was moved, not for a host that adopts before it has its handle;    *)
(* and Win32 shows fullscreen only while the tag has it (NativeWindow,     *)
(* CellSize, Fullscreen).                                                  *)
SnapsAsConfigured ==
  \A w \in Windows : Settled(w) =>
    /\ cell[w].known => cell[w].on = latest.step
    /\ cell[w].known /\ cell[w].on => w \in subclass
    /\ w \in screen => w \in full
=============================================================================
