------------------------- MODULE WindowChromeProofs -------------------------
(***************************************************************************)
(* What WindowChrome guarantees for any windows, tabs and panes, and any   *)
(* number of reloads and toggles.                                          *)
(***************************************************************************)
EXTENDS WindowChrome, TLAPS

(* What w wears and how it snaps is what the App's config asks for.        *)
Wears(w) ==
  /\ look[w] = Effective(config, opaque[w], bg[w])
  /\ \A p \in Controls : tab[p] # None /\ tab[p] \in TabsOf(w) =>
       underlay[p] = Underlay(config, opaque[w], bg[w])

Snaps(w) == cell[w].known => cell[w].on = config.step

Fits(w) == Wears(w) /\ Snaps(w)

Awaited(w) == \E r \in reports : r.w = w

-----------------------------------------------------------------------------
(* The inductive invariant. *)

(* A tab without a window is not parked and has no pane. *)
Housed ==
  /\ \A t \in parked : home[t] # None
  /\ \A p \in Controls : tab[p] # None => home[tab[p]] # None

(* A window that is not there yet has heard of nothing and knows no cells. *)
Unborn == \A w \in Windows : stage[w] \in {"none", "new"} => w \notin told /\ ~cell[w].known

(* A report goes to a window that is there; those of the last reload carry *)
(* its config; and a window that has heard of it and waits for a report    *)
(* waits for one of these, whatever older ones come first.                 *)
Reported ==
  /\ \A r \in reports :
       /\ stage[r.w] = "ready" /\ r.reload <= reloads
       /\ r.reload = reloads => r.config = latest
  /\ \A w \in told : Awaited(w) => \E r \in reports : r.w = w /\ r.reload = reloads

(* A window that has heard of the last reload and waits for nothing fits   *)
(* the config, which is then that of the reload.                           *)
Heard == \A w \in told : ~Awaited(w) => config = latest /\ Fits(w)

(* A window that is to snap has its subclass as soon as it has a handle.   *)
Hooked ==
  \A w \in Windows : stage[w] = "ready" /\ cell[w].known /\ cell[w].on => w \in subclass

ChromeInv ==
  ChromeTypeOK /\ Housed /\ Unborn /\ Reported /\ Heard /\ Hooked /\ screen \subseteq full

-----------------------------------------------------------------------------
(* The skin. *)

(* What Effective and Underlay can return. *)
LEMMA EffectiveType ==
  ASSUME NEW c \in Configs, NEW o \in BOOLEAN, NEW colour \in Paints
  PROVE  /\ Effective(c, o, colour) \in
              Looks
         /\ Underlay(c, o, colour) \in Paints
BY FieldsAssumption DEF Effective, Underlay, Translucent, Fields, Paints, Looks

(* A repaint keeps the types. *)
LEMMA RepaintType ==
  ASSUME ChromeTypeOK, NEW w \in Windows, Repaint(w), config' \in Configs,
         opaque' \in [Windows -> BOOLEAN], bg' \in [Windows -> Paints]
  PROVE  /\ look' \in [Windows -> Looks]
         /\ underlay' \in [Controls -> Paints]
<1>1. /\ Effective(config', opaque'[w], bg'[w]) \in
             Looks
      /\ Underlay(config', opaque'[w], bg'[w]) \in Paints
  BY EffectiveType
<1>2. \A p \in Controls : underlay[p] \in Paints /\ None \in Paints
  BY DEF ChromeTypeOK, Paints
<1>3. \A p \in Controls : Shed[p] \in Paints
  BY <1>2 DEF Shed
<1>4. QED
  BY <1>1, <1>3 DEF Repaint, ChromeTypeOK

(* The window that is repainted wears what the step leaves. *)
LEMMA RepaintWears ==
  ASSUME ChromeTypeOK, NEW w \in Windows, Repaint(w),
         tab' \in [Controls -> Tabs \cup {None}]
  PROVE  Wears(w)'
BY DEF Repaint, Wears, TabsOf, ChromeTypeOK

(* The others keep what they wear: their tabs, if any are left, were theirs *)
(* before.                                                                  *)
LEMMA RepaintSpares ==
  ASSUME ChromeTypeOK, NEW w \in Windows, Repaint(w),
         tab' \in [Controls -> Tabs \cup {None}],
         NEW u \in Windows \ {w}, Wears(u), config' = config,
         opaque'[u] = opaque[u], bg'[u] = bg[u],
         \A p \in Controls : tab'[p] # None /\ tab'[p] \in TabsOf(u)' =>
           tab[p] # None /\ tab[p] \in TabsOf(u)
  PROVE  Wears(u)'
<1>1. look'[u] = look[u]
  BY DEF Repaint, ChromeTypeOK
<1>2. ASSUME NEW p \in Controls, tab'[p] # None, tab'[p] \in TabsOf(u)'
      PROVE  underlay'[p] = underlay[p]
  BY <1>2 DEF Repaint, TabsOf, Shed
<1>3. QED
  BY <1>1, <1>2 DEF Wears

-----------------------------------------------------------------------------
(* Types. *)

(* The initial values. *)
LEMMA InitType == ChromeInit => ChromeTypeOK
BY DEF ChromeInit, ChromeTypeOK, NoLook, NoCell, Paints, Looks

(* A new rule for NativeWindow. *)
LEMMA SnapType ==
  ASSUME ChromeTypeOK, NEW w \in Windows, NEW c \in [known : BOOLEAN, on : BOOLEAN],
         SetCellSnap(w, c)
  PROVE  cell' \in [Windows -> [known : BOOLEAN, on : BOOLEAN]] /\ subclass' \subseteq Windows
BY DEF ChromeTypeOK, SetCellSnap

(* Windows that come and go. *)
LEMMA WindowTypes ==
  ASSUME ChromeTypeOK, NEW w \in Windows
  PROVE  /\ CreateNewWindow(w) => ChromeTypeOK'
         /\ Activated(w) => ChromeTypeOK'
         /\ CloseWindow(w) => ChromeTypeOK'
<1>1. CreateNewWindow(w) => ChromeTypeOK'
  BY DEF CreateNewWindow, Creates, Inherits, ChromeTypeOK, configVars, skinVars,
         screenVars, cellVars, placeVars
<1>2. ASSUME Activated(w) PROVE ChromeTypeOK'
  <2>2. bg' \in [Windows -> Paints]
    BY <1>2, FieldsAssumption DEF Activated, ChromeTypeOK, Fields, Paints
  <2>3. Decorated(config, override[w]) \in BOOLEAN
    BY FieldsAssumption DEF ChromeTypeOK, Fields, Decorated
  <2>4. /\ home' \in [Tabs -> Windows \cup {None}]
        /\ tab' \in [Controls -> Tabs \cup {None}]
    BY <1>2 DEF Activated, ChromeTypeOK
  <2>5. /\ UNCHANGED <<config, reports, latest, reloads, tagVars, toggles, screenVars, cell, parked>>
        /\ stage' = [stage EXCEPT ![w] = "ready"] /\ Repaint(w) /\ Bind(w)
        /\ titleBar' = [titleBar EXCEPT ![w] = Decorated(config, override[w])]
        /\ told' \in {told, ReadBy(w)}
    BY <1>2 DEF Activated
  <2>6. /\ look' \in [Windows -> Looks]
        /\ underlay' \in [Controls -> Paints]
    BY <2>2, <2>5, RepaintType DEF ChromeTypeOK, tagVars
  <2>7. subclass' \subseteq Windows /\ told' \subseteq Windows
    BY <2>5 DEF ChromeTypeOK, Bind, ReadBy
  <2>8. QED
    BY <2>2, <2>3, <2>4, <2>5, <2>6, <2>7 DEF ChromeTypeOK, tagVars, screenVars
<1>3. ASSUME CloseWindow(w) PROVE ChromeTypeOK'
  <2>1. Black \in Paints /\ None \in Paints /\ NoCell \in [known : BOOLEAN, on : BOOLEAN]
        /\ NoLook \in Looks
    BY DEF Paints, NoCell, NoLook, Looks
  <2>2. underlay' \in [Controls -> Paints]
    BY <1>3, <2>1 DEF CloseWindow, Shed, ChromeTypeOK
  <2>3. /\ bg' \in [Windows -> Paints]
        /\ look' \in [Windows -> Looks]
        /\ cell' \in [Windows -> [known : BOOLEAN, on : BOOLEAN]]
    BY <1>3, <2>1 DEF CloseWindow, ChromeTypeOK
  <2>4. /\ stage' \in [Windows -> {"none", "new", "host", "ready"}]
        /\ opaque' \in [Windows -> BOOLEAN] /\ titleBar' \in [Windows -> BOOLEAN]
        /\ override' \in [Windows -> {"none", "bare", "decorated"}]
        /\ home' \in [Tabs -> Windows \cup {None}] /\ parked' \subseteq Tabs
        /\ tab' \in [Controls -> Tabs \cup {None}]
    BY <1>3 DEF CloseWindow, ChromeTypeOK, Inherits
  <2>5. QED
    BY <1>3, <2>2, <2>3, <2>4 DEF CloseWindow, ChromeTypeOK
<1>4. QED
  BY <1>1, <1>2, <1>3

(* Tabs and panes that come, go and move. *)
LEMMA TabTypes ==
  ASSUME ChromeTypeOK, NEW w \in Windows
  PROVE  /\ NewTab(w) => ChromeTypeOK'
         /\ Split(w) => ChromeTypeOK'
         /\ WslInPane(w) => ChromeTypeOK'
         /\ RemoveControl(w) => ChromeTypeOK'
         /\ ParkTab(w) => ChromeTypeOK'
<1> USE DEF tagVars, screenVars, cellVars, configVars, skinVars, placeVars
<1>1. \A p \in Controls : UNCHANGED bg /\ Dressed(w, p) => underlay' \in [Controls -> Paints]
  BY EffectiveType DEF Dressed, ChromeTypeOK
<1>2. ASSUME NewTab(w) PROVE ChromeTypeOK'
  <2>1. CASE \E v \in Windows : Creates(v, opaque[w], override[w]) /\ UNCHANGED
          <<configVars, skinVars, toggles, titleBar, screenVars, cellVars, placeVars>>
    BY <2>1 DEF Creates, Inherits, ChromeTypeOK
  <2>2. CASE \E t \in Tabs, p \in Controls :
          /\ UNCHANGED <<configVars, stage, tagVars, bg, look, toggles, titleBar, screenVars,
                         cellVars, parked>>
          /\ home' = [home EXCEPT ![t] = w] /\ tab' = [tab EXCEPT ![p] = t]
          /\ Dressed(w, p)
    BY <2>2, <1>1 DEF ChromeTypeOK
  <2>3. QED
    BY <1>2, <2>1, <2>2 DEF NewTab
<1>3. ASSUME Split(w) PROVE ChromeTypeOK'
  <2>1. underlay' \in [Controls -> Paints]
    BY <1>3, <1>1 DEF Split
  <2>2. tab' \in [Controls -> Tabs \cup {None}]
    BY <1>3 DEF Split, TabsOf, ChromeTypeOK
  <2>3. QED
    BY <1>3, <2>1, <2>2 DEF Split, ChromeTypeOK
<1>4. ASSUME WslInPane(w) PROVE ChromeTypeOK'
  <2>1. tab' \in [Controls -> Tabs \cup {None}]
    BY <1>4 DEF WslInPane, TabsOf, ChromeTypeOK
  <2>2. look' \in [Windows -> Looks] /\ underlay' \in [Controls -> Paints]
    BY <1>4, RepaintType DEF WslInPane, ChromeTypeOK
  <2>3. QED
    BY <1>4, <2>1, <2>2 DEF WslInPane, ChromeTypeOK
<1>5. ASSUME RemoveControl(w) PROVE ChromeTypeOK'
  <2>1. tab' \in [Controls -> Tabs \cup {None}]
    BY <1>5 DEF RemoveControl, TabsOf, ChromeTypeOK
  <2>2. underlay' = Shed => underlay' \in [Controls -> Paints]
    BY DEF Shed, ChromeTypeOK, Paints
  <2>3. look' \in [Windows -> Looks] /\ underlay' \in [Controls -> Paints]
    BY <1>5, <2>2, RepaintType DEF RemoveControl, ChromeTypeOK
  <2>4. QED
    BY <1>5, <2>1, <2>3 DEF RemoveControl, ChromeTypeOK
<1>6. ParkTab(w) => ChromeTypeOK'
  BY DEF ParkTab, TabsOf, ChromeTypeOK
<1>7. QED
  BY <1>2, <1>3, <1>4, <1>5, <1>6

(* The end of a tab, an undo and the two moves. *)
LEMMA MoveTypes ==
  ASSUME ChromeTypeOK, Housed
  PROVE  /\ \A t \in Tabs : EndTab(t) => ChromeTypeOK'
         /\ \A t \in Tabs : Undo(t) => ChromeTypeOK'
         /\ \A w, v \in Windows : MoveTab(w, v) => ChromeTypeOK'
         /\ \A w, v \in Windows : TearOut(w, v) => ChromeTypeOK'
<1> USE DEF tagVars, screenVars, cellVars, configVars, skinVars, placeVars
<1>1. ASSUME NEW t \in Tabs, EndTab(t) PROVE ChromeTypeOK'
  <2>1. underlay' \in [Controls -> Paints]
    BY <1>1 DEF EndTab, Shed, ChromeTypeOK, Paints
  <2>2. QED
    BY <1>1, <2>1 DEF EndTab, ChromeTypeOK
<1>2. ASSUME NEW t \in Tabs, Undo(t) PROVE ChromeTypeOK'
  <2>1. home[t] \in Windows
    BY <1>2 DEF Undo, Housed, ChromeTypeOK
  <2>2. look' \in [Windows -> Looks] /\ underlay' \in [Controls -> Paints]
    BY <1>2, <2>1, RepaintType DEF Undo, Restates, ChromeTypeOK
  <2>3. QED
    BY <1>2, <2>2 DEF Undo, ChromeTypeOK
<1>3. ASSUME NEW t \in Tabs, NEW v \in Windows, Adopt(t, v),
             opaque' \in [Windows -> BOOLEAN], UNCHANGED bg
      PROVE  /\ look' \in [Windows -> Looks] /\ underlay' \in [Controls -> Paints]
             /\ home' \in [Tabs -> Windows \cup {None}]
             /\ UNCHANGED <<parked, tab, config, reports, latest, reloads, toggles>>
  BY <1>3, RepaintType DEF Adopt, ChromeTypeOK
<1>4. \A w, v \in Windows :
        (IF cell[w].known THEN SetCellSnap(v, [known |-> TRUE, on |-> config.step])
         ELSE UNCHANGED cellVars)
        => /\ cell' \in [Windows -> [known : BOOLEAN, on : BOOLEAN]]
           /\ subclass' \subseteq Windows
  BY SnapType, FieldsAssumption DEF Fields, ChromeTypeOK
<1>5. ASSUME NEW w \in Windows, NEW v \in Windows, MoveTab(w, v) PROVE ChromeTypeOK'
  <2>1. PICK t \in TabsOf(w) : Adopt(t, v)
    BY <1>5 DEF MoveTab
  <2>2. t \in Tabs /\ UNCHANGED <<stage, tagVars, bg, titleBar, screenVars, told>>
    BY <1>5 DEF MoveTab, TabsOf
  <2>3. /\ cell' \in [Windows -> [known : BOOLEAN, on : BOOLEAN]]
        /\ subclass' \subseteq Windows
    BY <1>4, <1>5 DEF MoveTab
  <2>4. QED
    BY <1>3, <2>1, <2>2, <2>3 DEF ChromeTypeOK
<1>6. ASSUME NEW w \in Windows, NEW v \in Windows, TearOut(w, v) PROVE ChromeTypeOK'
  <2>1. PICK t \in TabsOf(w) : Adopt(t, v)
    BY <1>6 DEF TearOut
  <2>2. /\ t \in Tabs /\ UNCHANGED <<bg, titleBar, screenVars>>
        /\ opaque' \in [Windows -> BOOLEAN]
        /\ override' \in [Windows -> {"none", "bare", "decorated"}]
        /\ stage' \in [Windows -> {"none", "new", "host", "ready"}]
        /\ told' \subseteq Windows
    BY <1>6 DEF TearOut, TabsOf, Inherits, ReadBy, ChromeTypeOK
  <2>3. /\ cell' \in [Windows -> [known : BOOLEAN, on : BOOLEAN]]
        /\ subclass' \subseteq Windows
    BY <1>4, <1>6 DEF TearOut
  <2>4. QED
    BY <1>3, <2>1, <2>2, <2>3 DEF ChromeTypeOK
<1>7. QED
  BY <1>1, <1>2, <1>5, <1>6

(* The actions of libghostty. *)
LEMMA ActionTypes ==
  ASSUME ChromeTypeOK, NEW w \in Windows
  PROVE  /\ ToggleBackgroundOpacity(w) => ChromeTypeOK'
         /\ ApplyBackgroundColor(w) => ChromeTypeOK'
         /\ ToggleWindowDecorations(w) => ChromeTypeOK'
         /\ ToggleFullscreen(w) => ChromeTypeOK'
         /\ ApplyCellSizeForSurface(w) => ChromeTypeOK'
<1> USE DEF tagVars, screenVars, cellVars, configVars, skinVars, placeVars
<1>1. \A b \in BOOLEAN : Toggles(b) => toggles' \in Nat
  BY DEF Toggles, ChromeTypeOK
<1>2. ASSUME ToggleBackgroundOpacity(w) PROVE ChromeTypeOK'
  <2>1. opaque' \in [Windows -> BOOLEAN] /\ toggles' \in Nat
    BY <1>1, <1>2 DEF ToggleBackgroundOpacity, ChromeTypeOK
  <2>2. look' \in [Windows -> Looks] /\ underlay' \in [Controls -> Paints]
    BY <1>2, <2>1, RepaintType DEF ToggleBackgroundOpacity, ChromeTypeOK
  <2>3. QED
    BY <1>2, <2>1, <2>2 DEF ToggleBackgroundOpacity, ChromeTypeOK
<1>3. ASSUME ApplyBackgroundColor(w) PROVE ChromeTypeOK'
  <2>1. bg' \in [Windows -> Paints] /\ toggles' \in Nat
    <3>1. toggles' \in Nat
      BY <1>1, <1>3 DEF ApplyBackgroundColor
    <3>2. PICK c \in Colours : bg' = [bg EXCEPT ![w] = c]
      BY <1>3 DEF ApplyBackgroundColor
    <3>3. c \in Paints
      BY DEF Paints
    <3>4. QED
      BY <3>1, <3>2, <3>3 DEF ChromeTypeOK
  <2>2. look' \in [Windows -> Looks] /\ underlay' \in [Controls -> Paints]
    BY <1>3, <2>1, RepaintType DEF ApplyBackgroundColor, ChromeTypeOK
  <2>3. QED
    BY <1>3, <2>1, <2>2 DEF ApplyBackgroundColor, ChromeTypeOK
<1>4. ASSUME ToggleWindowDecorations(w) PROVE ChromeTypeOK'
  <2>1. Toggled(w) \in {"none", "bare", "decorated"}
    BY DEF Toggled
  <2>2. Decorated(config, Toggled(w)) \in BOOLEAN
    BY FieldsAssumption DEF Decorated, Fields, ChromeTypeOK
  <2>3. toggles' \in Nat
    BY <1>1, <1>4 DEF ToggleWindowDecorations
  <2>4. QED
    BY <1>4, <2>1, <2>2, <2>3 DEF ToggleWindowDecorations, ChromeTypeOK
<1>5. ASSUME ToggleFullscreen(w) PROVE ChromeTypeOK'
  <2>1. toggles' \in Nat
    BY <1>1, <1>5 DEF ToggleFullscreen
  <2>2. QED
    BY <1>5, <2>1 DEF ToggleFullscreen, ChromeTypeOK
<1>6. ASSUME ApplyCellSizeForSurface(w) PROVE ChromeTypeOK'
  <2>1. toggles' \in Nat
    BY <1>1, <1>6 DEF ApplyCellSizeForSurface
  <2>2. /\ cell' \in [Windows -> [known : BOOLEAN, on : BOOLEAN]]
        /\ subclass' \subseteq Windows
    BY <1>6, SnapType, FieldsAssumption DEF ApplyCellSizeForSurface, Fields, ChromeTypeOK
  <2>3. QED
    BY <1>6, <2>1, <2>2 DEF ApplyCellSizeForSurface, ChromeTypeOK
<1>7. QED
  BY <1>2, <1>3, <1>4, <1>5, <1>6

(* A reload and its reports. *)
LEMMA ReloadTypes ==
  ASSUME ChromeTypeOK
  PROVE  /\ HardReload => ChromeTypeOK'
         /\ \A r \in reports : ReplaceConfig(r) => ChromeTypeOK'
<1> USE DEF tagVars, screenVars, cellVars, configVars, skinVars, placeVars
<1>1. ASSUME HardReload PROVE ChromeTypeOK'
  <2>1. PICK c \in Configs :
          /\ config' = c /\ latest' = c /\ told' \subseteq Windows
          /\ reports' = reports \cup {[w |-> w, reload |-> reloads', config |-> c] : w \in told'}
    BY <1>1 DEF HardReload, LiveWindows
  <2>2. reloads' \in Nat
    BY <1>1 DEF HardReload, ChromeTypeOK
  <2>3. reports' \subseteq [w : Windows, reload : Nat, config : Configs]
    BY <2>1, <2>2 DEF ChromeTypeOK
  <2>4. QED
    BY <1>1, <2>1, <2>2, <2>3 DEF HardReload, ChromeTypeOK
<1>2. ASSUME NEW r \in reports, ReplaceConfig(r) PROVE ChromeTypeOK'
  <2>1. r.w \in Windows /\ r.config \in Configs
    BY DEF ChromeTypeOK
  <2>2. config' \in Configs /\ told' \subseteq Windows
    BY <1>2, <2>1 DEF ReplaceConfig, ChromeTypeOK
  <2>3. [cell[r.w] EXCEPT !.on = config'.step] \in [known : BOOLEAN, on : BOOLEAN]
    BY <2>1, <2>2, FieldsAssumption DEF Fields, ChromeTypeOK
  <2>4. /\ cell' \in [Windows -> [known : BOOLEAN, on : BOOLEAN]]
        /\ subclass' \subseteq Windows
    BY <1>2, <2>1, <2>3, SnapType DEF ReplaceConfig
  <2>5. look' \in [Windows -> Looks] /\ underlay' \in [Controls -> Paints]
    BY <1>2, <2>1, <2>2, RepaintType DEF ReplaceConfig, ChromeTypeOK
  <2>6. QED
    BY <1>2, <2>2, <2>4, <2>5 DEF ReplaceConfig, ChromeTypeOK
<1>3. QED
  BY <1>1, <1>2

(* Every step keeps the types. *)
LEMMA TypeKept == Housed /\ ChromeTypeOK /\ [ChromeNext]_chromeVars => ChromeTypeOK'
<1> SUFFICES ASSUME Housed, ChromeTypeOK, [ChromeNext]_chromeVars PROVE ChromeTypeOK'
  OBVIOUS
<1>1. CASE UNCHANGED chromeVars
  BY <1>1 DEF chromeVars, tagVars, screenVars, cellVars, configVars, skinVars, placeVars,
     ChromeTypeOK
<1>2. CASE ChromeNext
  BY <1>2, WindowTypes, TabTypes, MoveTypes, ActionTypes, ReloadTypes DEF ChromeNext
<1>3. QED
  BY <1>1, <1>2

-----------------------------------------------------------------------------
(* Subclasses, and the tabs of panes. *)

(* The window handle and the rule for snapping. *)
LEMMA SnapHooks ==
  ASSUME ChromeTypeOK, Hooked, NEW w \in Windows, NEW c, SetCellSnap(w, c),
         \A u \in Windows : stage'[u] = "ready" => stage[u] = "ready"
  PROVE  Hooked'
BY DEF ChromeTypeOK, Hooked, SetCellSnap

(* Every step keeps the subclasses installed. *)
LEMMA HookedKept ==
  ASSUME ChromeInv, ChromeNext
  PROVE  Hooked'
<1> USE DEF tagVars, screenVars, cellVars, configVars, skinVars, placeVars
<1> ChromeTypeOK /\ Hooked
  BY DEF ChromeInv
<1>1. CASE UNCHANGED cellVars /\ \A u \in Windows : stage'[u] = "ready" => stage[u] = "ready"
  BY <1>1 DEF Hooked
<1>2. ASSUME NEW w \in Windows, Activated(w) PROVE Hooked'
  BY <1>2 DEF Activated, Bind, Hooked, ChromeTypeOK
<1>3. ASSUME NEW w \in Windows, CloseWindow(w) PROVE Hooked'
  BY <1>3 DEF CloseWindow, Hooked, ChromeTypeOK, NoCell
<1>4. ASSUME NEW w \in Windows, NEW v \in Windows, MoveTab(w, v) \/ TearOut(w, v) PROVE Hooked'
  <2>1. \A u \in Windows : stage'[u] = "ready" => stage[u] = "ready"
    BY <1>4 DEF MoveTab, TearOut, ChromeTypeOK
  <2>2. CASE cell[w].known
    BY <1>4, <2>1, <2>2, SnapHooks DEF MoveTab, TearOut
  <2>3. CASE ~cell[w].known
    BY <1>1, <1>4, <2>1, <2>3 DEF MoveTab, TearOut
  <2>4. QED
    BY <2>2, <2>3
<1>5. ASSUME NEW w \in Windows, ApplyCellSizeForSurface(w) PROVE Hooked'
  BY <1>5, SnapHooks DEF ApplyCellSizeForSurface
<1>6. ASSUME NEW r \in reports, ReplaceConfig(r) PROVE Hooked'
  <2>1. r.w \in Windows
    BY DEF ChromeTypeOK
  <2>2. QED
    BY <1>6, <2>1, SnapHooks DEF ReplaceConfig
<1>7. ASSUME NEW w \in Windows,
             \/ CreateNewWindow(w) \/ NewTab(w) \/ Split(w) \/ WslInPane(w) \/ RemoveControl(w)
             \/ ParkTab(w) \/ ToggleBackgroundOpacity(w) \/ ApplyBackgroundColor(w)
             \/ ToggleWindowDecorations(w) \/ ToggleFullscreen(w)
      PROVE  Hooked'
  <2>1. UNCHANGED cellVars
    BY <1>7 DEF CreateNewWindow, NewTab, Split, WslInPane, RemoveControl, ParkTab,
       ToggleBackgroundOpacity, ApplyBackgroundColor, ToggleWindowDecorations, ToggleFullscreen
  <2>2. \A u \in Windows : stage'[u] = "ready" => stage[u] = "ready"
    BY <1>7 DEF CreateNewWindow, NewTab, Creates, Split, WslInPane, RemoveControl, ParkTab,
       ToggleBackgroundOpacity, ApplyBackgroundColor, ToggleWindowDecorations, ToggleFullscreen,
       ChromeTypeOK
  <2>3. QED
    BY <1>1, <2>1, <2>2
<1>8. CASE HardReload \/ \E t \in Tabs : EndTab(t) \/ Undo(t)
  BY <1>1, <1>8 DEF HardReload, EndTab, Undo
<1>9. QED
  BY <1>2, <1>3, <1>4, <1>5, <1>6, <1>7, <1>8 DEF ChromeNext

(* Every step keeps parked tabs and the tabs of panes in a window. *)
LEMMA HousedKept ==
  ASSUME ChromeInv, ChromeNext
  PROVE  Housed'
<1> USE NobodyAssumption DEF placeVars
<1> ChromeTypeOK /\ Housed
  BY DEF ChromeInv
<1>1. CASE UNCHANGED placeVars
  BY <1>1 DEF Housed
<1>2. ASSUME NEW w \in Windows, NEW t \in Tabs, NEW p \in Controls, parked' = parked,
             home' = [home EXCEPT ![t] = w], tab' = [tab EXCEPT ![p] = t]
      PROVE  Housed'
  BY <1>2 DEF Housed, ChromeTypeOK
<1>3. ASSUME NEW w \in Windows, UNCHANGED <<home, parked>>,
             \E t \in TabsOf(w), p \in Controls : tab' \in {[tab EXCEPT ![p] = t], [tab EXCEPT ![p] = None]}
      PROVE  Housed'
  BY <1>3 DEF Housed, TabsOf, ChromeTypeOK
<1>4. ASSUME NEW w \in Windows, Activated(w) PROVE Housed'
  BY <1>1, <1>2, <1>4 DEF Activated
<1>5. ASSUME NEW w \in Windows, CloseWindow(w) PROVE Housed'
  BY <1>5 DEF CloseWindow, Housed, ChromeTypeOK
<1>6. ASSUME NEW w \in Windows, NewTab(w) PROVE Housed'
  BY <1>1, <1>2, <1>6 DEF NewTab
<1>7. ASSUME NEW w \in Windows, Split(w) \/ WslInPane(w) \/ RemoveControl(w) PROVE Housed'
  BY <1>3, <1>7 DEF Split, WslInPane, RemoveControl, ControlsOf
<1>8. ASSUME NEW w \in Windows, ParkTab(w) PROVE Housed'
  BY <1>8 DEF ParkTab, TabsOf, Housed, ChromeTypeOK
<1>9. ASSUME NEW t \in Tabs, EndTab(t) \/ Undo(t) PROVE Housed'
  BY <1>9 DEF EndTab, Undo, Housed, ChromeTypeOK
<1>10. ASSUME NEW w \in Windows, NEW v \in Windows, MoveTab(w, v) \/ TearOut(w, v) PROVE Housed'
  <2>1. PICK t \in TabsOf(w) : home' = [home EXCEPT ![t] = v] /\ UNCHANGED <<parked, tab>>
    BY <1>10 DEF MoveTab, TearOut, Adopt
  <2>2. QED
    BY <2>1 DEF Housed, ChromeTypeOK
<1>11. ASSUME NEW w \in Windows,
              \/ CreateNewWindow(w) \/ ToggleBackgroundOpacity(w) \/ ApplyBackgroundColor(w)
              \/ ToggleWindowDecorations(w) \/ ToggleFullscreen(w) \/ ApplyCellSizeForSurface(w)
       PROVE  Housed'
  BY <1>1, <1>11 DEF CreateNewWindow, ToggleBackgroundOpacity, ApplyBackgroundColor,
     ToggleWindowDecorations, ToggleFullscreen, ApplyCellSizeForSurface
<1>12. CASE HardReload \/ \E r \in reports : ReplaceConfig(r)
  BY <1>1, <1>12 DEF HardReload, ReplaceConfig
<1>13. QED
  BY <1>4, <1>5, <1>6, <1>7, <1>8, <1>9, <1>10, <1>11, <1>12 DEF ChromeNext

-----------------------------------------------------------------------------
(* What a step leaves of the skins, the config staying. *)

(* A window the step does not touch. *)
LEMMA BystanderFits ==
  ASSUME NEW u \in Windows, Fits(u), config' = config,
         opaque'[u] = opaque[u], bg'[u] = bg[u], look'[u] = look[u], cell'[u] = cell[u],
         \A p \in Controls : tab'[p] # None /\ tab'[p] \in TabsOf(u)' =>
           tab[p] # None /\ tab[p] \in TabsOf(u) /\ underlay'[p] = underlay[p]
  PROVE  Fits(u)'
BY DEF Fits, Wears, Snaps

(* A new pane is dressed as the window it opens in. *)
LEMMA DressedFits ==
  ASSUME ChromeTypeOK, NEW w \in Windows, NEW p \in Controls, NEW t \in Tabs, Dressed(w, p),
         UNCHANGED <<config, opaque, bg, look, cell, parked>>,
         tab[p] = None, tab' = [tab EXCEPT ![p] = t], home'[t] = w,
         \/ home' = home
         \/ home' = [home EXCEPT ![t] = w] /\ Housed /\ Fresh(t)
  PROVE  \A u \in Windows : Fits(u) => Fits(u)'
<1> TAKE u \in Windows
<1> HAVE Fits(u)
<1>1. \A q \in Controls \ {p} : underlay'[q] = underlay[q] /\ tab'[q] = tab[q]
  BY DEF Dressed, ChromeTypeOK
<1>2. \A q \in Controls \ {p} : tab'[q] # None /\ tab'[q] \in TabsOf(u)' =>
        tab[q] # None /\ tab[q] \in TabsOf(u) /\ underlay'[q] = underlay[q]
  BY <1>1 DEF TabsOf, Housed, Fresh, ChromeTypeOK
<1>3. tab'[p] \in TabsOf(u)' => u = w
  BY DEF TabsOf, ChromeTypeOK
<1>4. underlay'[p] = Underlay(config, opaque[w], bg[w])
  BY DEF Dressed, ChromeTypeOK
<1>5. Wears(u)'
  BY <1>2, <1>3, <1>4 DEF Fits, Wears
<1>6. Snaps(u)'
  BY DEF Fits, Snaps
<1>7. QED
  BY <1>5, <1>6 DEF Fits

(* A repaint of w: the other windows have no tab they did not have. *)
LEMMA RepaintFits ==
  ASSUME ChromeTypeOK, NEW w \in Windows, Repaint(w), config' = config,
         tab' \in [Controls -> Tabs \cup {None}],
         Snaps(w) => Snaps(w)',
         \A u \in Windows \ {w} :
           /\ opaque'[u] = opaque[u] /\ bg'[u] = bg[u] /\ cell'[u] = cell[u]
           /\ \A p \in Controls : tab'[p] # None /\ tab'[p] \in TabsOf(u)' =>
                tab[p] # None /\ tab[p] \in TabsOf(u)
  PROVE  \A u \in Windows : Fits(u) => Fits(u)'
<1>1. Wears(w)'
  BY RepaintWears
<1>2. \A u \in Windows \ {w} : Wears(u) => Wears(u)'
  BY RepaintSpares
<1>3. \A u \in Windows \ {w} : Snaps(u) => Snaps(u)'
  BY DEF Snaps
<1>4. QED
  BY <1>1, <1>2, <1>3 DEF Fits

(* The steps that leave the reloads alone and change no window's stage but *)
(* that of one that is created.                                            *)
Quiet ==
  /\ UNCHANGED configVars
  /\ \A u \in Windows : stage'[u] = stage[u] \/ (stage[u] = "none" /\ stage'[u] = "new")

(* They keep every window that has heard fitting. *)
LEMMA QuietKeeps ==
  ASSUME ChromeInv, Quiet, \A u \in told : Fits(u) => Fits(u)'
  PROVE  Reported' /\ Heard'
<1>1. \A u \in Windows : stage[u] = "ready" => stage'[u] = "ready"
  BY DEF Quiet
<1>2. Reported'
  BY <1>1 DEF ChromeInv, ChromeTypeOK, Quiet, configVars, Reported, Awaited
<1>3. Heard'
  BY DEF ChromeInv, Quiet, configVars, Heard, Awaited
<1>4. QED
  BY <1>2, <1>3

-----------------------------------------------------------------------------
(* The operations that know of no reload. *)

(* Tabs and panes of a window. *)
LEMMA TabsFit ==
  ASSUME ChromeInv, NEW w \in Windows,
         \/ CreateNewWindow(w) \/ NewTab(w) \/ Split(w) \/ WslInPane(w)
         \/ RemoveControl(w) \/ ParkTab(w)
  PROVE  Quiet /\ \A u \in told : Fits(u) => Fits(u)'
<1> USE DEF configVars, tagVars, skinVars, cellVars, placeVars
<1> ChromeTypeOK /\ Housed /\ Unborn
  BY DEF ChromeInv
<1>1. told \subseteq Windows
  BY DEF ChromeTypeOK
<1>2. ASSUME NEW v \in Windows, NEW o, NEW d, Creates(v, o, d),
             UNCHANGED <<configVars, skinVars, cellVars, placeVars>>
      PROVE  Quiet /\ \A u \in told : Fits(u) => Fits(u)'
  <2>1. v \notin told
    BY <1>2 DEF Creates, Unborn
  <2>2. \A u \in told : opaque'[u] = opaque[u]
    BY <1>1, <1>2, <2>1 DEF Creates, Inherits, ChromeTypeOK
  <2>3. Quiet
    BY <1>2 DEF Creates, Quiet, ChromeTypeOK
  <2>4. TabsOf(v)' = TabsOf(v) /\ \A u \in told : TabsOf(u)' = TabsOf(u)
    BY <1>2 DEF TabsOf
  <2>5. QED
    BY <1>1, <1>2, <2>2, <2>3, <2>4, BystanderFits
<1>3. ASSUME CreateNewWindow(w) PROVE Quiet /\ \A u \in told : Fits(u) => Fits(u)'
  BY <1>2, <1>3 DEF CreateNewWindow
<1>4. ASSUME NewTab(w) PROVE Quiet /\ \A u \in told : Fits(u) => Fits(u)'
  <2>1. CASE \E v \in Windows : Creates(v, opaque[w], override[w]) /\ UNCHANGED
          <<configVars, skinVars, toggles, titleBar, screenVars, cellVars, placeVars>>
    BY <1>2, <2>1
  <2>2. CASE /\ UNCHANGED <<configVars, stage, tagVars, bg, look, toggles, titleBar, screenVars,
                          cellVars, parked>>
             /\ \E t \in Tabs, p \in Controls :
                  /\ Fresh(t) /\ tab[p] = None
                  /\ home' = [home EXCEPT ![t] = w] /\ tab' = [tab EXCEPT ![p] = t]
                  /\ Dressed(w, p)
    <3>1. PICK t \in Tabs, p \in Controls :
            /\ Fresh(t) /\ tab[p] = None
            /\ home' = [home EXCEPT ![t] = w] /\ tab' = [tab EXCEPT ![p] = t]
            /\ Dressed(w, p)
      BY <2>2
    <3>2. home'[t] = w
      BY <3>1 DEF ChromeTypeOK
    <3>3. QED
      BY <1>1, <2>2, <3>1, <3>2, DressedFits DEF Quiet
  <2>3. QED
    BY <1>4, <2>1, <2>2 DEF NewTab
<1>5. ASSUME Split(w) PROVE Quiet /\ \A u \in told : Fits(u) => Fits(u)'
  <2>1. PICK t \in TabsOf(w), p \in Controls :
          tab[p] = None /\ tab' = [tab EXCEPT ![p] = t] /\ Dressed(w, p)
    BY <1>5 DEF Split
  <2>2. t \in Tabs /\ home[t] = w
    BY DEF TabsOf
  <2>3. QED
    BY <1>1, <1>5, <2>1, <2>2, DressedFits DEF Split, Quiet
<1>6. ASSUME WslInPane(w) PROVE Quiet /\ \A u \in told : Fits(u) => Fits(u)'
  <2>1. PICK t \in TabsOf(w), p \in Controls : tab[p] = None /\ tab' = [tab EXCEPT ![p] = t]
    BY <1>6 DEF WslInPane
  <2>2. t \in Tabs /\ home[t] = w
    BY DEF TabsOf
  <2>3. UNCHANGED <<configVars, stage, tagVars, bg, cellVars, home, parked>> /\ Repaint(w)
    BY <1>6 DEF WslInPane
  <2>4. tab' \in [Controls -> Tabs \cup {None}]
    BY <2>1, <2>2 DEF ChromeTypeOK
  <2>5. \A u \in Windows \ {w}, q \in Controls : tab'[q] # None /\ tab'[q] \in TabsOf(u)' =>
          tab[q] # None /\ tab[q] \in TabsOf(u)
    BY <2>1, <2>2, <2>3 DEF TabsOf, ChromeTypeOK
  <2>6. \A u \in Windows : Fits(u) => Fits(u)'
    BY <2>3, <2>4, <2>5, RepaintFits DEF Snaps
  <2>7. QED
    BY <1>1, <2>3, <2>6 DEF Quiet
<1>7. ASSUME RemoveControl(w) PROVE Quiet /\ \A u \in told : Fits(u) => Fits(u)'
  <2>1. PICK p \in Controls : tab' = [tab EXCEPT ![p] = None]
    BY <1>7 DEF RemoveControl, ControlsOf
  <2>2. UNCHANGED <<configVars, stage, tagVars, bg, cellVars, home, parked>>
    BY <1>7 DEF RemoveControl
  <2>3. tab' \in [Controls -> Tabs \cup {None}]
    BY <2>1 DEF ChromeTypeOK
  <2>4. \A u \in Windows, q \in Controls : tab'[q] # None /\ tab'[q] \in TabsOf(u)' =>
          tab[q] # None /\ tab[q] \in TabsOf(u)
    BY <2>1, <2>2 DEF TabsOf, ChromeTypeOK
  <2>5. CASE Repaint(w)
    BY <1>1, <2>2, <2>3, <2>4, <2>5, RepaintFits DEF Snaps, Quiet
  <2>6. CASE look' = look /\ underlay' = Shed
    <3>1. \A q \in Controls : tab'[q] # None => underlay'[q] = underlay[q]
      BY <2>6 DEF Shed
    <3>2. QED
      BY <1>1, <2>2, <2>4, <2>6, <3>1, BystanderFits DEF Quiet
  <2>7. QED
    BY <1>7, <2>5, <2>6 DEF RemoveControl
<1>8. ASSUME ParkTab(w) PROVE Quiet /\ \A u \in told : Fits(u) => Fits(u)'
  <2>1. \A u \in Windows : TabsOf(u)' \subseteq TabsOf(u)
    BY <1>8 DEF ParkTab, TabsOf
  <2>2. QED
    BY <1>1, <1>8, <2>1, BystanderFits DEF ParkTab, Quiet
<1>9. QED
  BY <1>3, <1>4, <1>5, <1>6, <1>7, <1>8

(* The end of a tab, an undo and a move to another window. *)
LEMMA MovesFit ==
  ASSUME ChromeInv,
         \/ \E t \in Tabs : EndTab(t) \/ Undo(t)
         \/ \E w, v \in Windows : MoveTab(w, v)
  PROVE  Quiet /\ \A u \in told : Fits(u) => Fits(u)'
<1> USE DEF configVars, tagVars, skinVars, cellVars, placeVars
<1> ChromeTypeOK /\ Housed /\ Unborn
  BY DEF ChromeInv
<1>1. told \subseteq Windows
  BY DEF ChromeTypeOK
<1>2. ASSUME NEW t \in Tabs, EndTab(t) PROVE Quiet /\ \A u \in told : Fits(u) => Fits(u)'
  <2>1. \A u \in Windows, q \in Controls : tab'[q] # None /\ tab'[q] \in TabsOf(u)' =>
          tab[q] # None /\ tab[q] \in TabsOf(u) /\ underlay'[q] = underlay[q]
    BY <1>2, NobodyAssumption DEF EndTab, TabsOf, Shed, ChromeTypeOK
  <2>2. QED
    BY <1>1, <1>2, <2>1, BystanderFits DEF EndTab, Quiet
<1>3. ASSUME NEW t \in Tabs, Undo(t) PROVE Quiet /\ \A u \in told : Fits(u) => Fits(u)'
  <2>1. home[t] \in Windows /\ Repaint(home[t])
    BY <1>3 DEF Undo, Housed, Restates, ChromeTypeOK
  <2>2. UNCHANGED <<configVars, stage, tagVars, bg, cellVars, home, tab>> /\ parked' = parked \ {t}
    BY <1>3 DEF Undo
  <2>3. \A u \in Windows \ {home[t]} : TabsOf(u)' = TabsOf(u)
    BY <2>2 DEF TabsOf
  <2>4. \A u \in Windows : Fits(u) => Fits(u)'
    BY <2>1, <2>2, <2>3, RepaintFits DEF Snaps, ChromeTypeOK
  <2>5. QED
    BY <1>1, <2>2, <2>4 DEF Quiet
<1>4. ASSUME NEW w \in Windows, NEW v \in Windows, MoveTab(w, v)
      PROVE  Quiet /\ \A u \in told : Fits(u) => Fits(u)'
  <2>1. PICK t \in TabsOf(w) : Adopt(t, v)
    BY <1>4 DEF MoveTab
  <2>2. UNCHANGED <<configVars, stage, tagVars, bg, tab, parked>> /\ Repaint(v)
    BY <1>4, <2>1 DEF MoveTab, Adopt
  <2>3. home' = [home EXCEPT ![t] = v] /\ t \in Tabs
    BY <2>1 DEF Adopt, TabsOf
  <2>4. \A u \in Windows \ {v} : TabsOf(u)' \subseteq TabsOf(u)
    BY <2>2, <2>3 DEF TabsOf, ChromeTypeOK
  <2>5. /\ \A u \in Windows \ {v} : cell'[u] = cell[u]
        /\ Snaps(v) => Snaps(v)'
    BY <1>4, <2>2 DEF MoveTab, SetCellSnap, Snaps, ChromeTypeOK
  <2>6. \A u \in Windows : Fits(u) => Fits(u)'
    BY <2>2, <2>4, <2>5, RepaintFits DEF ChromeTypeOK
  <2>7. QED
    BY <1>1, <2>2, <2>6 DEF Quiet
<1>5. QED
  BY <1>2, <1>3, <1>4

(* The actions of libghostty for one window. *)
LEMMA ActionsFit ==
  ASSUME ChromeInv, NEW w \in Windows,
         \/ ToggleBackgroundOpacity(w) \/ ApplyBackgroundColor(w) \/ ToggleWindowDecorations(w)
         \/ ToggleFullscreen(w) \/ ApplyCellSizeForSurface(w)
  PROVE  Quiet /\ \A u \in told : Fits(u) => Fits(u)'
<1> USE DEF configVars, tagVars, skinVars, cellVars, placeVars
<1> ChromeTypeOK
  BY DEF ChromeInv
<1>1. told \subseteq Windows
  BY DEF ChromeTypeOK
<1>2. CASE ToggleBackgroundOpacity(w) \/ ApplyBackgroundColor(w)
  <2>1. UNCHANGED <<configVars, stage, cellVars, placeVars>> /\ Repaint(w)
    BY <1>2 DEF ToggleBackgroundOpacity, ApplyBackgroundColor
  <2>2. \A u \in Windows \ {w} : opaque'[u] = opaque[u] /\ bg'[u] = bg[u]
    BY <1>2 DEF ToggleBackgroundOpacity, ApplyBackgroundColor, ChromeTypeOK
  <2>3. \A u \in Windows : TabsOf(u)' = TabsOf(u)
    BY <2>1 DEF TabsOf
  <2>4. \A u \in Windows : Fits(u) => Fits(u)'
    BY <2>1, <2>2, <2>3, RepaintFits DEF Snaps, ChromeTypeOK
  <2>5. QED
    BY <1>1, <2>1, <2>4 DEF Quiet
<1>3. CASE ToggleWindowDecorations(w) \/ ToggleFullscreen(w)
  <2>1. UNCHANGED <<configVars, stage, opaque, skinVars, cellVars, placeVars>>
    BY <1>3 DEF ToggleWindowDecorations, ToggleFullscreen
  <2>2. \A u \in Windows : TabsOf(u)' = TabsOf(u)
    BY <2>1 DEF TabsOf
  <2>3. QED
    BY <1>1, <2>1, <2>2, BystanderFits DEF Quiet
<1>4. CASE ApplyCellSizeForSurface(w)
  <2>1. UNCHANGED <<configVars, stage, tagVars, skinVars, placeVars>>
    BY <1>4 DEF ApplyCellSizeForSurface
  <2>2. \A u \in Windows : Wears(u) => Wears(u)'
    BY <2>1 DEF Wears, TabsOf
  <2>3. \A u \in Windows : Snaps(u) => Snaps(u)'
    BY <1>4 DEF ApplyCellSizeForSurface, SetCellSnap, Snaps, ChromeTypeOK
  <2>4. QED
    BY <1>1, <2>1, <2>2, <2>3 DEF Quiet, Fits
<1>5. QED
  BY <1>2, <1>3, <1>4

-----------------------------------------------------------------------------
(* The operations that reload, or change who has heard.                    *)

(* The first Activated reads the config, or repaints what a host heard of. *)
LEMMA ActivatedHears ==
  ASSUME ChromeInv, NEW w \in Windows, Activated(w), ChromeTypeOK'
  PROVE  Reported' /\ Heard'
<1> ChromeTypeOK /\ Housed /\ Unborn /\ Reported /\ Heard
  BY DEF ChromeInv
<1>1. /\ UNCHANGED <<config, reports, latest, reloads, opaque, cell, parked>>
      /\ Repaint(w) /\ stage[w] \in {"new", "host"}
      /\ told' = IF stage[w] = "host" THEN told ELSE ReadBy(w)
      /\ bg' = [bg EXCEPT ![w] = config.background]
      /\ stage' = [stage EXCEPT ![w] = "ready"]
  BY DEF Activated, tagVars
<1>2. ~Awaited(w)
  BY <1>1 DEF Awaited, Reported
<1>3. \A u \in Windows : Awaited(u)' = Awaited(u)
  BY <1>1 DEF Awaited
<1>4. \A u \in told' \ {w} : u \in told
  BY <1>1 DEF ReadBy
<1>5. Reported'
  <2>1. \A r \in reports : stage'[r.w] = "ready"
    BY <1>1 DEF Reported, ChromeTypeOK
  <2>2. QED
    BY <1>1, <1>2, <1>3, <1>4, <2>1 DEF Reported, ChromeTypeOK
<1>6. ASSUME NEW u \in told', ~Awaited(u)' PROVE config' = latest' /\ Fits(u)'
  <2>1. CASE u = w
    <3>1. Wears(w)'
      BY <1>1, RepaintWears DEF ChromeTypeOK
    <3>2. CASE w \in told
      BY <1>1, <1>2, <2>1, <3>1, <3>2 DEF Heard, Fits, Snaps
    <3>3. CASE w \notin told
      BY <1>1, <1>6, <2>1, <3>1, <3>3 DEF ReadBy, Unborn, Fits, Snaps
    <3>4. QED
      BY <3>2, <3>3
  <2>2. CASE u # w
    <3>1. u \in told /\ u \in Windows
      BY <1>4, <2>2 DEF ChromeTypeOK
    <3>2. config = latest /\ Fits(u)
      BY <1>3, <1>6, <3>1 DEF Heard
    <3>3. \A p \in Controls : tab'[p] # None /\ tab'[p] \in TabsOf(u)' =>
            tab[p] # None /\ tab[p] \in TabsOf(u)
      <4>1. CASE UNCHANGED <<home, tab>>
        BY <1>1, <4>1 DEF TabsOf
      <4>2. CASE \E t \in Tabs, p \in Controls :
                   home' = [home EXCEPT ![t] = w] /\ tab' = [tab EXCEPT ![p] = t]
        BY <1>1, <2>2, <3>1, <4>2 DEF TabsOf, ChromeTypeOK
      <4>3. QED
        BY <4>1, <4>2 DEF Activated
    <3>4. Wears(u)'
      BY <1>1, <2>2, <3>1, <3>2, <3>3, RepaintSpares DEF Fits, ChromeTypeOK
    <3>5. QED
      BY <1>1, <3>2, <3>4 DEF Fits, Snaps
  <2>3. QED
    BY <2>1, <2>2
<1>7. QED
  BY <1>5, <1>6 DEF Heard

(* A window that is gone waits for nothing. *)
LEMMA CloseHears ==
  ASSUME ChromeInv, NEW w \in Windows, CloseWindow(w)
  PROVE  Reported' /\ Heard'
<1> ChromeTypeOK /\ Reported /\ Heard
  BY DEF ChromeInv
<1>1. /\ reports' = {r \in reports : r.w # w} /\ told' = told \ {w}
      /\ UNCHANGED <<config, latest, reloads>> /\ stage' = [stage EXCEPT ![w] = "none"]
  BY DEF CloseWindow
<1>2. \A u \in Windows \ {w} : Awaited(u)' = Awaited(u)
  BY <1>1 DEF Awaited
<1>3. told' \subseteq Windows \ {w}
  BY <1>1 DEF ChromeTypeOK
<1>4. Reported'
  BY <1>1, <1>2, <1>3 DEF Reported, ChromeTypeOK
<1>5. \A u \in Windows \ {w} : Fits(u) => Fits(u)'
  <2>1. \A u \in Windows \ {w} :
          opaque'[u] = opaque[u] /\ bg'[u] = bg[u] /\ look'[u] = look[u] /\ cell'[u] = cell[u]
    BY DEF CloseWindow, Inherits, ChromeTypeOK
  <2>2. \A u \in Windows \ {w}, p \in Controls : tab'[p] # None /\ tab'[p] \in TabsOf(u)' =>
          tab[p] # None /\ tab[p] \in TabsOf(u) /\ underlay'[p] = underlay[p]
    BY NobodyAssumption DEF CloseWindow, TabsOf, Shed, ChromeTypeOK
  <2>3. QED
    BY <1>1, <2>1, <2>2, BystanderFits
<1>6. QED
  BY <1>1, <1>2, <1>3, <1>4, <1>5 DEF Heard

(* A host has heard if the config it adopts with is that of the last       *)
(* reload.                                                                 *)
LEMMA TearOutHears ==
  ASSUME ChromeInv, NEW w \in Windows, NEW v \in Windows, TearOut(w, v)
  PROVE  Reported' /\ Heard'
<1> ChromeTypeOK /\ Unborn /\ Reported /\ Heard
  BY DEF ChromeInv
<1>1. PICK t \in TabsOf(w) : Adopt(t, v)
  BY DEF TearOut
<1>2. /\ home' = [home EXCEPT ![t] = v] /\ Repaint(v)
      /\ UNCHANGED <<parked, tab, config, reports, latest, reloads, bg>>
      /\ opaque' = [opaque EXCEPT ![v] = opaque[w]]
      /\ stage[v] = "none" /\ stage' = [stage EXCEPT ![v] = "host"] /\ told' = ReadBy(v)
  BY <1>1 DEF Adopt, TearOut, Inherits
<1>3. ~Awaited(v) /\ v \notin told
  BY <1>2 DEF Awaited, Reported, Unborn
<1>4. \A u \in Windows : Awaited(u)' = Awaited(u)
  BY <1>2 DEF Awaited
<1>5. Reported'
  <2>1. \A r \in reports : stage'[r.w] = "ready"
    BY <1>2 DEF Reported, ChromeTypeOK
  <2>2. QED
    BY <1>2, <1>3, <1>4, <2>1 DEF Reported, ReadBy, ChromeTypeOK
<1>6. /\ \A u \in Windows \ {v} : cell'[u] = cell[u]
      /\ Snaps(v)'
  BY <1>2 DEF TearOut, SetCellSnap, Snaps, Unborn, cellVars, ChromeTypeOK
<1>7. \A u \in Windows : Fits(u) => Fits(u)'
  <2>1. \A u \in Windows \ {v} : TabsOf(u)' \subseteq TabsOf(u)
    BY <1>2 DEF TabsOf, ChromeTypeOK
  <2>2. QED
    BY <1>2, <1>6, <2>1, RepaintFits DEF ChromeTypeOK
<1>8. Wears(v)'
  BY <1>2, RepaintWears DEF ChromeTypeOK
<1>9. QED
  BY <1>2, <1>3, <1>4, <1>5, <1>6, <1>7, <1>8 DEF Heard, ReadBy, Fits, ChromeTypeOK

(* Whoever has heard of a reload waits for its report. *)
LEMMA ReloadHears ==
  ASSUME ChromeInv, HardReload
  PROVE  Reported' /\ Heard'
<1> ChromeTypeOK /\ Reported
  BY DEF ChromeInv
<1>1. PICK c \in Configs :
        /\ config' = c /\ latest' = c
        /\ \A w \in told' : w \in Windows /\ stage[w] = "ready"
        /\ reports' = reports \cup {[w |-> w, reload |-> reloads', config |-> c] : w \in told'}
  BY DEF HardReload, LiveWindows
<1>2. reloads' = reloads + 1 /\ stage' = stage
  BY DEF HardReload
<1>3. ASSUME NEW w \in told' PROVE \E r \in reports' : r.w = w /\ r.reload = reloads'
  <2>1. [w |-> w, reload |-> reloads', config |-> c] \in reports'
    BY <1>1
  <2>2. QED
    BY <2>1
<1>4. ASSUME NEW r \in reports'
      PROVE  /\ stage'[r.w] = "ready" /\ r.reload <= reloads'
             /\ r.reload = reloads' => r.config = latest'
  <2>1. CASE r \in reports
    <3>1. r.reload \in Nat /\ r.reload <= reloads /\ reloads \in Nat /\ stage[r.w] = "ready"
      BY <2>1 DEF Reported, ChromeTypeOK
    <3>2. r.reload <= reloads' /\ r.reload # reloads'
      BY <1>2, <3>1
    <3>3. QED
      BY <1>2, <3>1, <3>2
  <2>2. CASE \E w \in told' : r = [w |-> w, reload |-> reloads', config |-> c]
    BY <1>1, <1>2, <2>2 DEF ChromeTypeOK
  <2>3. QED
    BY <1>1, <2>1, <2>2
<1>5. QED
  BY <1>3, <1>4 DEF Reported, Heard, Awaited

(* A report of an older reload leaves no window that has heard without a   *)
(* report to come; the one of the last reload leaves its window fitting.   *)
LEMMA ReportHears ==
  ASSUME ChromeInv, NEW r \in reports, ReplaceConfig(r)
  PROVE  Reported' /\ Heard'
<1> ChromeTypeOK /\ Reported /\ Heard
  BY DEF ChromeInv
<1>1. r.w \in Windows /\ r.reload \in Nat /\ reloads \in Nat
  BY DEF ChromeTypeOK
<1>2. /\ config' = r.config /\ reports' = reports \ {r} /\ Repaint(r.w)
      /\ told' = IF config' = latest THEN told ELSE told \cap {other.w : other \in reports'}
      /\ UNCHANGED <<latest, reloads, stage, opaque, bg, placeVars>>
      /\ \A other \in reports : r.reload <= other.reload
      /\ SetCellSnap(r.w, [cell[r.w] EXCEPT !.on = config'.step])
  BY DEF ReplaceConfig, tagVars
<1>3. told' \subseteq told
  BY <1>2
<1>4. \A u \in told' : Awaited(u)' => \E last \in reports' : last.w = u /\ last.reload = reloads
  <2> SUFFICES ASSUME NEW u \in told', NEW other \in reports', other.w = u
               PROVE  \E last \in reports' : last.w = u /\ last.reload = reloads
    BY DEF Awaited
  <2>1. PICK last \in reports : last.w = u /\ last.reload = reloads
    BY <1>2, <1>3 DEF Reported, Awaited
  <2>2. CASE last # r
    BY <1>2, <2>1, <2>2
  <2>3. CASE last = r
    <3>1. other.reload = reloads
      <4>1. other \in reports /\ other.reload \in Nat
        BY <1>2 DEF ChromeTypeOK
      <4>2. reloads <= other.reload /\ other.reload <= reloads
        BY <1>2, <2>1, <2>3, <4>1 DEF Reported
      <4>3. QED
        BY <1>1, <4>1, <4>2
    <3>2. QED
      BY <3>1
  <2>4. QED
    BY <2>2, <2>3
<1>5. Reported'
  BY <1>2, <1>4 DEF Reported
<1>6. ASSUME NEW u \in told', ~Awaited(u)' PROVE config' = latest' /\ Fits(u)'
  <2>1. u \in told /\ u \in Windows
    BY <1>3 DEF ChromeTypeOK
  <2>2. config' = latest
    BY <1>2, <1>6 DEF Awaited
  <2>3. CASE u = r.w
    <3>1. Wears(u)'
      BY <1>1, <1>2, <2>3, RepaintWears DEF ChromeTypeOK, placeVars
    <3>2. Snaps(u)'
      BY <1>1, <1>2, <2>3 DEF SetCellSnap, Snaps, ChromeTypeOK
    <3>3. QED
      BY <1>2, <2>2, <3>1, <3>2 DEF Fits
  <2>4. CASE u # r.w
    <3>1. ~Awaited(u)
      BY <1>2, <1>6, <2>4 DEF Awaited
    <3>2. config = latest /\ Fits(u)
      BY <2>1, <3>1 DEF Heard
    <3>3. TabsOf(u)' = TabsOf(u) /\ tab' = tab
      BY <1>2 DEF TabsOf, placeVars
    <3>4. Wears(u)'
      BY <1>1, <1>2, <2>1, <2>2, <2>4, <3>2, <3>3, RepaintSpares DEF Fits, ChromeTypeOK
    <3>5. Snaps(u)'
      BY <1>1, <1>2, <2>1, <2>2, <2>4, <3>2 DEF SetCellSnap, Snaps, Fits, ChromeTypeOK
    <3>6. QED
      BY <1>2, <2>2, <3>4, <3>5 DEF Fits
  <2>5. QED
    BY <2>3, <2>4
<1>7. QED
  BY <1>5, <1>6 DEF Heard

-----------------------------------------------------------------------------
(* The invariant. *)

(* A window knows its cells only while it is there. *)
LEMMA UnbornKept ==
  ASSUME ChromeInv, ChromeNext
  PROVE  Unborn'
<1> USE DEF configVars, tagVars, screenVars, cellVars, skinVars, placeVars
<1> ChromeTypeOK /\ Unborn
  BY DEF ChromeInv
<1>1. ASSUME \A u \in Windows : stage'[u] \in {"none", "new"} =>
               /\ stage[u] \in {"none", "new"} /\ cell'[u] = cell[u]
               /\ u \in told' => u \in told
      PROVE  Unborn'
  BY <1>1 DEF Unborn
<1>2. ASSUME NEW w \in Windows, Activated(w) PROVE Unborn'
  <2>1. stage' = [stage EXCEPT ![w] = "ready"] /\ cell' = cell /\ told' \subseteq told \cup {w}
    BY <1>2 DEF Activated, ReadBy
  <2>2. QED
    BY <1>1, <2>1 DEF ChromeTypeOK
<1>3. ASSUME NEW w \in Windows, CloseWindow(w) PROVE Unborn'
  BY <1>3 DEF CloseWindow, Unborn, NoCell, ChromeTypeOK
<1>4. ASSUME NEW w \in Windows, NEW v \in Windows, MoveTab(w, v) PROVE Unborn'
  <2>1. stage[v] = "ready" /\ stage' = stage /\ told' = told
    BY <1>4 DEF MoveTab
  <2>2. \A u \in Windows \ {v} : cell'[u] = cell[u]
    BY <1>4 DEF MoveTab, SetCellSnap, ChromeTypeOK
  <2>3. QED
    BY <1>1, <2>1, <2>2
<1>5. ASSUME NEW w \in Windows, NEW v \in Windows, TearOut(w, v) PROVE Unborn'
  <2>1. stage' = [stage EXCEPT ![v] = "host"] /\ told' \subseteq told \cup {v}
    BY <1>5 DEF TearOut, ReadBy
  <2>2. \A u \in Windows \ {v} : cell'[u] = cell[u]
    BY <1>5 DEF TearOut, SetCellSnap, ChromeTypeOK
  <2>3. QED
    BY <1>1, <2>1, <2>2 DEF ChromeTypeOK
<1>6. ASSUME NEW w \in Windows, ApplyCellSizeForSurface(w) PROVE Unborn'
  BY <1>1, <1>6 DEF ApplyCellSizeForSurface, SetCellSnap, ChromeTypeOK
<1>7. ASSUME NEW w \in Windows,
             \/ CreateNewWindow(w) \/ NewTab(w) \/ Split(w) \/ WslInPane(w) \/ RemoveControl(w)
             \/ ParkTab(w) \/ ToggleBackgroundOpacity(w) \/ ApplyBackgroundColor(w)
             \/ ToggleWindowDecorations(w) \/ ToggleFullscreen(w)
      PROVE  Unborn'
  <2>1. Quiet
    BY <1>7, TabsFit, ActionsFit
  <2>2. UNCHANGED cellVars
    BY <1>7 DEF CreateNewWindow, NewTab, Split, WslInPane, RemoveControl, ParkTab,
       ToggleBackgroundOpacity, ApplyBackgroundColor, ToggleWindowDecorations, ToggleFullscreen
  <2>3. QED
    BY <1>1, <2>1, <2>2 DEF Quiet
<1>8. CASE \E t \in Tabs : EndTab(t) \/ Undo(t)
  BY <1>1, <1>8 DEF EndTab, Undo
<1>9. CASE HardReload
  BY <1>1, <1>9 DEF HardReload, LiveWindows
<1>10. ASSUME NEW r \in reports, ReplaceConfig(r) PROVE Unborn'
  <2>1. stage[r.w] = "ready"
    BY DEF ChromeInv, Reported
  <2>2. stage' = stage /\ told' \subseteq told /\ \A u \in Windows \ {r.w} : cell'[u] = cell[u]
    BY <1>10 DEF ReplaceConfig, SetCellSnap, ChromeTypeOK
  <2>3. QED
    BY <1>1, <2>1, <2>2
<1>11. QED
  BY <1>2, <1>3, <1>4, <1>5, <1>6, <1>7, <1>8, <1>9, <1>10 DEF ChromeNext

(* Win32 leaves fullscreen with the tag. *)
LEMMA ScreenKept ==
  ASSUME screen \subseteq full, ChromeNext
  PROVE  screen' \subseteq full'
<1> USE DEF screenVars
<1>1. ASSUME NEW w \in Windows, ToggleFullscreen(w) \/ CloseWindow(w) PROVE screen' \subseteq full'
  BY <1>1 DEF ToggleFullscreen, CloseWindow
<1>2. ASSUME NEW w \in Windows,
             \/ CreateNewWindow(w) \/ Activated(w) \/ NewTab(w) \/ Split(w) \/ WslInPane(w)
             \/ RemoveControl(w) \/ ParkTab(w) \/ ToggleBackgroundOpacity(w)
             \/ ApplyBackgroundColor(w) \/ ToggleWindowDecorations(w)
             \/ ApplyCellSizeForSurface(w) \/ \E v \in Windows : MoveTab(w, v) \/ TearOut(w, v)
      PROVE  screen' \subseteq full'
  BY <1>2 DEF CreateNewWindow, Activated, NewTab, Split, WslInPane, RemoveControl, ParkTab,
     ToggleBackgroundOpacity, ApplyBackgroundColor, ToggleWindowDecorations,
     ApplyCellSizeForSurface, MoveTab, TearOut
<1>3. CASE HardReload \/ (\E r \in reports : ReplaceConfig(r)) \/ \E t \in Tabs : EndTab(t) \/ Undo(t)
  BY <1>3 DEF HardReload, ReplaceConfig, EndTab, Undo
<1>4. QED
  BY <1>1, <1>2, <1>3 DEF ChromeNext

(* Every step keeps the invariant. *)
LEMMA StepKeeps == ChromeInv /\ [ChromeNext]_chromeVars => ChromeInv'
<1> SUFFICES ASSUME ChromeInv, [ChromeNext]_chromeVars PROVE ChromeInv'
  OBVIOUS
<1>1. CASE UNCHANGED chromeVars
  <2>1. UNCHANGED <<config, reports, told, latest, reloads, opaque, bg, look, underlay, screen,
                    full, cell, subclass, home, parked, tab, stage>>
    BY <1>1 DEF chromeVars, configVars, tagVars, skinVars, screenVars, cellVars, placeVars
  <2>2. ChromeTypeOK' /\ Housed' /\ Unborn'
    BY <1>1, <2>1, TypeKept DEF ChromeInv, Housed, Unborn
  <2>3. Reported' /\ Hooked' /\ screen' \subseteq full'
    BY <2>1 DEF ChromeInv, Reported, Awaited, Hooked
  <2>4. Heard'
    BY <2>1 DEF ChromeInv, Heard, Awaited, Fits, Wears, Snaps, TabsOf
  <2>5. QED
    BY <2>2, <2>3, <2>4 DEF ChromeInv
<1>2. CASE ChromeNext
  <2>1. ChromeTypeOK' /\ Housed' /\ Unborn' /\ Hooked' /\ screen' \subseteq full'
    BY <1>2, TypeKept, HousedKept, UnbornKept, HookedKept, ScreenKept DEF ChromeInv
  <2>2. ASSUME NEW w \in Windows,
               \/ CreateNewWindow(w) \/ NewTab(w) \/ Split(w) \/ WslInPane(w)
               \/ RemoveControl(w) \/ ParkTab(w)
               \/ ToggleBackgroundOpacity(w) \/ ApplyBackgroundColor(w)
               \/ ToggleWindowDecorations(w) \/ ToggleFullscreen(w) \/ ApplyCellSizeForSurface(w)
        PROVE  Reported' /\ Heard'
    BY <2>2, TabsFit, ActionsFit, QuietKeeps
  <2>3. ASSUME \/ \E t \in Tabs : EndTab(t) \/ Undo(t)
               \/ \E w, v \in Windows : MoveTab(w, v)
        PROVE  Reported' /\ Heard'
    BY <2>3, MovesFit, QuietKeeps
  <2>4. ASSUME NEW w \in Windows,
               Activated(w) \/ CloseWindow(w) \/ \E v \in Windows : TearOut(w, v)
        PROVE  Reported' /\ Heard'
    BY <2>1, <2>4, ActivatedHears, CloseHears, TearOutHears
  <2>5. ASSUME HardReload \/ \E r \in reports : ReplaceConfig(r)
        PROVE  Reported' /\ Heard'
    BY <2>5, ReloadHears, ReportHears
  <2>6. Reported' /\ Heard'
    BY <1>2, <2>2, <2>3, <2>4, <2>5 DEF ChromeNext
  <2>7. QED
    BY <2>1, <2>6 DEF ChromeInv
<1>3. QED
  BY <1>1, <1>2

(* It holds at the start. *)
LEMMA InitKeeps == ChromeInit => ChromeInv
<1> SUFFICES ASSUME ChromeInit PROVE ChromeInv
  OBVIOUS
<1>1. Housed /\ Unborn /\ Hooked /\ screen \subseteq full
  BY DEF ChromeInit, Housed, Unborn, Hooked, NoCell
<1>2. Reported /\ Heard
  BY DEF ChromeInit, Reported, Heard
<1>3. QED
  BY <1>1, <1>2, InitType DEF ChromeInv

-----------------------------------------------------------------------------
(* The theorems. *)

(* The inductive invariant. *)
THEOREM ChromeInvariance == ChromeSpec => []ChromeInv
BY InitKeeps, StepKeeps, PTL DEF ChromeSpec

(* Every variable keeps its type. *)
THEOREM ChromeTypeCorrect == ChromeSpec => []ChromeTypeOK
<1>1. ChromeInv => ChromeTypeOK
  BY DEF ChromeInv
<1>2. QED
  BY <1>1, ChromeInvariance, PTL

(* A window that has heard of the last reload wears what its config, the   *)
(* window's override and its colour ask for, and so does every pane in its *)
(* strip, however reloads, moves, undos and toggles interleaved.           *)
THEOREM ModesAreWorn == ChromeSpec => []WearsItsMode
<1>1. ChromeInv => WearsItsMode
  BY DEF ChromeInv, Heard, Awaited, Fits, Wears, WearsItsMode, Settled
<1>2. QED
  BY <1>1, ChromeInvariance, PTL

(* It snaps to cells exactly when that config says so, with its subclass   *)
(* installed, and Win32 shows fullscreen only with the tag.                *)
THEOREM SnapIsConfigured == ChromeSpec => []SnapsAsConfigured
<1>1. ChromeInv => SnapsAsConfigured
  BY DEF ChromeInv, ChromeTypeOK, Heard, Awaited, Fits, Snaps, Hooked, SnapsAsConfigured, Settled
<1>2. QED
  BY <1>1, ChromeInvariance, PTL
=============================================================================
