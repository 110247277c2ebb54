---------------------------- MODULE CallbackRouting ----------------------------
(***************************************************************************)
(* The callbacks of libghostty on their way to the windows: the look-ups   *)
(* of MainWindowRuntime, the table of CallbackDispatcher, the closures     *)
(* that Actions, the runtime and ReloadConfig leave in the dispatcher's    *)
(* queue, with what each captures, and the configs handed through them.    *)
(*                                                                         *)
(* What a closure does to tabs and panes is the subject of the other       *)
(* modules; here a pane is its PaneId, the address of its surface and the  *)
(* window that owns it, and the close gate of a window is whether its      *)
(* dialog is up: what the dialog is about, and the flags behind it, are in *)
(* WindowClose.  A shell parked under an in-place session, which is in no  *)
(* tree and released when it dies, is in ShimSession.  libghostty itself   *)
(* is external: it calls back, keeps a copy of the config it runs, and     *)
(* reuses the address of a surface it has freed.                           *)
(***************************************************************************)
EXTENDS Naturals, FiniteSets, SequencesExt

CONSTANTS
  Windows,     \* bound: every window that is ever made
  MaxPanes,    \* bound: the panes that are ever made, and their PaneIds
  Addrs,       \* the addresses surfaces are allocated at
  Tags,        \* the actions libghostty performs
  MaxQueue,    \* bound: the closures callbacks leave in the queue
  MaxReloads,  \* bound: the reloads asked for
  MaxEdits,    \* bound: the edits of the config file
  Configs,     \* bound: the handles of configs (1 .. n)
  Lost         \* no pane

ASSUME CallbackAssumption ==
  /\ MaxPanes \in Nat /\ MaxQueue \in Nat /\ MaxEdits \in Nat /\ MaxReloads \in Nat
  /\ 1 \in Configs /\ Configs \subseteq Nat \ {0}

VARIABLES
  win,      \* "none", "tracked" by App, "open" after its first Activated (registered),
            \* "closed" by Close(), "gone" with its destructor
  reg,      \* MainWindows::m_windows
  alive,    \* the m_alive of each window's Actions
  asking,   \* the windows whose WindowCloseGate is pending
  panes,    \* the panes that exist: PaneId -> its window, its surface, parked or not
  nextId,   \* PaneIdAllocator
  queue,    \* the closures in the DispatcherQueue all windows share
  waker,    \* worker threads inside OnWakeup, with the window they picked: pane -> window
  workers,  \* threads of a hard reload: the window each captured, the config it parsed
  heap,     \* the version of the file behind each ghostty_config_t, 0 when it is free
  current,  \* App::m_config
  lib,      \* the version libghostty runs
  file,     \* the version on disk
  reloads,  \* the reloads asked for so far
  leaked,   \* history: the clones of CONFIG_CHANGE whose closure was dropped
  stale,    \* history: what touched a window that was destroyed
  exited,   \* history: the panes whose close_surface callback came when their shell ended
  asked,    \* history: those it came for by a key, their shell alive
  displaced,\* history: exited panes parked, moved or in no registered window when or after it came
  refused   \* history: exited panes whose close met a pending gate

paneVars   == <<panes, nextId>>
windowVars == <<win, reg, alive, asking>>
configVars == <<heap, current, lib, file, reloads, leaked>>
exits      == <<exited, asked, refused>>
history    == <<stale, exits, displaced>>
threads    == <<waker, workers>>
vars == <<windowVars, paneVars, queue, threads, configVars, history>>

-----------------------------------------------------------------------------
(* What the runtime looks up. *)

Live(p) == p \in DOMAIN panes

(* MainWindow::OwnsPane and OwnsSurface: the tabs of the strip, and not    *)
(* the tabs on the undo stack.                                             *)
Owns(w, p) == Live(p) /\ panes[p].home = w /\ ~panes[p].parked

(* The panes on the strip of w. *)
In(w) == {p \in DOMAIN panes : Owns(w, p)}

Holders(p) == {w \in ToSet(reg) : Owns(w, p)}

(* The pane of w at an address: the re-resolution of a surface.            *)
At(w, a) == {p \in In(w) : panes[p].addr = a}

IsReady == reg # <<>>

AnyWindow == reg[1]

(* OnAction: the window of the target's surface, any window for the app.   *)
Routed(t) ==
  IF ~IsReady THEN {} ELSE IF t = Lost THEN {AnyWindow} ELSE Holders(t)

Free == {h \in Configs : heap[h] = 0}

Targets == {Lost} \cup DOMAIN panes

(* A window whose object still exists. *)
Exists(w) == win[w] # "gone"

-----------------------------------------------------------------------------
(* The table of actions, in the sections of Actions.  Each of these        *)
(* handlers hops to the UI thread with one closure behind the liveness     *)
(* gate; the others (bell, renderer_health, initial_size, the acked tags)  *)
(* leave nothing behind.  What is answered to libghostty is left out.      *)

VerbTags == {"render", "check_for_updates", "open_url",
             "close_window", "close_all_windows", "quit"}

WindowTags == {"toggle_visibility", "toggle_maximize", "present_terminal",
               "float_window", "show_on_screen_keyboard", "open_config"}

SizeTags == {"reset_window_size"}

TabTags == {"new_tab", "new_window", "goto_window", "close_tab", "goto_tab", "move_tab"}

TerminalTags == {"set_title", "set_tab_title", "copy_title_to_clipboard", "color_change",
                 "mouse_shape", "mouse_visibility", "secure_input", "pwd", "prompt_title"}

ModeTags == {"toggle_command_palette", "readonly", "command_finished",
             "key_sequence", "key_table", "mouse_over_link"}

OverlayTags == {"toggle_background_opacity", "undo", "redo", "cell_size", "scrollbar",
                "start_search", "end_search", "search_total", "search_selected"}

NoticeTags == {"desktop_notification", "progress_report"}

StateTags == {"size_limit", "toggle_fullscreen", "toggle_window_decorations"}

SplitTags == {"new_split", "resize_split", "goto_split", "move_tab_to_new_window",
              "equalize_splits", "toggle_split_zoom"}

ExitTags == {"show_child_exited"}

ActionTags ==
  VerbTags \cup WindowTags \cup SizeTags \cup TabTags \cup TerminalTags \cup ModeTags
    \cup OverlayTags \cup NoticeTags \cup StateTags \cup SplitTags \cup ExitTags

(* The tags about one surface, refused or acked by CallbackDispatcher when *)
(* the target is the app ...                                               *)
EarlySurfaceTags == (TerminalTags \ {"color_change"}) \cup ModeTags \cup {"close_tab"}

LateSurfaceTags ==
  SplitTags \cup {"cell_size", "scrollbar", "start_search", "end_search",
                  "search_total", "search_selected"}

(* ... and an exit without a surface moves nothing.                        *)
NeedsSurface == EarlySurfaceTags \cup LateSurfaceTags \cup ExitTags

(* The closure a tag leaves with window w.                                 *)
Posted(tag, w, t) ==
  IF t = Lost
    THEN IF tag \in ActionTags \ NeedsSurface THEN {[op |-> tag, w |-> w]} ELSE {}
    ELSE IF tag \in NeedsSurface THEN {[op |-> tag, w |-> w, addr |-> panes[t].addr]}
    ELSE IF tag \in ActionTags THEN {[op |-> tag, w |-> w]} ELSE {}

GatedOps == ActionTags \cup {"replace_config"}

-----------------------------------------------------------------------------
Init ==
  /\ \E w \in Windows :
       /\ win = [x \in Windows |-> IF x = w THEN "tracked" ELSE "none"]
  /\ reg = <<>>
  /\ alive = [w \in Windows |-> TRUE]
  /\ asking = {}
  /\ panes = <<>>
  /\ nextId = 1
  /\ queue = <<>>
  /\ waker = <<>>
  /\ workers = {}
  /\ heap = [h \in Configs |-> IF h = 1 THEN 1 ELSE 0]
  /\ current = 1
  /\ lib = 1
  /\ file = 1
  /\ reloads = 0
  /\ leaked = {}
  /\ stale = {}
  /\ exited = {} /\ asked = {}
  /\ displaced = {} /\ refused = {}

-----------------------------------------------------------------------------
(* Windows and panes. *)

(* CreateNewWindow, CreateTearOutWindow: tracked, not yet registered.      *)
Made(ws) == [x \in Windows |-> IF x \in ws THEN "tracked" ELSE win[x]]

Unborn == {w \in Windows : win[w] = "none"}

(* The first Activated of a window registers it. *)
Activated(w) ==
  /\ win[w] = "tracked"
  /\ win' = [win EXCEPT ![w] = "open"]
  /\ reg' = Append(reg, w)
  /\ UNCHANGED <<alive, asking, paneVars, queue, threads, configVars, history>>

(* TabFactory::MakePane: a new PaneId, a surface at any free address.      *)
AddPane(w) ==
  /\ nextId <= MaxPanes
  /\ \E a \in Addrs \ {panes[p].addr : p \in DOMAIN panes} :
       panes' = [p \in DOMAIN panes \cup {nextId} |->
                   IF p = nextId THEN [home |-> w, addr |-> a, parked |-> FALSE]
                   ELSE panes[p]]
  /\ nextId' = nextId + 1

(* A surface is freed only after the threads inside it have left, and its  *)
(* address can be used again.                                              *)
Joined(ps) == ps \cap DOMAIN waker = {}

Without(ps) == [p \in DOMAIN panes \ ps |-> panes[p]]

DropPanes(ps) ==
  /\ Joined(ps)
  /\ panes' = Without(ps)
  /\ nextId' = nextId

(* The tab button. *)
UserOpensPane(w) ==
  /\ win[w] = "open"
  /\ AddPane(w)
  /\ UNCHANGED <<windowVars, queue, threads, configVars, history>>

(* Close(): the Closed handler of App forgets the window; its object lives *)
(* on until the framework releases it.                                     *)
Closed(ws) == [x \in Windows |-> IF x \in ws THEN "closed" ELSE win[x]]

(* A pane of the strip ends; the last one takes its window with it.        *)
Ends(p) ==
  /\ DropPanes({p})
  /\ win' = IF In(panes[p].home) = {p} THEN Closed({panes[p].home}) ELSE win

(* A tab is parked for undo while another one stays, and comes back.       *)
Displace(ps) == displaced' = displaced \cup (ps \cap exited)

Placed(p, w, parked) ==
  panes' = [panes EXCEPT ![p] = [home |-> w, addr |-> panes[p].addr, parked |-> parked]]

Parked(p) ==
  /\ In(panes[p].home) \ {p} # {}
  /\ Placed(p, panes[p].home, TRUE) /\ Displace({p})

Listed(p) == Placed(p, panes[p].home, FALSE) /\ displaced' = displaced

(* CloseTabByItem; a pane that closes alone is parked like its tab.        *)
Closes(p) ==
  \/ Ends(p) /\ displaced' = displaced
  \/ Parked(p) /\ UNCHANGED <<nextId, win>>

-----------------------------------------------------------------------------
(* The close gate. *)

NothingCloses == UNCHANGED <<paneVars, win, displaced>>

(* WindowCloseGate::Submit: dropped while a dialog is up, asked about when  *)
(* a shell of the scope lives and is busy, else approved.                  *)
Submit(w, scope, Approved) ==
  \/ w \in asking /\ asking' = asking /\ NothingCloses
  \/ w \notin asking /\ scope \ exited # {} /\ asking' = asking \cup {w} /\ NothingCloses
  \/ w \notin asking /\ asking' = asking /\ Approved

(* The X of a tab or of the window, Alt+F4: a close that has to ask.       *)
Asks(w) ==
  /\ win[w] = "open" /\ w \notin asking /\ In(w) \ exited # {}
  /\ asking' = asking \cup {w}
  /\ UNCHANGED <<win, reg, alive, paneVars, queue, threads, configVars, history>>

(* The answer: no, or what was asked about is closed if it is still there. *)
Answers(w) ==
  /\ w \in asking /\ Exists(w)
  /\ asking' = asking \ {w}
  /\ \/ NothingCloses
     \/ \E p \in In(w) : Closes(p)
     \/ win' = Closed({w}) /\ UNCHANGED <<paneVars, displaced>>
  /\ UNCHANGED <<reg, alive, queue, threads, configVars, stale, exits>>

(* The X of a tab, with nothing to ask: its pane ends or is parked.        *)
UserClosesPane(p) ==
  /\ Live(p) /\ ~panes[p].parked
  /\ win[panes[p].home] = "open" /\ panes[p].home \notin asking
  /\ Closes(p)
  /\ UNCHANGED <<reg, alive, asking, queue, threads, configVars, stale, exits>>

(* ... and the X of the window; one that was left without a tab closes by  *)
(* itself.                                                                 *)
UserClosesWindow(w) ==
  /\ win[w] = "open"
  /\ w \notin asking \/ In(w) = {}
  /\ win' = Closed({w})
  /\ UNCHANGED <<reg, alive, asking, paneVars, queue, threads, configVars, history>>

(* Undo, and the end of the time it is kept for. *)
Undo(p) ==
  /\ Live(p) /\ panes[p].parked /\ win[panes[p].home] = "open"
  /\ Listed(p)
  /\ UNCHANGED <<windowVars, nextId, queue, threads, configVars, stale, exits>>

Expire(p) ==
  /\ Live(p) /\ panes[p].parked /\ win[panes[p].home] = "open"
  /\ DropPanes({p})
  /\ UNCHANGED <<windowVars, queue, threads, configVars, history>>

(* A merge into another window, or a tear-out into one that is made for it.*)
Moved(p, w) == Placed(p, w, FALSE) /\ Displace({p})

UserMovesPane(p) ==
  /\ Live(p) /\ ~panes[p].parked /\ win[panes[p].home] = "open"
  /\ \/ \E w \in Windows \ {panes[p].home} :
          win[w] \in {"open"} /\ Moved(p, w) /\ win' = win
     \/ \E w \in Unborn : Moved(p, w) /\ win' = Made({w})
  /\ UNCHANGED <<reg, alive, asking, nextId, queue, threads, configVars, stale, exits>>

(* MainWindows::Unregister: the first entry of w is erased, if there is one.*)
Unregister(w) ==
  \/ w \notin ToSet(reg) /\ reg' = reg
  \/ \E i \in DOMAIN reg :
       /\ reg[i] = w /\ \A j \in 1 .. i - 1 : reg[j] # w
       /\ reg' = RemoveAt(reg, i)

(* Fault: the destructor without DetachActions. *)
DestroyStillArmed(w) ==
  /\ win[w] = "closed"
  /\ DropPanes({p \in DOMAIN panes : panes[p].home = w})
  /\ win' = [win EXCEPT ![w] = "gone"]
  /\ asking' = asking \ {w}
  /\ Unregister(w)
  /\ UNCHANGED <<alive, queue, threads, configVars, history>>

(* ~MainWindow: DetachActions, Unregister, the parked tabs, the tabs.      *)
Destroy(w) ==
  /\ win[w] = "closed"
  /\ DropPanes({p \in DOMAIN panes : panes[p].home = w})
  /\ win' = [win EXCEPT ![w] = "gone"]
  /\ alive' = [alive EXCEPT ![w] = FALSE]
  /\ asking' = asking \ {w}
  /\ Unregister(w)
  /\ UNCHANGED <<queue, threads, configVars, history>>

-----------------------------------------------------------------------------
(* Callbacks. *)

Room == Len(queue) < MaxQueue

(* OnWakeup on the worker thread of a pane: the window is looked up ...    *)
OnWakeup(p) ==
  /\ Live(p) /\ p \notin DOMAIN waker /\ IsReady
  /\ waker' = [x \in DOMAIN waker \cup {p} |-> IF x = p THEN AnyWindow ELSE waker[x]]
  /\ UNCHANGED <<windowVars, paneVars, queue, workers, configVars, history>>

(* ... and its DispatcherQueue used.  The tick that is queued captures no   *)
(* window and asks isReady again: what it runs are the callbacks below.    *)
PostWakeup(p) ==
  /\ p \in DOMAIN waker
  /\ waker' = [x \in DOMAIN waker \ {p} |-> waker[x]]
  /\ stale' = IF Exists(waker[p]) THEN stale ELSE stale \cup {"wakeup"}
  /\ UNCHANGED <<windowVars, paneVars, queue, workers, configVars, exits, displaced>>

(* OnAction and DispatchAction for target t, on the thread that runs the   *)
(* app.  A tag outside the table is acked or refused, and nothing happens. *)
OnAction(t, tag) ==
  /\ \E w \in Routed(t) : \E call \in Posted(tag, w, t) : queue' = Append(queue, call)
  /\ Room
  /\ UNCHANGED <<windowVars, paneVars, threads, configVars, history>>

(* reload_config: the closure of a soft one, the worker of a hard one.     *)
ReloadConfig(t, soft) ==
  /\ reloads < MaxReloads
  /\ reloads' = reloads + 1
  /\ \E w \in Routed(t) :
       IF soft
         THEN /\ queue' = Append(queue, [op |-> "soft_reload", w |-> w])
              /\ UNCHANGED workers
         ELSE /\ [w |-> w, cfg |-> 0] \notin workers
              /\ workers' = workers \cup {[w |-> w, cfg |-> 0]}
              /\ UNCHANGED queue
  /\ UNCHANGED <<windowVars, paneVars, waker, heap, current, lib, file, leaked, history>>

(* The worker: a new config is read from the file ...                      *)
WorkerParses(k) ==
  /\ k \in workers /\ k.cfg = 0
  /\ \E h \in Free :
       /\ \A g \in Free : h <= g
       /\ heap' = [heap EXCEPT ![h] = file]
       /\ workers' = (workers \ {k}) \cup {[k EXCEPT !.cfg = h]}
  /\ UNCHANGED <<windowVars, paneVars, queue, waker, current, lib, file, reloads, leaked, history>>

(* ... and handed to the window it was started for.                        *)
WorkerPosts(k) ==
  /\ k \in workers /\ k.cfg # 0
  /\ workers' = workers \ {k}
  /\ IF Exists(k.w)
       THEN /\ queue' = Append(queue, [op |-> "hard_reload", w |-> k.w, cfg |-> k.cfg])
            /\ stale' = stale
       ELSE stale' = stale \cup {"worker"} /\ queue' = queue
  /\ UNCHANGED <<windowVars, paneVars, waker, configVars, exits, displaced>>

(* Fault: any window is asked to close the pane. *)
CloseCallAny(p) == [op |-> "close_pane", w |-> AnyWindow, pane |-> p]

(* OnCloseSurface: the window that owns the pane is asked to close it ...   *)
CloseCall(p) == [op |-> "close_pane", w |-> panes[p].home, pane |-> p]

(* ... when its shell has ended, or by the key of a pane whose shell lives. *)
ShellEnded(p) == exited' = exited \cup {p} /\ asked' = asked

KeyPressed(p) == Holders(p) # {} /\ asked' = asked \cup {p} /\ exited' = exited

OnCloseSurface(p) ==
  /\ Live(p) /\ p \notin exited /\ Room
  /\ ShellEnded(p) \/ KeyPressed(p)
  /\ IF Holders(p) = {}
       THEN displaced' = displaced \cup {p} /\ queue' = queue
       ELSE /\ queue' = Append(queue, CloseCall(p))
            /\ displaced' = displaced
  /\ UNCHANGED <<windowVars, paneVars, threads, configVars, stale, refused>>

(* The user edits the config file. *)
EditFile ==
  /\ file <= MaxEdits
  /\ file' = file + 1
  /\ UNCHANGED <<windowVars, paneVars, queue, threads, heap, current, lib, reloads, leaked, history>>

-----------------------------------------------------------------------------
(* The UI thread runs the closure at the head of the queue. *)

Is(ops) == queue # <<>> /\ queue[1].op \in ops

closure == queue[1]

(* The gate of DispatchToView. *)
Open == alive[closure.w]

(* Whatever a closure that passed the gate does, it does to its window. *)
Touches ==
  stale' = IF Exists(closure.w) THEN stale ELSE stale \cup {closure.op}

(* The window was severed: the closure does nothing, and the clone that a  *)
(* CONFIG_CHANGE captured has no owner left.                               *)
RunSevered ==
  /\ Is(GatedOps) /\ ~Open
  /\ queue' = Tail(queue)
  /\ leaked' = IF closure.op = "replace_config" THEN leaked \cup {closure.cfg} ELSE leaked
  /\ UNCHANGED <<windowVars, paneVars, threads, heap, current, lib, file, reloads, history>>

(* Handlers about the window, or about the pane found again at the         *)
(* captured address, that move nothing here.                               *)
MovesNothing ==
  ActionTags \ {"new_tab", "new_split", "undo", "redo", "close_tab", "show_child_exited",
                "new_window", "move_tab_to_new_window",
                "close_window", "close_all_windows", "quit"}

RunHandler ==
  /\ Is(MovesNothing) /\ Open
  /\ queue' = Tail(queue)
  /\ Touches
  /\ UNCHANGED <<windowVars, paneVars, threads, configVars, exits, displaced>>

(* new_tab and new_split make a pane; undo and redo take a tab from the    *)
(* undo stack or park it again.  Each may have nothing to do.              *)
RunOpens ==
  /\ Is({"new_tab", "new_split", "undo", "redo"}) /\ Open
  /\ queue' = Tail(queue)
  /\ Touches
  /\ \/ UNCHANGED <<paneVars, displaced>>
     \/ /\ closure.op \in {"new_tab", "new_split"} /\ win[closure.w] = "open"
        /\ AddPane(closure.w)
        /\ displaced' = displaced
     \/ \E p \in DOMAIN panes :
          /\ panes[p].home = closure.w
          /\ nextId' = nextId
          /\ closure.op = IF panes[p].parked THEN "undo" ELSE "redo"
          /\ IF panes[p].parked THEN Listed(p) ELSE Parked(p)
  /\ UNCHANGED <<windowVars, threads, configVars, exits>>

(* close_tab: the tab of the pane at the captured address goes through the *)
(* gate; the exit of an in-place session may end its pane, and does not.   *)
RunCloses ==
  /\ Is({"close_tab", "show_child_exited"}) /\ Open
  /\ queue' = Tail(queue)
  /\ Touches
  /\ \/ UNCHANGED <<paneVars, win, displaced, asking>>
     \/ \E p \in At(closure.w, closure.addr) :
          \/ closure.op = "close_tab" /\ Submit(closure.w, In(closure.w), Closes(p))
          \/ /\ closure.op = "show_child_exited"
             /\ Ends(p) /\ UNCHANGED <<displaced, asking>>
  /\ UNCHANGED <<reg, alive, threads, configVars, exits>>

(* move_tab_to_new_window, and App::CreateNewWindow.                       *)
RunNewWindow ==
  /\ Is({"move_tab_to_new_window", "new_window"}) /\ Open
  /\ queue' = Tail(queue)
  /\ Touches
  /\ \/ UNCHANGED <<panes, win, displaced>>
     \/ \E w \in Unborn :
          /\ win' = Made({w})
          /\ IF closure.op = "new_window" THEN UNCHANGED <<panes, displaced>>
             ELSE \E p \in At(closure.w, closure.addr) : Moved(p, w)
  /\ UNCHANGED <<reg, alive, asking, nextId, threads, configVars, exits>>

(* close_window is TryClose of its window; close_all_windows and quit      *)
(* close every tracked one without asking.                                 *)
RunCloseWindow ==
  /\ Is({"close_window", "close_all_windows", "quit"}) /\ Open
  /\ queue' = Tail(queue)
  /\ Touches
  /\ \/ /\ closure.op = "close_window"
        /\ Submit(closure.w, In(closure.w),
                  win' = Closed({closure.w}) /\ UNCHANGED <<paneVars, displaced>>)
     \/ /\ closure.op # "close_window"
        /\ win' = Closed({w \in Windows : win[w] \in {"tracked", "open"}})
        /\ UNCHANGED <<asking, paneVars, displaced>>
  /\ UNCHANGED <<reg, alive, threads, configVars, exits>>

(* Fault: the close is about the newest pane of the window. *)
NamedNewest(call) == {p \in In(call.w) : \A q \in In(call.w) : q <= p}

(* The pane a close names, looked up in the window captured at the         *)
(* callback; one it no longer owns is left alone.                          *)
Named(call) == {call.pane} \cap In(call.w)

(* CloseSurfaceByPaneId and RemovePaneByIdApproved: the gate drops the     *)
(* request, asks about a living shell, or lets it through; only a living   *)
(* shell is parked.                                                        *)
RunClosePane ==
  /\ Is({"close_pane"})
  /\ queue' = Tail(queue)
  /\ Touches
  /\ refused' = refused \cup
       (IF closure.w \in asking THEN Named(closure) \cap exited ELSE {})
  /\ \/ Named(closure) = {} /\ NothingCloses /\ asking' = asking
     \/ \E p \in Named(closure) :
          Submit(closure.w, {p},
                 IF p \in exited THEN Ends(p) /\ displaced' = displaced ELSE Closes(p))
  /\ UNCHANGED <<reg, alive, threads, configVars, exited, asked>>

-----------------------------------------------------------------------------
(* Configs. *)

(* Fault: the config held so far is kept. *)
ReplacedKeeps(hp, new) == heap' = hp /\ current' = new

(* App::ReplaceConfig: the config held so far is freed. *)
Replaced(hp, new) ==
  /\ heap' = [hp EXCEPT ![current] = IF current = new THEN hp[new] ELSE 0]
  /\ current' = new

(* ghostty_app_update_config reports CONFIG_CHANGE, for each surface and   *)
(* for the app, before it returns: the windows the reports reach.          *)
Reports ==
  {[i \in DOMAIN ps |-> panes[ps[i]].home] \o (IF IsReady THEN <<AnyWindow>> ELSE <<>>) :
     ps \in SetToSeqs({p \in DOMAIN panes : Holders(p) # {}})}

(* The n lowest free handles. *)
Handles(n) ==
  {hs \in [1 .. n -> Free] :
     /\ \A i, j \in 1 .. n : i < j => hs[i] < hs[j]
     /\ \A i \in 1 .. n, h \in Free : h < hs[i] => \E j \in 1 .. n : hs[j] = h}

(* OnConfigChange: for each report a clone of version v, captured by one   *)
(* gated closure.                                                          *)
Reported(ws, hs) ==
  [i \in DOMAIN ws |-> [op |-> "replace_config", w |-> ws[i], cfg |-> hs[i]]]

Clones(hs, v) ==
  [h \in Configs |-> IF \E i \in DOMAIN hs : hs[i] = h THEN v ELSE heap[h]]

RunSoftReload ==
  /\ Is({"soft_reload"})
  /\ Touches
  /\ \E ws \in Reports : \E hs \in Handles(Len(ws)) :
       /\ queue' = Tail(queue) \o Reported(ws, hs)
       /\ heap' = Clones(hs, heap[current])
  /\ lib' = heap[current]
  /\ current' = current
  /\ UNCHANGED <<windowVars, paneVars, threads, file, reloads, leaked, exits, displaced>>

(* Fault: the new config is kept by the host and not given to libghostty. *)
HardReloadUnapplied ==
  /\ Is({"hard_reload"})
  /\ queue' = Tail(queue)
  /\ Touches
  /\ Replaced(heap, closure.cfg)
  /\ UNCHANGED <<windowVars, paneVars, threads, lib, file, reloads, leaked, exits, displaced>>

RunHardReload ==
  /\ Is({"hard_reload"})
  /\ Touches
  /\ \E ws \in Reports : \E hs \in Handles(Len(ws)) :
       /\ queue' = Tail(queue) \o Reported(ws, hs)
       /\ Replaced(Clones(hs, heap[closure.cfg]), closure.cfg)
  /\ lib' = heap[closure.cfg]
  /\ UNCHANGED <<windowVars, paneVars, threads, file, reloads, leaked, exits, displaced>>

RunReplaceConfig ==
  /\ Is({"replace_config"}) /\ Open
  /\ queue' = Tail(queue)
  /\ Touches
  /\ Replaced(heap, closure.cfg)
  /\ UNCHANGED <<windowVars, paneVars, threads, lib, file, reloads, leaked, exits, displaced>>

-----------------------------------------------------------------------------
User ==
  \/ \E w \in Windows :
       \/ Activated(w) \/ UserOpensPane(w) \/ UserClosesWindow(w) \/ Destroy(w)
       \/ Asks(w) \/ Answers(w)
  \/ \E p \in DOMAIN panes :
       UserClosesPane(p) \/ Undo(p) \/ Expire(p) \/ UserMovesPane(p)
  \/ EditFile

Callback ==
  \/ \E p \in DOMAIN panes : OnWakeup(p) \/ PostWakeup(p) \/ OnCloseSurface(p)
  \/ \E t \in Targets : \E tag \in Tags : OnAction(t, tag)
  \/ \E t \in Targets, soft \in BOOLEAN : ReloadConfig(t, soft)
  \/ \E k \in workers : WorkerParses(k) \/ WorkerPosts(k)

Run ==
  \/ RunSevered \/ RunHandler \/ RunOpens \/ RunCloses \/ RunNewWindow
  \/ RunCloseWindow \/ RunClosePane
  \/ RunSoftReload \/ RunHardReload \/ RunReplaceConfig

(* After a use of a destroyed window the process is undefined. *)
Next == stale = {} /\ (User \/ Callback \/ Run)

Spec == Init /\ [][Next]_vars
-----------------------------------------------------------------------------
(* Properties. *)

QueuedConfigs == {i \in DOMAIN queue : queue[i].op \in {"replace_config", "hard_reload"}}

(* The clones and the parsed configs that somebody will still free.        *)
Pending == {queue[i].cfg : i \in QueuedConfigs}

Parsed == {k.cfg : k \in {x \in workers : x.cfg # 0}}

(* The closures, with what each captures. *)
Calls ==
  [op : ActionTags \ NeedsSurface, w : Windows]
    \cup [op : NeedsSurface, w : Windows, addr : Addrs]
    \cup [op : {"close_pane"}, w : Windows, pane : 1 .. MaxPanes]
    \cup [op : {"soft_reload"}, w : Windows]
    \cup [op : {"hard_reload", "replace_config"}, w : Windows, cfg : Configs]

(* The type invariant: in particular each closure captures what its        *)
(* handler reads, and PaneIds are never given twice.                       *)
TypeOK ==
  /\ win \in [Windows -> {"none", "tracked", "open", "closed", "gone"}]
  /\ reg \in Seq(Windows)
  /\ alive \in [Windows -> BOOLEAN] /\ asking \subseteq Windows
  /\ nextId \in 1 .. MaxPanes + 1
  /\ DOMAIN panes \subseteq 1 .. nextId - 1
  /\ panes \in [DOMAIN panes -> [home : Windows, addr : Addrs, parked : BOOLEAN]]
  /\ queue \in Seq(Calls)
  /\ DOMAIN waker \subseteq DOMAIN panes
  /\ waker \in [DOMAIN waker -> Windows]
  /\ workers \subseteq [w : Windows, cfg : Configs \cup {0}]
  /\ heap \in [Configs -> Nat]
  /\ current \in Configs /\ lib \in Nat /\ file \in Nat \ {0} /\ reloads \in Nat
  /\ leaked \subseteq Configs
  /\ exited \subseteq 1 .. nextId - 1 /\ asked \subseteq 1 .. nextId - 1
  /\ displaced \subseteq exited /\ refused \subseteq exited

(* Work that an action queued behind the liveness gate of its window never *)
(* touches the window once it is destroyed (issue #131).                   *)
GatedNeverStale == stale \cap GatedOps = {}

(* Every config that was allocated has exactly one owner that will free    *)
(* it: App, a closure in the queue or a worker; only the clone of a window *)
(* severed meanwhile is lost.                                              *)
ConfigsAccounted ==
  stale = {} =>
  /\ {h \in Configs : heap[h] # 0} = {current} \cup Pending \cup Parsed \cup leaked
  /\ \A i, j \in QueuedConfigs : queue[i].cfg = queue[j].cfg => i = j
  /\ \A k, l \in workers : k.cfg = l.cfg /\ k.cfg # 0 => k = l
  /\ current \notin Pending \cup Parsed \cup leaked
  /\ Pending \cap Parsed = {} /\ Pending \cap leaked = {} /\ Parsed \cap leaked = {}

(* With no reload under way, the config the host reads is the one          *)
(* libghostty runs, unless a report was lost with its window.              *)
ConfigSettles == QueuedConfigs = {} => heap[current] = lib \/ leaked # {}

(* A close that comes from a surface ends only a pane whose shell exited   *)
(* or whose close a key asked for, although the window may have changed    *)
(* hands and the addresses of surfaces are reused on the way.              *)
PaneClosesAreTheirs ==
  [][RunClosePane => DOMAIN panes \ DOMAIN panes' \subseteq exited \cup asked]_vars

(* The pane of an exited shell is about to be closed, but for two ways the *)
(* code loses an exit: its close found no window that lists the pane       *)
(* (not yet activated, on the undo stack, or taken to another one on the   *)
(* way), or it met the gate of its window while a dialog was up.           *)
ExitsAccounted ==
  \A p \in exited \ (displaced \cup refused) : Live(p) =>
    \E i \in DOMAIN queue : queue[i].op = "close_pane" /\ queue[i].pane = p

(* Stated by ~MainWindow and Actions::Detach: nothing queued or called for *)
(* a window touches it once it is destroyed, while another window keeps    *)
(* the process running.                                                    *)
NothingStale == reg # <<>> => stale = {}
=============================================================================
