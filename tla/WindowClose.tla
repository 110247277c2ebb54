---------------------------- MODULE WindowClose ----------------------------
(***************************************************************************)
(* How a close is asked for, confirmed and carried out in one window: the  *)
(* close gate, its dialog, the rename prompt that shares the XamlRoot with *)
(* it, WM_CLOSE, and the closes that wait in the dispatcher queue          *)
(* (WindowCloseGate, MainWindow, MainWindowRuntime::OnCloseSurface).       *)
(*                                                                         *)
(* Whether a closed tab is torn down or parked is the subject of UndoPark: *)
(* here its panes leave the window.                                        *)
(***************************************************************************)
EXTENDS Naturals, Sequences, FiniteSets

CONSTANTS
  Tabs,      \* every tab item that is ever created
  Panes,     \* every pane id that is ever allocated
  Window,    \* the target of a request for the whole window
  MaxQueue   \* bound: the closures waiting in the dispatcher queue

ASSUME TargetsAssumption == Tabs \cap Panes = {} /\ Window \notin Tabs \cup Panes
ASSUME MaxQueueAssumption == MaxQueue \in Nat \ {0}

VARIABLES
  tree,        \* the panes each tab of the window shows
  used,        \* the tabs made so far
  shell,       \* what the shell of each pane does
  queue,       \* the closures enqueued on the UI thread that a close depends on
  rooted,      \* Content().XamlRoot() is available
  pending,     \* WindowCloseGate::m_pending
  renameOpen,  \* MainWindow::m_renamePromptOpen
  dialog,      \* the ContentDialog the XamlRoot shows
  threw,       \* history: the flags raised by a ShowAsync that then threw
  bypass,      \* MainWindow::m_bypassCloseGate
  phase        \* "open", "closing" after Close(), "closed" or "crashed"

dialogVars == <<pending, renameOpen, dialog, threw>>
paneVars   == <<tree, used, shell>>
closeVars == <<paneVars, queue, rooted, dialogVars, bypass, phase>>

NoDialog == [kind |-> "none", target |-> Window]
Dialogs  == [kind : {"none", "close", "rename"}, target : Tabs \cup Panes \cup {Window}]
Requests == [op : {"close_pane", "close_tab", "close_window", "rename", "move"}, pane : Panes]

Live      == UNION {tree[t] : t \in Tabs}
OpenTabs  == {t \in Tabs : tree[t] # {}}
TabOf(p)  == CHOOSE t \in Tabs : p \in tree[t]

(* The panes a target stands for: the scope of a close. *)
Covered(target) ==
  CASE target = Window   -> Live
    [] target \in Tabs   -> tree[target]
    [] target \in Panes  -> {target} \cap Live

(* ghostty_surface_needs_confirm_quit over the panes of the scope. *)
NeedsConfirm(target) == \E p \in Covered(target) : shell[p] = "busy"

-----------------------------------------------------------------------------
(* Carrying a close out. *)

RequestClose == phase' = "closing" /\ bypass' = TRUE

(* CloseTabByItem and RemovePaneByIdApproved: a target that left in the    *)
(* meantime is found nowhere, and the last tab takes the window with it.   *)
RemovePanes(gone) ==
  IF gone # {} /\ Live \subseteq gone
  THEN /\ tree' = [t \in Tabs |-> {}]
       /\ RequestClose
  ELSE /\ tree' = [t \in Tabs |-> tree[t] \ gone]
       /\ UNCHANGED <<bypass, phase>>

Approve(target) ==
  IF target = Window
  THEN RequestClose /\ UNCHANGED tree
  ELSE RemovePanes(Covered(target))

(* A ShowAsync while the XamlRoot shows another dialog throws. Only the    *)
(* WM_CLOSE subclass procedure catches it; from any other caller it leaves *)
(* the handler, which the debug build survives.                            *)
Throw(caught) ==
  /\ \/ UNCHANGED phase
     \/ ~caught /\ phase' = "crashed"
  /\ UNCHANGED <<dialog, tree, bypass>>

(* Fault: a request that meets a pending one goes through unasked. *)
SubmitPastPending(target, caught) ==
  \/ /\ pending \/ ~NeedsConfirm(target) \/ ~rooted
     /\ Approve(target)
     /\ UNCHANGED dialogVars
  \/ /\ ~pending /\ NeedsConfirm(target) /\ rooted
     /\ pending' = TRUE
     /\ \/ /\ dialog = NoDialog
           /\ dialog' = [kind |-> "close", target |-> target]
           /\ UNCHANGED <<threw, tree, bypass, phase>>
        \/ /\ dialog # NoDialog
           /\ threw' = threw \cup {"close"}
           /\ Throw(caught)
     /\ UNCHANGED renameOpen

(* WindowCloseGate::Submit. *)
Submit(target, caught) ==
  \/ /\ pending
     /\ UNCHANGED <<dialogVars, tree, bypass, phase>>
  \/ /\ ~pending
     /\ ~NeedsConfirm(target) \/ ~rooted
     /\ Approve(target)
     /\ UNCHANGED dialogVars
  \/ /\ ~pending /\ NeedsConfirm(target) /\ rooted
     /\ pending' = TRUE
     /\ \/ /\ dialog = NoDialog
           /\ dialog' = [kind |-> "close", target |-> target]
           /\ UNCHANGED <<threw, tree, bypass, phase>>
        \/ /\ dialog # NoDialog
           /\ threw' = threw \cup {"close"}
           /\ Throw(caught)
     /\ UNCHANGED renameOpen

(* PromptTitleForSurface. *)
PromptTitle(p) ==
  \/ /\ renameOpen \/ p \notin Live \/ ~rooted
     /\ UNCHANGED <<dialogVars, tree, bypass, phase>>
  \/ /\ ~renameOpen /\ p \in Live /\ rooted
     /\ renameOpen' = TRUE
     /\ \/ /\ dialog = NoDialog
           /\ dialog' = [kind |-> "rename", target |-> TabOf(p)]
           /\ UNCHANGED <<threw, tree, bypass, phase>>
        \/ /\ dialog # NoDialog
           /\ threw' = threw \cup {"rename"}
           /\ Throw(FALSE)
     /\ UNCHANGED pending

(* MoveTabToNewWindow: the only tab of a window moves the window itself.   *)
MoveTab(p) ==
  /\ tree' = [t \in Tabs |-> IF p \in tree[t] /\ Cardinality(OpenTabs) > 1 THEN {} ELSE tree[t]]
  /\ UNCHANGED <<dialogVars, bypass, phase>>

-----------------------------------------------------------------------------
CloseInit ==
  /\ tree = [t \in Tabs |-> {}] /\ used = {}
  /\ shell = [p \in Panes |-> "unborn"]
  /\ queue = <<>>
  /\ rooted = FALSE
  /\ pending = FALSE /\ renameOpen = FALSE /\ dialog = NoDialog /\ threw = {}
  /\ bypass = FALSE /\ phase = "open"

Realise ==
  /\ phase = "open" /\ ~rooted
  /\ rooted' = TRUE
  /\ UNCHANGED <<paneVars, queue, dialogVars, bypass, phase>>

(* A new tab, or a split of an open one. *)
NewPane(t, p) ==
  /\ phase = "open" /\ shell[p] = "unborn"
  /\ tree[t] # {} \/ t \notin used
  /\ tree' = [tree EXCEPT ![t] = @ \cup {p}]
  /\ used' = used \cup {t}
  /\ shell' = [shell EXCEPT ![p] = "prompt"]
  /\ UNCHANGED <<queue, rooted, dialogVars, bypass, phase>>

(* The shell starts a command or is back at its prompt. *)
ShellRuns(p, s) ==
  /\ phase = "open" /\ p \in Live /\ shell[p] \in {"prompt", "busy"} \ {s}
  /\ shell' = [shell EXCEPT ![p] = s]
  /\ UNCHANGED <<tree, used, queue, rooted, dialogVars, bypass, phase>>

Enqueue(op, p) ==
  /\ Len(queue) < MaxQueue
  /\ queue' = Append(queue, [op |-> op, pane |-> p])

(* OnCloseSurface after the shell has ended. *)
ShellExit(p) ==
  /\ phase = "open" /\ p \in Live /\ shell[p] \in {"prompt", "busy"}
  /\ shell' = [shell EXCEPT ![p] = "exited"]
  /\ Enqueue("close_pane", p)
  /\ UNCHANGED <<tree, used, rooted, dialogVars, bypass, phase>>

(* A keybind of the focused pane: a dialog takes the keyboard. *)
Keybind(p) ==
  /\ phase = "open" /\ p \in Live /\ dialog = NoDialog
  /\ \E op \in {"close_pane", "close_tab", "close_window", "rename", "move"} : Enqueue(op, p)
  /\ UNCHANGED <<paneVars, rooted, dialogVars, bypass, phase>>

Deliver ==
  /\ phase = "open" /\ queue # <<>>
  /\ queue' = Tail(queue)
  /\ LET r == Head(queue) IN
     \/ r.op = "close_window" /\ Submit(Window, FALSE)
     \/ r.op = "close_tab"    /\ r.pane \in Live /\ Submit(TabOf(r.pane), FALSE)
     \/ r.op = "close_pane"   /\ r.pane \in Live /\ Submit(r.pane, FALSE)
     \/ r.op = "rename"       /\ PromptTitle(r.pane)
     \/ r.op = "move"         /\ MoveTab(r.pane)
     \/ /\ r.op \in {"close_tab", "close_pane"} /\ r.pane \notin Live
        /\ UNCHANGED <<dialogVars, tree, bypass, phase>>
  /\ UNCHANGED <<used, shell, rooted>>

(* A tab's X, or the X of the caption: a dialog covers them. *)
CloseClick(target) ==
  /\ phase = "open" /\ dialog = NoDialog
  /\ target \in OpenTabs \cup {Window}
  /\ Submit(target, FALSE)
  /\ UNCHANGED <<used, shell, queue, rooted>>

(* Alt+F4 and every other WM_CLOSE, which no dialog holds up. *)
WmClose ==
  /\ phase = "open" /\ ~bypass
  /\ Submit(Window, TRUE)
  /\ UNCHANGED <<used, shell, queue, rooted>>

(* Fault: a cancelled dialog leaves the gate pending. *)
AnswerCloseOnce(approved) ==
  /\ phase = "open" /\ dialog.kind = "close"
  /\ dialog' = NoDialog
  /\ pending' = ~approved
  /\ IF approved THEN Approve(dialog.target) ELSE UNCHANGED <<tree, bypass, phase>>
  /\ UNCHANGED <<used, shell, queue, rooted, renameOpen, threw>>

(* The Completed handler of the gate's dialog. *)
AnswerClose(approved) ==
  /\ phase = "open" /\ dialog.kind = "close"
  /\ dialog' = NoDialog
  /\ pending' = FALSE
  /\ IF approved THEN Approve(dialog.target) ELSE UNCHANGED <<tree, bypass, phase>>
  /\ UNCHANGED <<used, shell, queue, rooted, renameOpen, threw>>

AnswerRename ==
  /\ phase = "open" /\ dialog.kind = "rename"
  /\ dialog' = NoDialog
  /\ renameOpen' = FALSE
  /\ UNCHANGED <<paneVars, queue, rooted, pending, threw, bypass, phase>>

(* App::CloseAllWindows, for quit and close_all_windows: Close() directly, *)
(* with neither the gate nor the bypass. Should the framework post a       *)
(* WM_CLOSE before it closes the window, that message is the action above. *)
CloseAllWindows ==
  /\ phase = "open"
  /\ phase' = "closing"
  /\ UNCHANGED <<paneVars, queue, rooted, dialogVars, bypass>>

Destroy ==
  /\ phase = "closing"
  /\ phase' = "closed"
  /\ tree' = [t \in Tabs |-> {}]
  /\ queue' = <<>>
  /\ UNCHANGED <<used, shell, rooted, dialogVars, bypass>>

PaneStep(p) ==
  \/ \E t \in Tabs : NewPane(t, p)
  \/ \E s \in {"prompt", "busy"} : ShellRuns(p, s)
  \/ ShellExit(p) \/ Keybind(p)

CloseNext ==
  \/ \E p \in Panes : PaneStep(p)
  \/ \E target \in Tabs \cup {Window} : CloseClick(target)
  \/ \E approved \in BOOLEAN : AnswerClose(approved)
  \/ Realise \/ Deliver \/ WmClose \/ AnswerRename \/ CloseAllWindows \/ Destroy

CloseSpec == CloseInit /\ [][CloseNext]_closeVars

-----------------------------------------------------------------------------
(* Properties. *)

(* The kind of value each variable holds. *)
CloseTypeOK ==
  /\ tree \in [Tabs -> SUBSET Panes] /\ used \subseteq Tabs
  /\ shell \in [Panes -> {"unborn", "prompt", "busy", "exited"}]
  /\ queue \in Seq(Requests) /\ Len(queue) <= MaxQueue
  /\ rooted \in BOOLEAN /\ bypass \in BOOLEAN
  /\ pending \in BOOLEAN /\ renameOpen \in BOOLEAN
  /\ dialog \in Dialogs /\ threw \subseteq {"close", "rename"}
  /\ phase \in {"open", "closing", "closed", "crashed"}

(* A command the user runs is ended only when the user said so to a dialog *)
(* about it: a busy pane that leaves the window, or whose window leaves    *)
(* the open phase, is in the scope of the dialog this step approves. Four  *)
(* ways round the dialog are named: a window without an XamlRoot cannot    *)
(* ask; quit and close_all_windows ask nobody; a ShowAsync that throws may *)
(* take the process with it; and a tab that moves keeps its panes alive.   *)
ConfirmedEnd ==
  [][\A p \in Live :
       /\ phase = "open" /\ rooted /\ shell[p] = "busy"
       /\ p \notin Live' \/ phase' # "open"
       => \/ AnswerClose(TRUE) /\ p \in Covered(dialog.target)
          \/ CloseAllWindows
          \/ threw' # {} /\ phase' = "crashed"
          \/ Deliver /\ Head(queue).op = "move"]_closeVars

(* The two flags say which dialog is up. Only a ShowAsync that threw can   *)
(* leave one of them raised without its dialog; the answer to a dialog     *)
(* always lowers its own flag and no other.                                *)
FlagsMatchDialog ==
  /\ dialog.kind = "close"  => pending
  /\ dialog.kind = "rename" => renameOpen
  /\ pending    => dialog.kind = "close"  \/ "close"  \in threw
  /\ renameOpen => dialog.kind = "rename" \/ "rename" \in threw

-----------------------------------------------------------------------------
(* Statements of the documents the program does not keep. *)

(* WindowCloseGate.h: the gate's state is no dialog in flight, or one      *)
(* dialog for one scope.                                                   *)
PendingIsADialog == pending => dialog.kind = "close"

(* docs/FEATURES.md: when the shell process ends, so does its pane. While  *)
(* no close waits for an answer, the pane of an exited shell is about to   *)
(* be closed.                                                              *)
ExitClosesPane ==
  phase = "open" /\ ~pending =>
    \A p \in Live : shell[p] = "exited" =>
      [op |-> "close_pane", pane |-> p] \in {queue[i] : i \in DOMAIN queue}
=============================================================================
