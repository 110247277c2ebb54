----------------------------- MODULE ShimSession -----------------------------
(***************************************************************************)
(* A `wsl` typed in a pane, from the shim on the shell's PATH through the  *)
(* host's pipe server to the session that stands in for the pane, and back *)
(* to the exit code the shell gets (Shim/wsl.cpp, ShimServer, ShimReply,   *)
(* App::SyncShimServer, MainWindow, Tab::InPlaceSession).                  *)
(*                                                                         *)
(* A tab has one pane here; the trees of split tabs are the subject of     *)
(* PaneTree, the confirmation of a close that of WindowClose. Whether a    *)
(* closed tab can be parked depends on the other tabs (UndoPark): either   *)
(* may happen. The WSL pane of shim s is named s.                          *)
(***************************************************************************)
EXTENDS Naturals, Sequences

CONSTANTS
  Shims,     \* every `wsl` that is ever typed
  Shells,    \* the shells of the tabs; a shell also names its tab
  Windows,
  Null,
  Codes,     \* the exit codes of WSL
  MaxQueue   \* bound: closures on the UI thread before a user adds another

(* kNoAnswerExitCode of the shim and kCutSessionExitCode of the host. *)
NoAnswer == 1
Cut      == 1

ASSUME NamesAssumption ==
  /\ Shims \cap Shells = {} /\ Null \notin Shims \cup Shells \cup Windows \cup Codes
  /\ Windows # {} /\ Codes \subseteq Nat
ASSUME MaxQueueAssumption == MaxQueue \in Nat \ {0}

VARIABLES
  shim,      \* what the process of each shim does
  origin,    \* the pane in the shim's environment
  code,      \* the exit code the shim gave its shell
  reply,     \* what the host wrote to the shim's pipe before it closed it
  client,    \* the shim connected to the server's pending pipe instance
  serving,   \* the shim the server thread deals with
  stage,     \* how far it got with it
  server,    \* App::m_shimServer has its thread
  ui,        \* the UI thread waits for that thread to end
  enabled,   \* the wsl-bridge option
  queue,     \* the UI thread's DispatcherQueue
  host,      \* the host process
  home,      \* the window of each tab, or Null once it is torn down
  listed,    \* the tabs their window lists: not parked for an undo
  pane,      \* the pane in each tab's tree
  session,   \* Tab::m_inPlace
  running,   \* the panes whose process runs
  ended      \* how the WSL of a shim ended: its code, and FailedBeforeUse

shimVars   == <<shim, origin, code>>
pipeVars   == <<client, serving, stage>>
serverVars == <<pipeVars, server, ui, enabled>>
tabVars    == <<home, listed, pane, session>>
wslVars    == <<running, ended>>
vars == <<shimVars, reply, serverVars, queue, host, tabVars, wslVars>>

Panes == Shims \cup Shells

NoSession == [overlay |-> Null, parked |-> Null, open |-> FALSE]

NotEnded == [code |-> Null, failed |-> FALSE]

Request(op, p, w) == [op |-> op, pane |-> p, window |-> w]

(* What a shim can find in its pipe: EncodeDone, EncodeRefused without and *)
(* with a message, or the end of file.                                     *)
NoReply   == [kind |-> "none", code |-> 0]
Refused   == [kind |-> "refused", code |-> 0]
Explained == [kind |-> "explained", code |-> 0]
EndOfFile == [kind |-> "eof", code |-> 0]
Done(c)   == [kind |-> "done", code |-> c]

(* MainWindows::FindForPaneId and FindForSurface. A shell that waits for   *)
(* its WSL pane is found as well, a tab that waits for an undo is not.     *)
Owners(p) == {t \in listed : p \in {pane[t], session[t].parked}}

InTree(p) == {t \in listed : pane[t] = p}

(* The UI thread runs one closure or one input event at a time. *)
UIReady == host = "up" /\ ui = "free"

(* ShimReply answers once: it closes the pipe behind its answer. *)
Answered(s, r) == [reply EXCEPT ![s] = IF @ = NoReply THEN r ELSE @]

-----------------------------------------------------------------------------
(* The shim: wmain and AskHost. *)

(* A line typed at a prompt, or in a pane whose tab was closed just now.   *)
Start(s, p) ==
  /\ shim[s] = "idle" /\ p \in running
  /\ shim' = [shim EXCEPT ![s] = "connecting"]
  /\ origin' = [origin EXCEPT ![s] = p]
  /\ UNCHANGED <<code, reply, serverVars, queue, host, tabVars, wslVars>>

(* ConnectToHost: an instance is free, or after some attempts still none. *)
Connect(s) ==
  /\ shim[s] = "connecting" /\ server = "on" /\ client = Null
  /\ shim' = [shim EXCEPT ![s] = "connected"]
  /\ client' = s
  /\ UNCHANGED <<origin, code, reply, serving, stage, server, ui, enabled,
                 queue, host, tabVars, wslVars>>

RunRealWsl(s) == shim' = [shim EXCEPT ![s] = "wsl"]

GiveUp(s) ==
  /\ shim[s] = "connecting" /\ (server = "off" \/ client # Null)
  /\ RunRealWsl(s)
  /\ UNCHANGED <<origin, code, reply, serverVars, queue, host, tabVars, wslVars>>

(* The host may have closed its end before the request is written. *)
Write(s) ==
  /\ shim[s] = "connected"
  /\ \/ /\ reply[s] = NoReply
        /\ shim' = [shim EXCEPT ![s] = "asked"]
     \/ /\ reply[s] # NoReply
        /\ RunRealWsl(s)
  /\ UNCHANGED <<origin, code, reply, serverVars, queue, host, tabVars, wslVars>>

Exit(s, c) ==
  /\ shim' = [shim EXCEPT ![s] = "ended"]
  /\ code' = [code EXCEPT ![s] = c]

(* Fault: end-of-file is taken for a refusal. *)
ReadReplyFallsBack(s) ==
  /\ shim[s] = "asked" /\ reply[s] # NoReply
  /\ \/ reply[s] \in {Refused, EndOfFile} /\ RunRealWsl(s) /\ UNCHANGED code
     \/ reply[s] = Explained /\ Exit(s, NoAnswer)
     \/ reply[s].kind = "done" /\ Exit(s, reply[s].code)
  /\ UNCHANGED <<origin, reply, serverVars, queue, host, tabVars, wslVars>>

(* A refusal with a message is longer than kMaxReplyBytes: the shim stops  *)
(* reading before its newline, and ParseReply takes it for no answer.      *)
ReadReply(s) ==
  /\ shim[s] = "asked" /\ reply[s] # NoReply
  /\ \/ reply[s] = Refused /\ RunRealWsl(s) /\ UNCHANGED code
     \/ reply[s] \in {Explained, EndOfFile} /\ Exit(s, NoAnswer)
     \/ reply[s].kind = "done" /\ Exit(s, reply[s].code)
  /\ UNCHANGED <<origin, reply, serverVars, queue, host, tabVars, wslVars>>

(* OutlastConsoleBreak outlasts a break, not the end of its console. *)
ConsoleClosed(s) ==
  /\ shim[s] \in {"connecting", "connected", "asked", "wsl"} /\ origin[s] \notin running
  /\ Exit(s, Null)
  /\ UNCHANGED <<origin, reply, serverVars, queue, host, tabVars, wslVars>>

-----------------------------------------------------------------------------
(* The server thread: ShimServer::Run and Serve. *)

Stopping == ui = "joining"

(* The next instance exists before this client is dealt with. *)
Accept ==
  /\ host = "up" /\ server = "on" /\ serving = Null /\ client # Null /\ ~Stopping
  /\ serving' = client
  /\ client' = Null
  /\ stage' = "accepted"
  /\ UNCHANGED <<shimVars, reply, server, ui, enabled, queue, host, tabVars, wslVars>>

BeginServe ==
  /\ host = "up" /\ stage = "accepted" /\ ~Stopping
  /\ stage' = "reading"
  /\ UNCHANGED <<shimVars, reply, client, serving, server, ui, enabled,
                 queue, host, tabVars, wslVars>>

(* Fault: the client of the pending instance is left connected. *)
ThreadLeavesClient ==
  /\ host = "up" /\ Stopping /\ stage \in {"idle", "accepted"}
  /\ reply' = [s \in Shims |-> IF s = serving THEN EndOfFile ELSE reply[s]]
  /\ client' = Null /\ serving' = Null /\ stage' = "idle"
  /\ server' = "off" /\ ui' = "free"
  /\ UNCHANGED <<shimVars, enabled, queue, host, tabVars, wslVars>>

(* A stop closes what is connected but not yet served. *)
ThreadEnds ==
  /\ host = "up" /\ Stopping /\ stage \in {"idle", "accepted"}
  /\ reply' = [s \in Shims |-> IF s \in {client, serving} THEN EndOfFile ELSE reply[s]]
  /\ client' = Null /\ serving' = Null /\ stage' = "idle"
  /\ server' = "off" /\ ui' = "free"
  /\ UNCHANGED <<shimVars, enabled, queue, host, tabVars, wslVars>>

Dismiss(r) ==
  /\ reply' = Answered(serving, r)
  /\ serving' = Null
  /\ stage' = "idle"

(* ReadPipeLine within kReadBudgetMs or until a stop, and the refusals     *)
(* that need no window: no line, a line for wsl.exe itself, the line of a  *)
(* shim from another build. A shim that ended may have written its line.   *)
ServeRequest ==
  /\ host = "up" /\ stage = "reading"
  /\ \/ Dismiss(Refused)
     \/ /\ shim[serving] \in {"asked", "ended"} /\ ~Stopping
        /\ Dismiss(Explained)
     \/ /\ shim[serving] \in {"asked", "ended"} /\ ~Stopping
        /\ stage' = "probing"
        /\ UNCHANGED <<reply, serving>>
  /\ UNCHANGED <<shimVars, client, server, ui, enabled, queue, host, tabVars, wslVars>>

(* Fault: the server thread waits for the UI thread to take the request. *)
ProbeWaitsForUI ==
  /\ UIReady /\ stage = "probing"
  /\ queue' = Append(queue, Request("open", serving, Null))
  /\ serving' = Null
  /\ stage' = "idle"
  /\ UNCHANGED <<shimVars, reply, client, server, ui, enabled, host, tabVars, wslVars>>

(* HelperInstalled, and the hop to the UI thread. *)
ProbeDone ==
  /\ host = "up" /\ stage = "probing"
  /\ \/ /\ Dismiss(Explained)
        /\ UNCHANGED queue
     \/ /\ queue' = Append(queue, Request("open", serving, Null))
        /\ serving' = Null
        /\ stage' = "idle"
        /\ UNCHANGED reply
  /\ UNCHANGED <<shimVars, client, server, ui, enabled, host, tabVars, wslVars>>

-----------------------------------------------------------------------------
(* The tabs. *)

(* Fault: the sessions of a tab outlive it, unanswered. *)
TearDownForgetsShim(t) ==
  /\ home' = [home EXCEPT ![t] = Null]
  /\ listed' = listed \ {t}
  /\ running' = running \ {pane[t], session[t].parked}
  /\ UNCHANGED <<pane, session, reply, ended>>

(* Fault: a dropped session counts as a success. *)
TearDownSucceeds(t) ==
  /\ home' = [home EXCEPT ![t] = Null]
  /\ listed' = listed \ {t}
  /\ session' = [session EXCEPT ![t] = NoSession]
  /\ reply' = IF session[t].open THEN Answered(session[t].overlay, Done(0)) ELSE reply
  /\ running' = running \ {pane[t], session[t].parked}
  /\ UNCHANGED <<pane, ended>>

(* TearDownTab and ~Tab: DetachAll frees every surface, and the shim of a  *)
(* dropped session reads end-of-file.                                      *)
TearDownTab(t) ==
  /\ home' = [home EXCEPT ![t] = Null]
  /\ listed' = listed \ {t}
  /\ session' = [session EXCEPT ![t] = NoSession]
  /\ reply' = IF session[t].open THEN Answered(session[t].overlay, EndOfFile) ELSE reply
  /\ running' = running \ {pane[t], session[t].parked}
  /\ UNCHANGED <<pane, ended>>

RestoreParkedPane(t) ==
  /\ pane' = [pane EXCEPT ![t] = session[t].parked]
  /\ session' = [session EXCEPT ![t] = NoSession]
  /\ running' = running \ {pane[t]}
  /\ UNCHANGED <<home, listed, ended>>

ParkTab(t) ==
  /\ listed' = listed \ {t}
  /\ UNCHANGED <<home, pane, wslVars>>

(* RemovePaneByIdApproved on the tab's pane. *)
RemovePane(t) ==
  \/ /\ session[t].overlay = pane[t] /\ session[t].parked # Null
     /\ reply' = IF session[t].open THEN Answered(pane[t], Done(Cut)) ELSE reply
     /\ RestoreParkedPane(t)
  \/ /\ session[t].overlay = pane[t] /\ session[t].parked = Null
     /\ reply' = IF session[t].open THEN Answered(pane[t], Done(Cut)) ELSE reply
     /\ session' = [session EXCEPT ![t] = NoSession]
     /\ \/ pane[t] \in running /\ ParkTab(t)
        \/ /\ home' = [home EXCEPT ![t] = Null]
           /\ listed' = listed \ {t}
           /\ running' = running \ {pane[t]}
           /\ UNCHANGED <<pane, ended>>
  \/ /\ session[t].overlay = Null
     /\ \/ pane[t] \in running /\ ParkTab(t) /\ UNCHANGED <<session, reply>>
        \/ TearDownTab(t)

(* SyncShimServer's callback and OpenWslInPane. A pane that cannot be made *)
(* is refused like one that is not there.                                  *)
OpenWslInPane(s) ==
  \/ /\ reply' = Answered(s, Refused)
     /\ UNCHANGED <<tabVars, wslVars>>
  \/ \E t \in InTree(origin[s]) :
       /\ enabled /\ session[t].overlay # origin[s]
       /\ session' = [session EXCEPT ![t] =
                        [overlay |-> s, parked |-> origin[s], open |-> TRUE]]
       /\ pane' = [pane EXCEPT ![t] = s]
       /\ running' = running \cup {s}
       /\ UNCHANGED <<home, listed, reply, ended>>

(* Fault: the tab goes with its WSL pane, whoever waits behind it. *)
ChildExitedClosesTab(s, w) ==
  \/ /\ \A t \in InTree(s) : home[t] # w \/ session[t].overlay # s
     /\ UNCHANGED <<reply, tabVars, wslVars>>
  \/ \E t \in InTree(s) :
       /\ home[t] = w /\ session[t].overlay = s
       /\ reply' = IF session[t].open THEN Answered(s, Done(ended[s].code)) ELSE reply
       /\ home' = [home EXCEPT ![t] = Null]
       /\ listed' = listed \ {t}
       /\ session' = [session EXCEPT ![t] = NoSession]
       /\ UNCHANGED <<pane, wslVars>>

(* ChildExited: the shim is answered first; a session that failed before   *)
(* it could be used keeps its pane.                                        *)
ChildExited(s, w) ==
  \/ /\ \A t \in InTree(s) : home[t] # w \/ session[t].overlay # s
     /\ UNCHANGED <<reply, tabVars, wslVars>>
  \/ \E t \in InTree(s) :
       /\ home[t] = w /\ session[t].overlay = s
       /\ \/ /\ session[t].parked # Null
             /\ reply' = IF session[t].open THEN Answered(s, Done(ended[s].code)) ELSE reply
             /\ IF ended[s].failed
                THEN /\ session' = [session EXCEPT ![t].open = FALSE]
                     /\ UNCHANGED <<home, listed, pane, wslVars>>
                ELSE RestoreParkedPane(t)
          \/ /\ session[t].parked = Null
             /\ reply' = IF session[t].open THEN Answered(s, Done(ended[s].code)) ELSE reply
             /\ home' = [home EXCEPT ![t] = Null]
             /\ listed' = listed \ {t}
             /\ session' = [session EXCEPT ![t] = NoSession]
             /\ UNCHANGED <<pane, wslVars>>

(* CloseSurfaceByPaneId, once the close is approved. *)
CloseSurface(p, w) ==
  \/ \E t \in InTree(p) : home[t] = w /\ RemovePane(t)
  \/ \E t \in listed :
       /\ home[t] = w /\ InTree(p) = {} /\ session[t].parked = p
       /\ session' = [session EXCEPT ![t].parked = Null]
       /\ running' = running \ {p}
       /\ UNCHANGED <<reply, home, listed, pane, ended>>
  \/ /\ \A t \in Owners(p) : home[t] # w
     /\ UNCHANGED <<reply, tabVars, wslVars>>

Deliver ==
  /\ UIReady /\ queue # <<>>
  /\ queue' = Tail(queue)
  /\ LET r == Head(queue) IN
     \/ r.op = "open"   /\ OpenWslInPane(r.pane)
     \/ r.op = "exited" /\ ChildExited(r.pane, r.window)
     \/ r.op = "close"  /\ CloseSurface(r.pane, r.window)
  /\ UNCHANGED <<shimVars, serverVars, host>>

(* The close_surface keybind, or a key in a pane whose process ended. *)
CloseKey(p) ==
  /\ UIReady /\ Len(queue) < MaxQueue
  /\ \E t \in InTree(p) : queue' = Append(queue, Request("close", p, home[t]))
  /\ UNCHANGED <<shimVars, reply, serverVars, host, tabVars, wslVars>>

(* CloseTabByItem. *)
CloseTab(t) ==
  /\ UIReady /\ t \in listed
  /\ \/ ParkTab(t) /\ UNCHANGED <<session, reply>>
     \/ TearDownTab(t)
  /\ UNCHANGED <<shimVars, serverVars, queue, host>>

UndoClose(t) ==
  /\ UIReady /\ home[t] # Null /\ t \notin listed
  /\ listed' = listed \cup {t}
  /\ UNCHANGED <<shimVars, reply, serverVars, queue, host, home, pane, session, wslVars>>

Expire(t) ==
  /\ UIReady /\ home[t] # Null /\ t \notin listed
  /\ TearDownTab(t)
  /\ UNCHANGED <<shimVars, serverVars, queue, host>>

(* A tear-out, or a merge into another window. *)
MoveTab(t, w) ==
  /\ UIReady /\ t \in listed /\ w # home[t]
  /\ home' = [home EXCEPT ![t] = w]
  /\ UNCHANGED <<shimVars, reply, serverVars, queue, host, listed, pane, session, wslVars>>

-----------------------------------------------------------------------------
(* The processes in the panes, the option, and the host. *)

(* A callback goes to the window that owns the pane now, or to nobody. *)
Notify(op, p) ==
  IF Owners(p) = {} THEN UNCHANGED queue
  ELSE \E t \in Owners(p) : queue' = Append(queue, Request(op, p, home[t]))

(* WSL ends: OnShowChildExited. A code other than 0 within                 *)
(* abnormal-command-exit-runtime is a session that failed before use.      *)
WslEnds(s, c, failed) ==
  /\ host = "up" /\ s \in running
  /\ failed => c # 0
  /\ running' = running \ {s}
  /\ ended' = [ended EXCEPT ![s] = [code |-> c, failed |-> failed]]
  /\ Notify("exited", s)
  /\ UNCHANGED <<shimVars, reply, serverVars, host, tabVars>>

(* A shell ends: OnCloseSurface. *)
ShellEnds(p) ==
  /\ host = "up" /\ p \in Shells \cap running
  /\ running' = running \ {p}
  /\ Notify("close", p)
  /\ UNCHANGED <<shimVars, reply, serverVars, host, tabVars, ended>>

(* A reload that changes wsl-bridge, and SyncShimServer. Turning it off    *)
(* waits for the server thread; Start may fail.                            *)
ReloadConfig ==
  /\ UIReady
  /\ enabled' = ~enabled
  /\ \/ /\ enabled /\ server = "on"
        /\ ui' = "joining"
        /\ UNCHANGED server
     \/ /\ enabled /\ server = "off"
        /\ UNCHANGED <<server, ui>>
     \/ /\ ~enabled
        /\ server' \in {"on", "off"}
        /\ UNCHANGED ui
  /\ UNCHANGED <<shimVars, reply, pipeVars, queue, host, tabVars, wslVars>>

(* The process ends, in order or not: every pipe it held is broken.        *)
HostEnds ==
  /\ host = "up"
  /\ host' = "gone" /\ server' = "off" /\ ui' = "free"
  /\ client' = Null /\ serving' = Null /\ stage' = "idle"
  /\ queue' = <<>>
  /\ home' = [t \in Shells |-> Null] /\ listed' = {}
  /\ session' = [t \in Shells |-> NoSession]
  /\ running' = {}
  /\ reply' = [s \in Shims |-> IF shim[s] \notin {"idle", "connecting"} /\ reply[s] = NoReply
                               THEN EndOfFile ELSE reply[s]]
  /\ UNCHANGED <<shimVars, enabled, pane, ended>>

-----------------------------------------------------------------------------
Init ==
  /\ shim = [s \in Shims |-> "idle"]
  /\ origin = [s \in Shims |-> Null] /\ code = [s \in Shims |-> Null]
  /\ reply = [s \in Shims |-> NoReply]
  /\ client = Null /\ serving = Null /\ stage = "idle"
  /\ enabled \in BOOLEAN
  /\ server = IF enabled THEN "on" ELSE "off"
  /\ ui = "free" /\ queue = <<>> /\ host = "up"
  /\ home \in [Shells -> Windows] /\ listed = Shells
  /\ pane = [t \in Shells |-> t]
  /\ session = [t \in Shells |-> NoSession]
  /\ running = Shells
  /\ ended = [s \in Shims |-> NotEnded]

ShimStep(s) ==
  \/ \E p \in Panes : Start(s, p)
  \/ Connect(s) \/ GiveUp(s) \/ Write(s) \/ ReadReply(s) \/ ConsoleClosed(s)

ServerStep == Accept \/ BeginServe \/ ThreadEnds \/ ServeRequest \/ ProbeDone

TabStep(t) ==
  \/ CloseTab(t) \/ UndoClose(t) \/ Expire(t)
  \/ \E w \in Windows : MoveTab(t, w)

Next ==
  \/ \E s \in Shims : ShimStep(s)
  \/ ServerStep
  \/ Deliver \/ ReloadConfig \/ HostEnds
  \/ \E p \in Panes : CloseKey(p) \/ ShellEnds(p)
  \/ \E t \in Shells : TabStep(t)
  \/ \E s \in Shims, c \in Codes, failed \in BOOLEAN : WslEnds(s, c, failed)

Spec == Init /\ [][Next]_vars

(* The server thread runs and the distribution answers the probe; the      *)
(* DispatcherQueue serves its closures in order, so a reload now and then  *)
(* cannot keep one waiting for ever; a shim goes on. What people, shells   *)
(* and WSL do is not fair.                                                 *)
FairSpec ==
  /\ Spec
  /\ WF_vars(ServerStep) /\ SF_vars(Deliver)
  /\ \A s \in Shims : WF_vars(Write(s)) /\ WF_vars(ReadReply(s))

-----------------------------------------------------------------------------
(* Properties. *)

Sessions == [overlay : Shims \cup {Null}, parked : Panes \cup {Null}, open : BOOLEAN]

(* The kind of value each variable holds. *)
TypeOK ==
  /\ shim \in [Shims -> {"idle", "connecting", "connected", "asked", "wsl", "ended"}]
  /\ origin \in [Shims -> Panes \cup {Null}] /\ code \in [Shims -> Nat \cup {Null}]
  /\ reply \in [Shims -> [kind : {"none", "refused", "explained", "eof", "done"}, code : Nat]]
  /\ {client, serving} \subseteq Shims \cup {Null}
  /\ stage \in {"idle", "accepted", "reading", "probing"}
  /\ server \in {"on", "off"} /\ ui \in {"free", "joining"} /\ enabled \in BOOLEAN
  /\ queue \in Seq([op : {"open", "exited", "close"}, pane : Panes, window : Windows \cup {Null}])
  /\ host \in {"up", "gone"}
  /\ home \in [Shells -> Windows \cup {Null}] /\ listed \subseteq Shells
  /\ pane \in [Shells -> Panes] /\ session \in [Shells -> Sessions]
  /\ running \subseteq Panes
  /\ ended \in [Shims -> [code : Codes \cup {Null}, failed : BOOLEAN]]

(* Who holds the host's end of a shim's pipe: the listening instance, the  *)
(* server thread, a queued request, a session that is yet to be answered.  *)
Held(s) ==
  \/ s \in {client, serving}
  \/ \E i \in DOMAIN queue : queue[i].op = "open" /\ queue[i].pane = s
  \/ \E t \in Shells : session[t].overlay = s /\ session[t].open /\ home[t] # Null

(* ShimReply.h: a session that is dropped closes the pipe. A connected     *)
(* shim that has no answer yet is held by exactly one owner that will give *)
(* it one, and nobody holds a pipe that was closed.                        *)
ShimHeld ==
  \A s \in Shims :
    /\ shim[s] \in {"connected", "asked"} /\ reply[s] = NoReply => Held(s)
    /\ Held(s) => reply[s] = NoReply

(* Shim/wsl.cpp: once a session may have run, starting a second WSL would  *)
(* be wrong. The real wsl.exe runs only for a line that got no session.    *)
OneWsl ==
  \A s \in Shims : shim[s] = "wsl" => s \notin running /\ ended[s] = NotEnded

(* The exit code of the typed `wsl` is the one WSL ended with, or 1 for a  *)
(* session that was cut short or never answered: in particular a shell     *)
(* sees success only from a session that succeeded.                        *)
CodeIsTheSessions ==
  \A s \in Shims : shim[s] = "ended" => code[s] \in {Null, NoAnswer, Cut, ended[s].code}

(* OpenWslInPane parks a live shell outside every tree. Whatever ends the  *)
(* session, every process that still runs is in a pane that a tab shows or *)
(* will give back: no shell and no WSL is left running where nobody can    *)
(* reach it.                                                               *)
NoOrphan ==
  \A p \in running : \E t \in Shells :
    home[t] # Null /\ p \in {pane[t], session[t].parked}

(* ShimServer::Serve: a request that never reaches a window is refused,    *)
(* never left hanging. Whatever the stops and reloads, a shim that         *)
(* connected gets a session, an answer or end-of-file.                     *)
NeverLeftHanging ==
  \A s \in Shims :
    shim[s] = "connected" ~> (reply[s] # NoReply \/ \E t \in Shells : session[t].overlay = s)

(* SyncShimServer: turning the option off stops the server and no more;    *)
(* the UI thread gets past the join whatever the server is busy with.      *)
JoinEnds == ui = "joining" ~> ui = "free"

-----------------------------------------------------------------------------
(* Statements of the comments the program does not keep. *)

(* ShimReply.h: the host will not open a session; the shim runs the real   *)
(* wsl.exe, after it has printed the line it was given, if any.            *)
RefusalRunsWsl ==
  \A s \in Shims :
    shim[s] = "ended" /\ reply[s] \in {Refused, Explained} => code[s] = Null
=============================================================================
