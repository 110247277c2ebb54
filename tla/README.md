# A TLA+ model of GhosttyWin32

GhosttyWin32 is a WinUI 3 host for libghostty: windows with tabs, tabs with
split panes, each pane a libghostty surface with a shell behind it. The
terminal itself (VT parser, renderer, screen) is libghostty's; what this
repository adds is the *lifetime, arrangement and wiring* of those surfaces.
That is what the modules here model.

## The system

| Component | Code | State | Operations | Interacts with | Modules |
| --- | --- | --- | --- | --- | --- |
| Tab strip, panels, undo stack | `App/Windows/MainWindow.xaml.cpp`, `App/Tabs/ParkedTabs.h`, `Tabs.h`, `PressedTab.h` | TabView items and selection, the panels under AppContent, `m_tabs`, the parked tabs with their timers, the redo candidates, the App's press slot | create, first frame, select, reorder, close, undo, redo, timer tick, release and adopt, shell exit, reload, window close | libghostty callbacks, dispatcher timers, the close gate, other windows | `UndoPark` |
| Close gate | `App/Windows/WindowCloseGate.*`, its callers in `MainWindow` | the pending flag, the bypass flag, the rename flag, the one ContentDialog of the XamlRoot | submit, answer, WM_CLOSE, rename prompt | keys and actions through the DispatcherQueue, shells that end | `WindowClose` |
| Pane tree | `Core/Panes`, `App/Tabs/SplitPanel.*`, `App/Tabs/Tab.h` | the Branches, zoom, the panel's children and dividers, the active pane, in-place sessions | split, close, replace, zoom, goto, drag a divider | `MainWindow`, XAML focus | `PaneTree` |
| Focus | `TerminalControl`, `App/Terminal/EditContext.*`, `EngagementState.h`, `MainWindow` | XAML's focus, the active pane, the engaged context, `m_rendererFocus` | focus events, clicks, dialogs, search bar, splits, closes, activation | the OS's text input, libghostty | `PaneFocus` |
| Terminal input | `App/Terminal/MouseInput.h`, `ImeSession.h`, `Core/Input`, `ImeBuffer.h` | the button ledger, the capture, the composition buffer | pointer events, text updates, focus, copy gestures, detach | OS, libghostty | `TerminalInput` |
| Surface life | `App/Tabs/TabFactory.h`, `App/Terminal/SurfaceHost.*`, `App/Display` | composition handle, attach request, swap chain context, size and scale | make, first frame, swap chain changed, resize, rescale, detach | the renderer thread, composition | `SurfaceLife` |
| WSL bridge | `src/Shim/wsl.cpp`, `App/Wsl`, `Core/Wsl` | the pipe instances, the request being served, the session of a pane, the shim's wait | accept, serve, probe, open, finish, stop | a console process, the pipe thread, the UI thread | `ShimSession` |
| Tear-out and merge | `App/Tabs/TabDrag.h`, `App/Windows/TearOut.*`, `MainWindows.*`, `App.xaml.cpp` | the windows of the App, the drag with its two lifetimes | drag, drop, drop outside, move_tab_to_new_window, merge, present | all windows | `TabMove` |
| Actions and callbacks | `Core/Ghostty/Actions`, `CallbackDispatcher.cpp`, `App/Ghostty/MainWindowRuntime.cpp`, `Core/Ghostty/App.h` | the registered windows, the liveness gate, the queued closures and what they capture, the configs | some sixty actions, wake-up, close_surface, reload, CONFIG_CHANGE | renderer, worker and UI threads | `CallbackRouting` |
| Window chrome | `WindowDecorations.h`, `BackgroundOpacity.h`, `Fullscreen.h`, `CellSize.h`, `Core/Win32/NativeWindow.*`, `Backdrop` | tags and overrides of each window, what it wears, the subclass | toggles, reload, recolour, tear-out, cell size | the shared config, panes | `WindowChrome` |
| Command palette | `App/Windows/CommandPalette.xaml.*` | entries, cached rows, the list, staleness | reload, pre-warm, open, type, run, close | config, focus | `Palette` |
| Application | `App/App.xaml.cpp`, `main.cpp` | the windows, the pipe server, the one libghostty app | launch, new window, reload, quit | everything | in `TabMove`, `CallbackRouting`, `WindowChrome`, `ShimSession` |
| The rest | clipboard, encodings, crash guard, packaging, scripts, CI | | | | none |

What makes this code hard to test: almost every operation is one turn of the
UI thread, but the turns come from many sources in an order nobody chooses (user
input, WM_ messages, libghostty callbacks through the DispatcherQueue, timers,
dialogs that complete later, focus events that arrive after the fact, a renderer
thread, a parser thread, a pipe server thread). State is spread over
containers that must agree (strip item, `Tab`, panel, surface, redo entry),
raw pointers point into trees that are rebuilt, and a shell that is parked in a
place nobody shows can be leaked or lost without any visible error. The
individual hazards, each with its line and the properties that watch it, are
the `hazards` of `PROJECT.json`. The properties that make each component
correct are named in the table of runs and stated beside their definitions.

## Modules

    TabLife        what a window promises about its tabs         (abstract)
    UndoPark       strip, panels, tabs, undo stack, press slot   implements TabLife
    WindowClose    close gate, dialogs, queue of closes
    PaneRow        what a tab promises about its panes           (abstract)
    PaneTree       tree, panel, active pane, in-place sessions   implements PaneRow
    PaneFocus      XAML focus, active pane, edit context, activation
    TerminalInput  mouse ledger and capture, composition buffer of one surface
    SurfaceLife    handle, attach request, renderer callbacks, size and scale
    ShimSession    shim, pipe server, UI queue, sessions
    TabMove        tabs dragged and torn out between the windows of the App
    CallbackRouting  libghostty's callbacks, queued closures, the life of a config
    WindowChrome   what each window looks like across reloads and moves
    Palette        entries, rows and list of the command palette
    *Proofs        theorems about UndoPark, PaneTree, WindowClose,
                   TerminalInput, SurfaceLife, ShimSession, TabMove,
                   PaneFocus, Palette, CallbackRouting and WindowChrome
    DataLemmas     lemmas about sequences and recursive functions
    MC*            the constants TLC needs for the above

The modules divide the program by concern and name each other in their headers:
`UndoPark` takes a close that has been approved, `WindowClose` takes closes up
to the removal of panes, `PaneTree` opens one tab up, `PaneFocus` says which of
its panes is typed into, `ShimSession` follows one session through all of them
with a tab of one pane, `TerminalInput` and `SurfaceLife` look inside one
surface, `TabMove` and `WindowChrome` put several windows side by side, and
`CallbackRouting` has the queue that all of them are driven from.

### UndoPark

One window's tabs. `strip`, `selected` and `visible` are the TabView and the
Visibility of the panels; `tabs` is `m_tabs`; `panels` are the children of
AppContent; `attached` the surfaces that are alive; `parked` and `redo` are the
two vectors of `ParkedTabs`, with the time each timer has left. A tab that a
merge or a tear-out took is `away` and may come back. `ParkTab` and
`TearDownTab` are the two ends of a close exactly as in `MainWindow`; the
callers differ in their guards (`CloseTabByItem`, a pane close, a queued
`close_surface`, `Redo`). `Unlist` contains TabView's own reaction to losing the
selected item.

Assumed of the platform: `DispatcherQueueTimer::Stop` keeps a tick from being
delivered; assigning `SelectedItem` an item that is not listed selects nothing;
a TabView that loses its selected item selects another. A failed
`TabFactory::Make` leaves no trace; the driver-fault path, which hides the
window and leaves, is not modelled. Time is counted in units; `undo-timeout`
takes the values of `Timeouts`, and only the order of ticks matters.

### WindowClose

`tree` maps a tab to its panes, `shell` says whether libghostty would ask for
confirmation, `queue` is the DispatcherQueue restricted to requests that a close
depends on. `Submit` is `WindowCloseGate::Submit`: dropped while pending,
approved at once without a running command or without a XamlRoot, else a
dialog. A XamlRoot shows one dialog: a second `ShowAsync` throws, which only
the WM_CLOSE subclass procedure catches. Elsewhere the exception leaves the
handler; the debug build marks it handled (`App.xaml.cpp:61`) and the release
build ends, so both outcomes are possible steps. A dialog takes pointer and
keyboard, but not WM_CLOSE and not what is queued already. `threw` is a history
variable that remembers which flag was raised by a `ShowAsync` that failed.

### PaneTree

The heap of Branches with parent pointers, and every raw pointer the panel and
the tab keep into it. `Alloc` is the allocator: in the run it returns the lowest
free addresses, so a freed address is handed out again at once, which is how a
stale pointer would be taken for a live one. `Reshape` stands for
`SyncChildrenFromTree`, with its diff (`Reconciled`) computed as the code
computes it, because the order of the panel's children and the fact that
survivors are never re-parented matter (issue #192). `SplitPane` and
`ActivateCreated` are two steps as `SplitActivePane` takes them, so invariants
speak of the state between them too, where they should. The layout (ratios,
sizes, rectangles) is left out; an arrow of goto_split may reach any other pane.

### PaneFocus

One window, several tabs. `focus` is XAML's, `events` the GotFocus and LostFocus
it still owes (an event keeps its place but is owed to nobody once its element
has left the tree, `Owed`), `engage` each pane's `EngagementState`, `typed` the context the OS
types into, `lib` the surfaces libghostty takes for focused, `told` is
`m_rendererFocus`. The actions are the clicks, the search bar, dialogs, splits,
closes, zoom, goto_split, notifications, in-place sessions and the activation of
the window, each with the focus calls its handler makes; `queued` has the focus
and the restore that the code defers. `astray` remembers two lapses of the code
(below, "What the models say") after which the properties make no claim; TLC
stops there.

### SurfaceLife

One control. The UI thread and libghostty's renderer share the attach request
and the swap chain context; `Detach` is two steps, the flags and then the free
that joins the renderer, so that both of its callbacks may fall between. Sizes
are numbers and pixels are products, without rounding. Events of the panel are a
queue. `stage` "gone" with a handle that was never opened is a `MakePane` that
failed.

### ShimSession

Two processes and three threads: the shim (`Start`, `Connect`, `Write`,
`ReadReply`, ...), the server thread (`Accept`, `BeginServe`, `ServeRequest`,
`ProbeDone`, `ThreadEnds`) and the UI thread (`Deliver` and the user's closes,
undo, moves and reloads). `reply[s]` is what the host wrote before it closed the
pipe of shim `s`; a session's `open` flag is a non-empty `onFinished`. A request
or a callback holds the window it was sent to, as the closures do, so a tab that
moves in between is found or not found as in the code. `HostEnds` may happen at
any time.

### TerminalInput

One surface. For the mouse, `held` is what the user does, `ledger` is
`MouseButtonLedger`, `heard` what libghostty was told, and `drops` the queued
`ReleasePointerCapture` calls; `OnPress` to `OnCanceled` are the transitions of
`Core/Input/MouseTransition.h` and `CarryOut` is `MouseInput::CarryOut`. For the
text, `doc` and `comp` are the text store as the OS keeps it, `buffer`, `base` and
`composing` are `ImeBuffer`, and each action is one event of `EditContextHandlers`.
`Detach` carries out the order of `SurfaceHost::Detach`: buffer and ledger first,
the context after them.

Assumed of the platform: one mouse, whose `CapturePointer` succeeds;
`ReleasePointerCapture` raises `PointerCaptureLost` inside the call, as the code
notes; a context that gets the focus is asked for its text and caret; a
composition starts at the end of that text, edits stay inside it, and losing the
focus completes it. `strayed` remembers text that came outside a composition:
`ImeBuffer` keeps it without committing it, so from then on its positions and
those of the OS differ, and the properties of the buffer leave it out.

### TabMove

The App's windows and what moves between them. A window goes through the phases
of `phase`; `windows` is what the App tracks (from creation to `Closed`),
`listed` what `MainWindows` knows (from the first `Activated` to the
destructor), and `hosts` are the windows made for a torn-out tab. A tab is in
three containers, `items`, `tabs` and `panels`, and `HandOver(s, d, t, n)` is
`ReleaseTornOutTab` and `AdoptTornOutTab` as far as the first `n` of their
calls: `n = Whole` is the move that works, every smaller `n` one that throws
there and is caught by `TearOut::ToNewWindow`, or by the handler of the drop.
Between `Extract` and `Add` the `Tab` is a local of the move. `asked`, `hurt` and
`stray` are history: tabs that were closed, tabs of moves that threw half way,
windows such a move left behind. The check of an emptied window is queued
(`checks`) and looks again when it runs.

The two lifetimes of `BasicTabDrag` are `inFlight`, which ends with the drag, and
`item`, which a drop outside takes. The platform's own drag is `drag`. Assumed of
it: OLE's drag is modal, so no header is pressed during one; a drag begins on
the header that was pressed, but the press may not have been recorded;
`TabDragCompleted` and `TabDroppedOutside` come back to back; a strip accepts a
drop only while a tab is in flight. A drag does not keep tabs and windows from
being closed by their shells, by callbacks or by other windows' queues, and every
one of these may come at any time. Any call of a move into WinUI may throw.
Strips are sets here, since their order is `UndoPark`'s subject.

### CallbackRouting

`MainWindowRuntime` and `CallbackDispatcher` up to the closures they leave in the
DispatcherQueue. A closure is a record of what it captured: a window, an address
of a surface, a PaneId, a config. `Addrs` is smaller than the panes ever made, so
libghostty reuses addresses. `alive` is the gate of `Actions`; `GatedOps` are the
closures behind it. Four kinds are not: a hard reload, a soft reload, the closure of
`close_surface` and the wake-up of a worker thread. Each uses the window it was
posted for without asking whether it still exists, which is what the run
`stale_window` shows.
Every handle of a config is followed from allocation to its owner.

A close that comes from a surface runs the whole of `CloseSurfaceByPaneId`: the
window must list the pane, and then it meets the window's close gate. `SubmitClose`
is the gate's outcomes: dropped while a dialog is up (the pane is `refused`, if its
shell had exited), asked about, or carried out. Here the gate is only whether a
dialog is up (`asking`), and whether a close is asked about is a choice, because
that depends on the commands in its scope, which are `WindowClose`'s subject
together with the flags. `exited` are the panes whose `close_surface` came because
the shell ended, `asked` those a key asked to close. A shell that stands in for a
parked one (an in-place session) is followed by `ShimSession`. What an action does
to tabs, panes or chrome is in the other modules; the clipboard callbacks, what is
answered to libghostty, and a tick already running are left out.

### WindowChrome

What every window wears. `config` is one for all windows and reaches each by a
closure of its own (`reports`); a closure names its reload, those of one reload
come in any order and before those of the next, and a window that closes takes its
own with it, as the gate of `Actions` does. `told` and `latest` are history and say
which windows have heard of the last reload. `Repaint` is the whole of
`ApplyBackgroundOpacityAppearance`. Tabs open, split, park and move with the
underlays they have.

### Palette

The list names entries by index. `stale` is `m_listStale`, `idle` the closures of
`SetEntries`. Which rows a query finds is a choice, since `FuzzyMatch` has no
state.

## Runs

| Run | Instance | Shows |
| --- | --- | --- |
| `undo_park` | 3 tabs, timeout 1, reloaded to 0 and back before the third tab is made | containers and strip agree, surface ownership, one visible panel, the sliding window, redo candidates, press slot, and `TabLife` implemented |
| `shim_session` | 2 shims, 1 shell, 2 windows, codes 0 and 3, queue of 2 | one holder and one answer per shim, never two WSLs, the right exit code, no orphaned process |
| `live` | 2 tabs, timeouts 0 and 1; 2 shims, 1 shell, 1 window, queue of 1; fair | a parked tab leaves the stack when the user stops closing; no shim hangs, turning the option off ends |
| `callbacks` | 2 windows, 2 panes, 2 addresses, queue of 2, 2 reloads, 1 edit, 8 actions | no gated closure outlives its window, every config has one owner, a reload settles, an exit closes its pane unless the window does not list the pane or the gate is busy, a close ends only a pane whose shell exited or whose close was asked for |
| `terminal` | 3 buttons, 2 characters, 4 in the store; 3 scales, 3 sizes, 2 events; 2 tabs, 3 panes, queue of 2 | input: no phantom drag, the buffer is what the OS composes, only whole compositions are sent; surface: nothing dead is used, size and scale follow the panel; close gate: a running command ends unasked only in four named ways, flags follow dialogs |
| `moves` | 2 windows, 3 tabs; 3 panes, 2 tabs, 1 late event, 2 outstanding; 2 actions, 3 entries, 2 rows, 2 edits | one home per tab, nothing lost but by a close or a failed move, no window left over, a drag moves what it grabbed; the OS types where the focus is and the active pane follows; a fresh list runs what it shows |
| `views` | 3 panes, 6 addresses; 2 windows, 3 tabs, 2 panes, 2 reloads, 1 toggle | live pointers, panel in step with the tree, surfaces held, no survivor re-parented, a shell returns to its slot, `PaneRow` implemented; each window wears and snaps as asked |
| `stale_window` | as `callbacks` | violated: a closure outside the gate uses a destroyed window |
| `pending_is_a_dialog` | 1 tab, 2 panes | violated: Alt+F4 over the rename prompt wedges the gate |
| `exit_closes_pane` | 1 tab, 2 panes, queue of 2 | violated: the exit of a shell that meets an open dialog is dropped, and its pane stays |
| `refusal_runs_wsl` | 1 shim | violated: an explained refusal is too long for the shim's buffer |
| `row_is_run` | 2 actions | violated: a reload under an open palette makes a row run another entry |

Side by side. `terminal`, `moves`, `views` and `live` check two or three modules in
one run: `MCTerminal`, `MCMoves`, `MCViews` and `MCLive` compose them on disjoint variables,
`part` says which one moves in a behaviour, and the others stay in one fixed
initial state. That state is symmetric in every name, so the symmetry sets stay
sound although one set of names serves several parts. A property of an idle part
is about its initial state and claims nothing. `MCCallbackRouting` has one
module and three kinds of behaviour, all over windows and panes that come and go:
the actions and wake-ups, the exits and closes with the gate, or the configs. What
the product would add is covered by the proofs, which need no such split.

Bounds. Three tabs let one tab be closed while another is parked and a third is
selected, which is the least that distinguishes newest from oldest on the undo
stack with a tab left to keep the window open. Timeout 1 lets a close fall
between two ticks; 0 turns the undo off, and a reload from one to the other may
find a tab parked already. Bounding reloads by the tabs made (`EarlyReload`) keeps
the run short; `live` and the proofs have no such bound. Three panes give a tree with an inner split on either side; six
addresses are one more than such a tree needs, so a replacement can be built
before the old Branch is freed, and the allocator of the run returns the lowest
free ones, so that freed addresses are reused at once. Two shims are
needed for one on the pending pipe instance while another is served; a `wsl`
typed inside a WSL pane's own window is refused by the session lookup and also
occurs. `MaxQueue` bounds only what users and callbacks add: callbacks of
processes that end are always queued, and there are finitely many. Two reloads
let the second overtake the first. Two characters per composition
are the least that gives an edit a place before, inside and after the text, and
four in the store let a second composition start behind a committed first one;
the left, the right and one other button are all the transitions tell apart.
Scale 0 is a panel that composition has not picked up, and the root has one of
the other two, so the switch from one to the other occurs. The user acts
while at most one late focus event is pending, which is enough for a click to
fall between a focus call and its event, and each action adds up to two of its
own. Open search bars, activations not yet raised and closures that wait are
never more than two together (`Outstanding`), which keeps the run short and still
lets any two of them meet; the proofs have no such bound. The
guards with `MaxDoc`, `MaxDrops`, `MaxEvents` and `MaxQueue` only keep the runs
finite, and the proofs hold for any bound. In `TabMove` the sets of windows and
tabs ever made are the bounds. Two windows are a source and a target that can
also be a host, and three tabs let a source keep one and lose one while the
target has its own.

`CHECK_DEADLOCK FALSE` is set because a closed window, a tab that is gone and a
host that has ended do stop, a surface that is detached with no button held
has nothing more to hear, and a palette whose edits are used up only answers
keys.

Fairness. `UndoPark`: the clock runs, a due timer ticks, a queued close is
delivered; nothing is assumed of the user. `ShimSession`: the server thread is
scheduled (which includes that the distribution answers the probe:
`HelperInstalled` waits without limit, and a distribution that hangs would
freeze a UI thread that turns the option off), the shim goes on once it can, and
the DispatcherQueue is served in order. The latter is strong fairness because
the UI thread is repeatedly unavailable while it joins the server thread. `MCLive`
asks for the fairness of a module only in the behaviours in which that module moves.

## What is proved

Seven proof modules, with `DataLemmas` beside them, hold theorems about eleven
modules; every one is for any value of the constants.

`UndoParkProofs` proves the type invariant and the safety invariants of
`UndoPark`: `ContainersAlwaysAgree` says that strip, `m_tabs`, panels and parked
tabs agree, and the others are those of the run. They are not inductive one by
one, so `IInv` takes them together with `Homes`: every tab that the window lists,
has parked or gave away was born, and a tab that is away is neither listed nor
parked. Without it a new tab could already be owned and an adopted tab could
already be parked. The proof goes operation by operation; lemmas about
`RemoveAt`, `InsertAt` and `Append` on sequences without repetition carry the
strip and the undo stack, and one lemma each for `ParkTab` and `TearDownTab`
serves the five operations that end in them. It rests on the two named
assumptions of `UndoPark` and on the platform assumptions above, which are built
into the actions.

The same module proves that `UndoPark` implements `TabLife`: `LifeSteps` maps
every step to one of `TabLife` or to none. The stack of `TabLife` is the tabs of
the entries, and the lemmas about `TabsOf` carry `RemoveAt`, `Front` and the
re-armed `Append` over to it; `LifeCloses` covers both ends of a close. A window
that closes is the delicate case: `SurfaceOwned` says nothing of it, and
`NoStray`, that no surface is without an owner in any phase, is what makes its
destruction end exactly the tabs it still has.

`PaneTreeProofs` proves the three invariants of the `views` run about `PaneTree`,
for any number of panes and addresses and for every allocator that returns free
addresses (`AllocAssumption`), so also for one that hands a freed address out
again at the worst moment. They speak of walks, which are recursive over a heap
of pointers, so the invariant is not stated with walks but link by link. `Tree`
says that the links go down (a depth that grows from a split to its children,
`Grounded`), that two children are different and name their parent (`Kin`), that
every Branch but the root is a child (`ChildOf`), and that no two have one pane.
The first part of the module shows what follows for a walk: the recursion ends
(`WalkExists`), the subtrees of a split share nothing (`Apart`), and the walk from
the root meets every Branch once (`TreeCovered`; a Branch it missed, as high as
there is one, would have a parent that it meets). The second part is the diff of
`SyncChildrenFromTree`: `ReconciledIs` says that it arrives at what it is given
whatever the panel showed before, because after i places the first i are right
and the rest is what is left to place (`Agrees`). The third carries `Tree` through
`ReplacePane` and `RemovePane` (`ReplacedTree`, `CollapsedTree`), where the new
links are `Grafted` and `Pruned`; it needs that what is put in is new, which is
what the allocator promises, and that a pane put in is not there already, which
is where `SurfacesHeld` comes in. `IInv` adds `Pointers`, the raw pointers of
`SplitPanel` and `Tab`, and one lemma for each operation.

`DataLemmas` has what these proofs and those of `UndoPark` share: where elements
are after `RemoveAt` and `InsertAt`, and that a recursive function on the natural
numbers exists (`Recursion`). There is no induction principle to instantiate, so
the lemmas that need one take the least number for which they fail (`Least`).

`TerminalProofs` has the three modules of the `terminal` run. Of `WindowClose` it
proves the type, `FlagsMatchDialog` and, as an action
property, `ConfirmedEnd`. That judges every step in which a busy pane leaves the
window or its window leaves the open phase, whatever the step is, and names the
four ways round the dialog: a window without a XamlRoot, `CloseAllWindows`, a
`ShowAsync` whose exception ends the process, and a move, which ends nothing.
`CloseInv` is the first two. `ApproveEnds` is the lemma
that an approved close ends no pane outside its scope, also when the last tab
takes the window along; `SubmitKeeps` then splits `Submit` into the request that
is dropped, the one that is carried out because nothing in its scope runs, and
the two ways of asking. That a target is of one kind only is `TargetsAssumption`.

Of `TerminalInput` it proves the properties of the input half of `terminal`, and
that the capture is held behind every outstanding press and the preedit is the
composition. The invariant has a half for the mouse and one
for the text. The mouse's half adds to the properties that a detached surface
has an empty ledger: without it a release that `SurfaceHost` ignores would leave
a button listed. It also shows why the capture matters: a release outside the
panel is only heard because `CaptureBacksPresses` holds. The text's half adds
that the buffer composes exactly while the OS does, that the OS composes only in
an engaged context of a live surface, and that a composition ends where the
text store ends. `UpdateIsSplice` is the lemma about
`ImeBuffer::applyTextUpdate`: whatever range it is given the result is a text,
and a range inside the composition is replaced at its own place.

Of `SurfaceLife` it proves `NothingDeadUsed` and `FollowsPanel`. `Stages` says
what each stage of the control holds, `RequestSafe` that a request nobody
cancelled finds the handle open, `ScaleKept` that the matrix follows the
published scale and that one follows the panel unless a scale event is still to
come, `SizeKept` that the last event carries the panel's size or will read it:
this is why the order of the two events does not matter. The only arithmetic,
that a product of positive numbers is positive, is in two lemmas. It assumes
that scales and sizes are natural numbers (`SizesAssumption`).

`ShimSessionProofs` proves the type and the four safety properties of
`shim_session`, for any number of shims, shells and windows. The life of a request
is in `Pipe(s)`: while it waits, in exactly one place (`OnePlace`), it has no answer
and no session; once it was given a session, for ever after, it is never refused;
a session that is still open has not answered; and a shim without an answer waits
or has a session. `Given` remembers a session through what is left of it (the
process, its end, the tab). `QueueOK` says that a request is queued once and that
the news of an end comes after it, `TabsOK` that a pane stands in for one shell
only and a tab that is gone has no session. `TabChange` is what every close, park,
restore, cut and expiry comes to, so the argument about answers and orphans is
made once (`ChangeKeeps`) and each of the seven operations only has to be shown to
be one. It rests on the names being distinct (`NamesAssumption`).

`MovesProofs` proves the invariants and the action property of `moves`, part by
part. For `TabMove`, `IInv` adds three parts. `Homes` ties the phase of a window to
its containers: tracked is hidden, shown, active or dark; what does not exist
holds nothing; what is closing holds only tabs whose end was asked for. `Tracked`
says that a tracked window lists the live tabs it owns, exactly those unless a
failed move or a tab that could not be made left it behind, and that a host
without a tab will be looked at, which is
what makes its first `Activated` harmless. `DragItem` says that the kept item is
the header of the drag that runs, or none. `HandOverKeeps` is the lemma about a
move cut off at any call; the merge, the tear-out and the move_tab action rest on
it. It depends on `OneHome` (no third window owns the tab) and on no assumption
but `None` being neither a window nor a tab.

For `PaneFocus`, `InputFollowsFocus` and `FocusAgreed` speak only of quiet states,
in which nothing is on its way, so neither says anything of most steps;
`FocusInv` says what each thing on its way is going to settle. `Trees` and
`Loading` are about the panes: the active pane of a tab is in its tree, a parked
shell is in none and behind one pane, at most one pane waits for `Loaded`. `Late`
is about the events XAML owes: `Settles` says that the last event owed to a pane
tells it whether it has the focus, and `GotLast` that a pane which lost the focus
since and is still to be told that it got it, making itself active, is followed by
the event of the pane that has it now. `MovesSettle` proves both for any move of
the focus, which is one argument for every action. `Lawful` is about what was told: a
pane that is engaged or taken for focused without the focus is still owed an
event, and the terminal with the focus is engaged unless its event, a pane to be
loaded, a restore or the foreground is still to come. It is stated only up to the
two lapses (`astray`), since past them it is false. If the events of a pane that
left the tree were not struck (`Owed`), one could reach the same pane after it
was put back, and `Settles` would be false. The proof assumes that `Null` is
neither a pane nor a tab.

For `Palette`, `FreshListRuns` is inductive with one fact beside it (`RowsFit`):
a cached row shows nothing or the entry of its own index. `RefilterShows` is the
lemma that a rebuilt list shows what it would run, whatever the query found.
It assumes only that the bounds are natural numbers.

`CallbackRoutingProofs` proves the type and the five properties of `callbacks`.
`Gate` says that a window's `Actions` is armed no longer than the window exists.
`ExitInv` says that a live pane whose shell exited has its close in the queue, for
the window that lists it and found by PaneId, not by address, unless its exit was
lost in one of the two ways the code has (`displaced`, `refused`); and that no
close in the queue names a pane that neither exited nor was asked for, from which
`PaneClosesAreTheirs` follows. `CloseOutcomes` is the lemma about the gate: whatever
it answers to a close, nothing but the closed panes changes (`OnlyCloses`), so one
argument serves a close that is carried out, asked about, or answered later.
`Owned` says that each handle of a
config has one holder, with the configs of the queue as a set in which no handle
comes twice (`Distinct`). The lemmas `PendingAppend`, `PendingTail` and
`PendingConcat` say what the queue's operations do to that set. `Settling` is what
makes `ConfigSettles` inductive: as long as none was lost, the last report in the
queue carries the config that libghostty runs. `Registered`, that a report is for
a window that is registered or has been destroyed since, is what lets a reload
that finds no registered window count on none of the queued reports.

`WindowChromeProofs` proves the type, `WearsItsMode` and `SnapsAsConfigured`. One
config is read by all windows, and the clone of an older reload may replace the
config of the last one, so neither is inductive. `Reported` says that a window
which has heard of the last reload and still waits for a report waits for one of
that reload, whatever older ones come first; `Heard` that one which waits for
nothing finds the App with the config of the last reload and fits it. Together
they show that an older report never has the last word. `RepaintSpares` is the
lemma that a repaint leaves the other windows' panes alone, `DressedFits` that a
new pane needs none, and `Housed`, that a tab without a window has no pane, keeps
a new tab from inheriting an old underlay. It rests on `FieldsAssumption` and
`NobodyAssumption`.

Only model-checked: that `PaneTree` implements `PaneRow`, and `StaysInPlace`;
and all liveness. Every other property of a passing run is proved. Liveness under
fairness is out of the prover's reach; the two about the row need where in a walk
a pane comes, not only that it does, and are still to be proved.

## What the models say about the code

The five violated runs are disagreements between the code and its own
documentation; `findings` in `PROJECT.json` quotes both sides. Reading the code
for the models also turned up the following, which no run shows by itself. They
are built into the models as the code has them, and the properties are worded
so that they do not deny them.

Tabs, windows and closes:

- a close that is torn down because `undo-timeout` was reloaded to 0 leaves the
  redo history (`MainWindow.xaml.cpp:1473`), which `ParkedTabs.h:128` says a
  user's close invalidates;
- the host of a tear-out that throws is neither shown nor closed
  (`TearOut.cpp:63`), although `TearOut.cpp:50` closes it when nothing moved; it
  stays among the tracked windows, and goto_window can bring it up empty;
- a tab of a move that throws between two owners ends with its shell
  (`MainWindow.xaml.cpp:2853`);
- a merge that throws skips the look at its source (`MainWindow.xaml.cpp:458`),
  which may stay open without a tab;
- the item of a drag that ended in a merge or a reorder is kept until the next
  drag (`TabDrag.h:54`); nothing reads it, but it holds the header alive;
- a clean end of WSL in a tab that is parked for undo, or has just moved to
  another window, is dropped by `ChildExited` (`MainWindow.xaml.cpp:2696`); after
  the undo the pane stays until the user closes it;
- `Redo` takes a candidate before its guard for the last tab
  (`MainWindow.xaml.cpp:1613`), so a refused redo is lost;
- a tab whose shell ended while it was parked comes back dead
  (`OnCloseSurface` finds no window for it);
- `quit` and `close_all_windows` end running commands without a dialog
  (`App.xaml.cpp:487`): `CloseAllWindows` closes each window directly. `App.xaml.h:117`
  says that confirmation has a home there "when it arrives", so this is a limit
  the code knows, and `ConfirmedEnd` names it instead of denying it;
- an exit whose pane is parked, in a window that is not registered, or moved
  before the closure runs, closes nothing (`MainWindowRuntime.cpp:186`);
- a first tab whose surface cannot be made leaves its window hidden, tracked and
  without a tab, so the process never ends (`MainWindow.xaml.cpp:140`, `1406`);
- the driver-fault path posts WM_CLOSE without setting the gate's bypass
  (`MainWindow.xaml.cpp:1401`), though `RequestClose` names that path as covered.

WSL:

- clients connected when the pipe server stops read end-of-file and exit with 1
  although no session was tried (`ShimServer.cpp:183`).

Input and focus:

- Ctrl+C over a selection during a drag with the left button makes libghostty
  hear a release of that button while the ledger still lists it
  (`SurfaceHost.cpp:262`), though `MouseInput.h:122` says the ledger is what
  libghostty has been told; the drag goes on without its button;
- the queued release of the capture is not tied to the press it ends, so a press
  that comes first loses its capture at once and is taken back
  (`MouseInput.h:147`);
- `ImeBuffer.h:40` says that `NotifyFocusEnter` resets the buffer; nothing does,
  and text outside a composition stays in it;
- a restore that returns early, at an open search bar or a dialog, leaves
  `m_rendererFocus` false and the focused terminal's IME off;
- `SearchOverlay::Close` returns whether the bar was open, not whether it had the
  focus, so END_SEARCH takes the focus from another pane, against the comment at
  `TerminalControl.xaml.cpp:327`;
- a shell put back into a pane that is not active takes the focus when it loads
  (`TerminalControl.xaml.cpp:54`), and an in-place session makes its pane active
  even if its shell was not;
- goto_split and a notification under zoom make a hidden pane active while the
  focus stays on the zoomed one; a later restore engages the hidden one.

Chrome and palette:

- `ReplaceConfig` does not apply decorations again, though `WindowDecorations.h:17`
  says that a CONFIG_CHANGE picks up the user's current value;
- an `EnterFullscreen` that fails leaves the tag active: the opacity toggle is
  then refused, and the next toggle of fullscreen does nothing;
- a reload misses a tear-out host that is not activated yet, and of two
  overlapping reloads a window made in between can keep the older look;
- `SetOnExecute` is said to fire before the palette closes itself; `Close` runs
  first. Other windows' palettes are refreshed only through their own report.

Surface: the heap `shared_ptr` that the attach callback owns is never freed when
a surface ends before its first frame.

## Plan

Done: every module of the list above, with proofs about eleven of them.

Left, in this order:

1. `PaneGeometry`: ratios, equalize, resize and the spatial goto, checked against
   reference definitions over small trees.
2. Proofs: `StaysInPlace`, and the steps of `PaneTree` as steps of `PaneRow`.
3. Two hosts that share one pipe name, in `ShimSession`.

## Not modelled

The command line of `wsl` (`Core/Wsl/Invocation.h`) is a parser without state,
whose tests enumerate its options. The typed reads of a configuration, the
encodings and the clipboard have none either: what is read appears as an input of
the modules. The crash guard runs after a structured exception, and what is left
of the process then is no state a model could name; for the same reason the
driver-fault exit of a window is left out. Launch, the crash marker and the
creation of the one `ghostty_app_t` run once. Rendering, XAML resources, the look
of overlays, geometry of windows, packaging, CI and scripts are out of scope.
