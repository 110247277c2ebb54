--------------------------- MODULE TerminalInput ---------------------------
(***************************************************************************)
(* What one surface is told of the mouse and of the text an IME composes:  *)
(* the button ledger and the pointer capture (MouseInput, MouseTransition, *)
(* MouseButtonLedger), the composition buffer against the text store of    *)
(* the text services (ImeSession, ImeBuffer, EditContext), and the two key *)
(* gestures that touch both (SurfaceHost).                                 *)
(*                                                                         *)
(* Which element has the focus is the subject of PaneFocus: here the pane  *)
(* is engaged or not, and its search bar holds the keyboard or not.        *)
(***************************************************************************)
EXTENDS Naturals, Sequences

CONSTANTS
  Buttons, Left, Right,  \* the mouse buttons; the left and the right one
  Chars,                 \* the characters an IME produces
  MaxText,               \* bound: characters in one composition
  MaxDoc,                \* bound: characters in the text store of the OS
  MaxDrops               \* bound: queued releases of the pointer capture

ASSUME ButtonsAssumption == {Left, Right} \subseteq Buttons /\ Left # Right
ASSUME BoundsAssumption == MaxText \in Nat /\ MaxDoc \in Nat /\ MaxDrops \in Nat

VARIABLES
  alive,      \* SurfaceHost::m_surface is set
  \* the mouse
  held,       \* the buttons the user holds down
  inside,     \* the pointer is over the panel
  ledger,     \* MouseButtonLedger::m_relayed
  heard,      \* the buttons libghostty takes for pressed
  captured,   \* the panel holds the pointer capture
  drops,      \* the closures of DropCaptureAfterThisEvent in the queue
  selection,  \* Surface::HasSelection
  \* the text
  owns,       \* TerminalOwnsInput: no overlay of the pane has the keyboard
  typing,     \* the OS types into this pane's edit context
  doc,        \* length of the text the OS believes the context holds
  comp,       \* the composition as the OS knows it
  buffer, base, composing,  \* ImeBuffer::m_buffer, m_baseOffset, m_composing
  preedit,    \* the preedit libghostty draws
  committed,  \* history: what this step sent to the shell as committed text
  strayed     \* history: text came outside a composition since the last reset

mouseVars == <<held, inside, ledger, heard, captured, drops>>
bufferVars == <<buffer, base, composing>>
textVars == <<typing, doc, comp, bufferVars, preedit, strayed>>
vars == <<alive, mouseVars, selection, owns, textVars, committed>>

Texts == UNION {[1 .. n -> Chars] : n \in 0 .. MaxText}
NoComp == [start |-> 0, text |-> <<>>, running |-> FALSE]

-----------------------------------------------------------------------------
(* core::input: the ledger after an event, and what goes out. *)

Unchanged(l) ==
  [ledger |-> l, presses |-> {}, releases |-> {}, capture |-> "keep", copy |-> FALSE]

(* The first press takes the capture; a right button alone over a          *)
(* selection copies it and is not a press for libghostty.                  *)
OnPress(l, b) ==
  IF b \in l THEN Unchanged(l)
  ELSE IF b = Right /\ l = {} /\ selection
    THEN [Unchanged(l) EXCEPT !.copy = TRUE]
    ELSE [Unchanged(l \cup {b}) EXCEPT
            !.presses = {b}, !.capture = IF l = {} THEN "take" ELSE "keep"]

OnRelease(l, b) ==
  [Unchanged(l \ {b}) EXCEPT
     !.releases = {b} \cap l, !.capture = IF l \subseteq {b} THEN "drop" ELSE "keep"]

OnCaptureLost(l) == [Unchanged({}) EXCEPT !.releases = l]

(* Fault: only the capture is let go. *)
OnCanceledKeeps(l) == [Unchanged(l) EXCEPT !.capture = "drop"]

OnCanceled(l) == [OnCaptureLost(l) EXCEPT !.capture = "drop"]

(* CopySelectionToClipboard ends with a click of the left button, which    *)
(* clears the selection; the ledger is not told.                           *)
AfterCopy(h) == h \ {Left}

(* MouseInput::CarryOut; taken says whether the panel has the capture when *)
(* the event itself is over.                                               *)
CarryOut(t, taken) ==
  /\ ledger' = t.ledger
  /\ LET h == (heard \cup t.presses) \ t.releases
     IN heard' = IF t.copy THEN AfterCopy(h) ELSE h
  /\ selection' = (selection /\ ~t.copy)
  /\ captured' = (taken \/ t.capture = "take")
  /\ drops' = IF t.capture = "drop" THEN drops + 1 ELSE drops

(* The events of a surface that is gone end at SurfaceHost's guard. *)
NothingHeard(taken) ==
  captured' = taken /\ UNCHANGED <<ledger, heard, drops, selection>>

-----------------------------------------------------------------------------
(* The mouse. The panel gets an event when the pointer is over it or       *)
(* captured by it.                                                         *)

Reaches == inside \/ captured

Press(b) ==
  /\ b \notin held
  /\ held' = held \cup {b}
  /\ IF alive /\ Reaches THEN CarryOut(OnPress(ledger, b), captured)
                         ELSE NothingHeard(captured)
  /\ committed' = <<>>
  /\ UNCHANGED <<alive, inside, owns, textVars>>

Release(b) ==
  /\ b \in held /\ drops < MaxDrops
  /\ held' = held \ {b}
  /\ IF alive /\ Reaches THEN CarryOut(OnRelease(ledger, b), captured)
                         ELSE NothingHeard(captured)
  /\ committed' = <<>>
  /\ UNCHANGED <<alive, inside, owns, textVars>>

(* The pointer crosses the edge of the panel. *)
Cross ==
  /\ inside' = ~inside
  /\ committed' = <<>>
  /\ UNCHANGED <<alive, held, ledger, heard, captured, drops, selection, owns, textVars>>

(* Another element or another window takes the capture. *)
LoseCapture ==
  /\ captured
  /\ IF alive THEN CarryOut(OnCaptureLost(ledger), FALSE) ELSE NothingHeard(FALSE)
  /\ committed' = <<>>
  /\ UNCHANGED <<alive, held, inside, owns, textVars>>

(* The pointer is canceled: its presses end without a release. *)
Cancel ==
  /\ held # {} /\ Reaches /\ drops < MaxDrops
  /\ held' = {}
  /\ IF alive THEN CarryOut(OnCanceled(ledger), captured) ELSE NothingHeard(captured)
  /\ committed' = <<>>
  /\ UNCHANGED <<alive, inside, owns, textVars>>

(* The queued ReleasePointerCapture runs; if the panel holds the capture,  *)
(* PointerCaptureLost is raised inside the call.                           *)
RunDrop ==
  /\ drops > 0
  /\ drops' = drops - 1
  /\ captured' = FALSE
  /\ IF alive /\ captured
       THEN LET t == OnCaptureLost(ledger)
            IN ledger' = t.ledger /\ heard' = heard \ t.releases
       ELSE UNCHANGED <<ledger, heard>>
  /\ committed' = <<>>
  /\ UNCHANGED <<alive, held, inside, selection, owns, textVars>>

(* libghostty's selection comes and goes: drags, select_all, new output. *)
SelectionChanges ==
  /\ alive
  /\ selection' = ~selection
  /\ committed' = <<>>
  /\ UNCHANGED <<alive, mouseVars, owns, textVars>>

(* OnKeyDown with Ctrl+C over a selection. The other keys go to libghostty *)
(* or, during a composition, nowhere, and change nothing here.             *)
CopyShortcut ==
  /\ alive /\ owns /\ ~composing /\ selection
  /\ heard' = AfterCopy(heard)
  /\ selection' = FALSE
  /\ committed' = <<>>
  /\ UNCHANGED <<alive, held, inside, ledger, captured, drops, owns, textVars>>

-----------------------------------------------------------------------------
(* The composition buffer. *)

Clamp(n, lo, hi) == IF n < lo THEN lo ELSE IF n > hi THEN hi ELSE n
Splice(s, i, j, t) == SubSeq(s, 1, i) \o t \o SubSeq(s, j + 1, Len(s))

(* ImeBuffer::applyTextUpdate; start and end are positions of the OS. *)
ApplyTextUpdate(start, end, t) ==
  LET localStart == Clamp(IF start < base THEN 0 ELSE start - base, 0, Len(buffer))
      localEnd   == Clamp(IF end < base THEN 0 ELSE end - base, localStart, Len(buffer))
  IN Splice(buffer, localStart, localEnd, t)

Reset == buffer' = <<>> /\ base' = 0 /\ composing' = FALSE

(* Fault: the offset does not move past the committed text. *)
CompletedStaysPut ==
  composing' = FALSE /\ buffer' = <<>> /\ UNCHANGED base

BufferCompleted ==
  composing' = FALSE /\ buffer' = <<>> /\ base' = base + Len(buffer)

(* The compositionCompleted handler: the text goes to the shell unless an  *)
(* overlay has the keyboard, and only then leaves the buffer.              *)
Commit ==
  /\ committed' = IF owns THEN buffer ELSE <<>>
  /\ preedit' = <<>>
  /\ BufferCompleted

-----------------------------------------------------------------------------
(* The text services, as EditContextHandlers and CoreTextEditContext have  *)
(* them, and the handlers of ImeSession they call.                         *)

(* NotifyFocusEnter. The OS asks for the text and the caret: paddedText    *)
(* and selectionPosition.                                                  *)
Engage ==
  /\ alive /\ ~typing
  /\ typing' = TRUE
  /\ doc' = base + Len(buffer)
  /\ strayed' = (buffer # <<>>)
  /\ committed' = <<>>
  /\ UNCHANGED <<alive, mouseVars, selection, owns, comp, bufferVars, preedit>>

(* NotifyFocusLeave. The OS completes the composition it was running. *)
Disengage ==
  /\ typing
  /\ typing' = FALSE
  /\ comp' = NoComp
  /\ IF comp.running THEN Commit
                     ELSE committed' = <<>> /\ UNCHANGED <<bufferVars, preedit>>
  /\ UNCHANGED <<alive, mouseVars, selection, owns, doc, strayed>>

BufferStarted == composing' = TRUE /\ buffer' = <<>> /\ UNCHANGED base

CompositionStarted ==
  /\ typing /\ ~comp.running
  /\ comp' = [start |-> doc, text |-> <<>>, running |-> TRUE]
  /\ BufferStarted
  /\ committed' = <<>>
  /\ UNCHANGED <<alive, mouseVars, selection, owns, typing, doc, preedit, strayed>>

(* The IME replaces a part of the running composition. *)
TextUpdating(i, j, t) ==
  /\ comp.running /\ i <= j /\ j <= Len(comp.text)
  /\ Len(comp.text) + Len(t) <= MaxText + (j - i)
  /\ doc + Len(t) <= MaxDoc + (j - i)
  /\ comp' = [comp EXCEPT !.text = Splice(comp.text, i, j, t)]
  /\ doc' = (doc + Len(t)) - (j - i)
  /\ buffer' = ApplyTextUpdate(comp.start + i, comp.start + j, t)
  /\ preedit' = IF composing THEN buffer' ELSE preedit
  /\ committed' = <<>>
  /\ UNCHANGED <<alive, mouseVars, selection, owns, typing, base, composing, strayed>>

(* Text that no composition announced, which the handler allows for: it    *)
(* enters the buffer and is drawn and sent nowhere.                        *)
TextOutside(t) ==
  /\ typing /\ ~comp.running /\ t # <<>>
  /\ doc + Len(t) <= MaxDoc /\ Len(buffer) + Len(t) <= MaxText
  /\ doc' = doc + Len(t)
  /\ buffer' = ApplyTextUpdate(doc, doc, t)
  /\ strayed' = TRUE
  /\ committed' = <<>>
  /\ UNCHANGED <<alive, mouseVars, selection, owns, typing, comp, base, composing, preedit>>

CompositionCompleted ==
  /\ comp.running
  /\ comp' = NoComp
  /\ Commit
  /\ UNCHANGED <<alive, mouseVars, selection, owns, typing, doc, strayed>>

(* The OS takes the input away. Half-typed text is dropped, here and on    *)
(* the screen.                                                             *)
FocusRemoved ==
  /\ typing
  /\ typing' = FALSE
  /\ comp' = NoComp
  /\ IF composing THEN Reset /\ preedit' = <<>> /\ strayed' = FALSE
                  ELSE UNCHANGED <<bufferVars, preedit, strayed>>
  /\ committed' = <<>>
  /\ UNCHANGED <<alive, mouseVars, selection, owns, doc>>

(* The keyboard goes to the search bar of the pane, or comes back. *)
ToggleOverlay ==
  /\ owns' = ~owns
  /\ committed' = <<>>
  /\ UNCHANGED <<alive, mouseVars, selection, textVars>>

(* Fault: the edit context is released before the buffer is reset, and the *)
(* OS completes the composition into a surface about to be freed.          *)
DetachReleasesFirst ==
  /\ alive /\ alive' = FALSE
  /\ ledger' = {} /\ heard' = {} /\ selection' = FALSE
  /\ committed' = IF owns THEN comp.text ELSE <<>>
  /\ Reset
  /\ preedit' = <<>> /\ strayed' = FALSE /\ typing' = FALSE /\ comp' = NoComp
  /\ UNCHANGED <<held, inside, captured, drops, owns, doc>>

(* SurfaceHost::Detach. The buffer and the ledger are forgotten before the *)
(* context is released: the composition the OS then completes is empty.    *)
Detach ==
  /\ alive /\ alive' = FALSE
  /\ ledger' = {} /\ heard' = {} /\ selection' = FALSE
  /\ Reset
  /\ preedit' = <<>> /\ strayed' = FALSE /\ typing' = FALSE /\ comp' = NoComp
  /\ committed' = <<>>
  /\ UNCHANGED <<held, inside, captured, drops, owns, doc>>
-----------------------------------------------------------------------------
Init ==
  /\ alive = TRUE
  /\ held = {} /\ inside = FALSE /\ ledger = {} /\ heard = {}
  /\ captured = FALSE /\ drops = 0 /\ selection = FALSE
  /\ owns = TRUE /\ typing = FALSE /\ doc = 0 /\ comp = NoComp
  /\ buffer = <<>> /\ base = 0 /\ composing = FALSE
  /\ preedit = <<>> /\ committed = <<>> /\ strayed = FALSE

Mouse ==
  \/ \E b \in Buttons : Press(b) \/ Release(b)
  \/ Cross \/ LoseCapture \/ Cancel \/ RunDrop \/ SelectionChanges \/ CopyShortcut

TextServices ==
  \/ Engage \/ Disengage \/ CompositionStarted \/ CompositionCompleted \/ FocusRemoved
  \/ \E t \in Texts :
       TextOutside(t) \/ \E i, j \in 0 .. MaxText : TextUpdating(i, j, t)

Next == Mouse \/ TextServices \/ ToggleOverlay \/ Detach

Spec == Init /\ [][Next]_vars

-----------------------------------------------------------------------------
(* The kind of value each variable holds. *)
TypeOK ==
  /\ alive \in BOOLEAN /\ held \subseteq Buttons /\ inside \in BOOLEAN
  /\ ledger \subseteq Buttons /\ heard \subseteq Buttons
  /\ captured \in BOOLEAN /\ drops \in 0 .. MaxDrops /\ selection \in BOOLEAN
  /\ owns \in BOOLEAN /\ typing \in BOOLEAN /\ doc \in Nat
  /\ comp \in [start : Nat, text : Seq(Chars), running : BOOLEAN]
  /\ buffer \in Seq(Chars) /\ base \in Nat /\ composing \in BOOLEAN
  /\ preedit \in Seq(Chars) /\ committed \in Seq(Chars) /\ strayed \in BOOLEAN

(* libghostty takes no button for pressed that the ledger does not list:   *)
(* whatever takes presses back, takes back all that libghostty heard.      *)
HeardIsListed == heard \subseteq ledger

(* No phantom drag: a button listed as pressed is one the user holds,      *)
(* wherever and however it was let go.                                     *)
NoPhantomDrag == ledger \subseteq held

(* While a press is outstanding the panel holds the capture, which is what *)
(* brings a release outside the panel back to it.                          *)
CaptureBacksPresses == ledger # {} => captured

(* The buffer is the composition the OS runs, character for character and  *)
(* at the same place, across commits, cancellations and changes of focus.  *)
(* Text outside a composition, which the buffer keeps, is the exception.   *)
BufferIsComposition ==
  (typing /\ ~strayed) =>
    /\ composing = comp.running
    /\ buffer = comp.text
    /\ base + Len(buffer) = doc
    /\ comp.running => base = comp.start

(* libghostty draws the composition that runs, and none when none runs. *)
PreeditIsCurrent == preedit = IF composing THEN buffer ELSE <<>>

(* Text reaches the shell only as the whole of a composition that ends     *)
(* with this step, and never as a last word from a pane that closes.       *)
CommitIsWhole ==
  [][(committed' # <<>> /\ ~strayed) =>
       alive' /\ comp.running /\ ~comp'.running /\ committed' = comp.text]_vars
=============================================================================
