---------------------------- MODULE TerminalProofs ----------------------------
(***************************************************************************)
(* What TerminalInput, SurfaceLife and WindowClose guarantee for any       *)
(* values of their constants. The three share no variable; each has its    *)
(* own inductive invariant.                                                *)
(***************************************************************************)
EXTENDS TerminalInput, SurfaceLife, WindowClose, SequenceTheorems, TLAPS

-----------------------------------------------------------------------------
(* TerminalInput: the mouse and the composition share only alive, so each  *)
(* has its own half of the inductive invariant.                            *)

(* The mouse: the safety invariants, and that Detach forgets the ledger,   *)
(* after which the guards of SurfaceHost keep it empty.                    *)
MouseInv ==
  /\ alive \in BOOLEAN /\ held \subseteq Buttons /\ inside \in BOOLEAN
  /\ ledger \subseteq Buttons /\ heard \subseteq Buttons
  /\ captured \in BOOLEAN /\ drops \in 0 .. MaxDrops /\ selection \in BOOLEAN
  /\ HeardIsListed /\ NoPhantomDrag /\ CaptureBacksPresses
  /\ ~alive => ledger = {}

(* The text: the buffer composes exactly while the OS does, which it does  *)
(* only through an engaged context of a live surface; the OS composes at   *)
(* the end of its text and keeps nothing of a composition that ended.      *)
TextInv ==
  /\ alive \in BOOLEAN /\ owns \in BOOLEAN /\ typing \in BOOLEAN /\ doc \in Nat
  /\ comp \in [start : Nat, text : Seq(Chars), running : BOOLEAN]
  /\ buffer \in Seq(Chars) /\ base \in Nat /\ composing \in BOOLEAN
  /\ preedit \in Seq(Chars) /\ committed \in Seq(Chars) /\ strayed \in BOOLEAN
  /\ composing = comp.running
  /\ comp.running => typing
  /\ typing => alive
  /\ ~comp.running => comp = NoComp
  /\ comp.running => doc = comp.start + Len(comp.text)
  /\ BufferIsComposition /\ PreeditIsCurrent

IInv == MouseInv /\ TextInv

-----------------------------------------------------------------------------
(* Replacing positions i + 1 .. j of a sequence gives a sequence that is   *)
(* longer by what came and shorter by what went.                           *)
LEMMA SpliceType ==
  ASSUME NEW s \in Seq(Chars), NEW t \in Seq(Chars),
         NEW i \in Nat, NEW j \in Nat, i <= j, j <= Len(s)
  PROVE  /\ Splice(s, i, j, t) \in Seq(Chars)
         /\ Len(Splice(s, i, j, t)) = (Len(s) + Len(t)) - (j - i)
<1> DEFINE a == SubSeq(s, 1, i)
           b == SubSeq(s, j + 1, Len(s))
<1>1. a \in Seq(Chars) /\ Len(a) = i
  OBVIOUS
<1>2. b \in Seq(Chars) /\ Len(b) = Len(s) - j
  OBVIOUS
<1>3. Splice(s, i, j, t) = (a \o t) \o b
  BY DEF Splice
<1> HIDE DEF a, b
<1> DEFINE c == a \o t
<1>4. c \in Seq(Chars) /\ Len(c) = Len(a) + Len(t)
  BY <1>1, ConcatProperties
<1> HIDE DEF c
<1>5. c \o b \in Seq(Chars) /\ Len(c \o b) = Len(c) + Len(b)
  <2>1. c \in Seq(Chars) /\ b \in Seq(Chars)
    BY <1>2, <1>4
  <2> HIDE DEF c, b
  <2>2. QED
    BY <2>1, ConcatProperties
<1>6. Len(s) \in Nat /\ Len(t) \in Nat
  OBVIOUS
<1>7. QED
  BY <1>1, <1>2, <1>3, <1>4, <1>5, <1>6 DEF c

(* Whatever range the OS names, ImeBuffer::applyTextUpdate leaves a text;  *)
(* a range inside the composition is replaced at its own place.            *)
LEMMA UpdateIsSplice ==
  ASSUME NEW start \in Nat, NEW end \in Nat, NEW t \in Seq(Chars),
         buffer \in Seq(Chars), base \in Nat
  PROVE  /\ ApplyTextUpdate(start, end, t) \in Seq(Chars)
         /\ \A i, j \in Nat :
              (start = base + i /\ end = base + j /\ i <= j /\ j <= Len(buffer))
                => ApplyTextUpdate(start, end, t) = Splice(buffer, i, j, t)
<1> DEFINE m == IF start < base THEN 0 ELSE start - base
           n == IF end < base THEN 0 ELSE end - base
           i0 == Clamp(m, 0, Len(buffer))
           j0 == Clamp(n, i0, Len(buffer))
<1>1. m \in Nat /\ n \in Nat /\ Len(buffer) \in Nat
  OBVIOUS
<1>2. ApplyTextUpdate(start, end, t) = Splice(buffer, i0, j0, t)
  BY DEF ApplyTextUpdate
<1>3. i0 \in Nat /\ i0 <= Len(buffer) /\ (m <= Len(buffer) => i0 = m)
  <2> HIDE DEF m
  <2>1. QED
    BY <1>1 DEF Clamp
<1>4. j0 \in Nat /\ i0 <= j0 /\ j0 <= Len(buffer) /\ ((i0 <= n /\ n <= Len(buffer)) => j0 = n)
  <2> HIDE DEF n, i0
  <2>1. QED
    BY <1>1, <1>3 DEF Clamp
<1>5. ASSUME NEW i \in Nat, NEW j \in Nat,
             start = base + i, end = base + j, i <= j, j <= Len(buffer)
      PROVE  i0 = i /\ j0 = j
  <2>1. m = i /\ n = j
    BY <1>5
  <2> HIDE DEF m, n, i0, j0
  <2>2. i0 = i
    BY <1>1, <1>3, <1>5, <2>1
  <2>3. QED
    BY <1>1, <1>4, <1>5, <2>1, <2>2
<1> HIDE DEF i0, j0
<1>6. Splice(buffer, i0, j0, t) \in Seq(Chars)
  BY <1>3, <1>4, SpliceType
<1>7. QED
  BY <1>2, <1>5, <1>6

(* What an IME composes at once is a text. *)
LEMMA TextsAreSequences == Texts \subseteq Seq(Chars)
BY BoundsAssumption DEF Texts

-----------------------------------------------------------------------------
(* Every step keeps the mouse's half. *)
LEMMA MouseStep == MouseInv /\ [Next]_vars => MouseInv'
<1> SUFFICES ASSUME MouseInv, [Next]_vars PROVE MouseInv'
  OBVIOUS
<1> USE ButtonsAssumption, BoundsAssumption
        DEF MouseInv, HeardIsListed, NoPhantomDrag, CaptureBacksPresses
<1>1. ASSUME NEW b \in Buttons, Press(b) PROVE MouseInv'
  <2>1. CASE alive /\ Reaches
    <3>1. CASE b \in ledger
      BY <1>1, <2>1, <3>1 DEF Press, CarryOut, OnPress, Unchanged
    <3>2. CASE b \notin ledger /\ b = Right /\ ledger = {} /\ selection
      BY <1>1, <2>1, <3>2 DEF Press, CarryOut, OnPress, Unchanged, AfterCopy
    <3>3. CASE b \notin ledger /\ ~(b = Right /\ ledger = {} /\ selection)
      BY <1>1, <2>1, <3>3 DEF Press, CarryOut, OnPress, Unchanged
    <3>4. QED
      BY <3>1, <3>2, <3>3
  <2>2. CASE ~(alive /\ Reaches)
    BY <1>1, <2>2 DEF Press, NothingHeard
  <2>3. QED
    BY <2>1, <2>2
<1>2. ASSUME NEW b \in Buttons, Release(b) PROVE MouseInv'
  <2>1. CASE alive /\ Reaches
    BY <1>2, <2>1 DEF Release, CarryOut, OnRelease, Unchanged
  <2>2. CASE ~(alive /\ Reaches)
    BY <1>2, <2>2 DEF Release, NothingHeard, Reaches
  <2>3. QED
    BY <2>1, <2>2
<1>3. CASE LoseCapture
  BY <1>3 DEF LoseCapture, CarryOut, OnCaptureLost, Unchanged, NothingHeard
<1>4. CASE Cancel
  BY <1>4 DEF Cancel, CarryOut, OnCanceled, OnCaptureLost, Unchanged, NothingHeard
<1>5. CASE RunDrop
  <2>1. /\ OnCaptureLost(ledger).ledger = {}
        /\ OnCaptureLost(ledger).releases = ledger
    BY DEF OnCaptureLost, Unchanged
  <2>2. drops - 1 \in 0 .. MaxDrops
    BY <1>5 DEF RunDrop
  <2>3. CASE alive /\ captured
    BY <1>5, <2>1, <2>2, <2>3 DEF RunDrop
  <2>4. CASE ~(alive /\ captured)
    BY <1>5, <2>2, <2>4 DEF RunDrop
  <2>5. QED
    BY <2>3, <2>4
<1>6. CASE Cross \/ SelectionChanges \/ CopyShortcut
  BY <1>6 DEF Cross, SelectionChanges, CopyShortcut, AfterCopy, mouseVars
<1>7. CASE TextServices
  BY <1>7 DEF TextServices, Engage, Disengage, CompositionStarted, CompositionCompleted,
              FocusRemoved, TextOutside, TextUpdating, mouseVars
<1>8. CASE ToggleOverlay
  BY <1>8 DEF ToggleOverlay, mouseVars
<1>9. CASE Detach
  BY <1>9 DEF Detach
<1>10. CASE UNCHANGED vars
  BY <1>10 DEF vars, mouseVars
<1>11. QED
  BY <1>1, <1>2, <1>3, <1>4, <1>5, <1>6, <1>7, <1>8, <1>9, <1>10 DEF Next, Mouse

(* An edit of the running composition reaches the buffer at its place. *)
LEMMA UpdatingStep ==
  ASSUME TextInv, NEW t \in Texts, NEW i \in 0 .. MaxText, NEW j \in 0 .. MaxText,
         TextUpdating(i, j, t)
  PROVE  TextInv'
<1> DEFINE s == comp.text
           new == Splice(s, i, j, t)
           upd == ApplyTextUpdate(comp.start + i, comp.start + j, t)
<1>1. t \in Seq(Chars) /\ Len(t) \in Nat
  BY TextsAreSequences, LenProperties
<1>2. i \in Nat /\ j \in Nat /\ i <= j /\ j <= Len(s)
  BY BoundsAssumption DEF TextUpdating
<1>3. /\ s \in Seq(Chars) /\ Len(s) \in Nat /\ comp.start \in Nat
      /\ comp.running /\ composing /\ typing
      /\ doc = comp.start + Len(s)
      /\ buffer \in Seq(Chars) /\ base \in Nat
  BY LenProperties DEF TextUpdating, TextInv
<1>4. ~strayed => base = comp.start /\ buffer = s
  BY <1>3 DEF TextInv, BufferIsComposition
<1>5. /\ comp' = [comp EXCEPT !.text = new] /\ doc' = (doc + Len(t)) - (j - i)
      /\ buffer' = upd /\ preedit' = (IF composing THEN upd ELSE preedit)
      /\ committed' = <<>>
      /\ UNCHANGED <<alive, owns, typing, base, composing, strayed>>
  BY DEF TextUpdating
<1> HIDE DEF s
<1>6. new \in Seq(Chars) /\ Len(new) = (Len(s) + Len(t)) - (j - i)
  BY <1>1, <1>2, <1>3, SpliceType
<1>7. upd \in Seq(Chars) /\ (~strayed => upd = new)
  <2>1. comp.start + i \in Nat /\ comp.start + j \in Nat
    BY <1>2, <1>3
  <2>2. upd \in Seq(Chars)
    BY <1>1, <1>3, <2>1, UpdateIsSplice
  <2>3. CASE ~strayed
    <3>1. base = comp.start /\ j <= Len(buffer)
      BY <1>2, <1>4, <2>3
    <3>2. upd = Splice(buffer, i, j, t)
      BY <1>1, <1>2, <1>3, <2>1, <3>1, UpdateIsSplice
    <3>3. QED
      BY <1>4, <2>2, <2>3, <3>2
  <2>4. QED
    BY <2>2, <2>3
<1> HIDE DEF new, upd
<1>8. /\ comp' \in [start : Nat, text : Seq(Chars), running : BOOLEAN]
      /\ comp'.running = comp.running /\ comp'.text = new /\ comp'.start = comp.start
  BY <1>5, <1>6 DEF TextInv
<1>9. doc' \in Nat /\ doc' = comp'.start + Len(new)
  <2>1. Len(new) \in Nat
    BY <1>6, LenProperties
  <2>2. doc' = comp.start + Len(new)
    BY <1>1, <1>2, <1>3, <1>5, <1>6
  <2>3. QED
    BY <1>3, <1>8, <2>1, <2>2
<1>10. BufferIsComposition'
  <2>1. CASE strayed
    BY <1>5, <2>1 DEF BufferIsComposition
  <2>2. CASE ~strayed
    <3>1. buffer' = new /\ base' = comp'.start
      BY <1>4, <1>5, <1>7, <1>8, <2>2
    <3>2. composing' = comp'.running
      BY <1>3, <1>5, <1>8 DEF TextInv
    <3>3. base' + Len(buffer') = doc'
      BY <1>8, <1>9, <3>1
    <3>4. QED
      BY <1>8, <3>1, <3>2, <3>3 DEF BufferIsComposition
  <2>3. QED
    BY <2>1, <2>2
<1>11. PreeditIsCurrent'
  BY <1>3, <1>5 DEF PreeditIsCurrent
<1>12. QED
  BY <1>3, <1>5, <1>7, <1>8, <1>9, <1>10, <1>11, EmptySeq DEF TextInv

(* Every step keeps the text's half. *)
LEMMA TextStep == TextInv /\ [Next]_vars => TextInv'
<1> SUFFICES ASSUME TextInv, [Next]_vars PROVE TextInv'
  OBVIOUS
<1> USE BoundsAssumption DEF TextInv, BufferIsComposition, PreeditIsCurrent
<1>0. /\ <<>> \in Seq(Chars) /\ Len(<<>>) = 0 /\ Len(buffer) \in Nat
      /\ NoComp \in [start : Nat, text : Seq(Chars), running : BOOLEAN]
      /\ NoComp.running = FALSE /\ NoComp.text = <<>>
  BY EmptySeq, LenProperties DEF NoComp
<1>1. CASE Mouse
  <2>1. committed' = <<>> /\ UNCHANGED <<alive, owns, textVars>>
    BY <1>1 DEF Mouse, Press, Release, Cross, LoseCapture, Cancel, RunDrop,
                SelectionChanges, CopyShortcut
  <2>2. QED
    BY <1>0, <2>1 DEF textVars, bufferVars
<1>2. CASE Engage
  <2>1. /\ typing' = TRUE /\ doc' = base + Len(buffer) /\ committed' = <<>>
        /\ strayed' = (buffer # <<>>) /\ alive /\ ~typing
        /\ UNCHANGED <<alive, owns, comp, buffer, base, composing, preedit>>
    BY <1>2 DEF Engage, bufferVars
  <2>2. ~comp.running /\ comp = NoComp
    BY <2>1
  <2>3. strayed' \in BOOLEAN /\ (~strayed' => buffer = <<>>)
    BY <2>1
  <2>4. BufferIsComposition'
    BY <1>0, <2>1, <2>2, <2>3
  <2>5. QED
    BY <1>0, <2>1, <2>2, <2>3, <2>4
<1>3. CASE Disengage
  <2>1. /\ typing' = FALSE /\ comp' = NoComp
        /\ UNCHANGED <<alive, owns, doc, strayed>>
    BY <1>3 DEF Disengage
  <2>2. CASE comp.running
    <3>1. /\ committed' = (IF owns THEN buffer ELSE <<>>) /\ preedit' = <<>>
          /\ composing' = FALSE /\ buffer' = <<>> /\ base' = base + Len(buffer)
      BY <1>3, <2>2 DEF Disengage, Commit, BufferCompleted
    <3>2. committed' \in Seq(Chars) /\ base' \in Nat
      BY <1>0, <3>1
    <3>3. QED
      BY <1>0, <2>1, <3>1, <3>2
  <2>3. CASE ~comp.running
    BY <1>0, <1>3, <2>1, <2>3 DEF Disengage, bufferVars
  <2>4. QED
    BY <2>2, <2>3
<1>4. CASE CompositionStarted
  BY <1>0, <1>4 DEF CompositionStarted, BufferStarted, NoComp
<1>5. CASE CompositionCompleted
  <2>1. /\ comp.running /\ comp' = NoComp
        /\ committed' = (IF owns THEN buffer ELSE <<>>) /\ preedit' = <<>>
        /\ composing' = FALSE /\ buffer' = <<>> /\ base' = base + Len(buffer)
        /\ UNCHANGED <<alive, owns, typing, doc, strayed>>
    BY <1>5 DEF CompositionCompleted, Commit, BufferCompleted
  <2>2. committed' \in Seq(Chars) /\ base' \in Nat
    BY <1>0, <2>1
  <2>3. BufferIsComposition'
    <3>1. comp'.running = FALSE /\ comp'.text = <<>> /\ Len(buffer') = 0
      BY <1>0, <2>1
    <3>2. (typing /\ ~strayed) => base + Len(buffer) = doc
      OBVIOUS
    <3>3. base' + Len(buffer') = base + Len(buffer)
      BY <1>0, <2>1, <3>1
    <3>4. QED
      BY <2>1, <3>1, <3>2, <3>3
  <2>4. QED
    BY <1>0, <2>1, <2>2, <2>3
<1>6. CASE FocusRemoved
  <2>1. /\ typing' = FALSE /\ comp' = NoComp /\ committed' = <<>>
        /\ UNCHANGED <<alive, owns, doc>>
    BY <1>6 DEF FocusRemoved
  <2>2. CASE composing
    <3>1. /\ composing' = FALSE /\ buffer' = <<>> /\ base' = 0
          /\ preedit' = <<>> /\ strayed' = FALSE
      BY <1>6, <2>2 DEF FocusRemoved, Reset
    <3>2. QED
      BY <1>0, <2>1, <3>1
  <2>3. CASE ~composing
    BY <1>0, <1>6, <2>1, <2>3 DEF FocusRemoved, bufferVars
  <2>4. QED
    BY <2>2, <2>3
<1>7. ASSUME NEW t \in Texts, TextOutside(t) PROVE TextInv'
  <2>1. t \in Seq(Chars) /\ Len(t) \in Nat
    BY TextsAreSequences, LenProperties
  <2>2. ApplyTextUpdate(doc, doc, t) \in Seq(Chars)
    BY <2>1, UpdateIsSplice
  <2>3. QED
    BY <1>0, <1>7, <2>1, <2>2 DEF TextOutside
<1>8. ASSUME NEW t \in Texts, NEW i \in 0 .. MaxText, NEW j \in 0 .. MaxText,
             TextUpdating(i, j, t)
      PROVE  TextInv'
  BY <1>8, UpdatingStep
<1>9. CASE ToggleOverlay
  BY <1>0, <1>9 DEF ToggleOverlay, textVars, bufferVars
<1>10. CASE Detach
  BY <1>0, <1>10 DEF Detach, Reset, NoComp
<1>11. CASE UNCHANGED vars
  BY <1>11 DEF vars, textVars, bufferVars
<1>12. QED
  BY <1>1, <1>2, <1>3, <1>4, <1>5, <1>6, <1>7, <1>8, <1>9, <1>10, <1>11
     DEF Next, TextServices

-----------------------------------------------------------------------------
(* The invariant of one surface's input holds in every reachable state. *)
THEOREM Invariance == Spec => []IInv
<1>1. Init => IInv
  <2> SUFFICES ASSUME Init PROVE MouseInv /\ TextInv
    BY DEF IInv
  <2>1. MouseInv
    <3>1. 0 \in 0 .. MaxDrops
      BY BoundsAssumption
    <3>2. QED
      BY <3>1 DEF Init, MouseInv, HeardIsListed, NoPhantomDrag, CaptureBacksPresses
  <2>2. /\ <<>> \in Seq(Chars)
        /\ NoComp \in [start : Nat, text : Seq(Chars), running : BOOLEAN]
        /\ NoComp.running = FALSE
    BY EmptySeq DEF NoComp
  <2>3. TextInv
    BY <2>2 DEF Init, TextInv, BufferIsComposition, PreeditIsCurrent
  <2>4. QED
    BY <2>1, <2>3
<1>2. IInv /\ [Next]_vars => IInv'
  BY MouseStep, TextStep DEF IInv
<1>3. QED
  BY <1>1, <1>2, PTL DEF Spec

(* Every variable keeps its type. *)
THEOREM TypeCorrect == Spec => []TypeOK
<1>1. IInv => TypeOK
  BY DEF IInv, MouseInv, TextInv, TypeOK
<1>2. QED
  BY <1>1, Invariance, PTL

(* The ledger lists every button libghostty takes for pressed. *)
THEOREM ListsWhatWasHeard == Spec => []HeardIsListed
<1>1. IInv => HeardIsListed
  BY DEF IInv, MouseInv
<1>2. QED
  BY <1>1, Invariance, PTL

(* No button stays pressed that the user has let go. *)
THEOREM NoDragWithoutButton == Spec => []NoPhantomDrag
<1>1. IInv => NoPhantomDrag
  BY DEF IInv, MouseInv
<1>2. QED
  BY <1>1, Invariance, PTL

(* The panel holds the pointer capture behind every outstanding press. *)
THEOREM PressesAreBacked == Spec => []CaptureBacksPresses
<1>1. IInv => CaptureBacksPresses
  BY DEF IInv, MouseInv
<1>2. QED
  BY <1>1, Invariance, PTL

(* The buffer and the composition of the OS never disagree, unless text    *)
(* came outside a composition.                                             *)
THEOREM BufferFollowsOS == Spec => []BufferIsComposition
<1>1. IInv => BufferIsComposition
  BY DEF IInv, TextInv
<1>2. QED
  BY <1>1, Invariance, PTL

(* The preedit on the screen is the composition that runs. *)
THEOREM PreeditFollowsBuffer == Spec => []PreeditIsCurrent
<1>1. IInv => PreeditIsCurrent
  BY DEF IInv, TextInv
<1>2. QED
  BY <1>1, Invariance, PTL

(* Only a composition that ends sends text, and sends all of it. *)
THEOREM WholeCommits == Spec => CommitIsWhole
<1> DEFINE Whole == (committed' # <<>> /\ ~strayed) =>
                      alive' /\ comp.running /\ ~comp'.running /\ committed' = comp.text
<1>1. IInv /\ [Next]_vars => [Whole]_vars
  <2> SUFFICES ASSUME TextInv, Next, committed' # <<>>, ~strayed
               PROVE  alive' /\ comp.running /\ ~comp'.running /\ committed' = comp.text
    BY DEF IInv
  <2>1. Disengage \/ CompositionCompleted
    BY DEF Next, Mouse, TextServices, Press, Release, Cross, LoseCapture, Cancel, RunDrop,
           SelectionChanges, CopyShortcut, Engage, CompositionStarted, FocusRemoved,
           TextOutside, TextUpdating, ToggleOverlay, Detach
  <2>2. QED
    BY <2>1 DEF TextInv, BufferIsComposition, Disengage, CompositionCompleted, Commit, NoComp
<1>2. QED
  BY <1>1, Invariance, PTL DEF Spec, CommitIsWhole

-----------------------------------------------------------------------------
(* SurfaceLife: the panel, the renderer and the handle they share.         *)

PanelEvents == [op : {"size", "scale"}, dip : Dips \cup {0}]

(* The kind of value each variable holds. *)
SurfaceTypeOK ==
  /\ stage \in {"none", "attached", "detaching", "detached", "gone"}
  /\ handle \in {"none", "open", "closed"}
  /\ request \in {"none", "renderer", "queued", "done"}
  /\ cancelled \in BOOLEAN /\ bound \in {"no", "open", "dead"}
  /\ context \in {"none", "live", "cancelled", "freed"}
  /\ thread \in {"off", "idle", "changed"} /\ owed \in BOOLEAN
  /\ lib \in [scale : Nat, size : Nat] /\ published \in Nat /\ matrix \in Nat
  /\ scale \in Nat /\ root \in Nat /\ root > 0 /\ dip \in Dips \cup {0}
  /\ events \in Seq(PanelEvents)

(* What each stage of the control holds. *)
Stages ==
  /\ stage = "none" =>
       handle = "none" /\ request = "none" /\ thread = "off" /\ dip = 0 /\ events = <<>>
  /\ stage = "attached" => handle = "open" /\ context = "live" /\ thread # "off"
  /\ stage = "detaching" => handle = "open" /\ context = "cancelled"
  /\ stage \in {"detached", "gone"} => handle # "open" /\ thread = "off"

(* A request that nobody cancelled finds the handle open. *)
RequestSafe ==
  /\ bound # "dead"
  /\ ~cancelled /\ request # "none" => stage = "attached"

(* The matrix is the published scale once the renderer has caught up, and  *)
(* the published scale is the panel's once its events have.                *)
ScaleKept ==
  stage = "attached" =>
    /\ ~owed /\ thread = "idle" => matrix = published
    /\ scale > 0 /\ (\A i \in 1 .. Len(events) : events[i].op # "scale") =>
         lib.scale = scale /\ published = scale

(* The last event of the panel carries its size, or reads it. *)
SizeKept ==
  /\ events # <<>> =>
       LET e == events[Len(events)] IN e.op = "size" => e.dip = dip
  /\ stage = "attached" /\ events = <<>> /\ scale > 0 /\ dip > 0 => lib.size = dip * scale

SurfaceInv == SurfaceTypeOK /\ Stages /\ RequestSafe /\ ScaleKept /\ SizeKept

-----------------------------------------------------------------------------
(* The arithmetic of Physical, so that nothing below needs it. *)

(* A size with a scale is never nothing. *)
LEMMA ProductPositive == \A a, b \in Nat : a > 0 /\ b > 0 => a * b > 0 /\ a * b \in Nat
BY SMT

(* A physical size is a number, zero for an empty panel only.              *)
LEMMA PhysicalIs ==
  ASSUME SurfaceTypeOK, NEW d \in Dips \cup {0}
  PROVE  /\ d \in Nat /\ Effective \in Nat /\ Effective > 0 /\ Physical(d) \in Nat
         /\ d > 0 => Physical(d) # 0
         /\ scale > 0 => Effective = scale /\ Physical(d) = d * scale
<1>1. d \in Nat
  BY SizesAssumption
<1>2. /\ Effective \in Nat /\ Effective > 0
      /\ scale > 0 => Effective = scale
  BY DEF SurfaceTypeOK, Effective
<1>3. Physical(d) = d * Effective
  BY DEF Physical
<1>4. d * Effective \in Nat
  BY <1>1, <1>2
<1>5. d > 0 => d * Effective > 0
  BY <1>1, <1>2, ProductPositive
<1>6. d > 0 => Physical(d) # 0
  BY <1>1, <1>2, <1>3, <1>4, <1>5
<1>7. QED
  BY <1>1, <1>2, <1>3, <1>4, <1>6

-----------------------------------------------------------------------------
(* The invariant. *)

(* It holds before there is a surface. *)
LEMMA SurfaceInitInv == SurfaceInit => SurfaceInv
<1> SUFFICES ASSUME SurfaceInit PROVE SurfaceInv
  OBVIOUS
<1>1. scale \in Nat /\ root \in Nat /\ root > 0
  BY SizesAssumption DEF SurfaceInit
<1>2. lib \in [scale : Nat, size : Nat]
  BY DEF SurfaceInit
<1>3. SurfaceTypeOK
  <2>1. published \in Nat /\ matrix \in Nat /\ dip \in Dips \cup {0} /\ events \in Seq(PanelEvents)
    BY DEF SurfaceInit
  <2>2. QED
    BY <1>1, <1>2, <2>1 DEF SurfaceInit, SurfaceTypeOK
<1>4. Stages /\ RequestSafe /\ ScaleKept /\ SizeKept
  BY DEF SurfaceInit, Stages, RequestSafe, ScaleKept, SizeKept
<1>5. QED
  BY <1>3, <1>4 DEF SurfaceInv

(* A surface is made complete, or not at all. *)
LEMMA MakePaneKeeps == SurfaceInv /\ MakePane => SurfaceInv'
<1> SUFFICES ASSUME SurfaceInv, MakePane PROVE SurfaceInv'
  OBVIOUS
<1>1. SurfaceTypeOK /\ Stages /\ RequestSafe
  BY DEF SurfaceInv
<1>2. /\ stage = "none" /\ dip = 0 /\ events = <<>> /\ request = "none" /\ bound # "dead"
      /\ thread = "off" /\ handle = "none"
  BY <1>1 DEF MakePane, Stages, RequestSafe
<1>3. UNCHANGED <<scale, root, dip, events>>
  BY DEF MakePane, panelVars
<1>4. CASE NoSurface
  BY <1>1, <1>2, <1>3, <1>4
  DEF NoSurface, threadVars, SurfaceInv, SurfaceTypeOK, Stages, RequestSafe, ScaleKept, SizeKept
<1>5. CASE ~NoSurface
  <2>1. /\ stage' = "attached" /\ handle' = "open" /\ request' = "renderer"
        /\ UNCHANGED <<cancelled, bound, matrix>>
        /\ context' = "live" /\ published' = Effective /\ thread' = "idle" /\ owed' = TRUE
    BY <1>5 DEF MakePane
  <2>2. PICK d \in Dips : lib' = [scale |-> Effective, size |-> Physical(d)]
    BY <1>5 DEF MakePane
  <2>3. Effective \in Nat /\ Physical(d) \in Nat /\ (scale > 0 => Effective = scale)
    BY <1>1, PhysicalIs
  <2>4. lib' \in [scale : Nat, size : Nat] /\ lib'.scale = Effective
    BY <2>2, <2>3
  <2>5. SurfaceTypeOK'
    BY <1>1, <1>3, <2>1, <2>3, <2>4 DEF SurfaceTypeOK
  <2>6. Stages' /\ RequestSafe'
    BY <1>2, <2>1 DEF Stages, RequestSafe
  <2>7. ScaleKept'
    BY <1>3, <2>1, <2>3, <2>4 DEF ScaleKept
  <2>8. SizeKept'
    BY <1>2, <1>3 DEF SizeKept
  <2>9. QED
    BY <2>5, <2>6, <2>7, <2>8 DEF SurfaceInv
<1>6. QED
  BY <1>4, <1>5

(* An event is queued behind the others, with the panel as it now is. *)
LEMMA LayoutKeeps == SurfaceInv /\ (Layout \/ Rescale) => SurfaceInv'
<1> SUFFICES ASSUME SurfaceInv, Layout \/ Rescale PROVE SurfaceInv'
  OBVIOUS
<1>1. SurfaceTypeOK /\ Stages /\ RequestSafe /\ ScaleKept
  BY DEF SurfaceInv
<1>2. /\ UNCHANGED <<stage, handle, request, cancelled, bound, context, published, thread,
                     owed, matrix, lib, root>>
      /\ stage # "none"
  BY DEF Layout, Rescale, Raised, swapVars, threadVars
<1>3. PICK e \in PanelEvents :
        /\ events' = Append(events, e)
        /\ \/ e.op = "size" /\ e.dip = dip' /\ dip' \in Dips /\ UNCHANGED scale
           \/ e.op = "scale" /\ UNCHANGED dip /\ scale' \in Scales
  <2>1. CASE Layout
    <3>1. [op |-> "size", dip |-> dip'] \in PanelEvents
      BY <2>1 DEF Layout, PanelEvents
    <3>2. QED
      BY <2>1, <3>1 DEF Layout
  <2>2. CASE Rescale
    <3>1. [op |-> "scale", dip |-> 0] \in PanelEvents
      BY DEF PanelEvents
    <3>2. QED
      BY <2>2, <3>1 DEF Rescale
  <2>3. QED
    BY <2>1, <2>2
<1>4. events \in Seq(PanelEvents)
  BY <1>1 DEF SurfaceTypeOK
<1>5. /\ events' \in Seq(PanelEvents) /\ Len(events') = Len(events) + 1
      /\ events'[Len(events')] = e /\ events' # <<>>
      /\ \A i \in 1 .. Len(events) : events'[i] = events[i]
  BY <1>3, <1>4
<1>6. SurfaceTypeOK'
  <2>1. scale \in Nat /\ dip \in Dips \cup {0}
    BY <1>1 DEF SurfaceTypeOK
  <2>2. scale' \in Nat
    BY <1>3, <2>1, SizesAssumption
  <2>3. dip' \in Dips \cup {0}
    BY <1>3, <2>1
  <2>4. QED
    BY <1>1, <1>2, <1>5, <2>2, <2>3 DEF SurfaceTypeOK
<1>7. Stages' /\ RequestSafe'
  BY <1>1, <1>2 DEF Stages, RequestSafe
<1>8. ScaleKept'
  <2>1. CASE e.op = "size"
    <3>1. UNCHANGED scale
      BY <1>3, <2>1
    <3>2. ASSUME \A i \in 1 .. Len(events') : events'[i].op # "scale"
          PROVE  \A i \in 1 .. Len(events) : events[i].op # "scale"
      BY <1>4, <1>5, <3>2
    <3>3. QED
      BY <1>1, <1>2, <3>1, <3>2 DEF ScaleKept
  <2>2. CASE e.op = "scale"
    <3>1. ~\A i \in 1 .. Len(events') : events'[i].op # "scale"
      BY <1>4, <1>5, <2>2
    <3>2. QED
      BY <1>1, <1>2, <3>1 DEF ScaleKept
  <2>3. QED
    BY <2>1, <2>2 DEF PanelEvents
<1>9. SizeKept'
  <2>1. e.op = "size" => e.dip = dip'
    BY <1>3
  <2>2. QED
    BY <1>5, <2>1 DEF SizeKept
<1>10. QED
  BY <1>6, <1>7, <1>8, <1>9 DEF SurfaceInv

(* A handler takes the oldest event and reads the panel as it is. *)
LEMMA HandlerKeeps ==
  SurfaceInv /\ (OnSizeChanged \/ OnCompositionScaleChanged) => SurfaceInv'
<1> SUFFICES ASSUME SurfaceInv, OnSizeChanged \/ OnCompositionScaleChanged PROVE SurfaceInv'
  OBVIOUS
<1> DEFINE h == Head(events)
<1>1. SurfaceTypeOK /\ Stages /\ RequestSafe /\ ScaleKept /\ SizeKept
  BY DEF SurfaceInv
<1>2. /\ UNCHANGED <<stage, handle, request, cancelled, bound, context, thread, matrix,
                     scale, root, dip>>
      /\ events # <<>> /\ events' = Tail(events)
  BY DEF OnSizeChanged, OnCompositionScaleChanged, swapVars
<1>3. events \in Seq(PanelEvents)
  BY <1>1 DEF SurfaceTypeOK
<1>4. /\ h \in PanelEvents /\ h = events[1]
      /\ events' \in Seq(PanelEvents) /\ Len(events') = Len(events) - 1
      /\ \A i \in 1 .. Len(events') : events'[i] = events[i + 1]
      /\ Len(events) \in Nat /\ Len(events) > 0
  BY <1>2, <1>3
<1>5. h.op \in {"size", "scale"} /\ h.dip \in Dips \cup {0}
  BY <1>4 DEF PanelEvents
<1>6. /\ Physical(h.dip) \in Nat /\ Physical(dip) \in Nat
      /\ dip \in Nat /\ h.dip \in Nat
      /\ scale > 0 => Physical(dip) = dip * scale
      /\ dip > 0 => Physical(dip) # 0
  BY <1>1, <1>5, PhysicalIs DEF SurfaceTypeOK
<1>7. scale \in Nat /\ lib \in [scale : Nat, size : Nat] /\ published \in Nat /\ owed \in BOOLEAN
  BY <1>1 DEF SurfaceTypeOK
(* What the handler did. *)
<1>8. \/ /\ h.op = "size" /\ UNCHANGED published
         /\ IF stage = "attached" /\ Physical(h.dip) # 0
              THEN lib' = [lib EXCEPT !.size = Physical(h.dip)] /\ owed' = TRUE
              ELSE UNCHANGED <<lib, owed>>
      \/ /\ h.op = "scale"
         /\ IF stage = "attached" /\ scale > 0
              THEN /\ published' = scale /\ owed' = TRUE
                   /\ lib' = [scale |-> scale,
                              size |-> IF dip = 0 THEN lib.size ELSE Physical(dip)]
              ELSE UNCHANGED <<published, owed, lib>>
  <2>1. CASE OnSizeChanged
    BY <2>1 DEF OnSizeChanged, Head1, Resized
  <2>2. CASE OnCompositionScaleChanged
    BY <2>2 DEF OnCompositionScaleChanged, Head1, Rescaled
  <2>3. QED
    BY <2>1, <2>2
<1>9. /\ lib' \in [scale : Nat, size : Nat] /\ published' \in Nat /\ owed' \in BOOLEAN
      /\ h.op = "size" => lib'.scale = lib.scale /\ published' = published
  <2>1. CASE h.op = "size"
    BY <1>6, <1>7, <1>8, <2>1
  <2>2. CASE h.op = "scale"
    <3>1. CASE stage = "attached" /\ scale > 0
      <4>1. /\ published' = scale /\ owed' = TRUE
            /\ lib' = [scale |-> scale, size |-> IF dip = 0 THEN lib.size ELSE Physical(dip)]
        BY <1>8, <2>2, <3>1
      <4>2. (IF dip = 0 THEN lib.size ELSE Physical(dip)) \in Nat
        BY <1>6, <1>7
      <4>3. QED
        BY <1>7, <2>2, <4>1, <4>2
    <3>2. CASE ~(stage = "attached" /\ scale > 0)
      BY <1>7, <1>8, <2>2, <3>2
    <3>3. QED
      BY <3>1, <3>2
  <2>3. QED
    BY <1>5, <2>1, <2>2
<1>10. SurfaceTypeOK'
  BY <1>1, <1>2, <1>4, <1>9 DEF SurfaceTypeOK
<1>11. Stages' /\ RequestSafe'
  <2>1. stage # "none"
    BY <1>1, <1>2 DEF Stages
  <2>2. QED
    BY <1>1, <1>2, <2>1 DEF Stages, RequestSafe
<1>12. ScaleKept'
  <2> SUFFICES ASSUME stage = "attached"
      PROVE  /\ ~owed' /\ thread = "idle" => matrix = published'
             /\ scale > 0 /\ (\A i \in 1 .. Len(events') : events'[i].op # "scale") =>
                  lib'.scale = scale /\ published' = scale
    BY <1>2 DEF ScaleKept
  <2>1. ~owed' => ~owed /\ published' = published
    BY <1>7, <1>8
  <2>2. ASSUME scale > 0, \A i \in 1 .. Len(events') : events'[i].op # "scale"
        PROVE  lib'.scale = scale /\ published' = scale
    <3>1. CASE h.op = "scale"
      BY <1>8, <2>2, <3>1
    <3>2. CASE h.op = "size"
      <4>1. \A i \in 1 .. Len(events) : events[i].op # "scale"
        <5> TAKE i \in 1 .. Len(events)
        <5>1. CASE i = 1
          BY <1>4, <3>2, <5>1
        <5>2. CASE i # 1
          <6>1. i - 1 \in 1 .. Len(events') /\ events'[i - 1] = events[i]
            BY <1>4, <5>2
          <6>2. QED
            BY <2>2, <6>1
        <5>3. QED
          BY <5>1, <5>2
      <4>2. QED
        BY <1>1, <1>9, <2>2, <3>2, <4>1 DEF ScaleKept
    <3>3. QED
      BY <1>5, <3>1, <3>2
  <2>3. QED
    BY <1>1, <2>1, <2>2 DEF ScaleKept
<1>13. SizeKept'
  <2>1. CASE Len(events) = 1
    <3>1. events' = <<>>
      BY <1>4, <2>1
    <3>2. h.op = "size" => h.dip = dip
      BY <1>1, <1>2, <1>4, <2>1 DEF SizeKept
    <3>3. ASSUME stage = "attached", scale > 0, dip > 0
          PROVE  lib'.size = dip * scale
      <4>1. Physical(dip) = dip * scale /\ Physical(dip) # 0 /\ dip # 0
        BY <1>6, <3>3
      <4>2. CASE h.op = "size"
        <5>1. lib' = [lib EXCEPT !.size = Physical(dip)]
          BY <1>8, <3>2, <3>3, <4>1, <4>2
        <5>2. lib'.size = Physical(dip)
          BY <1>7, <5>1
        <5>3. QED
          BY <4>1, <5>2
      <4>3. CASE h.op = "scale"
        <5>1. lib' = [scale |-> scale, size |-> Physical(dip)]
          BY <1>8, <3>3, <4>1, <4>3
        <5>2. QED
          BY <4>1, <5>1
      <4>4. QED
        BY <1>5, <4>2, <4>3
    <3>4. QED
      BY <1>2, <3>1, <3>3 DEF SizeKept
  <2>2. CASE Len(events) # 1
    <3>1. events' # <<>> /\ events'[Len(events')] = events[Len(events)]
      BY <1>4, <2>2
    <3>2. QED
      BY <1>1, <1>2, <3>1 DEF SizeKept
  <2>3. QED
    BY <2>1, <2>2
<1>14. QED
  BY <1>10, <1>11, <1>12, <1>13 DEF SurfaceInv

(* The renderer thread and the closure it queued. *)
LEMMA RendererKeeps ==
  SurfaceInv /\ (OnSwapChainReady \/ EnterChanged \/ InstallMatrix \/ RunAttach) => SurfaceInv'
<1> SUFFICES ASSUME SurfaceInv,
                    OnSwapChainReady \/ EnterChanged \/ InstallMatrix \/ RunAttach
             PROVE  SurfaceInv'
  OBVIOUS
<1>1. SurfaceTypeOK /\ Stages /\ RequestSafe /\ ScaleKept /\ SizeKept
  BY DEF SurfaceInv
<1>2. UNCHANGED <<stage, handle, cancelled, context, published, lib, scale, root, dip, events>>
  BY DEF OnSwapChainReady, EnterChanged, InstallMatrix, RunAttach, swapVars, threadVars, panelVars
<1>3. SizeKept'
  BY <1>1, <1>2 DEF SizeKept
<1>4. CASE OnSwapChainReady
  <2>1. /\ UNCHANGED <<bound, thread, owed, matrix>>
        /\ request # "none" /\ request' \in {"queued", "done"} /\ thread # "off"
    BY <1>4 DEF OnSwapChainReady, threadVars
  <2>2. QED
    BY <1>1, <1>2, <1>3, <2>1
    DEF SurfaceInv, SurfaceTypeOK, Stages, RequestSafe, ScaleKept
<1>5. CASE EnterChanged
  <2>1. /\ UNCHANGED <<bound, request, matrix>>
        /\ thread = "idle" /\ owed' = FALSE
        /\ thread' = IF context = "cancelled" THEN "idle" ELSE "changed"
    BY <1>5 DEF EnterChanged, swapVars
  <2>2. QED
    BY <1>1, <1>2, <1>3, <2>1
    DEF SurfaceInv, SurfaceTypeOK, Stages, RequestSafe, ScaleKept
<1>6. CASE InstallMatrix
  <2>1. /\ UNCHANGED <<bound, request, owed>>
        /\ thread = "changed" /\ thread' = "idle" /\ matrix' = published
    BY <1>6 DEF InstallMatrix, swapVars
  <2>2. QED
    BY <1>1, <1>2, <1>3, <2>1
    DEF SurfaceInv, SurfaceTypeOK, Stages, RequestSafe, ScaleKept
<1>7. CASE RunAttach
  <2>1. /\ UNCHANGED <<thread, owed, matrix>>
        /\ request = "queued" /\ request' = "done"
        /\ bound' = IF cancelled THEN bound ELSE IF handle = "open" THEN "open" ELSE "dead"
    BY <1>7 DEF RunAttach, threadVars
  <2>2. ~cancelled => handle = "open"
    BY <1>1, <2>1 DEF RequestSafe, Stages
  <2>3. QED
    BY <1>1, <1>2, <1>3, <2>1, <2>2
    DEF SurfaceInv, SurfaceTypeOK, Stages, RequestSafe, ScaleKept
<1>8. QED
  BY <1>4, <1>5, <1>6, <1>7

(* The end: the flags before the join, the join before the handle. *)
LEMMA DetachKeeps ==
  SurfaceInv /\ (DetachCancels \/ DetachFrees \/ Destroyed) => SurfaceInv'
<1> SUFFICES ASSUME SurfaceInv, DetachCancels \/ DetachFrees \/ Destroyed PROVE SurfaceInv'
  OBVIOUS
<1>1. SurfaceTypeOK /\ Stages /\ RequestSafe /\ ScaleKept /\ SizeKept
  BY DEF SurfaceInv
<1>2. /\ UNCHANGED <<request, bound, published, matrix, lib, scale, root, dip, events>>
      /\ stage' # "attached" /\ stage' # "none"
  BY DEF DetachCancels, DetachFrees, Destroyed, swapVars, threadVars, panelVars
<1>3. SizeKept' /\ ScaleKept'
  BY <1>1, <1>2 DEF SizeKept, ScaleKept
<1>4. CASE DetachCancels
  <2>1. /\ UNCHANGED <<handle, thread, owed>>
        /\ stage = "attached" /\ stage' = "detaching" /\ cancelled' = TRUE /\ context' = "cancelled"
    BY <1>4 DEF DetachCancels, Cancels
  <2>2. QED
    BY <1>1, <1>2, <1>3, <2>1 DEF SurfaceInv, SurfaceTypeOK, Stages, RequestSafe
<1>5. CASE DetachFrees
  <2>1. /\ UNCHANGED <<cancelled, context>>
        /\ stage = "detaching" /\ stage' = "detached"
        /\ thread' = "off" /\ owed' = FALSE /\ handle' = "closed"
    BY <1>5 DEF DetachFrees
  <2>2. QED
    BY <1>1, <1>2, <1>3, <2>1 DEF SurfaceInv, SurfaceTypeOK, Stages, RequestSafe
<1>6. CASE Destroyed
  <2>1. /\ UNCHANGED <<handle, cancelled, thread, owed>>
        /\ stage = "detached" /\ stage' = "gone" /\ context' = "freed"
    BY <1>6 DEF Destroyed, swapVars
  <2>2. QED
    BY <1>1, <1>2, <1>3, <2>1 DEF SurfaceInv, SurfaceTypeOK, Stages, RequestSafe
<1>7. QED
  BY <1>4, <1>5, <1>6

(* The inductive invariant holds in every reachable state. *)
THEOREM SurfaceInvariance == SurfaceSpec => []SurfaceInv
<1>1. SurfaceInv /\ [SurfaceNext]_surfaceVars => SurfaceInv'
  <2> SUFFICES ASSUME SurfaceInv, [SurfaceNext]_surfaceVars PROVE SurfaceInv'
    OBVIOUS
  <2>1. CASE UNCHANGED surfaceVars
    BY <2>1
    DEF surfaceVars, swapVars, threadVars, panelVars, SurfaceInv, SurfaceTypeOK, Stages,
        RequestSafe, ScaleKept, SizeKept
  <2>2. CASE SurfaceNext
    BY <2>2, MakePaneKeeps, LayoutKeeps, HandlerKeeps, RendererKeeps, DetachKeeps DEF SurfaceNext
  <2>3. QED
    BY <2>1, <2>2
<1>2. QED
  BY <1>1, SurfaceInitInv, PTL DEF SurfaceSpec

(* Nobody uses a handle or a context that the other thread has released,   *)
(* for any interleaving of Detach with the renderer's callbacks and the    *)
(* closure that binds the swap chain.                                      *)
THEOREM DeadStayUnused == SurfaceSpec => []NothingDeadUsed
<1>1. SurfaceInv => NothingDeadUsed
  BY DEF SurfaceInv, SurfaceTypeOK, Stages, RequestSafe, NothingDeadUsed
<1>2. QED
  BY <1>1, SurfaceInvariance, PTL

(* Once its events and callbacks have run, the surface is as large as the  *)
(* panel and undoes its scale, in whatever order they came.                *)
THEOREM PanelIsFollowed == SurfaceSpec => []FollowsPanel
<1>1. SurfaceInv => FollowsPanel
  <2> SUFFICES ASSUME SurfaceInv, stage = "attached", events = <<>>, thread = "idle", ~owed,
                      scale > 0
               PROVE  /\ lib.scale = scale /\ matrix = scale
                      /\ dip > 0 => lib.size = dip * scale
    BY DEF FollowsPanel
  <2>1. ScaleKept /\ SizeKept
    BY DEF SurfaceInv
  <2>2. \A i \in 1 .. Len(events) : events[i].op # "scale"
    OBVIOUS
  <2>3. QED
    BY <2>1, <2>2 DEF ScaleKept, SizeKept
<1>2. QED
  BY <1>1, SurfaceInvariance, PTL

-----------------------------------------------------------------------------
(* WindowClose: the gate and its dialog.                                   *)

Targets == Tabs \cup Panes \cup {Window}

CloseInv == CloseTypeOK /\ FlagsMatchDialog

-----------------------------------------------------------------------------
(* The scope of a close, and what carrying it out takes away. *)

(* Covered reads the scope off the target, which has one kind only. *)
LEMMA CoveredIs ==
  /\ Covered(Window) = Live
  /\ \A t \in Tabs : Covered(t) = tree[t]
  /\ \A p \in Panes : Covered(p) = {p} \cap Live
BY TargetsAssumption DEF Covered

(* TabOf finds the tab of a live pane. *)
LEMMA TabOfIs ==
  ASSUME NEW p \in Live
  PROVE  TabOf(p) \in Tabs /\ p \in tree[TabOf(p)]
<1>1. \E t \in Tabs : p \in tree[t]
  BY DEF Live
<1>2. QED
  BY <1>1 DEF TabOf

(* Every live pane is a pane. *)
LEMMA LivePanes == CloseTypeOK => Live \subseteq Panes
BY DEF CloseTypeOK, Live

(* RemovePanes ends no pane outside its argument, and commits the window   *)
(* to its close only when no other pane is left.                           *)
LEMMA RemovePanesEnds ==
  ASSUME CloseTypeOK, NEW gone, RemovePanes(gone)
  PROVE  /\ tree' \in [Tabs -> SUBSET Panes]
         /\ \A p \in Live : p \notin Live' \/ phase' # phase => p \in gone
         /\ bypass' \in BOOLEAN
         /\ phase' = phase \/ phase' = "closing"
<1>1. CASE gone # {} /\ Live \subseteq gone
  BY <1>1 DEF RemovePanes, RequestClose
<1>2. CASE ~(gone # {} /\ Live \subseteq gone)
  <2>1. tree' = [t \in Tabs |-> tree[t] \ gone] /\ UNCHANGED <<bypass, phase>>
    BY <1>2 DEF RemovePanes
  <2>2. \A p \in Live : p \notin gone => p \in Live'
    BY <2>1 DEF Live
  <2>3. tree' \in [Tabs -> SUBSET Panes]
    BY <2>1 DEF CloseTypeOK
  <2>4. QED
    BY <2>1, <2>2, <2>3 DEF CloseTypeOK
<1>3. QED
  BY <1>1, <1>2

(* An approved close ends nothing outside its scope. *)
LEMMA ApproveEnds ==
  ASSUME CloseTypeOK, NEW target \in Targets, Approve(target)
  PROVE  /\ tree' \in [Tabs -> SUBSET Panes]
         /\ \A p \in Live : p \notin Live' \/ phase' # phase => p \in Covered(target)
         /\ bypass' \in BOOLEAN
         /\ phase' = phase \/ phase' = "closing"
<1>1. CASE target = Window
  BY <1>1, CoveredIs DEF Approve, RequestClose, CloseTypeOK
<1>2. CASE target # Window
  <2>1. RemovePanes(Covered(target))
    BY <1>2 DEF Approve
  <2>2. QED
    BY <2>1, RemovePanesEnds
<1>3. QED
  BY <1>1, <1>2

-----------------------------------------------------------------------------
(* What a request may do to the dialog and to the panes: keep the type and *)
(* the flags of the dialog, and end no running command unasked.            *)

DialogKept ==
  /\ pending \in BOOLEAN /\ renameOpen \in BOOLEAN
  /\ dialog \in Dialogs /\ threw \subseteq {"close", "rename"}
  /\ tree \in [Tabs -> SUBSET Panes] /\ bypass \in BOOLEAN
  /\ phase \in {"open", "closing", "closed", "crashed"}
  /\ FlagsMatchDialog

NoneEndsUnasked ==
  phase = "open" /\ rooted =>
    \A p \in Live : shell[p] = "busy" =>
      p \in Live' /\ (phase' = "open" \/ (phase' = "crashed" /\ threw' # {}))

(* The step that approves the dialog, and what it ends. *)
ApprovedEnds ==
  /\ AnswerClose(TRUE)
  /\ \A p \in Live : p \notin Live' \/ phase' # phase => p \in Covered(dialog.target)

(* The dialogs a request may raise are dialogs. *)
LEMMA DialogKinds ==
  /\ NoDialog.kind = "none" /\ NoDialog \in Dialogs
  /\ \A target \in Targets, k \in {"close", "rename"} :
       /\ [kind |-> k, target |-> target] \in Dialogs
       /\ [kind |-> k, target |-> target].kind = k
BY DEF NoDialog, Dialogs, Targets

(* Nothing ends when the panes and the phase stay. *)
LEMMA NothingEnds ==
  ASSUME UNCHANGED <<tree, phase>>
  PROVE  NoneEndsUnasked
BY DEF NoneEndsUnasked, Live

(* A throw leaves the panes alone, and ends them only with the process. *)
LEMMA ThrowLeaves ==
  ASSUME CloseInv, NEW caught, Throw(caught), NEW flag, threw' = threw \cup {flag}
  PROVE  /\ UNCHANGED <<dialog, tree, bypass>>
         /\ phase' \in {"open", "closing", "closed", "crashed"}
         /\ NoneEndsUnasked
<1>1. UNCHANGED <<dialog, tree, bypass>> /\ (phase' = phase \/ phase' = "crashed")
  BY DEF Throw
<1>2. threw' # {} /\ Live' = Live
  BY <1>1 DEF Live
<1>3. QED
  BY <1>1, <1>2 DEF CloseInv, CloseTypeOK, NoneEndsUnasked

(* Submit keeps the flags and ends no running command unasked: it drops    *)
(* the request, carries it out when its scope runs nothing, or asks.       *)
LEMMA SubmitKeeps ==
  ASSUME CloseInv, NEW target \in Targets, NEW caught, Submit(target, caught)
  PROVE  DialogKept' /\ NoneEndsUnasked
<1>1. CASE pending /\ UNCHANGED <<dialogVars, tree, bypass, phase>>
  BY <1>1, NothingEnds
  DEF CloseInv, CloseTypeOK, DialogKept, FlagsMatchDialog, dialogVars
<1>2. CASE /\ ~pending
           /\ ~NeedsConfirm(target) \/ ~rooted
           /\ Approve(target)
           /\ UNCHANGED dialogVars
  <2>1. /\ tree' \in [Tabs -> SUBSET Panes] /\ bypass' \in BOOLEAN
        /\ phase' = phase \/ phase' = "closing"
        /\ \A p \in Live : p \notin Live' \/ phase' # phase => p \in Covered(target)
    BY <1>2, ApproveEnds DEF CloseInv
  <2>2. rooted => \A p \in Covered(target) : shell[p] # "busy"
    BY <1>2 DEF NeedsConfirm
  <2>3. NoneEndsUnasked
    BY <2>1, <2>2 DEF NoneEndsUnasked
  <2>4. DialogKept'
    BY <1>2, <2>1 DEF CloseInv, CloseTypeOK, DialogKept, FlagsMatchDialog, dialogVars
  <2>5. QED
    BY <2>3, <2>4
<1>3. CASE /\ ~pending /\ pending' = TRUE
           /\ dialog = NoDialog
           /\ dialog' = [kind |-> "close", target |-> target]
           /\ UNCHANGED <<threw, tree, bypass, phase, renameOpen>>
  <2>1. dialog' \in Dialogs /\ dialog'.kind = "close" /\ dialog.kind = "none"
    BY <1>3, DialogKinds
  <2>2. QED
    BY <1>3, <2>1, NothingEnds DEF CloseInv, CloseTypeOK, DialogKept, FlagsMatchDialog
<1>4. CASE /\ ~pending /\ pending' = TRUE
           /\ threw' = threw \cup {"close"}
           /\ Throw(caught)
           /\ UNCHANGED renameOpen
  <2>1. /\ UNCHANGED <<dialog, tree, bypass>>
        /\ phase' \in {"open", "closing", "closed", "crashed"}
        /\ NoneEndsUnasked
    BY <1>4, ThrowLeaves
  <2>2. QED
    BY <1>4, <2>1 DEF CloseInv, CloseTypeOK, DialogKept, FlagsMatchDialog
<1>5. QED
  BY <1>1, <1>2, <1>3, <1>4 DEF Submit

(* The rename prompt keeps the flags and ends nothing. *)
LEMMA PromptKeeps ==
  ASSUME CloseInv, NEW p, PromptTitle(p)
  PROVE  DialogKept' /\ NoneEndsUnasked
<1>1. CASE UNCHANGED <<dialogVars, tree, bypass, phase>>
  BY <1>1, NothingEnds
  DEF CloseInv, CloseTypeOK, DialogKept, FlagsMatchDialog, dialogVars
<1>2. CASE /\ p \in Live /\ renameOpen' = TRUE
           /\ dialog = NoDialog
           /\ dialog' = [kind |-> "rename", target |-> TabOf(p)]
           /\ UNCHANGED <<threw, tree, bypass, phase, pending>>
  <2>1. TabOf(p) \in Targets
    BY <1>2, TabOfIs DEF Targets
  <2>2. dialog' \in Dialogs /\ dialog'.kind = "rename" /\ dialog.kind = "none"
    BY <1>2, <2>1, DialogKinds
  <2>3. QED
    BY <1>2, <2>2, NothingEnds DEF CloseInv, CloseTypeOK, DialogKept, FlagsMatchDialog
<1>3. CASE /\ renameOpen' = TRUE
           /\ threw' = threw \cup {"rename"}
           /\ Throw(FALSE)
           /\ UNCHANGED pending
  <2>1. /\ UNCHANGED <<dialog, tree, bypass>>
        /\ phase' \in {"open", "closing", "closed", "crashed"}
        /\ NoneEndsUnasked
    BY <1>3, ThrowLeaves
  <2>2. QED
    BY <1>3, <2>1 DEF CloseInv, CloseTypeOK, DialogKept, FlagsMatchDialog
<1>4. QED
  BY <1>1, <1>2, <1>3 DEF PromptTitle

(* The answer lowers the flag of its own dialog, and an approval ends what *)
(* the dialog was about.                                                   *)
LEMMA AnswerKeeps ==
  ASSUME CloseInv, NEW approved \in BOOLEAN, AnswerClose(approved)
  PROVE  DialogKept' /\ (NoneEndsUnasked \/ ApprovedEnds)
<1>1. /\ dialog.kind = "close" /\ dialog' = NoDialog /\ pending' = FALSE
      /\ UNCHANGED <<renameOpen, threw>>
  BY DEF AnswerClose
<1>2. dialog.target \in Targets
  BY DEF CloseInv, CloseTypeOK, Dialogs, Targets
<1>3. /\ tree' \in [Tabs -> SUBSET Panes] /\ bypass' \in BOOLEAN
      /\ phase' = phase \/ phase' = "closing"
      /\ NoneEndsUnasked \/ ApprovedEnds
  <2>1. CASE approved
    <3>1. Approve(dialog.target)
      BY <2>1 DEF AnswerClose
    <3>2. AnswerClose(TRUE)
      BY <2>1
    <3>3. QED
      BY <1>2, <3>1, <3>2, ApproveEnds DEF CloseInv, ApprovedEnds
  <2>2. CASE ~approved
    BY <2>2, NothingEnds DEF AnswerClose, CloseInv, CloseTypeOK
  <2>3. QED
    BY <2>1, <2>2
<1>4. dialog'.kind = "none" /\ dialog' \in Dialogs
  BY <1>1, DialogKinds
<1>5. DialogKept'
  BY <1>1, <1>3, <1>4 DEF CloseInv, CloseTypeOK, DialogKept, FlagsMatchDialog
<1>6. QED
  BY <1>3, <1>5

-----------------------------------------------------------------------------
(* The actions. *)

(* What the delivery of the oldest request does, the move set apart. *)
LEMMA DeliverKeeps ==
  ASSUME CloseInv, Deliver
  PROVE  /\ DialogKept'
         /\ Head(queue).op # "move" => NoneEndsUnasked
<1> DEFINE r == Head(queue)
<1>1. r \in Requests /\ r.pane \in Panes
  <2>1. queue \in Seq(Requests) /\ queue # <<>>
    BY DEF CloseInv, CloseTypeOK, Deliver
  <2>2. r \in Requests
    BY <2>1
  <2>3. QED
    BY <2>2 DEF Requests
<1>2. CASE r.op = "close_window" /\ Submit(Window, FALSE)
  BY <1>2, SubmitKeeps DEF Targets
<1>3. CASE r.op = "close_tab" /\ r.pane \in Live /\ Submit(TabOf(r.pane), FALSE)
  <2>1. TabOf(r.pane) \in Targets
    BY <1>3, TabOfIs DEF Targets
  <2>2. QED
    BY <1>3, <2>1, SubmitKeeps
<1>4. CASE r.op = "close_pane" /\ r.pane \in Live /\ Submit(r.pane, FALSE)
  BY <1>1, <1>4, SubmitKeeps DEF Targets
<1>5. CASE r.op = "rename" /\ PromptTitle(r.pane)
  BY <1>5, PromptKeeps
<1>6. CASE r.op = "move" /\ MoveTab(r.pane)
  <2>1. UNCHANGED <<pending, renameOpen, dialog, threw, bypass, phase>>
    BY <1>6 DEF MoveTab, dialogVars
  <2>2. tree' \in [Tabs -> SUBSET Panes]
    BY <1>6 DEF MoveTab, CloseInv, CloseTypeOK
  <2>3. QED
    BY <1>6, <2>1, <2>2 DEF CloseInv, CloseTypeOK, DialogKept, FlagsMatchDialog
<1>7. CASE UNCHANGED <<dialogVars, tree, bypass, phase>>
  BY <1>7, NothingEnds
  DEF CloseInv, CloseTypeOK, DialogKept, FlagsMatchDialog, dialogVars
<1>8. QED
  BY <1>2, <1>3, <1>4, <1>5, <1>6, <1>7 DEF Deliver

(* A request put at the end of the queue. *)
LEMMA EnqueueKeeps ==
  ASSUME CloseInv, NEW p \in Panes, NEW op, Enqueue(op, p),
         op \in {"close_pane", "close_tab", "close_window", "rename", "move"}
  PROVE  queue' \in Seq(Requests) /\ Len(queue') <= MaxQueue
<1>1. [op |-> op, pane |-> p] \in Requests
  BY DEF Requests
<1>2. queue \in Seq(Requests) /\ Len(queue) < MaxQueue
  BY DEF CloseInv, CloseTypeOK, Enqueue
<1>3. QED
  BY <1>1, <1>2, MaxQueueAssumption DEF Enqueue

(* The queue without its head. *)
LEMMA TailKeeps ==
  ASSUME CloseInv, queue # <<>>, queue' = Tail(queue)
  PROVE  queue' \in Seq(Requests) /\ Len(queue') <= MaxQueue
<1>1. queue \in Seq(Requests) /\ Len(queue) <= MaxQueue
  BY DEF CloseInv, CloseTypeOK
<1>2. QED
  BY <1>1, MaxQueueAssumption

(* The steps of a pane: none of them touches a dialog or ends a pane. *)
LEMMA PaneStepKeeps ==
  ASSUME CloseInv, NEW p \in Panes, PaneStep(p)
  PROVE  CloseInv' /\ NoneEndsUnasked
<1>1. CASE \E t \in Tabs : NewPane(t, p)
  <2>1. PICK t \in Tabs : NewPane(t, p)
    BY <1>1
  <2>2. /\ UNCHANGED <<queue, rooted, pending, renameOpen, dialog, threw, bypass, phase>>
        /\ tree' = [tree EXCEPT ![t] = @ \cup {p}]
        /\ used' = used \cup {t}
        /\ shell' = [shell EXCEPT ![p] = "prompt"]
    BY <2>1 DEF NewPane, dialogVars
  <2>3. tree \in [Tabs -> SUBSET Panes] /\ shell \in [Panes -> {"unborn", "prompt", "busy", "exited"}]
    BY DEF CloseInv, CloseTypeOK
  <2>4. tree' \in [Tabs -> SUBSET Panes] /\ \A u \in Tabs : tree[u] \subseteq tree'[u]
    BY <2>2, <2>3
  <2>5. shell' \in [Panes -> {"unborn", "prompt", "busy", "exited"}]
    BY <2>2, <2>3
  <2>6. Live \subseteq Live'
    BY <2>4 DEF Live
  <2>7. CloseInv'
    BY <2>2, <2>4, <2>5 DEF CloseInv, CloseTypeOK, FlagsMatchDialog
  <2>8. QED
    BY <2>2, <2>6, <2>7 DEF NoneEndsUnasked
<1>2. CASE \E s \in {"prompt", "busy"} : ShellRuns(p, s)
  <2>1. PICK s \in {"prompt", "busy"} : ShellRuns(p, s)
    BY <1>2
  <2>2. /\ UNCHANGED <<tree, used, queue, rooted, pending, renameOpen, dialog, threw, bypass, phase>>
        /\ shell' \in [Panes -> {"unborn", "prompt", "busy", "exited"}]
    BY <2>1 DEF ShellRuns, dialogVars, CloseInv, CloseTypeOK
  <2>3. QED
    BY <2>2, NothingEnds DEF CloseInv, CloseTypeOK, FlagsMatchDialog
<1>3. CASE ShellExit(p)
  <2>1. /\ UNCHANGED <<tree, used, rooted, pending, renameOpen, dialog, threw, bypass, phase>>
        /\ shell' \in [Panes -> {"unborn", "prompt", "busy", "exited"}]
    BY <1>3 DEF ShellExit, dialogVars, CloseInv, CloseTypeOK
  <2>2. queue' \in Seq(Requests) /\ Len(queue') <= MaxQueue
    BY <1>3, EnqueueKeeps DEF ShellExit
  <2>3. QED
    BY <2>1, <2>2, NothingEnds DEF CloseInv, CloseTypeOK, FlagsMatchDialog
<1>4. CASE Keybind(p)
  <2>1. UNCHANGED <<tree, used, shell, rooted, pending, renameOpen, dialog, threw, bypass, phase>>
    BY <1>4 DEF Keybind, paneVars, dialogVars
  <2>2. queue' \in Seq(Requests) /\ Len(queue') <= MaxQueue
    BY <1>4, EnqueueKeeps DEF Keybind
  <2>3. QED
    BY <2>1, <2>2, NothingEnds DEF CloseInv, CloseTypeOK, FlagsMatchDialog
<1>5. QED
  BY <1>1, <1>2, <1>3, <1>4 DEF PaneStep

(* The type and the flags again, when the rest stays as it is. *)
LEMMA RestKept ==
  ASSUME CloseInv, DialogKept', UNCHANGED <<used, shell, rooted>>,
         queue' \in Seq(Requests) /\ Len(queue') <= MaxQueue
  PROVE  CloseInv'
BY DEF CloseInv, CloseTypeOK, DialogKept

(* One step of the window: the invariant holds, and what a step ends, the  *)
(* user approved, unless it delivers a move or closes every window.        *)
LEMMA StepKeeps ==
  ASSUME CloseInv, CloseNext
  PROVE  /\ CloseInv'
         /\ \/ NoneEndsUnasked \/ phase # "open" \/ ApprovedEnds \/ CloseAllWindows
            \/ Deliver /\ Head(queue).op = "move"
<1>1. CASE \E p \in Panes : PaneStep(p)
  BY <1>1, PaneStepKeeps
<1>2. CASE \E target \in Tabs \cup {Window} : CloseClick(target)
  <2>1. PICK target \in Tabs \cup {Window} : CloseClick(target)
    BY <1>2
  <2>2. Submit(target, FALSE) /\ UNCHANGED <<used, shell, queue, rooted>>
    BY <2>1 DEF CloseClick
  <2>3. target \in Targets
    BY DEF Targets
  <2>4. DialogKept' /\ NoneEndsUnasked
    BY <2>2, <2>3, SubmitKeeps
  <2>5. queue' \in Seq(Requests) /\ Len(queue') <= MaxQueue
    BY <2>2 DEF CloseInv, CloseTypeOK
  <2>6. QED
    BY <2>2, <2>4, <2>5, RestKept
<1>3. CASE \E approved \in BOOLEAN : AnswerClose(approved)
  <2>1. PICK approved \in BOOLEAN : AnswerClose(approved)
    BY <1>3
  <2>2. UNCHANGED <<used, shell, queue, rooted>>
    BY <2>1 DEF AnswerClose
  <2>3. queue' \in Seq(Requests) /\ Len(queue') <= MaxQueue
    BY <2>2 DEF CloseInv, CloseTypeOK
  <2>4. QED
    BY <2>1, <2>2, <2>3, AnswerKeeps, RestKept
<1>4. CASE Realise
  <2>1. UNCHANGED <<tree, used, shell, queue, pending, renameOpen, dialog, threw, bypass, phase>>
    BY <1>4 DEF Realise, paneVars, dialogVars
  <2>2. rooted' = TRUE
    BY <1>4 DEF Realise
  <2>3. QED
    BY <2>1, <2>2, NothingEnds DEF CloseInv, CloseTypeOK, FlagsMatchDialog
<1>5. CASE Deliver
  <2>1. queue # <<>> /\ queue' = Tail(queue) /\ UNCHANGED <<used, shell, rooted>>
    BY <1>5 DEF Deliver
  <2>2. QED
    BY <1>5, <2>1, DeliverKeeps, TailKeeps, RestKept
<1>6. CASE WmClose
  <2>1. Submit(Window, TRUE) /\ UNCHANGED <<used, shell, queue, rooted>>
    BY <1>6 DEF WmClose
  <2>2. DialogKept' /\ NoneEndsUnasked
    BY <2>1, SubmitKeeps DEF Targets
  <2>3. queue' \in Seq(Requests) /\ Len(queue') <= MaxQueue
    BY <2>1 DEF CloseInv, CloseTypeOK
  <2>4. QED
    BY <2>1, <2>2, <2>3, RestKept
<1>7. CASE AnswerRename
  <2>1. /\ UNCHANGED <<tree, used, shell, queue, rooted, pending, threw, bypass, phase>>
        /\ dialog.kind = "rename" /\ dialog' = NoDialog /\ renameOpen' = FALSE
    BY <1>7 DEF AnswerRename, paneVars
  <2>2. dialog'.kind = "none" /\ dialog' \in Dialogs
    BY <2>1, DialogKinds
  <2>3. QED
    BY <2>1, <2>2, NothingEnds DEF CloseInv, CloseTypeOK, FlagsMatchDialog
<1>8. CASE CloseAllWindows
  <2>1. /\ UNCHANGED <<tree, used, shell, queue, rooted, pending, renameOpen, dialog, threw, bypass>>
        /\ phase' = "closing"
    BY <1>8 DEF CloseAllWindows, paneVars, dialogVars
  <2>2. QED
    BY <1>8, <2>1 DEF CloseInv, CloseTypeOK, FlagsMatchDialog
<1>9. CASE Destroy
  <2>1. /\ UNCHANGED <<used, shell, rooted, pending, renameOpen, dialog, threw, bypass>>
        /\ phase = "closing" /\ phase' = "closed"
        /\ tree' = [t \in Tabs |-> {}] /\ queue' = <<>>
    BY <1>9 DEF Destroy, dialogVars
  <2>2. queue' \in Seq(Requests) /\ Len(queue') <= MaxQueue
    BY <2>1, MaxQueueAssumption
  <2>3. tree' \in [Tabs -> SUBSET Panes]
    BY <2>1
  <2>4. QED
    BY <2>1, <2>2, <2>3 DEF CloseInv, CloseTypeOK, FlagsMatchDialog
<1>10. QED
  BY <1>1, <1>2, <1>3, <1>4, <1>5, <1>6, <1>7, <1>8, <1>9 DEF CloseNext

(* A window without a tab, a dialog or a flag. *)
LEMMA CloseInitInv == CloseInit => CloseInv
<1> SUFFICES ASSUME CloseInit PROVE CloseInv
  OBVIOUS
<1>1. dialog.kind = "none" /\ dialog \in Dialogs
  BY DialogKinds DEF CloseInit
<1>2. queue \in Seq(Requests) /\ Len(queue) <= MaxQueue
  BY MaxQueueAssumption DEF CloseInit
<1>3. tree \in [Tabs -> SUBSET Panes] /\ shell \in [Panes -> {"unborn", "prompt", "busy", "exited"}]
  BY DEF CloseInit
<1>4. QED
  BY <1>1, <1>2, <1>3 DEF CloseInit, CloseInv, CloseTypeOK, FlagsMatchDialog

-----------------------------------------------------------------------------
(* The theorems. *)

(* The inductive invariant of the close gate. *)
THEOREM CloseInvariance == CloseSpec => []CloseInv
<1>1. CloseInv /\ [CloseNext]_closeVars => CloseInv'
  <2>1. CASE UNCHANGED closeVars
    BY <2>1
    DEF closeVars, paneVars, dialogVars, CloseInv, CloseTypeOK, FlagsMatchDialog
  <2>2. QED
    BY <2>1, StepKeeps
<1>2. QED
  BY <1>1, CloseInitInv, PTL DEF CloseSpec

(* Every variable keeps its type. *)
THEOREM CloseTypeCorrect == CloseSpec => []CloseTypeOK
<1>1. CloseInv => CloseTypeOK
  BY DEF CloseInv
<1>2. QED
  BY <1>1, CloseInvariance, PTL

(* The flags of the gate and of the rename prompt say which dialog is up,  *)
(* but for a ShowAsync that threw.                                         *)
THEOREM FlagsAreDialogs == CloseSpec => []FlagsMatchDialog
<1>1. CloseInv => FlagsMatchDialog
  BY DEF CloseInv
<1>2. QED
  BY <1>1, CloseInvariance, PTL

(* A running command is ended only by the approval of a dialog whose scope *)
(* it is in, by quit and close_all_windows, or with the process by a throw *)
(* of ShowAsync: no interleaving of keys, exits, queued requests, moves    *)
(* and WM_CLOSE ends it in any other way.                                  *)
THEOREM EndsAreConfirmed == CloseSpec => ConfirmedEnd
<1> DEFINE Asked ==
      \A p \in Live :
       /\ phase = "open" /\ rooted /\ shell[p] = "busy"
       /\ p \notin Live' \/ phase' # "open"
       => \/ AnswerClose(TRUE) /\ p \in Covered(dialog.target)
          \/ CloseAllWindows
          \/ threw' # {} /\ phase' = "crashed"
          \/ Deliver /\ Head(queue).op = "move"
<1>1. CloseInv /\ [CloseNext]_closeVars => [Asked]_closeVars
  <2> SUFFICES ASSUME CloseInv, CloseNext PROVE Asked
    OBVIOUS
  <2>1. \/ NoneEndsUnasked \/ phase # "open" \/ ApprovedEnds \/ CloseAllWindows
        \/ Deliver /\ Head(queue).op = "move"
    BY StepKeeps
  <2>2. QED
    BY <2>1 DEF NoneEndsUnasked, ApprovedEnds
<1>2. QED
  BY <1>1, CloseInvariance, PTL DEF CloseSpec, ConfirmedEnd
=============================================================================
