----------------------------- MODULE SurfaceLife -----------------------------
(***************************************************************************)
(* One surface from MakePane to the end of its control: the composition    *)
(* handle, the request that binds it to the panel after the first frame,   *)
(* the context the renderer thread reads, and the size and scale that      *)
(* follow the panel.  The renderer is a thread of libghostty: its two      *)
(* callbacks interleave with the UI thread, and ghostty_surface_free       *)
(* joins it.                                                               *)
(*                                                                         *)
(* A size is one number, and physical pixels are its product with the      *)
(* scale; rounding is left out.  Input and the edit context, which Detach  *)
(* also releases, are in TerminalInput and PaneFocus.  Assumed of          *)
(* libghostty: the ready callback comes once at most, after a first frame; *)
(* the changed callback comes after every size or scale it is given.       *)
(***************************************************************************)
EXTENDS Naturals, Sequences

CONSTANTS
  Scales,    \* composition scales of a panel; 0 before composition has it
  Dips,      \* sizes of the panel; 0 before it is laid out
  MaxEvents  \* bound: panel events not yet raised

ASSUME SizesAssumption == Scales \subseteq Nat /\ Dips \subseteq Nat

VARIABLES
  stage,     \* of the control: "none", "attached", "detaching", "detached", "gone"
  handle,    \* the composition handle: "none", "open", "closed"
  request,   \* SwapChainAttachRequest: "none", "renderer" has it, "queued", "done"
  cancelled, \* SwapChainAttachRequest::cancelled
  bound,     \* SetSwapChainHandle: "no", "open", "dead" if the handle was not open
  context,   \* SwapChainChangedContext: "none", "live", "cancelled", "freed"
  published, \* SwapChainChangedContext::compositionScale
  thread,    \* the renderer: "off", "idle", "changed" inside OnSwapChainChanged
  owed,      \* libghostty has a changed callback to make
  matrix,    \* the scale the transform of the swap chain undoes, 0 for none
  lib,       \* the scale and the size libghostty was given
  scale,     \* CompositionScaleX of the panel
  root,      \* the scale of the window: RasterizationScale, GetDpiForWindow
  dip,       \* the size of the panel
  events     \* SizeChanged and CompositionScaleChanged not yet raised

swapVars  == <<handle, request, cancelled, bound>>
threadVars == <<context, published, thread, owed, matrix>>
panelVars == <<scale, root, dip, events>>
surfaceVars == <<stage, swapVars, threadVars, lib, panelVars>>

-----------------------------------------------------------------------------
(* display::EffectiveScales and ToPhysicalPixels *)
Effective == IF scale > 0 THEN scale ELSE root

Physical(d) == d * Effective

SurfaceInit ==
  /\ stage = "none" /\ handle = "none"
  /\ request = "none" /\ cancelled = FALSE /\ bound = "no"
  /\ context = "none" /\ published = 1 /\ thread = "off" /\ owed = FALSE /\ matrix = 0
  /\ lib = [scale |-> 0, size |-> 0]
  /\ scale \in Scales /\ root \in Scales \ {0} /\ dip = 0 /\ events = <<>>

(* The handle or the surface is refused: what was made before is released. *)
NoSurface ==
  /\ stage' = "gone" /\ handle' \in {"none", "closed"}
  /\ UNCHANGED <<request, cancelled, bound, threadVars, lib>>

(* MakePane up to Attach. The first size is a guess of the caller, of a    *)
(* half pane or of the content area.                                       *)
MakePane ==
  /\ stage = "none"
  /\ UNCHANGED panelVars
  /\ \/ NoSurface
     \/ /\ stage' = "attached" /\ handle' = "open"
        /\ request' = "renderer" /\ UNCHANGED <<cancelled, bound>>
        /\ context' = "live" /\ published' = Effective
        /\ thread' = "idle" /\ owed' = TRUE /\ UNCHANGED matrix
        /\ \E d \in Dips : lib' = [scale |-> Effective, size |-> Physical(d)]

-----------------------------------------------------------------------------
(* The panel. *)

Raised == Len(events) < MaxEvents /\ stage \notin {"none", "detaching"}

Layout ==
  /\ Raised
  /\ dip' \in Dips \ {dip}
  /\ events' = Append(events, [op |-> "size", dip |-> dip'])
  /\ UNCHANGED <<stage, swapVars, threadVars, lib, scale, root>>

(* Composition picks the panel up, or the window moves to another monitor. *)
Rescale ==
  /\ Raised
  /\ scale' \in Scales \ {scale, 0}
  /\ events' = Append(events, [op |-> "scale", dip |-> 0])
  /\ UNCHANGED <<stage, swapVars, threadVars, lib, root, dip>>

Head1 == Head(events)

(* SizeChanged and CompositionScaleChanged; without a surface nothing.     *)
Resized(d) ==
  IF Physical(d) = 0 THEN UNCHANGED <<lib, owed>>
  ELSE lib' = [lib EXCEPT !.size = Physical(d)] /\ owed' = TRUE

OnSizeChanged ==
  /\ events # <<>> /\ Head1.op = "size" /\ stage # "detaching"
  /\ events' = Tail(events)
  /\ IF stage = "attached" THEN Resized(Head1.dip) ELSE UNCHANGED <<lib, owed>>
  /\ UNCHANGED <<stage, swapVars, context, published, thread, matrix, scale, root, dip>>

(* Fault: the size is left to SizeChanged. *)
RescaledOnly == lib' = [lib EXCEPT !.scale = scale]

Rescaled ==
  lib' = [scale |-> scale, size |-> IF dip = 0 THEN lib.size ELSE Physical(dip)]

OnCompositionScaleChanged ==
  /\ events # <<>> /\ Head1.op = "scale" /\ stage # "detaching"
  /\ events' = Tail(events)
  /\ IF stage = "attached" /\ scale > 0
       THEN published' = scale /\ owed' = TRUE /\ Rescaled
       ELSE UNCHANGED <<published, owed, lib>>
  /\ UNCHANGED <<stage, swapVars, context, thread, matrix, scale, root, dip>>

-----------------------------------------------------------------------------
(* The renderer thread. *)

(* OnSwapChainReady: the request goes to the UI thread, or nowhere when    *)
(* the dispatcher has shut down.                                           *)
OnSwapChainReady ==
  /\ thread = "idle" /\ request = "renderer"
  /\ request' \in {"queued", "done"}
  /\ UNCHANGED <<stage, handle, cancelled, bound, threadVars, lib, panelVars>>

(* OnSwapChainChanged, up to the flag and after it. *)
EnterChanged ==
  /\ thread = "idle" /\ owed
  /\ owed' = FALSE
  /\ thread' = IF context = "cancelled" THEN "idle" ELSE "changed"
  /\ UNCHANGED <<stage, swapVars, context, published, matrix, lib, panelVars>>

InstallMatrix ==
  /\ thread = "changed" /\ thread' = "idle"
  /\ matrix' = published
  /\ UNCHANGED <<stage, swapVars, context, published, owed, lib, panelVars>>

(* The closure of OnSwapChainReady. *)
RunAttach ==
  /\ request = "queued" /\ stage # "detaching"
  /\ request' = "done"
  /\ bound' = IF cancelled THEN bound ELSE IF handle = "open" THEN "open" ELSE "dead"
  /\ UNCHANGED <<stage, handle, cancelled, threadVars, lib, panelVars>>

-----------------------------------------------------------------------------
(* Detach runs on the UI thread: the flags, then the free that joins the   *)
(* renderer, then the handle. Make runs it when the Tab is refused, the    *)
(* closes of a pane, and the destructor at the latest.                     *)

(* Fault: the queued request is left alone. *)
CancelsContextOnly == cancelled' = cancelled /\ context' = "cancelled"

Cancels == cancelled' = TRUE /\ context' = "cancelled"

DetachCancels ==
  /\ stage = "attached" /\ stage' = "detaching"
  /\ Cancels
  /\ UNCHANGED <<handle, request, bound, published, thread, owed, matrix, lib, panelVars>>

(* ghostty_surface_free waits for a callback under way. *)
DetachFrees ==
  /\ stage = "detaching" /\ thread = "idle" /\ stage' = "detached"
  /\ thread' = "off" /\ owed' = FALSE /\ handle' = "closed"
  /\ UNCHANGED <<request, cancelled, bound, context, published, matrix, lib, panelVars>>

(* The control goes, and its shared_ptr to the context with it. *)
Destroyed ==
  /\ stage = "detached" /\ stage' = "gone"
  /\ context' = "freed"
  /\ UNCHANGED <<swapVars, published, thread, owed, matrix, lib, panelVars>>

SurfaceNext ==
  \/ MakePane \/ Layout \/ Rescale \/ OnSizeChanged \/ OnCompositionScaleChanged
  \/ OnSwapChainReady \/ EnterChanged \/ InstallMatrix \/ RunAttach
  \/ DetachCancels \/ DetachFrees \/ Destroyed

SurfaceSpec == SurfaceInit /\ [][SurfaceNext]_surfaceVars

-----------------------------------------------------------------------------
(* Nobody uses what the other thread has released: the panel is never      *)
(* bound to a closed handle (the flag of the request, SurfaceHost.cpp,     *)
(* OnSwapChainReady against Detach), the renderer has the handle and the   *)
(* context as long as it runs, and a control that is gone leaves neither   *)
(* a handle nor a thread, also after a MakePane that failed.               *)
NothingDeadUsed ==
  /\ bound # "dead"
  /\ thread # "off" => handle = "open" /\ context # "freed"
  /\ stage = "gone" => handle # "open" /\ thread = "off"

(* When every event and callback has run, what libghostty renders is what  *)
(* the panel shows: its scale, its size in physical pixels, and a matrix   *)
(* that undoes the scale of the panel (CompositionScaleChanged of Attach   *)
(* and OnSwapChainChanged), whatever order they came in.                   *)
FollowsPanel ==
  stage = "attached" /\ events = <<>> /\ thread = "idle" /\ ~owed /\ scale > 0 =>
    /\ lib.scale = scale /\ matrix = scale
    /\ dip > 0 => lib.size = dip * scale
=============================================================================
