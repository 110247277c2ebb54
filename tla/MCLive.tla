------------------------------- MODULE MCLive -------------------------------
(* What must happen in the end, on small sets: two checks side by side, on *)
(* disjoint variables, the tabs kept for an undo and the shims. One of the *)
(* two moves in a behaviour, under its own fairness.                       *)
EXTENDS ShimSession

CONSTANTS Tabs, None, Timeouts

VARIABLES
  strip, selected, visible, tabs, panels, attached, parked, redo, undoTimeout,
  born, awaiting, away, emptyCheck, exited, closeReq, pressed, phase, armed, quiet,
  part

Kept == INSTANCE UndoPark

keptVars ==
  <<strip, selected, visible, tabs, panels, attached, parked, redo, undoTimeout,
    born, awaiting, away, emptyCheck, exited, closeReq, pressed, phase, armed, quiet>>

MCInit ==
  /\ Init /\ Kept!Init
  /\ \/ part = "kept" /\ ~enabled
     \/ part = "shim" /\ \A n \in Timeouts : undoTimeout <= n

KeptMoves == part = "kept" /\ Kept!Next /\ UNCHANGED vars

ShimMoves == part = "shim" /\ Next /\ UNCHANGED keptVars

MCNext == part' = part /\ (KeptMoves \/ ShimMoves)

(* UndoPark's FairSpec, while it is the one that moves. *)
KeptFair ==
  /\ WF_keptVars(part = "kept" /\ Kept!Elapse)
  /\ WF_keptVars(part = "kept" /\ \E i \in DOMAIN parked : Kept!Expire(i))
  /\ \A t \in Tabs : WF_keptVars(part = "kept" /\ Kept!DeliverClose(t))

(* ShimSession's, likewise. *)
ShimFair ==
  /\ WF_vars(part = "shim" /\ ServerStep) /\ SF_vars(part = "shim" /\ Deliver)
  /\ \A s \in Shims :
       WF_vars(part = "shim" /\ Write(s)) /\ WF_vars(part = "shim" /\ ReadReply(s))

MCFairSpec == MCInit /\ [][MCNext]_<<vars, keptVars, part>> /\ KeptFair /\ ShimFair

(* Once the user stops closing tabs, a tab kept for an undo does not stay: *)
(* it is restored, its timer runs out, or its window goes (ParkedTabs).    *)
ParkedEnds == Kept!ParkedEnds
=============================================================================
