-------------------------- MODULE MCCallbackRouting --------------------------
(***************************************************************************)
(* CallbackRouting on two windows.  A behaviour exercises either the       *)
(* actions of Tags and the wake-ups, or the exits and closes of panes and  *)
(* the gate they meet, or the configs (reloads and CONFIG_CHANGE over      *)
(* windows and panes that come and go): their product is out of reach, and *)
(* the proofs cover the mixtures.                                          *)
(***************************************************************************)
EXTENDS CallbackRouting

VARIABLE focus

MCInit == Init /\ focus \in {"actions", "closes", "configs"}

Reloads ==
  \/ EditFile
  \/ \E t \in Targets, soft \in BOOLEAN : ReloadConfig(t, soft)
  \/ \E k \in workers : WorkerParses(k) \/ WorkerPosts(k)

Shared ==
  \/ \E w \in Windows :
       Activated(w) \/ UserOpensPane(w) \/ UserClosesWindow(w) \/ Destroy(w)
  \/ \E p \in DOMAIN panes : UserClosesPane(p) \/ UserMovesPane(p)
  \/ Run

Panes ==
  \/ \E w \in Windows : Answers(w)
  \/ \E p \in DOMAIN panes : Undo(p) \/ Expire(p)

Actions ==
  \/ \E p \in DOMAIN panes : OnWakeup(p) \/ PostWakeup(p)
  \/ \E t \in Targets : \E tag \in Tags : OnAction(t, tag)

Closing ==
  \/ \E w \in Windows : Asks(w)
  \/ \E p \in DOMAIN panes : OnCloseSurface(p)
  \/ \E p \in DOMAIN panes : OnAction(p, "close_tab")

MCNext ==
  /\ stale = {}
  /\ \/ Shared
     \/ focus = "actions" /\ (Panes \/ Actions)
     \/ focus = "closes"  /\ (Panes \/ Closing)
     \/ focus = "configs" /\ Reloads
  /\ focus' = focus

MCSpec == MCInit /\ [][MCNext]_<<vars, focus>>

(* Windows, and addresses, are interchangeable. *)
CallbackSymmetry == Permutations(Windows) \cup Permutations(Addrs)
=============================================================================
