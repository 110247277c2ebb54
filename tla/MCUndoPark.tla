----------------------------- MODULE MCUndoPark -----------------------------
(* UndoPark on small sets of tabs. *)
EXTENDS UndoPark

MCInit == Init /\ \A n \in Timeouts : n <= undoTimeout

(* Bound: undo-timeout is reloaded before the last tab is made. *)
EarlyReload(n) == born # Tabs /\ ReloadConfig(n)

MCNext ==
  \/ \E t \in Tabs : TabStep(t)
  \/ \E target \in DOMAIN strip : MoveActiveTab(target)
  \/ Undo \/ Redo \/ Elapse \/ CloseIfTornOutEmpty \/ TakePress
  \/ \E i \in DOMAIN parked : Expire(i)
  \/ \E n \in Timeouts : EarlyReload(n)
  \/ RequestClose \/ Destroy

MCSpec == MCInit /\ [][MCNext]_vars

(* Tabs are interchangeable. *)
TabSymmetry == Permutations(Tabs)
=============================================================================
