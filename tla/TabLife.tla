------------------------------ MODULE TabLife ------------------------------
(***************************************************************************)
(* What a window promises about the life of its tabs, whatever the tab     *)
(* strip, the panels, the timers and the redo history do: a closed tab is  *)
(* either gone for good or waits alive on an undo stack, undo gives back   *)
(* the one closed last, and nothing that is gone ever returns.             *)
(***************************************************************************)
EXTENDS Naturals, Sequences, SequencesExt

CONSTANT Tabs

VARIABLES
  open,    \* the tabs the window lists
  stack,   \* the closed tabs an undo can bring back, newest last
  away,    \* the tabs another window took
  gone     \* the tabs whose shell has been freed

vars == <<open, stack, away, gone>>

Init == open = {} /\ stack = <<>> /\ away = {} /\ gone = {}

Known == open \cup ToSet(stack) \cup away \cup gone

Open(t) ==
  /\ t \notin Known
  /\ open' = open \cup {t}
  /\ UNCHANGED <<stack, away, gone>>

Close(t) ==
  /\ t \in open
  /\ open' = open \ {t}
  /\ gone' = gone \cup {t}
  /\ UNCHANGED <<stack, away>>

Park(t) ==
  /\ t \in open
  /\ open' = open \ {t}
  /\ stack' = Append(stack, t)
  /\ UNCHANGED <<away, gone>>

Restore ==
  /\ stack # <<>>
  /\ stack' = Front(stack)
  /\ open' = open \cup {Last(stack)}
  /\ UNCHANGED <<away, gone>>

Expire(i) ==
  /\ stack' = RemoveAt(stack, i)
  /\ gone' = gone \cup {stack[i]}
  /\ UNCHANGED <<open, away>>

Leave(t) ==
  /\ t \in open
  /\ open' = open \ {t}
  /\ away' = away \cup {t}
  /\ UNCHANGED <<stack, gone>>

Return(t) ==
  /\ t \in away
  /\ away' = away \ {t}
  /\ open' = open \cup {t}
  /\ UNCHANGED <<stack, gone>>

EndAway(t) ==
  /\ t \in away
  /\ away' = away \ {t}
  /\ gone' = gone \cup {t}
  /\ UNCHANGED <<open, stack>>

CloseWindow ==
  /\ gone' = gone \cup open \cup ToSet(stack)
  /\ open' = {}
  /\ stack' = <<>>
  /\ UNCHANGED away

Next ==
  \/ \E t \in Tabs : Open(t) \/ Close(t) \/ Park(t) \/ Leave(t) \/ Return(t) \/ EndAway(t)
  \/ Restore
  \/ \E i \in DOMAIN stack : Expire(i)
  \/ CloseWindow

Spec == Init /\ [][Next]_vars
=============================================================================
