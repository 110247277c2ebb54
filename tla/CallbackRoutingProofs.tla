------------------------- MODULE CallbackRoutingProofs -------------------------
(***************************************************************************)
(* Proofs about CallbackRouting: the types, the liveness gate, the owners  *)
(* of the configs, the closes of exited shells.                            *)
(***************************************************************************)
EXTENDS CallbackRouting, SequenceTheorems, FiniteSetTheorems, TLAPS

-----------------------------------------------------------------------------
(* Queues. *)

Elems(q) == {q[i] : i \in 1 .. Len(q)}

(* What is appended is the only new element.                               *)
LEMMA AppendElems ==
  ASSUME NEW S, NEW q \in Seq(S), NEW x \in S
  PROVE  /\ Append(q, x) \in Seq(S)
         /\ Elems(Append(q, x)) = Elems(q) \cup {x}
<1>1. /\ Append(q, x) \in Seq(S)
      /\ Len(Append(q, x)) = Len(q) + 1
      /\ \A i \in 1 .. Len(q) : Append(q, x)[i] = q[i]
      /\ Append(q, x)[Len(q) + 1] = x
  BY AppendProperties
<1>2. Len(q) \in Nat
  BY LenProperties
<1>3. 1 .. Len(q) + 1 = (1 .. Len(q)) \cup {Len(q) + 1}
  BY <1>2
<1> QED
  BY <1>1, <1>2, <1>3, Zenon DEF Elems

(* The head and the elements of the tail.                                  *)
LEMMA TailElems ==
  ASSUME NEW S, NEW q \in Seq(S), q # <<>>
  PROVE  /\ Tail(q) \in Seq(S)
         /\ q[1] \in S
         /\ Elems(q) = {q[1]} \cup Elems(Tail(q))
<1>1. /\ Tail(q) \in Seq(S)
      /\ Len(Tail(q)) = Len(q) - 1
      /\ \A i \in 1 .. Len(Tail(q)) : Tail(q)[i] = q[i + 1]
      /\ Len(q) \in Nat \ {0}
      /\ q[1] \in S
  BY HeadTailProperties, EmptySeq, ElementOfSeq
<1>2. ASSUME NEW i \in 1 .. Len(q)
      PROVE  q[i] \in {q[1]} \cup Elems(Tail(q))
  <2>1. CASE i = 1
    BY <2>1
  <2>2. CASE i # 1
    <3>1. i - 1 \in 1 .. Len(Tail(q)) /\ (i - 1) + 1 = i
      BY <2>2, <1>1
    <3>2. Tail(q)[i - 1] = q[i]
      BY <3>1, <1>1
    <3> QED
      BY <3>1, <3>2 DEF Elems
  <2> QED
    BY <2>1, <2>2
<1>3. ASSUME NEW i \in 1 .. Len(Tail(q))
      PROVE  Tail(q)[i] \in Elems(q)
  <2>1. i + 1 \in 1 .. Len(q)
    BY <1>1
  <2> QED
    BY <2>1, <1>1 DEF Elems
<1>4. q[1] \in Elems(q)
  BY <1>1 DEF Elems
<1> QED
  BY <1>1, <1>2, <1>3, <1>4 DEF Elems

(* The elements of a concatenation.                                        *)
LEMMA ConcatElems ==
  ASSUME NEW S, NEW q \in Seq(S), NEW r \in Seq(S)
  PROVE  /\ q \o r \in Seq(S)
         /\ Elems(q \o r) = Elems(q) \cup Elems(r)
<1>1. /\ q \o r \in Seq(S)
      /\ Len(q \o r) = Len(q) + Len(r)
      /\ \A i \in 1 .. Len(q) + Len(r) :
           (q \o r)[i] = IF i <= Len(q) THEN q[i] ELSE r[i - Len(q)]
  BY ConcatProperties
<1>2. Len(q) \in Nat /\ Len(r) \in Nat
  BY LenProperties
<1>3. ASSUME NEW i \in 1 .. Len(q) + Len(r)
      PROVE  (q \o r)[i] \in Elems(q) \cup Elems(r)
  <2>1. CASE i <= Len(q)
    BY <2>1, <1>1, <1>2 DEF Elems
  <2>2. CASE ~(i <= Len(q))
    <3>1. i - Len(q) \in 1 .. Len(r)
      BY <2>2, <1>2
    <3> QED
      BY <2>2, <3>1, <1>1 DEF Elems
  <2> QED
    BY <2>1, <2>2
<1>4. ASSUME NEW i \in 1 .. Len(q)
      PROVE  q[i] \in Elems(q \o r)
  <2>1. i \in 1 .. Len(q) + Len(r) /\ i <= Len(q)
    BY <1>2
  <2> QED
    BY <2>1, <1>1 DEF Elems
<1>5. ASSUME NEW i \in 1 .. Len(r)
      PROVE  r[i] \in Elems(q \o r)
  <2>1. /\ Len(q) + i \in 1 .. Len(q) + Len(r)
        /\ ~(Len(q) + i <= Len(q))
        /\ (Len(q) + i) - Len(q) = i
    BY <1>2
  <2> QED
    BY <2>1, <1>1 DEF Elems
<1> QED
  BY <1>1, <1>3, <1>4, <1>5 DEF Elems
-----------------------------------------------------------------------------
(* Types. *)

BareOps == {"close_pane", "soft_reload", "hard_reload"}

(* The other closures are no actions.                                      *)
LEMMA TagFacts ==
  /\ NeedsSurface \subseteq ActionTags
  /\ BareOps \cap GatedOps = {}
  /\ "replace_config" \notin ActionTags
  /\ "worker" \notin GatedOps /\ "wakeup" \notin GatedOps
BY DEF ActionTags, NeedsSurface, EarlySurfaceTags, LateSurfaceTags, BareOps, GatedOps,
       VerbTags, WindowTags, SizeTags, TabTags, TerminalTags, ModeTags, OverlayTags,
       NoticeTags, StateTags, SplitTags, ExitTags

(* What a closure captures, by its kind.                                   *)
LEMMA CallTypes ==
  ASSUME NEW x \in Calls
  PROVE  /\ x.op \in GatedOps \cup BareOps
         /\ x.w \in Windows
         /\ x.op \in NeedsSurface => x.addr \in Addrs
         /\ x.op = "close_pane" => x.pane \in 1 .. MaxPanes
         /\ x.op \in {"hard_reload", "replace_config"} => x.cfg \in Configs
BY TagFacts DEF Calls, GatedOps, BareOps

(* PaneIds stay within their bound. *)
LEMMA PaneIds ==
  ASSUME TypeOK, NEW p \in DOMAIN panes
  PROVE  p \in 1 .. MaxPanes
<1>1. nextId \in 1 .. MaxPanes + 1 /\ DOMAIN panes \subseteq 1 .. nextId - 1
  BY DEF TypeOK
<1>2. MaxPanes \in Nat
  BY CallbackAssumption
<1>3. p \in 1 .. nextId - 1
  BY <1>1
<1> QED
  BY <1>1, <1>2, <1>3

(* A record of the types is a closure.                                     *)
LEMMA PostedTypes ==
  ASSUME TypeOK, NEW w \in Windows, NEW t \in Targets, NEW tag, NEW x \in Posted(tag, w, t)
  PROVE  x \in Calls /\ x.op \in ActionTags
<1>1. CASE t = Lost
  BY <1>1 DEF Posted, Calls
<1>2. CASE t # Lost
  <2>1. panes[t].addr \in Addrs
    BY <1>2 DEF Targets, TypeOK
  <2> QED
    BY <1>2, <2>1, TagFacts DEF Posted, Calls
<1> QED
  BY <1>1, <1>2

(* The registered windows are windows.                                     *)
LEMMA RoutedTypes ==
  ASSUME TypeOK, NEW t, NEW w \in Routed(t)
  PROVE  w \in Windows
<1>1. reg # <<>> => reg[1] \in Windows
  BY TailElems DEF TypeOK
<1>2. \A p : Holders(p) \subseteq Windows
  <2> DEFINE R == {reg[i] : i \in 1 .. Len(reg)}
  <2>1. R \subseteq Windows
    BY ElementOfSeq DEF TypeOK
  <2>2. DOMAIN reg = 1 .. Len(reg)
    BY LenProperties DEF TypeOK
  <2> QED
    BY <2>1, <2>2 DEF Holders, ToSet
<1> QED
  BY <1>1, <1>2 DEF Routed, IsReady, AnyWindow

(* The windows of the reports, and the closures they leave.                *)
LEMMA ReportTypes ==
  ASSUME TypeOK, NEW ws \in Reports
  PROVE  ws \in Seq(Windows)
<1> DEFINE S == {p \in DOMAIN panes : Holders(p) # {}}
<1>1. PICK ps \in SetToSeqs(S) :
        ws = [i \in DOMAIN ps |-> panes[ps[i]].home] \o
               (IF IsReady THEN <<AnyWindow>> ELSE <<>>)
  BY DEF Reports
<1>2. IsFiniteSet(S)
  <2>1. S \subseteq 1 .. nextId - 1 /\ nextId - 1 \in Nat
    BY CallbackAssumption DEF TypeOK
  <2>2. IsFiniteSet(1 .. nextId - 1)
    BY <2>1, FS_Interval
  <2> QED
    BY <2>1, <2>2, FS_Subset
<1>3. Cardinality(S) \in Nat
  BY <1>2, FS_CardinalityType
<1>4. ps \in [1 .. Cardinality(S) -> S]
  BY <1>1 DEF SetToSeqs
<1> DEFINE hs == [i \in DOMAIN ps |-> panes[ps[i]].home]
<1>5. hs \in [1 .. Cardinality(S) -> Windows]
  BY <1>4 DEF TypeOK
<1>6. hs \in Seq(Windows)
  BY <1>3, <1>5, SeqDef
<1>7. (IF IsReady THEN <<AnyWindow>> ELSE <<>>) \in Seq(Windows)
  BY TailElems DEF TypeOK, IsReady, AnyWindow
<1> QED
  BY <1>1, <1>6, <1>7, ConcatProperties
(* A new pane, and panes that go once their threads have left.             *)
LEMMA PaneSteps ==
  ASSUME TypeOK
  PROVE  /\ \A w \in Windows : AddPane(w) =>
              /\ nextId' \in 1 .. MaxPanes + 1 /\ nextId' = nextId + 1
              /\ DOMAIN panes' = DOMAIN panes \cup {nextId}
              /\ panes' \in [DOMAIN panes' -> [home : Windows, addr : Addrs, parked : BOOLEAN]]
              /\ \A p \in DOMAIN panes : panes'[p] = panes[p]
         /\ \A ps : DropPanes(ps) =>
              /\ nextId' = nextId
              /\ DOMAIN panes' = DOMAIN panes \ ps
              /\ panes' \in [DOMAIN panes' -> [home : Windows, addr : Addrs, parked : BOOLEAN]]
              /\ \A p \in DOMAIN panes' : panes'[p] = panes[p]
              /\ DOMAIN waker \subseteq DOMAIN panes'
         /\ \A p \in DOMAIN panes : Parked(p) \/ Listed(p) =>
              /\ DOMAIN panes' = DOMAIN panes
              /\ panes' \in [DOMAIN panes' -> [home : Windows, addr : Addrs, parked : BOOLEAN]]
              /\ \A q \in DOMAIN panes : panes'[q].home = panes[q].home
         /\ \A p \in DOMAIN panes, w \in Windows : Moved(p, w) =>
              /\ DOMAIN panes' = DOMAIN panes
              /\ panes' \in [DOMAIN panes' -> [home : Windows, addr : Addrs, parked : BOOLEAN]]
<1>1. ASSUME NEW w \in Windows, AddPane(w)
      PROVE  /\ nextId' \in 1 .. MaxPanes + 1 /\ nextId' = nextId + 1
             /\ DOMAIN panes' = DOMAIN panes \cup {nextId}
             /\ panes' \in [DOMAIN panes' -> [home : Windows, addr : Addrs, parked : BOOLEAN]]
             /\ \A p \in DOMAIN panes : panes'[p] = panes[p]
  <2>1. nextId <= MaxPanes /\ nextId' = nextId + 1
    BY <1>1, Zenon DEF AddPane
  <2>2. nextId' \in 1 .. MaxPanes + 1 /\ nextId' = nextId + 1
    <3>1. nextId \in 1 .. MaxPanes + 1
      BY Zenon DEF TypeOK
    <3> QED
      BY <2>1, <3>1, CallbackAssumption, SMTT(40)
  <2>3. PICK a \in Addrs :
          panes' = [p \in DOMAIN panes \cup {nextId} |->
                      IF p = nextId THEN [home |-> w, addr |-> a, parked |-> FALSE]
                      ELSE panes[p]]
    BY <1>1 DEF AddPane
  <2>4. nextId \notin DOMAIN panes
    BY CallbackAssumption DEF TypeOK
  <2> QED
    BY <2>2, <2>3, <2>4 DEF TypeOK
<1>2. ASSUME NEW ps, DropPanes(ps)
      PROVE  /\ nextId' = nextId
             /\ DOMAIN panes' = DOMAIN panes \ ps
             /\ panes' \in [DOMAIN panes' -> [home : Windows, addr : Addrs, parked : BOOLEAN]]
             /\ \A p \in DOMAIN panes' : panes'[p] = panes[p]
             /\ DOMAIN waker \subseteq DOMAIN panes'
  BY <1>2 DEF DropPanes, Without, Joined, TypeOK
<1>3. ASSUME NEW p \in DOMAIN panes, Parked(p) \/ Listed(p)
      PROVE  /\ DOMAIN panes' = DOMAIN panes
             /\ panes' \in [DOMAIN panes' -> [home : Windows, addr : Addrs, parked : BOOLEAN]]
             /\ \A q \in DOMAIN panes : panes'[q].home = panes[q].home
  <2>1. panes[p] \in [home : Windows, addr : Addrs, parked : BOOLEAN]
    BY DEF TypeOK
  <2>2. PICK b \in BOOLEAN :
          panes' = [panes EXCEPT ![p] =
                      [home |-> panes[p].home, addr |-> panes[p].addr, parked |-> b]]
    BY <1>3 DEF Parked, Listed, Placed
  <2>3. [home |-> panes[p].home, addr |-> panes[p].addr, parked |-> b]
          \in [home : Windows, addr : Addrs, parked : BOOLEAN]
    BY <2>1
  <2> QED
    BY <2>2, <2>3 DEF TypeOK
<1>4. ASSUME NEW p \in DOMAIN panes, NEW w \in Windows, Moved(p, w)
      PROVE  /\ DOMAIN panes' = DOMAIN panes
             /\ panes' \in [DOMAIN panes' -> [home : Windows, addr : Addrs, parked : BOOLEAN]]
  BY <1>4 DEF Moved, Placed, TypeOK
<1> QED
  BY <1>1, <1>2, <1>3, <1>4

(* What a close may do to the panes and the windows: some panes go, none   *)
(* is made or changes hands, and one that is parked is counted if its      *)
(* shell has exited.                                                       *)
OnlyCloses ==
  /\ nextId' = nextId
  /\ DOMAIN panes' \subseteq DOMAIN panes
  /\ panes' \in [DOMAIN panes' -> [home : Windows, addr : Addrs, parked : BOOLEAN]]
  /\ DOMAIN waker \subseteq DOMAIN panes'
  /\ \A q \in DOMAIN panes' : panes'[q].home = panes[q].home
  /\ \A q \in exited \ displaced' :
       q \in DOMAIN panes' /\ panes'[q].parked => panes[q].parked
  /\ displaced \subseteq displaced' /\ displaced' \subseteq exited
  /\ win' \in [Windows -> {"none", "tracked", "open", "closed", "gone"}]
  /\ \A w \in Windows : win'[w] = "gone" => win[w] = "gone"

(* What a close may come to, whoever asked for it.                         *)
LEMMA CloseOutcomes ==
  ASSUME TypeOK
  PROVE  /\ NothingCloses => OnlyCloses
         /\ \A ws : win' = Closed(ws) /\ UNCHANGED <<paneVars, displaced>> => OnlyCloses
         /\ \A p \in DOMAIN panes :
              /\ Ends(p) /\ displaced' = displaced => OnlyCloses
              /\ Closes(p) => OnlyCloses
<1>1. ASSUME win' = win \/ \E ws : win' = Closed(ws)
      PROVE  /\ win' \in [Windows -> {"none", "tracked", "open", "closed", "gone"}]
             /\ \A w \in Windows : win'[w] = "gone" => win[w] = "gone"
  BY <1>1 DEF Closed, TypeOK
<1>2. ASSUME UNCHANGED <<paneVars, displaced>>, win' = win \/ \E ws : win' = Closed(ws)
      PROVE  OnlyCloses
  BY <1>1, <1>2 DEF OnlyCloses, paneVars, TypeOK
<1>3. ASSUME NEW p \in DOMAIN panes, Ends(p), displaced' = displaced
      PROVE  OnlyCloses
  <2>1. DropPanes({p}) /\ (win' = win \/ \E ws : win' = Closed(ws))
    BY <1>3 DEF Ends
  <2>2. /\ nextId' = nextId
        /\ DOMAIN panes' = DOMAIN panes \ {p}
        /\ panes' \in [DOMAIN panes' -> [home : Windows, addr : Addrs, parked : BOOLEAN]]
        /\ \A q \in DOMAIN panes' : panes'[q] = panes[q]
        /\ DOMAIN waker \subseteq DOMAIN panes'
    BY <2>1, PaneSteps
  <2>3. displaced \subseteq exited
    BY DEF TypeOK
  <2> QED
    BY <1>1, <1>3, <2>1, <2>2, <2>3 DEF OnlyCloses
<1>4. ASSUME NEW p \in DOMAIN panes, Parked(p), UNCHANGED <<nextId, win>>
      PROVE  OnlyCloses
  <2>1. /\ DOMAIN panes' = DOMAIN panes
        /\ panes' \in [DOMAIN panes' -> [home : Windows, addr : Addrs, parked : BOOLEAN]]
        /\ \A q \in DOMAIN panes : panes'[q].home = panes[q].home
    BY <1>4, PaneSteps
  <2>2. \A q \in DOMAIN panes : q # p => panes'[q] = panes[q]
    BY <1>4 DEF Parked, Placed, TypeOK
  <2>3. /\ displaced \subseteq displaced' /\ displaced' \subseteq exited
        /\ p \notin exited \ displaced'
    BY <1>4 DEF Parked, Displace, TypeOK
  <2>4. DOMAIN waker \subseteq DOMAIN panes'
    BY <2>1 DEF TypeOK
  <2> QED
    BY <1>1, <1>4, <2>1, <2>2, <2>3, <2>4 DEF OnlyCloses
<1> QED
  BY <1>2, <1>3, <1>4 DEF NothingCloses, Closes

(* A request that goes through a gate closes nothing but what it approves. *)
LEMMA SubmitCloses ==
  ASSUME TypeOK, NEW w \in Windows, NEW scope, NEW ACTION Approved,
         Submit(w, scope, Approved), Approved => OnlyCloses
  PROVE  OnlyCloses /\ asking' \subseteq Windows
BY CloseOutcomes DEF Submit, TypeOK

(* The head of the queue, and what follows it.                             *)
LEMMA HeadTypes ==
  ASSUME TypeOK, NEW ops, Is(ops)
  PROVE  /\ closure \in Calls
         /\ closure.op \in ops
         /\ closure.w \in Windows
         /\ Tail(queue) \in Seq(Calls)
         /\ Elems(queue) = {closure} \cup Elems(Tail(queue))
BY TailElems, CallTypes DEF Is, closure, TypeOK

(* The closes of the user and of the queue close, and do nothing else.     *)
LEMMA ClosingSteps ==
  ASSUME TypeOK,
         \/ \E w \in Windows : UserClosesWindow(w) \/ Asks(w) \/ Answers(w)
         \/ \E p \in DOMAIN panes : UserClosesPane(p) \/ Expire(p)
         \/ RunCloses \/ RunCloseWindow \/ RunClosePane
  PROVE  OnlyCloses /\ asking' \subseteq Windows
<1>1. \A w \in Windows : In(w) \subseteq DOMAIN panes
  BY DEF In
<1>2. asking \subseteq Windows
  BY DEF TypeOK
<1>3. ASSUME NEW w \in Windows, UserClosesWindow(w)
      PROVE  OnlyCloses /\ asking' \subseteq Windows
  BY <1>2, <1>3, CloseOutcomes DEF UserClosesWindow, history
<1>4. ASSUME NEW w \in Windows, Asks(w)
      PROVE  OnlyCloses /\ asking' \subseteq Windows
  BY <1>2, <1>4, CloseOutcomes DEF Asks, NothingCloses, history
<1>5. ASSUME NEW w \in Windows, Answers(w)
      PROVE  OnlyCloses /\ asking' \subseteq Windows
  BY <1>1, <1>2, <1>5, CloseOutcomes DEF Answers
<1>6. ASSUME NEW p \in DOMAIN panes, UserClosesPane(p)
      PROVE  OnlyCloses /\ asking' \subseteq Windows
  BY <1>2, <1>6, CloseOutcomes DEF UserClosesPane
<1>7. ASSUME NEW p \in DOMAIN panes, Expire(p)
      PROVE  OnlyCloses /\ asking' \subseteq Windows
  <2>1. DropPanes({p}) /\ win' = win /\ displaced' = displaced /\ asking' = asking
    BY <1>7 DEF Expire, windowVars, history
  <2>2. /\ nextId' = nextId
        /\ DOMAIN panes' = DOMAIN panes \ {p}
        /\ panes' \in [DOMAIN panes' -> [home : Windows, addr : Addrs, parked : BOOLEAN]]
        /\ \A q \in DOMAIN panes' : panes'[q] = panes[q]
        /\ DOMAIN waker \subseteq DOMAIN panes'
    BY <2>1, PaneSteps
  <2>3. displaced \subseteq exited /\ win \in [Windows -> {"none", "tracked", "open", "closed", "gone"}]
    BY DEF TypeOK
  <2> QED
    BY <1>2, <2>1, <2>2, <2>3 DEF OnlyCloses
<1>8. ASSUME RunCloses
      PROVE  OnlyCloses /\ asking' \subseteq Windows
  <2>1. closure.w \in Windows
    BY <1>8, HeadTypes DEF RunCloses
  <2>2. CASE UNCHANGED <<paneVars, win, displaced, asking>>
    BY <1>2, <2>2, CloseOutcomes DEF NothingCloses
  <2>3. ASSUME NEW p \in DOMAIN panes, Submit(closure.w, In(closure.w), Closes(p))
        PROVE  OnlyCloses /\ asking' \subseteq Windows
    BY <2>1, <2>3, CloseOutcomes, SubmitCloses
  <2>4. ASSUME NEW p \in DOMAIN panes, Ends(p), UNCHANGED <<displaced, asking>>
        PROVE  OnlyCloses /\ asking' \subseteq Windows
    BY <1>2, <2>4, CloseOutcomes
  <2> QED
    BY <1>1, <1>8, <2>1, <2>2, <2>3, <2>4 DEF RunCloses, At
<1>9. ASSUME RunCloseWindow
      PROVE  OnlyCloses /\ asking' \subseteq Windows
  <2>1. closure.w \in Windows
    BY <1>9, HeadTypes DEF RunCloseWindow
  <2> DEFINE Approved == win' = Closed({closure.w}) /\ UNCHANGED <<paneVars, displaced>>
  <2>2. Approved => OnlyCloses
    BY CloseOutcomes
  <2>3. CASE Submit(closure.w, In(closure.w), Approved)
    <3> HIDE DEF Approved
    <3> QED
      BY <2>1, <2>2, <2>3, SubmitCloses
  <2>4. CASE /\ win' = Closed({w \in Windows : win[w] \in {"tracked", "open"}})
             /\ UNCHANGED <<asking, paneVars, displaced>>
    BY <1>2, <2>4, CloseOutcomes
  <2> QED
    BY <1>9, <2>3, <2>4 DEF RunCloseWindow
<1>10. ASSUME RunClosePane
       PROVE  OnlyCloses /\ asking' \subseteq Windows
  <2>1. closure.w \in Windows
    BY <1>10, HeadTypes DEF RunClosePane
  <2>2. CASE NothingCloses /\ asking' = asking
    BY <1>2, <2>2, CloseOutcomes
  <2>3. ASSUME NEW p \in DOMAIN panes,
               Submit(closure.w, {p},
                      IF p \in exited THEN Ends(p) /\ displaced' = displaced ELSE Closes(p))
        PROVE  OnlyCloses /\ asking' \subseteq Windows
    <3> DEFINE Approved == IF p \in exited THEN Ends(p) /\ displaced' = displaced ELSE Closes(p)
    <3>1. Approved => OnlyCloses
      BY CloseOutcomes
    <3>2. Submit(closure.w, {p}, Approved)
      BY <2>3
    <3> HIDE DEF Approved
    <3> QED
      BY <2>1, <3>1, <3>2, SubmitCloses
  <2>4. Named(closure) \subseteq DOMAIN panes
    BY DEF Named, In
  <2> QED
    BY <1>10, <2>2, <2>3, <2>4 DEF RunClosePane
<1> QED
  BY <1>3, <1>4, <1>5, <1>6, <1>7, <1>8, <1>9, <1>10

(* A reload's reports are closures with free handles.                      *)
LEMMA ReportedTypes ==
  ASSUME TypeOK, NEW ws \in Reports, NEW hs \in Handles(Len(ws))
  PROVE  /\ Reported(ws, hs) \in Seq(Calls)
         /\ Len(Reported(ws, hs)) = Len(ws) /\ Len(ws) \in Nat
         /\ hs \in [1 .. Len(ws) -> Free]
         /\ \A i \in 1 .. Len(ws) :
              /\ Reported(ws, hs)[i].op = "replace_config"
              /\ Reported(ws, hs)[i].w \in Windows
              /\ Reported(ws, hs)[i].cfg = hs[i]
<1>1. ws \in Seq(Windows) /\ Len(ws) \in Nat /\ DOMAIN ws = 1 .. Len(ws)
  BY ReportTypes, LenProperties
<1>2. hs \in [1 .. Len(ws) -> Free]
  BY DEF Handles
<1>3. \A i \in 1 .. Len(ws) : ws[i] \in Windows /\ hs[i] \in Configs
  BY <1>1, <1>2, ElementOfSeq DEF Free
<1>4. Reported(ws, hs) \in [1 .. Len(ws) -> Calls]
  BY <1>1, <1>3 DEF Reported, Calls
<1>5. Reported(ws, hs) \in Seq(Calls)
  BY <1>1, <1>4, SeqDef
<1>6. Len(Reported(ws, hs)) = Len(ws)
  BY <1>1, <1>4, <1>5, LenProperties
<1> QED
  BY <1>1, <1>2, <1>3, <1>5, <1>6 DEF Reported

(* Every step keeps the types. *)
LEMMA TypeStep == TypeOK /\ [Next]_vars => TypeOK'
<1> SUFFICES ASSUME TypeOK, [Next]_vars
             PROVE  TypeOK'
  OBVIOUS
<1>1. ASSUME NEW w \in Windows, Activated(w)
      PROVE  TypeOK'
  <2>1. reg' \in Seq(Windows)
    BY <1>1, AppendElems DEF Activated, TypeOK
  <2> QED
    BY <1>1, <2>1 DEF Activated, TypeOK, windowVars, paneVars, configVars, history, exits, threads
<1>2. ASSUME NEW w \in Windows, UserOpensPane(w)
      PROVE  TypeOK'
  <2>1. AddPane(w)
    BY <1>2 DEF UserOpensPane
  <2>2. /\ nextId' \in 1 .. MaxPanes + 1 /\ nextId' = nextId + 1
        /\ DOMAIN panes' = DOMAIN panes \cup {nextId}
        /\ panes' \in [DOMAIN panes' -> [home : Windows, addr : Addrs, parked : BOOLEAN]]
    BY <2>1, PaneSteps
  <2>3. /\ DOMAIN panes' \subseteq 1 .. nextId' - 1
        /\ 1 .. nextId - 1 \subseteq 1 .. nextId' - 1
    BY <2>2 DEF TypeOK
  <2> QED
    BY <1>2, <2>2, <2>3 DEF UserOpensPane, TypeOK, windowVars, paneVars, configVars, history, exits, threads
<1>3. ASSUME OnlyCloses, asking' \subseteq Windows, queue' \in Seq(Calls), refused' \subseteq exited,
             UNCHANGED <<reg, alive, threads, configVars, exited, asked>>
      PROVE  TypeOK'
  <2>1. DOMAIN panes' \subseteq 1 .. nextId' - 1
    BY <1>3 DEF OnlyCloses, TypeOK
  <2> QED
    BY <1>3, <2>1 DEF OnlyCloses, TypeOK, configVars, threads
<1>4. ASSUME NEW w \in Windows, Destroy(w)
      PROVE  TypeOK'
  <2> DEFINE ps == {p \in DOMAIN panes : panes[p].home = w}
  <2>1. DropPanes(ps)
    BY <1>4 DEF Destroy
  <2>2. /\ nextId' = nextId
        /\ DOMAIN panes' = DOMAIN panes \ ps
        /\ panes' \in [DOMAIN panes' -> [home : Windows, addr : Addrs, parked : BOOLEAN]]
        /\ DOMAIN waker \subseteq DOMAIN panes'
    BY <2>1, PaneSteps
  <2>3. reg' \in Seq(Windows)
    <3>1. CASE reg' = reg
      BY <3>1 DEF TypeOK
    <3>2. ASSUME NEW i \in DOMAIN reg, reg' = RemoveAt(reg, i)
          PROVE  reg' \in Seq(Windows)
      <4>1. reg \in Seq(Windows) /\ Len(reg) \in Nat /\ i \in 1 .. Len(reg)
        BY LenProperties DEF TypeOK
      <4>2. /\ SubSeq(reg, 1, i - 1) \in Seq(Windows)
            /\ SubSeq(reg, i + 1, Len(reg)) \in Seq(Windows)
        BY <4>1, SubSeqProperties
      <4> QED
        BY <3>2, <4>2, ConcatProperties DEF RemoveAt
    <3> QED
      BY <1>4, <3>1, <3>2 DEF Destroy, Unregister
  <2> QED
    BY <1>4, <2>2, <2>3 DEF Destroy, TypeOK, windowVars, paneVars, configVars, history, exits, threads
<1>5. ASSUME \/ \E w \in Windows : UserClosesWindow(w) \/ Asks(w) \/ Answers(w)
             \/ \E p \in DOMAIN panes : UserClosesPane(p) \/ Expire(p)
      PROVE  TypeOK'
  <2>1. OnlyCloses /\ asking' \subseteq Windows
    BY <1>5, ClosingSteps
  <2>2. UNCHANGED <<reg, alive, queue, threads, configVars, exits>>
    BY <1>5 DEF UserClosesWindow, Asks, Answers, UserClosesPane, Expire, windowVars, history
  <2> QED
    BY <1>3, <2>1, <2>2 DEF TypeOK, exits
<1>6. ASSUME NEW p \in DOMAIN panes, Undo(p)
      PROVE  TypeOK'
  <2>1. /\ DOMAIN panes' = DOMAIN panes
        /\ panes' \in [DOMAIN panes' -> [home : Windows, addr : Addrs, parked : BOOLEAN]]
    BY <1>6, PaneSteps DEF Undo
  <2> QED
    BY <1>6, <2>1 DEF Undo, Parked, Listed, Displace, TypeOK, windowVars, paneVars, configVars, history, exits, threads
<1>8. ASSUME NEW p \in DOMAIN panes, UserMovesPane(p)
      PROVE  TypeOK'
  <2>1. PICK w \in Windows : Moved(p, w)
    BY <1>8 DEF UserMovesPane, Unborn
  <2>2. /\ DOMAIN panes' = DOMAIN panes
        /\ panes' \in [DOMAIN panes' -> [home : Windows, addr : Addrs, parked : BOOLEAN]]
    BY <2>1, PaneSteps
  <2>3. win' \in [Windows -> {"none", "tracked", "open", "closed", "gone"}]
    BY <1>8 DEF UserMovesPane, Made, TypeOK
  <2> QED
    BY <1>8, <2>1, <2>2, <2>3 DEF UserMovesPane, Moved, Displace, TypeOK, windowVars, paneVars, configVars, history, exits, threads
<1>9. ASSUME EditFile
      PROVE  TypeOK'
  BY <1>9 DEF EditFile, TypeOK, windowVars, paneVars, configVars, history, exits, threads
<1>10. ASSUME NEW p \in DOMAIN panes, OnWakeup(p)
      PROVE  TypeOK'
  <2>1. AnyWindow \in Windows
    BY <1>10, TailElems DEF OnWakeup, IsReady, AnyWindow, TypeOK
  <2> QED
    BY <1>10, <2>1 DEF OnWakeup, Live, TypeOK, windowVars, paneVars, configVars, history, exits, threads
<1>11. ASSUME NEW p \in DOMAIN panes, PostWakeup(p)
      PROVE  TypeOK'
  BY <1>11 DEF PostWakeup, TypeOK, windowVars, paneVars, configVars, history, exits, threads
<1>12. ASSUME NEW p \in DOMAIN panes, OnCloseSurface(p)
      PROVE  TypeOK'
  <2>1. CloseCall(p) \in Calls
    <3>1. p \in 1 .. MaxPanes
      BY PaneIds
    <3> QED
      BY <3>1 DEF CloseCall, Calls, TypeOK
  <2>2. queue \in Seq(Calls)
    BY DEF TypeOK
  <2>3. Append(queue, CloseCall(p)) \in Seq(Calls)
    BY <2>2, <2>1, AppendElems
  <2>4. queue' \in Seq(Calls)
    BY <1>12, <2>2, <2>3 DEF OnCloseSurface
  <2>5. /\ exited' \subseteq 1 .. nextId - 1 /\ asked' \subseteq 1 .. nextId - 1
        /\ exited \subseteq exited' /\ displaced' \subseteq exited'
    BY <1>12 DEF OnCloseSurface, ShellEnded, KeyPressed, TypeOK
  <2> QED
    BY <1>12, <2>4, <2>5, SMTT(40) DEF OnCloseSurface, TypeOK, windowVars, paneVars, configVars, history, exits, threads
<1>13. ASSUME NEW t \in Targets, NEW tag \in Tags, OnAction(t, tag)
      PROVE  TypeOK'
  <2>1. PICK w \in Routed(t) : \E call \in Posted(tag, w, t) : queue' = Append(queue, call)
    BY <1>13 DEF OnAction
  <2>2. PICK call \in Posted(tag, w, t) : queue' = Append(queue, call)
    BY <2>1
  <2>3. queue' \in Seq(Calls)
    BY <2>2, RoutedTypes, PostedTypes, AppendElems DEF TypeOK
  <2> QED
    BY <1>13, <2>3 DEF OnAction, TypeOK, windowVars, paneVars, configVars, history, exits, threads
<1>14. ASSUME NEW t \in Targets, NEW soft \in BOOLEAN, ReloadConfig(t, soft)
      PROVE  TypeOK'
  <2>1. PICK w \in Routed(t) :
          IF soft
            THEN /\ queue' = Append(queue, [op |-> "soft_reload", w |-> w])
                 /\ UNCHANGED workers
            ELSE /\ [w |-> w, cfg |-> 0] \notin workers
                 /\ workers' = workers \cup {[w |-> w, cfg |-> 0]}
                 /\ UNCHANGED queue
    BY <1>14, Zenon DEF ReloadConfig
  <2>2. w \in Windows
    BY RoutedTypes
  <2>3. [op |-> "soft_reload", w |-> w] \in Calls
    BY <2>2 DEF Calls
  <2>4. queue \in Seq(Calls) /\ workers \subseteq [w : Windows, cfg : Configs \cup {0}]
    BY DEF TypeOK
  <2>5. Append(queue, [op |-> "soft_reload", w |-> w]) \in Seq(Calls)
    BY <2>4, <2>3, AppendElems
  <2>6. queue' \in Seq(Calls) /\ workers' \subseteq [w : Windows, cfg : Configs \cup {0}]
    BY <2>1, <2>2, <2>4, <2>5
  <2>7. reloads' \in Nat
    BY <1>14 DEF ReloadConfig, TypeOK
  <2>8. UNCHANGED <<win, reg, alive, asking, panes, nextId, waker, heap, current, lib, file,
                    leaked, exited, asked, displaced, refused>>
    BY <1>14 DEF ReloadConfig, windowVars, paneVars, history, exits
  <2> QED
    BY <2>6, <2>7, <2>8 DEF TypeOK
<1>15. ASSUME NEW k \in workers, WorkerParses(k)
      PROVE  TypeOK'
  <2>1. PICK h \in Free : /\ heap' = [heap EXCEPT ![h] = file]
                         /\ workers' = (workers \ {k}) \cup {[k EXCEPT !.cfg = h]}
    BY <1>15 DEF WorkerParses
  <2>2. k \in [w : Windows, cfg : Configs \cup {0}] /\ h \in Configs
    BY DEF TypeOK, Free
  <2>3. [k EXCEPT !.cfg = h] \in [w : Windows, cfg : Configs \cup {0}]
    BY <2>2
  <2> QED
    BY <1>15, <2>1, <2>2, <2>3 DEF WorkerParses, TypeOK, windowVars, paneVars, configVars, history, exits, threads
<1>16. ASSUME NEW k \in workers, WorkerPosts(k)
      PROVE  TypeOK'
  <2>1. k.w \in Windows /\ k.cfg \in Configs
    BY <1>16 DEF WorkerPosts, TypeOK
  <2>2. [op |-> "hard_reload", w |-> k.w, cfg |-> k.cfg] \in Calls
    BY <2>1 DEF Calls
  <2>3. queue \in Seq(Calls)
    BY DEF TypeOK
  <2>4. Append(queue, [op |-> "hard_reload", w |-> k.w, cfg |-> k.cfg]) \in Seq(Calls)
    BY <2>3, <2>2, AppendElems
  <2>5. queue' \in Seq(Calls)
    BY <1>16, <2>3, <2>4 DEF WorkerPosts
  <2> QED
    BY <1>16, <2>5 DEF WorkerPosts, TypeOK, windowVars, paneVars, configVars, history, exits, threads
<1>17. ASSUME RunSevered
      PROVE  TypeOK'
  <2>1. /\ closure \in Calls /\ closure.w \in Windows /\ Tail(queue) \in Seq(Calls)
        /\ closure.op \in GatedOps
    BY <1>17, HeadTypes DEF RunSevered
  <2>2. closure.op = "replace_config" => closure.cfg \in Configs
    BY <2>1, CallTypes
  <2> QED
    BY <1>17, <2>1, <2>2 DEF RunSevered, TypeOK, windowVars, paneVars, configVars, history, exits, threads
<1>18. ASSUME RunHandler
      PROVE  TypeOK'
  <2>1. /\ closure \in Calls /\ closure.w \in Windows /\ Tail(queue) \in Seq(Calls)
        /\ closure.op \in MovesNothing
    BY <1>18, HeadTypes DEF RunHandler
  <2> QED
    BY <1>18, <2>1 DEF RunHandler, TypeOK, windowVars, paneVars, configVars, history, exits, threads
<1>19. ASSUME RunOpens
      PROVE  TypeOK'
  <2>1. /\ closure \in Calls /\ closure.w \in Windows /\ Tail(queue) \in Seq(Calls)
        /\ closure.op \in {"new_tab", "new_split", "undo", "redo"}
    BY <1>19, HeadTypes DEF RunOpens
  <2>2. CASE UNCHANGED <<paneVars, displaced>>
    BY <1>19, <2>1, <2>2 DEF RunOpens, TypeOK, windowVars, paneVars, configVars, history, exits, threads
  <2>3. CASE AddPane(closure.w) /\ displaced' = displaced
    <3>1. /\ nextId' \in 1 .. MaxPanes + 1 /\ nextId' = nextId + 1
          /\ DOMAIN panes' = DOMAIN panes \cup {nextId}
          /\ panes' \in [DOMAIN panes' -> [home : Windows, addr : Addrs, parked : BOOLEAN]]
      BY <2>1, <2>3, PaneSteps
    <3>2. /\ DOMAIN panes' \subseteq 1 .. nextId' - 1
          /\ 1 .. nextId - 1 \subseteq 1 .. nextId' - 1
      BY <3>1 DEF TypeOK
    <3> QED
      BY <1>19, <2>1, <2>3, <3>1, <3>2 DEF RunOpens, TypeOK, windowVars, paneVars, configVars, history, exits, threads
  <2>4. CASE \E p \in DOMAIN panes : nextId' = nextId /\ (Listed(p) \/ Parked(p))
    <3>1. PICK p \in DOMAIN panes : nextId' = nextId /\ (Listed(p) \/ Parked(p))
      BY <2>4
    <3>2. /\ DOMAIN panes' = DOMAIN panes
          /\ panes' \in [DOMAIN panes' -> [home : Windows, addr : Addrs, parked : BOOLEAN]]
      BY <3>1, PaneSteps
    <3>3. displaced' \subseteq exited
      BY <3>1 DEF Listed, Parked, Displace, TypeOK
    <3> QED
      BY <1>19, <2>1, <3>1, <3>2, <3>3 DEF RunOpens, TypeOK, windowVars, paneVars, configVars, history, exits, threads
  <2> QED
    BY <1>19, <2>2, <2>3, <2>4 DEF RunOpens
<1>20. ASSUME RunCloses \/ RunCloseWindow \/ RunClosePane
      PROVE  TypeOK'
  <2>1. OnlyCloses /\ asking' \subseteq Windows
    BY <1>20, ClosingSteps
  <2>2. /\ Is({"close_tab", "show_child_exited"} \cup {"close_window", "close_all_windows", "quit"}
             \cup {"close_pane"})
        /\ queue' = Tail(queue)
        /\ UNCHANGED <<reg, alive, threads, configVars, exited, asked>>
    BY <1>20 DEF RunCloses, RunCloseWindow, RunClosePane, Is, exits
  <2>3. refused' \subseteq exited
    BY <1>20 DEF RunCloses, RunCloseWindow, RunClosePane, exits, TypeOK
  <2> QED
    BY <1>3, <2>1, <2>2, <2>3, HeadTypes
<1>21. ASSUME RunNewWindow
      PROVE  TypeOK'
  <2>1. /\ closure \in Calls /\ closure.w \in Windows /\ Tail(queue) \in Seq(Calls)
        /\ closure.op \in {"move_tab_to_new_window", "new_window"}
    BY <1>21, HeadTypes DEF RunNewWindow
  <2>2. CASE UNCHANGED <<panes, win, displaced>>
    BY <1>21, <2>1, <2>2 DEF RunNewWindow, TypeOK, windowVars, paneVars, configVars, history, exits, threads
  <2>3. ASSUME NEW w \in Unborn, win' = Made({w})
        PROVE  win' \in [Windows -> {"none", "tracked", "open", "closed", "gone"}]
    BY <2>3 DEF Made, TypeOK
  <2>4. CASE \E w \in Unborn : win' = Made({w}) /\ UNCHANGED <<panes, displaced>>
    BY <1>21, <2>1, <2>3, <2>4 DEF RunNewWindow, TypeOK, windowVars, paneVars, configVars, history, exits, threads
  <2>5. CASE \E w \in Unborn, p \in DOMAIN panes : win' = Made({w}) /\ Moved(p, w)
    <3>1. PICK w \in Windows, p \in DOMAIN panes : win' = Made({w}) /\ Moved(p, w)
      BY <2>5 DEF Unborn
    <3>2. /\ DOMAIN panes' = DOMAIN panes
          /\ panes' \in [DOMAIN panes' -> [home : Windows, addr : Addrs, parked : BOOLEAN]]
      BY <3>1, PaneSteps
    <3>3. displaced' \subseteq exited
      BY <3>1 DEF Moved, Displace, TypeOK
    <3> QED
      BY <1>21, <2>1, <2>3, <2>5, <3>2, <3>3 DEF RunNewWindow, TypeOK, windowVars, paneVars, configVars, history, exits, threads
  <2> QED
    BY <1>21, <2>2, <2>4, <2>5 DEF RunNewWindow, At, In
<1>24. ASSUME RunSoftReload
      PROVE  TypeOK'
  <2>1. /\ closure \in Calls /\ closure.w \in Windows /\ Tail(queue) \in Seq(Calls)
        /\ closure.op \in {"soft_reload"}
    BY <1>24, HeadTypes DEF RunSoftReload
  <2>2. PICK ws \in Reports : \E hs \in Handles(Len(ws)) :
          /\ queue' = Tail(queue) \o Reported(ws, hs)
          /\ heap' = Clones(hs, heap[current])
    BY <1>24 DEF RunSoftReload
  <2>3. PICK hs \in Handles(Len(ws)) :
          /\ queue' = Tail(queue) \o Reported(ws, hs)
          /\ heap' = Clones(hs, heap[current])
    BY <2>2
  <2>4. queue' \in Seq(Calls)
    BY <2>1, <2>3, ReportedTypes, ConcatElems
  <2>5. heap' \in [Configs -> Nat] /\ lib' \in Nat /\ current' = current
    BY <1>24, <2>3 DEF RunSoftReload, Clones, TypeOK
  <2> QED
    BY <1>24, <2>1, <2>4, <2>5 DEF RunSoftReload, TypeOK, windowVars, paneVars, configVars, history, exits, threads
<1>25. ASSUME RunHardReload
      PROVE  TypeOK'
  <2>1. /\ closure \in Calls /\ closure.w \in Windows /\ Tail(queue) \in Seq(Calls)
        /\ closure.op \in {"hard_reload"}
    BY <1>25, HeadTypes DEF RunHardReload
  <2>2. PICK ws \in Reports : \E hs \in Handles(Len(ws)) :
          /\ queue' = Tail(queue) \o Reported(ws, hs)
          /\ Replaced(Clones(hs, heap[closure.cfg]), closure.cfg)
    BY <1>25 DEF RunHardReload
  <2>3. PICK hs \in Handles(Len(ws)) :
          /\ queue' = Tail(queue) \o Reported(ws, hs)
          /\ Replaced(Clones(hs, heap[closure.cfg]), closure.cfg)
    BY <2>2
  <2>4. queue' \in Seq(Calls)
    BY <2>1, <2>3, ReportedTypes, ConcatElems
  <2>5. closure.cfg \in Configs
    BY <2>1, CallTypes
  <2>6. Clones(hs, heap[closure.cfg]) \in [Configs -> Nat]
    BY <2>5 DEF Clones, TypeOK
  <2>7. heap' \in [Configs -> Nat] /\ lib' \in Nat /\ current' \in Configs
    BY <1>25, <2>3, <2>5, <2>6 DEF RunHardReload, Replaced, TypeOK
  <2> QED
    BY <1>25, <2>1, <2>4, <2>7 DEF RunHardReload, TypeOK, windowVars, paneVars, configVars, history, exits, threads
<1>26. ASSUME RunReplaceConfig
      PROVE  TypeOK'
  <2>1. /\ closure \in Calls /\ closure.w \in Windows /\ Tail(queue) \in Seq(Calls)
        /\ closure.op \in {"replace_config"}
    BY <1>26, HeadTypes DEF RunReplaceConfig
  <2>2. closure.cfg \in Configs
    BY <2>1, CallTypes
  <2> QED
    BY <1>26, <2>1, <2>2 DEF RunReplaceConfig, Replaced, TypeOK, windowVars, paneVars, configVars, history, exits, threads
<1>27. CASE UNCHANGED vars
  BY <1>27 DEF vars, TypeOK, windowVars, paneVars, configVars, history, exits, threads
<1> QED
  BY <1>1, <1>2, <1>4, <1>5, <1>6, <1>8, <1>9, <1>10, <1>11, <1>12, <1>13, <1>14, <1>15, <1>16, <1>17, <1>18, <1>19, <1>20, <1>21, <1>24, <1>25, <1>26, <1>27 DEF Next, User, Callback, Run

-----------------------------------------------------------------------------
(* The liveness gate. *)

Gate ==
  /\ \A w \in Windows : alive[w] => win[w] # "gone"
  /\ stale \cap GatedOps = {}

(* A closure that passed the gate of its window finds the window there.    *)
LEMMA GateHolds ==
  ASSUME TypeOK, Gate, NEW ops, Is(ops), ops \subseteq GatedOps, Open, Touches
  PROVE  stale' = stale
<1>1. closure.w \in Windows
  BY HeadTypes
<1> QED
  BY <1>1 DEF Gate, Open, Touches, Exists

(* Every step keeps the gate: a window loses its m_alive with its object.  *)
LEMMA GateStep == TypeOK /\ Gate /\ [Next]_vars => Gate'
<1> SUFFICES ASSUME TypeOK, Gate, [Next]_vars
             PROVE  Gate'
  OBVIOUS
<1>1. CASE \E w \in Windows : Activated(w)
  BY <1>1 DEF Activated, Gate, TypeOK, history
<1>2. CASE \E w \in Windows : UserOpensPane(w)
  BY <1>2 DEF UserOpensPane, Gate, history, windowVars
<1>3. CASE \/ \E w \in Windows : UserClosesWindow(w) \/ Asks(w) \/ Answers(w)
           \/ \E p \in DOMAIN panes : UserClosesPane(p) \/ Expire(p)
  <2>1. \A w \in Windows : win'[w] = "gone" => win[w] = "gone"
    BY <1>3, ClosingSteps DEF OnlyCloses
  <2>2. alive' = alive /\ stale' = stale
    BY <1>3 DEF UserClosesWindow, Asks, Answers, UserClosesPane, Expire, windowVars, history
  <2> QED
    BY <2>1, <2>2 DEF Gate
<1>4. CASE \E w \in Windows : Destroy(w)
  BY <1>4 DEF Destroy, Gate, TypeOK, history
<1>5. CASE \E p \in DOMAIN panes : Undo(p)
  BY <1>5 DEF Undo, Gate, windowVars
<1>6. CASE \E p \in DOMAIN panes : UserMovesPane(p)
  <2>1. /\ alive' = alive /\ stale' = stale
        /\ win' = win \/ \E w \in Unborn : win' = Made({w})
    BY <1>6 DEF UserMovesPane
  <2> QED
    BY <2>1 DEF Made, Gate, TypeOK
<1>7. CASE \/ EditFile
           \/ \E p \in DOMAIN panes : OnWakeup(p) \/ OnCloseSurface(p)
           \/ \E t \in Targets, tag \in Tags : OnAction(t, tag)
           \/ \E t \in Targets, soft \in BOOLEAN : ReloadConfig(t, soft)
           \/ \E k \in workers : WorkerParses(k)
  <2>1. win' = win /\ alive' = alive /\ stale' = stale
    BY <1>7 DEF EditFile, OnWakeup, OnCloseSurface, OnAction, ReloadConfig, WorkerParses,
                history, windowVars
  <2> QED
    BY <2>1 DEF Gate
<1>8. CASE \/ \E p \in DOMAIN panes : PostWakeup(p)
           \/ \E k \in workers : WorkerPosts(k)
  <2>1. win' = win /\ alive' = alive /\ stale' \subseteq stale \cup {"wakeup", "worker"}
    BY <1>8 DEF PostWakeup, WorkerPosts, windowVars
  <2> QED
    BY <2>1, TagFacts DEF Gate
<1>9. CASE RunSevered
  BY <1>9 DEF RunSevered, Gate, windowVars, history
<1>10. CASE RunHandler \/ RunOpens
  <2> DEFINE ops == MovesNothing \cup {"new_tab", "new_split", "undo", "redo"}
  <2>1. /\ Is(ops) /\ Open /\ Touches
        /\ win' = win /\ alive' = alive
    BY <1>10 DEF RunHandler, RunOpens, Is, windowVars
  <2>2. ops \subseteq GatedOps
    BY DEF MovesNothing, GatedOps, ActionTags, TabTags, SplitTags, OverlayTags
  <2>3. stale' = stale
    BY <2>1, <2>2, GateHolds
  <2> QED
    BY <2>1, <2>3 DEF Gate
<1>11. CASE RunNewWindow \/ RunCloses \/ RunCloseWindow
  <2> DEFINE ops == {"move_tab_to_new_window", "new_window"}
                      \cup {"close_tab", "show_child_exited"}
                      \cup {"close_window", "close_all_windows", "quit"}
  <2>1. Is(ops) /\ Open /\ Touches /\ alive' = alive
    BY <1>11 DEF RunNewWindow, RunCloses, RunCloseWindow, Is
  <2>2. ops \subseteq GatedOps
    BY DEF GatedOps, ActionTags, TabTags, SplitTags, VerbTags, ExitTags
  <2>3. stale' = stale
    BY <2>1, <2>2, GateHolds
  <2>4. \A w \in Windows : win'[w] = "gone" => win[w] = "gone"
    <3>1. CASE RunNewWindow
      <4>1. win' = win \/ \E w \in Unborn : win' = Made({w})
        BY <3>1 DEF RunNewWindow
      <4> QED
        BY <4>1 DEF Made, TypeOK
    <3>2. CASE RunCloses \/ RunCloseWindow
      BY <3>2, ClosingSteps DEF OnlyCloses
    <3> QED
      BY <1>11, <3>1, <3>2
  <2> QED
    BY <2>1, <2>3, <2>4 DEF Gate
<1>12. CASE RunClosePane \/ RunSoftReload \/ RunHardReload
  <2>1. Is(BareOps) /\ Touches /\ alive' = alive
    BY <1>12 DEF RunClosePane, RunSoftReload, RunHardReload, Is, BareOps, windowVars
  <2>3. \A w \in Windows : win'[w] = "gone" => win[w] = "gone"
    <3>1. CASE RunClosePane
      BY <3>1, ClosingSteps DEF OnlyCloses
    <3>2. CASE RunSoftReload \/ RunHardReload
      BY <3>2 DEF RunSoftReload, RunHardReload, windowVars
    <3> QED
      BY <1>12, <3>1, <3>2
  <2>2. stale' \subseteq stale \cup BareOps
    BY <2>1 DEF Touches, Is, closure
  <2> QED
    BY <2>1, <2>2, <2>3, TagFacts DEF Gate
<1>13. CASE RunReplaceConfig
  <2>1. /\ Is({"replace_config"}) /\ Open /\ Touches
        /\ win' = win /\ alive' = alive
    BY <1>13 DEF RunReplaceConfig, windowVars
  <2>2. stale' = stale
    BY <2>1, GateHolds DEF GatedOps
  <2> QED
    BY <2>1, <2>2 DEF Gate
<1>14. CASE UNCHANGED vars
  BY <1>14 DEF vars, windowVars, history, Gate
<1> QED
  BY <1>1, <1>2, <1>3, <1>4, <1>5, <1>6, <1>7, <1>8, <1>9, <1>10, <1>11, <1>12, <1>13, <1>14
     DEF Next, User, Callback, Run

-----------------------------------------------------------------------------
(* The closes of exited shells. *)

CloseCalls(q) == {x \in Elems(q) : x.op = "close_pane"}

(* A close on its way names a pane whose shell exited or whose close a key *)
(* asked for, and the pane of an exited shell that was neither displaced   *)
(* nor refused is in its window with a close on the way to it.             *)
ExitInv ==
  /\ \A x \in CloseCalls(queue) : x.pane \in exited \cup asked
  /\ \A p \in exited \ (displaced \cup refused) : Live(p) =>
       /\ ~panes[p].parked
       /\ \E x \in CloseCalls(queue) : x.pane = p /\ x.w = panes[p].home

(* A closure that is no close leaves the closes as they are.               *)
LEMMA CloseCallsTail ==
  ASSUME TypeOK, NEW ops, Is(ops), "close_pane" \notin ops
  PROVE  CloseCalls(Tail(queue)) = CloseCalls(queue)
BY HeadTypes DEF CloseCalls

(* A step that gives no pane back to a window keeps the account.           *)
LEMMA KeepsExits ==
  ASSUME TypeOK, ExitInv,
         CloseCalls(queue)' = CloseCalls(queue),
         UNCHANGED exits,
         displaced \subseteq displaced',
         \A p \in exited \ displaced' : p \in DOMAIN panes' =>
           /\ p \in DOMAIN panes
           /\ panes'[p].home = panes[p].home
           /\ panes'[p].parked => panes[p].parked
  PROVE  ExitInv'
BY DEF ExitInv, Live, exits

(* ... and so does every close but the one that takes a call off the queue.*)
LEMMA CloseKeepsExits ==
  ASSUME TypeOK, ExitInv, OnlyCloses, UNCHANGED exits,
         CloseCalls(queue)' = CloseCalls(queue)
  PROVE  ExitInv'
BY KeepsExits DEF OnlyCloses

(* Every step keeps the account of exits. *)
LEMMA ExitStep == TypeOK /\ ExitInv /\ [Next]_vars => ExitInv'
<1> SUFFICES ASSUME TypeOK, ExitInv, [Next]_vars
             PROVE  ExitInv'
  OBVIOUS
<1>1. CASE UNCHANGED <<panes, queue, exits, displaced>>
  BY <1>1, KeepsExits
<1>2. ASSUME NEW w \in Windows, AddPane(w), UNCHANGED <<exits, displaced>>,
             CloseCalls(queue)' = CloseCalls(queue)
      PROVE  ExitInv'
  <2>1. nextId \notin exited
    BY CallbackAssumption DEF TypeOK
  <2>2. /\ DOMAIN panes' = DOMAIN panes \cup {nextId}
        /\ \A p \in DOMAIN panes : panes'[p] = panes[p]
    BY <1>2, PaneSteps
  <2> QED
    BY <1>2, <2>1, <2>2, KeepsExits
<1>3. ASSUME NEW ps, DropPanes(ps), UNCHANGED <<exits, displaced>>,
             CloseCalls(queue)' = CloseCalls(queue)
      PROVE  ExitInv'
  <2>1. /\ DOMAIN panes' = DOMAIN panes \ ps
        /\ \A p \in DOMAIN panes' : panes'[p] = panes[p]
    BY <1>3, PaneSteps
  <2> QED
    BY <1>3, <2>1, KeepsExits
<1>4. ASSUME NEW p \in DOMAIN panes, NEW w \in Windows, NEW b \in BOOLEAN,
             Placed(p, w, b), Displace({p}), UNCHANGED exits,
             CloseCalls(queue)' = CloseCalls(queue)
      PROVE  ExitInv'
  <2>1. /\ DOMAIN panes' = DOMAIN panes
        /\ \A q \in DOMAIN panes : q # p => panes'[q] = panes[q]
    BY <1>4 DEF Placed, TypeOK
  <2>2. displaced \subseteq displaced' /\ p \notin exited \ displaced'
    BY <1>4 DEF Displace
  <2> QED
    BY <1>4, <2>1, <2>2, KeepsExits
<1>5. ASSUME NEW p \in DOMAIN panes, panes[p].parked, Listed(p), UNCHANGED exits,
             CloseCalls(queue)' = CloseCalls(queue)
      PROVE  ExitInv'
  <2>1. /\ DOMAIN panes' = DOMAIN panes /\ displaced' = displaced
        /\ \A q \in DOMAIN panes : q # p => panes'[q] = panes[q]
        /\ panes'[p].home = panes[p].home
    BY <1>5 DEF Listed, Placed, TypeOK
  <2>2. p \in DOMAIN panes /\ panes[p].parked
    BY <1>5
  <2> QED
    BY <1>5, <2>1, <2>2, KeepsExits
<1>6. \A p \in DOMAIN panes : panes[p].home \in Windows
  BY DEF TypeOK
<1>7. ASSUME queue' = Tail(queue), NEW ops, Is(ops), "close_pane" \notin ops
      PROVE  CloseCalls(queue)' = CloseCalls(queue)
  BY <1>7, CloseCallsTail
<1>8. ASSUME NEW x \in Calls, x.op # "close_pane", queue' = Append(queue, x)
      PROVE  CloseCalls(queue)' = CloseCalls(queue)
  <2>1. Elems(queue') = Elems(queue) \cup {x}
    BY <1>8, AppendElems DEF TypeOK
  <2> QED
    BY <1>8, <2>1 DEF CloseCalls
<1>9. ASSUME CloseCalls(queue)' = CloseCalls(queue), UNCHANGED <<panes, exits, displaced>>
      PROVE  ExitInv'
  BY <1>9, KeepsExits
<1>10. CASE \E w \in Windows : Activated(w)
  BY <1>10, <1>1 DEF Activated, paneVars, history
<1>11. CASE \E w \in Windows : UserOpensPane(w)
  BY <1>11, <1>2 DEF UserOpensPane, history
<1>12. CASE \E w \in Windows : Destroy(w)
  BY <1>12, <1>3 DEF Destroy, history
<1>13. CASE \/ \E w \in Windows : UserClosesWindow(w) \/ Asks(w) \/ Answers(w)
            \/ \E p \in DOMAIN panes : UserClosesPane(p) \/ Expire(p)
  <2>1. OnlyCloses
    BY <1>13, ClosingSteps
  <2>2. UNCHANGED <<queue, exits>>
    BY <1>13 DEF UserClosesWindow, Asks, Answers, UserClosesPane, Expire, history
  <2> QED
    BY <2>1, <2>2, CloseKeepsExits
<1>14. CASE \E p \in DOMAIN panes : Undo(p)
  BY <1>14, <1>5 DEF Undo
<1>16. CASE \E p \in DOMAIN panes : UserMovesPane(p)
  BY <1>16, <1>4 DEF UserMovesPane, Moved, Unborn
<1>17. CASE \/ EditFile
            \/ \E p \in DOMAIN panes : OnWakeup(p) \/ PostWakeup(p)
            \/ \E k \in workers : WorkerParses(k)
  BY <1>17, <1>1 DEF EditFile, OnWakeup, PostWakeup, WorkerParses, paneVars, history
<1>18. ASSUME NEW p \in DOMAIN panes, OnCloseSurface(p)
       PROVE  ExitInv'
  <2>1. /\ panes' = panes /\ refused' = refused
        /\ exited' \cup asked' = exited \cup asked \cup {p}
        /\ exited \subseteq exited' /\ exited' \subseteq exited \cup {p}
        /\ asked \subseteq asked'
    BY <1>18 DEF OnCloseSurface, paneVars, ShellEnded, KeyPressed
  <2>2. CASE Holders(p) = {}
    <3>1. displaced' = displaced \cup {p} /\ queue' = queue
      BY <1>18, <2>2 DEF OnCloseSurface
    <3> QED
      BY <2>1, <3>1 DEF ExitInv, Live
  <2>3. CASE Holders(p) # {}
    <3>1. queue' = Append(queue, CloseCall(p)) /\ displaced' = displaced
      BY <1>18, <2>3 DEF OnCloseSurface
    <3>2. p \in 1 .. MaxPanes
      BY PaneIds
    <3>3. /\ CloseCall(p) \in Calls /\ CloseCall(p).op = "close_pane"
          /\ CloseCall(p).pane = p /\ CloseCall(p).w = panes[p].home
      BY <3>2, <1>6 DEF CloseCall, Calls
    <3>4. Elems(queue') = Elems(queue) \cup {CloseCall(p)}
      BY <3>1, <3>3, AppendElems DEF TypeOK
    <3>5. CloseCalls(queue') = CloseCalls(queue) \cup {CloseCall(p)}
      BY <3>3, <3>4 DEF CloseCalls
    <3>6. ~panes[p].parked
      BY <2>3 DEF Holders, Owns
    <3> QED
      BY <2>1, <3>1, <3>3, <3>5, <3>6 DEF ExitInv, Live
  <2> QED
    BY <2>2, <2>3
<1>19. ASSUME NEW t \in Targets, NEW tag \in Tags, OnAction(t, tag)
       PROVE  ExitInv'
  <2>1. PICK w \in Routed(t) : \E call \in Posted(tag, w, t) : queue' = Append(queue, call)
    BY <1>19 DEF OnAction
  <2>2. PICK call \in Posted(tag, w, t) : queue' = Append(queue, call)
    BY <2>1
  <2>3. call \in Calls /\ call.op \in ActionTags
    BY RoutedTypes, PostedTypes
  <2>4. call.op # "close_pane"
    BY <2>3, TagFacts DEF GatedOps, BareOps
  <2> QED
    BY <1>19, <2>2, <2>3, <2>4, <1>8, <1>9 DEF OnAction, paneVars, history
<1>20. ASSUME NEW t \in Targets, NEW soft \in BOOLEAN, ReloadConfig(t, soft)
       PROVE  ExitInv'
  <2>1. PICK w \in Routed(t) :
          queue' = queue \/ queue' = Append(queue, [op |-> "soft_reload", w |-> w])
    BY <1>20 DEF ReloadConfig
  <2>2. [op |-> "soft_reload", w |-> w] \in Calls
    BY RoutedTypes DEF Calls
  <2>3. CloseCalls(queue)' = CloseCalls(queue)
    BY <2>1, <2>2, <1>8
  <2> QED
    BY <1>20, <2>3, <1>9 DEF ReloadConfig, paneVars, history
<1>21. ASSUME NEW k \in workers, WorkerPosts(k)
       PROVE  ExitInv'
  <2>1. k.w \in Windows /\ k.cfg \in Configs
    BY <1>21 DEF WorkerPosts, TypeOK
  <2>2. [op |-> "hard_reload", w |-> k.w, cfg |-> k.cfg] \in Calls
    BY <2>1 DEF Calls
  <2>3. CloseCalls(queue)' = CloseCalls(queue)
    BY <1>21, <2>2, <1>8 DEF WorkerPosts
  <2> QED
    BY <1>21, <2>3, <1>9 DEF WorkerPosts, paneVars
<1>22. CASE RunSevered \/ RunHandler \/ RunReplaceConfig
  <2> DEFINE ops == GatedOps \cup MovesNothing \cup {"replace_config"}
  <2>1. Is(ops) /\ queue' = Tail(queue) /\ UNCHANGED <<panes, exits, displaced>>
    BY <1>22 DEF RunSevered, RunHandler, RunReplaceConfig, Is, paneVars, history
  <2>2. "close_pane" \notin ops
    BY TagFacts DEF MovesNothing, BareOps, GatedOps
  <2> HIDE DEF ops
  <2> QED
    BY <2>1, <2>2, <1>7, <1>9
<1>23. CASE RunOpens
  <2>1. CloseCalls(queue)' = CloseCalls(queue) /\ UNCHANGED exits
    BY <1>23, <1>7 DEF RunOpens
  <2>2. closure.w \in Windows
    BY <1>23, HeadTypes DEF RunOpens
  <2>3. CASE UNCHANGED <<paneVars, displaced>>
    BY <2>1, <2>3, <1>9 DEF paneVars
  <2>4. CASE AddPane(closure.w) /\ displaced' = displaced
    BY <2>1, <2>2, <2>4, <1>2
  <2>5. CASE \E p \in DOMAIN panes : IF panes[p].parked THEN Listed(p) ELSE Parked(p)
    BY <2>1, <2>5, <1>4, <1>5, <1>6 DEF Parked
  <2> QED
    BY <1>23, <2>3, <2>4, <2>5 DEF RunOpens
<1>24. CASE RunCloses \/ RunCloseWindow
  <2> DEFINE ops == {"close_tab", "show_child_exited"}
                      \cup {"close_window", "close_all_windows", "quit"}
  <2>1. Is(ops) /\ queue' = Tail(queue) /\ UNCHANGED exits
    BY <1>24 DEF RunCloses, RunCloseWindow, Is
  <2>2. "close_pane" \notin ops
    OBVIOUS
  <2> HIDE DEF ops
  <2> QED
    BY <1>24, <2>1, <2>2, <1>7, ClosingSteps, CloseKeepsExits
<1>25. CASE RunNewWindow
  <2>1. CloseCalls(queue)' = CloseCalls(queue) /\ UNCHANGED exits
    BY <1>25, <1>7 DEF RunNewWindow
  <2>2. CASE UNCHANGED <<panes, displaced>>
    BY <2>1, <2>2, <1>9
  <2>3. CASE \E p \in DOMAIN panes, w \in Unborn : Moved(p, w)
    BY <2>1, <2>3, <1>4 DEF Moved, Unborn
  <2> QED
    BY <1>25, <2>2, <2>3 DEF RunNewWindow, At, In
<1>26. CASE RunClosePane
  <2>1. OnlyCloses
    BY <1>26, ClosingSteps
  <2>2. /\ queue' = Tail(queue) /\ UNCHANGED <<exited, asked>>
        /\ refused \subseteq refused'
    BY <1>26 DEF RunClosePane
  <2>3. CloseCalls(queue) = {closure} \cup CloseCalls(queue')
    BY <1>26, <2>2, HeadTypes DEF RunClosePane, CloseCalls
  <2>4. \A q \in Named(closure) \cap exited : q \in refused' \/ q \notin DOMAIN panes'
    <3> SUFFICES ASSUME NEW q \in Named(closure), q \in exited, q \notin refused'
                 PROVE  q \notin DOMAIN panes'
      OBVIOUS
    <3>1. Named(closure) = {q} /\ q \in DOMAIN panes
      BY DEF Named, In
    <3>2. closure.w \notin asking
      BY <1>26 DEF RunClosePane
    <3>3. Ends(q)
      BY <1>26, <3>1, <3>2 DEF RunClosePane, Submit
    <3>4. DOMAIN panes' = DOMAIN panes \ {q}
      <4>1. DropPanes({q})
        BY <3>3 DEF Ends
      <4> QED
        BY <4>1, PaneSteps
    <3> QED
      BY <3>4
  <2>5. ASSUME NEW p \in exited \ (displaced' \cup refused'), p \in DOMAIN panes'
        PROVE  ~panes'[p].parked /\ \E x \in CloseCalls(queue') : x.pane = p /\ x.w = panes'[p].home
    <3>1. /\ p \in exited \ (displaced \cup refused) /\ Live(p)
          /\ panes'[p].home = panes[p].home
          /\ panes'[p].parked => panes[p].parked
      BY <2>1, <2>2, <2>5 DEF OnlyCloses, Live
    <3>2. ~panes[p].parked
      BY <3>1 DEF ExitInv
    <3>3. PICK x \in CloseCalls(queue) : x.pane = p /\ x.w = panes[p].home
      BY <3>1 DEF ExitInv
    <3>4. x # closure
      BY <2>4, <2>5, <3>1, <3>2, <3>3 DEF Named, In, Owns, Live
    <3> QED
      BY <2>3, <3>1, <3>2, <3>3, <3>4
  <2> QED
    BY <2>2, <2>3, <2>5 DEF ExitInv, Live
<1>27. CASE RunSoftReload \/ RunHardReload
  <2>1. /\ Is({"soft_reload", "hard_reload"})
        /\ UNCHANGED <<panes, exits, displaced>>
    BY <1>27 DEF RunSoftReload, RunHardReload, Is, paneVars
  <2>2. PICK ws \in Reports : \E hs \in Handles(Len(ws)) :
          queue' = Tail(queue) \o Reported(ws, hs)
    BY <1>27 DEF RunSoftReload, RunHardReload
  <2>3. PICK hs \in Handles(Len(ws)) : queue' = Tail(queue) \o Reported(ws, hs)
    BY <2>2
  <2>4. Elems(queue') = Elems(Tail(queue)) \cup Elems(Reported(ws, hs))
    <3>1. Tail(queue) \in Seq(Calls)
      BY <2>1, HeadTypes
    <3>2. Reported(ws, hs) \in Seq(Calls)
      BY ReportedTypes
    <3>3. Elems(Tail(queue) \o Reported(ws, hs)) = Elems(Tail(queue)) \cup Elems(Reported(ws, hs))
      BY <3>1, <3>2, ConcatElems
    <3> QED
      BY <2>3, <3>3
  <2>5. \A x \in Elems(Reported(ws, hs)) : x.op = "replace_config"
    BY ReportedTypes DEF Elems
  <2>6. CloseCalls(queue') = CloseCalls(Tail(queue))
    BY <2>4, <2>5 DEF CloseCalls
  <2> QED
    BY <2>1, <2>6, <1>9, CloseCallsTail
<1>28. CASE UNCHANGED vars
  BY <1>28, <1>1 DEF vars, paneVars, history
<1> QED
  BY <1>10, <1>11, <1>12, <1>13, <1>14, <1>16, <1>17, <1>18, <1>19, <1>20, <1>21,
     <1>22, <1>23, <1>24, <1>25, <1>26, <1>27, <1>28
     DEF Next, User, Callback, Run

-----------------------------------------------------------------------------
(* The owners of the configs. *)

ConfigOps == {"replace_config", "hard_reload"}

PendingOf(q) == {x.cfg : x \in {e \in Elems(q) : e.op \in ConfigOps}}

Distinct(q) ==
  \A i, j \in 1 .. Len(q) :
    q[i].op \in ConfigOps /\ q[j].op \in ConfigOps /\ q[i].cfg = q[j].cfg => i = j

(* The names the properties use. *)
LEMMA PendingIs ==
  ASSUME TypeOK
  PROVE  /\ Pending = PendingOf(queue)
         /\ Distinct(queue) <=>
              \A i, j \in QueuedConfigs : queue[i].cfg = queue[j].cfg => i = j
<1>1. DOMAIN queue = 1 .. Len(queue)
  BY LenProperties DEF TypeOK
<1> QED
  BY <1>1 DEF Pending, PendingOf, QueuedConfigs, Elems, Distinct, ConfigOps

(* What a closure at the end of the queue adds.                            *)
LEMMA PendingAppend ==
  ASSUME NEW q \in Seq(Calls), Distinct(q), NEW x \in Calls,
         x.op \in ConfigOps => x.cfg \notin PendingOf(q)
  PROVE  /\ Distinct(Append(q, x))
         /\ PendingOf(Append(q, x)) =
              PendingOf(q) \cup (IF x.op \in ConfigOps THEN {x.cfg} ELSE {})
<1>1. Elems(Append(q, x)) = Elems(q) \cup {x}
  BY AppendElems
<1>2. /\ Len(Append(q, x)) = Len(q) + 1 /\ Len(q) \in Nat
      /\ \A i \in 1 .. Len(q) : Append(q, x)[i] = q[i]
      /\ Append(q, x)[Len(q) + 1] = x
  BY AppendProperties, LenProperties
<1>3. \A i \in 1 .. Len(q) : q[i].op \in ConfigOps => q[i].cfg \in PendingOf(q)
  BY DEF PendingOf, Elems
<1>4. Distinct(Append(q, x))
  <2> SUFFICES ASSUME NEW i \in 1 .. Len(q) + 1, NEW j \in 1 .. Len(q) + 1,
                      Append(q, x)[i].op \in ConfigOps, Append(q, x)[j].op \in ConfigOps,
                      Append(q, x)[i].cfg = Append(q, x)[j].cfg
               PROVE  i = j
    BY <1>2 DEF Distinct
  <2>1. CASE i \in 1 .. Len(q) /\ j \in 1 .. Len(q)
    BY <2>1, <1>2 DEF Distinct
  <2>2. CASE i \in 1 .. Len(q) /\ j = Len(q) + 1
    BY <2>2, <1>2, <1>3
  <2>3. CASE j \in 1 .. Len(q) /\ i = Len(q) + 1
    BY <2>3, <1>2, <1>3
  <2> QED
    BY <1>2, <2>1, <2>2, <2>3
<1> QED
  BY <1>1, <1>4 DEF PendingOf

(* What the closure at the head takes with it.                             *)
LEMMA PendingTail ==
  ASSUME NEW q \in Seq(Calls), Distinct(q), q # <<>>
  PROVE  /\ Distinct(Tail(q))
         /\ q[1].op \notin ConfigOps => PendingOf(Tail(q)) = PendingOf(q)
         /\ q[1].op \in ConfigOps =>
              /\ PendingOf(Tail(q)) = PendingOf(q) \ {q[1].cfg}
              /\ q[1].cfg \in PendingOf(q)
<1>1. Elems(q) = {q[1]} \cup Elems(Tail(q))
  BY TailElems
<1>2. /\ Len(Tail(q)) = Len(q) - 1 /\ Len(q) \in Nat \ {0}
      /\ \A i \in 1 .. Len(Tail(q)) : Tail(q)[i] = q[i + 1]
  BY HeadTailProperties, EmptySeq
<1>3. Distinct(Tail(q))
  <2> SUFFICES ASSUME NEW i \in 1 .. Len(Tail(q)), NEW j \in 1 .. Len(Tail(q)),
                      Tail(q)[i].op \in ConfigOps, Tail(q)[j].op \in ConfigOps,
                      Tail(q)[i].cfg = Tail(q)[j].cfg
               PROVE  i = j
    BY DEF Distinct
  <2>1. i + 1 \in 1 .. Len(q) /\ j + 1 \in 1 .. Len(q)
    BY <1>2
  <2>2. i + 1 = j + 1
    BY <2>1, <1>2 DEF Distinct
  <2> QED
    BY <2>2
<1>4. ASSUME q[1].op \in ConfigOps
      PROVE  q[1].cfg \notin PendingOf(Tail(q))
  <2> SUFFICES ASSUME NEW i \in 1 .. Len(Tail(q)), Tail(q)[i].op \in ConfigOps,
                      Tail(q)[i].cfg = q[1].cfg
               PROVE  FALSE
    BY DEF PendingOf, Elems
  <2>1. i + 1 \in 1 .. Len(q) /\ 1 \in 1 .. Len(q) /\ i + 1 # 1
    BY <1>2
  <2> QED
    BY <2>1, <1>2, <1>4 DEF Distinct
<1> QED
  BY <1>1, <1>3, <1>4 DEF PendingOf

(* What a reload's reports add. *)
LEMMA PendingConcat ==
  ASSUME NEW q \in Seq(Calls), NEW r \in Seq(Calls), Distinct(q), Distinct(r),
         PendingOf(q) \cap PendingOf(r) = {}
  PROVE  /\ Distinct(q \o r)
         /\ PendingOf(q \o r) = PendingOf(q) \cup PendingOf(r)
<1>1. Elems(q \o r) = Elems(q) \cup Elems(r)
  BY ConcatElems
<1>2. /\ Len(q \o r) = Len(q) + Len(r) /\ Len(q) \in Nat /\ Len(r) \in Nat
      /\ \A i \in 1 .. Len(q) + Len(r) :
           (q \o r)[i] = IF i <= Len(q) THEN q[i] ELSE r[i - Len(q)]
  BY ConcatProperties, LenProperties
<1>3. /\ \A i \in 1 .. Len(q) : q[i].op \in ConfigOps => q[i].cfg \in PendingOf(q)
      /\ \A i \in 1 .. Len(r) : r[i].op \in ConfigOps => r[i].cfg \in PendingOf(r)
  BY DEF PendingOf, Elems
<1>4. Distinct(q \o r)
  <2> SUFFICES ASSUME NEW i \in 1 .. Len(q) + Len(r), NEW j \in 1 .. Len(q) + Len(r),
                      (q \o r)[i].op \in ConfigOps, (q \o r)[j].op \in ConfigOps,
                      (q \o r)[i].cfg = (q \o r)[j].cfg
               PROVE  i = j
    BY <1>2 DEF Distinct
  <2>1. CASE i <= Len(q) /\ j <= Len(q)
    <3>1. i \in 1 .. Len(q) /\ j \in 1 .. Len(q)
      BY <2>1, <1>2
    <3> QED
      BY <2>1, <3>1, <1>2 DEF Distinct
  <2>2. CASE i <= Len(q) /\ ~(j <= Len(q))
    <3>1. i \in 1 .. Len(q) /\ j - Len(q) \in 1 .. Len(r)
      BY <2>2, <1>2
    <3> QED
      BY <2>2, <3>1, <1>2, <1>3
  <2>3. CASE ~(i <= Len(q)) /\ j <= Len(q)
    <3>1. j \in 1 .. Len(q) /\ i - Len(q) \in 1 .. Len(r)
      BY <2>3, <1>2
    <3> QED
      BY <2>3, <3>1, <1>2, <1>3
  <2>4. CASE ~(i <= Len(q)) /\ ~(j <= Len(q))
    <3>1. i - Len(q) \in 1 .. Len(r) /\ j - Len(q) \in 1 .. Len(r)
      BY <2>4, <1>2
    <3>2. i - Len(q) = j - Len(q)
      BY <2>4, <3>1, <1>2 DEF Distinct
    <3> QED
      BY <3>2, <1>2
  <2> QED
    BY <2>1, <2>2, <2>3, <2>4
<1> QED
  BY <1>1, <1>4 DEF PendingOf

(* The reports of a reload hold one free handle each.                      *)
LEMMA ReportedConfigs ==
  ASSUME TypeOK, NEW ws \in Reports, NEW hs \in Handles(Len(ws))
  PROVE  /\ Distinct(Reported(ws, hs))
         /\ PendingOf(Reported(ws, hs)) = {hs[i] : i \in DOMAIN hs}
         /\ PendingOf(Reported(ws, hs)) \subseteq Free
<1>1. /\ Len(Reported(ws, hs)) = Len(ws) /\ Len(ws) \in Nat
      /\ hs \in [1 .. Len(ws) -> Free]
      /\ \A i \in 1 .. Len(ws) : /\ Reported(ws, hs)[i].op = "replace_config"
                                 /\ Reported(ws, hs)[i].cfg = hs[i]
  BY ReportedTypes
<1>2. \A i, j \in 1 .. Len(ws) : hs[i] = hs[j] => i = j
  <2> SUFFICES ASSUME NEW i \in 1 .. Len(ws), NEW j \in 1 .. Len(ws), hs[i] = hs[j]
               PROVE  i = j
    OBVIOUS
  <2>1. \A k, l \in 1 .. Len(ws) : k < l => hs[k] < hs[l]
    BY DEF Handles
  <2>2. hs[i] \in Nat
    BY <1>1, CallbackAssumption DEF Free
  <2>3. ~(hs[i] < hs[j]) /\ ~(hs[j] < hs[i])
    BY <2>2
  <2> QED
    BY <2>1, <2>3, <1>1
<1>3. Distinct(Reported(ws, hs))
  BY <1>1, <1>2 DEF Distinct
<1>4. PendingOf(Reported(ws, hs)) = {hs[i] : i \in DOMAIN hs}
  BY <1>1 DEF PendingOf, Elems, ConfigOps
<1> QED
  BY <1>1, <1>3, <1>4

(* One owner for each config: App, a closure, a worker, or none any more.  *)
Owned ==
  stale = {} =>
  /\ {h \in Configs : heap[h] # 0} = {current} \cup PendingOf(queue) \cup Parsed \cup leaked
  /\ Distinct(queue)
  /\ \A k, l \in workers : k.cfg = l.cfg /\ k.cfg # 0 => k = l
  /\ current \notin PendingOf(queue) \cup Parsed \cup leaked
  /\ PendingOf(queue) \cap Parsed = {}
  /\ PendingOf(queue) \cap leaked = {}
  /\ Parsed \cap leaked = {}

(* Every step keeps one owner for each config.                             *)
LEMMA OwnedStep == TypeOK /\ Owned /\ [Next]_vars => Owned'
<1> SUFFICES ASSUME TypeOK, Owned, [Next]_vars, stale' = {}
             PROVE  Owned'
  BY DEF Owned
<1>1. ASSUME UNCHANGED <<stale, workers, heap, current, leaked, queue>>
      PROVE  Owned'
  <2>1. PendingOf(queue)' = PendingOf(queue) /\ Distinct(queue)' = Distinct(queue)
    BY <1>1 DEF PendingOf, Elems, Distinct
  <2>2. Parsed' = Parsed
    BY <1>1 DEF Parsed
  <2> QED
    BY <1>1, <2>1, <2>2 DEF Owned
<1> SUFFICES ASSUME Next
             PROVE  Owned'
  BY <1>1 DEF vars, configVars, history, threads
<1>2. stale = {} /\ queue \in Seq(Calls)
  BY DEF Next, TypeOK
<1>3. ASSUME UNCHANGED <<workers, heap, current, leaked>>,
             PendingOf(queue)' = PendingOf(queue), Distinct(queue)'
      PROVE  Owned'
  BY <1>2, <1>3 DEF Owned, Parsed
<1>4. ASSUME UNCHANGED <<workers, heap, current, leaked, queue>>
      PROVE  Owned'
  BY <1>1, <1>2, <1>4
<1>5. ASSUME NEW x \in Calls, x.op \notin ConfigOps, queue' = Append(queue, x)
      PROVE  PendingOf(queue)' = PendingOf(queue) /\ Distinct(queue)'
  <2>1. Distinct(queue)
    BY <1>2 DEF Owned
  <2> QED
    BY <1>2, <1>5, <2>1, PendingAppend
<1>6. ASSUME queue # <<>>, queue[1].op \notin ConfigOps, queue' = Tail(queue)
      PROVE  PendingOf(queue)' = PendingOf(queue) /\ Distinct(queue)'
  <2>1. Distinct(queue)
    BY <1>2 DEF Owned
  <2> QED
    BY <1>2, <1>6, <2>1, PendingTail
<1>7. CASE User
  <2>1. UNCHANGED <<workers, heap, current, leaked, queue>>
    BY <1>7 DEF User, Activated, UserOpensPane, UserClosesWindow, Destroy, Asks, Answers,
                UserClosesPane, Undo, Expire, UserMovesPane, EditFile, configVars, threads
  <2> QED
    BY <2>1, <1>4
<1>8. CASE \E p \in DOMAIN panes : OnWakeup(p) \/ PostWakeup(p)
  BY <1>8, <1>4 DEF OnWakeup, PostWakeup, configVars
<1>9. CASE \E p \in DOMAIN panes : OnCloseSurface(p)
  <2>1. PICK p \in DOMAIN panes : OnCloseSurface(p)
    BY <1>9
  <2>2. UNCHANGED <<workers, heap, current, leaked>>
    BY <2>1 DEF OnCloseSurface, configVars, threads
  <2>3. p \in 1 .. MaxPanes
    BY PaneIds
  <2>4. CloseCall(p) \in Calls /\ CloseCall(p).op \notin ConfigOps
    BY <2>3 DEF CloseCall, Calls, TypeOK, ConfigOps
  <2>5. queue' = queue \/ queue' = Append(queue, CloseCall(p))
    BY <2>1 DEF OnCloseSurface
  <2> QED
    BY <2>2, <2>4, <2>5, <1>3, <1>4, <1>5
<1>10. ASSUME NEW t \in Targets, NEW tag \in Tags, OnAction(t, tag)
       PROVE  Owned'
  <2>1. PICK w \in Routed(t) : \E call \in Posted(tag, w, t) : queue' = Append(queue, call)
    BY <1>10 DEF OnAction
  <2>2. PICK call \in Posted(tag, w, t) : queue' = Append(queue, call)
    BY <2>1
  <2>3. call \in Calls /\ call.op \in ActionTags
    BY RoutedTypes, PostedTypes
  <2>4. call.op \notin ConfigOps
    BY <2>3, TagFacts DEF GatedOps, BareOps, ConfigOps
  <2>5. UNCHANGED <<workers, heap, current, leaked>>
    BY <1>10 DEF OnAction, configVars, threads
  <2> QED
    BY <2>2, <2>3, <2>4, <2>5, <1>3, <1>5
<1>11. ASSUME NEW t \in Targets, NEW soft \in BOOLEAN, ReloadConfig(t, soft)
       PROVE  Owned'
  <2>1. PICK w \in Routed(t) :
          \/ queue' = Append(queue, [op |-> "soft_reload", w |-> w]) /\ workers' = workers
          \/ queue' = queue /\ workers' = workers \cup {[w |-> w, cfg |-> 0]}
    BY <1>11, Zenon DEF ReloadConfig
  <2>2. [op |-> "soft_reload", w |-> w] \in Calls
    BY RoutedTypes DEF Calls
  <2>3. heap' = heap /\ current' = current /\ leaked' = leaked
    BY <1>11 DEF ReloadConfig
  <2>4. CASE queue' = Append(queue, [op |-> "soft_reload", w |-> w]) /\ workers' = workers
    BY <2>2, <2>3, <2>4, <1>3, <1>5 DEF ConfigOps
  <2>5. CASE queue' = queue /\ workers' = workers \cup {[w |-> w, cfg |-> 0]}
    <3>1. Parsed' = Parsed
      BY <2>5 DEF Parsed
    <3>2. PendingOf(queue)' = PendingOf(queue) /\ Distinct(queue)' = Distinct(queue)
      BY <2>5 DEF PendingOf, Elems, Distinct
    <3>3. \A k, l \in workers' : k.cfg = l.cfg /\ k.cfg # 0 => k = l
      BY <1>2, <2>5 DEF Owned
    <3> QED
      BY <1>2, <2>3, <3>1, <3>2, <3>3 DEF Owned
  <2> QED
    BY <2>1, <2>4, <2>5
<1>12. ASSUME NEW k \in workers, WorkerParses(k)
       PROVE  Owned'
  <2>1. PICK h \in Free : /\ heap' = [heap EXCEPT ![h] = file]
                         /\ workers' = (workers \ {k}) \cup {[k EXCEPT !.cfg = h]}
    BY <1>12 DEF WorkerParses
  <2>2. k \in [w : Windows, cfg : Configs \cup {0}] /\ k.cfg = 0
    BY <1>12 DEF WorkerParses, TypeOK
  <2>3. /\ h \in Configs /\ heap[h] = 0 /\ file # 0 /\ h # 0
        /\ heap \in [Configs -> Nat]
    BY CallbackAssumption DEF Free, TypeOK
  <2> DEFINE k2 == [k EXCEPT !.cfg = h]
  <2>4. k2.cfg = h
    BY <2>2
  <2> HIDE DEF k2
  <2>5. workers' = (workers \ {k}) \cup {k2}
    BY <2>1 DEF k2
  <2>6. Parsed' = Parsed \cup {h}
    BY <2>2, <2>3, <2>4, <2>5 DEF Parsed
  <2>7. {g \in Configs : heap'[g] # 0} = {g \in Configs : heap[g] # 0} \cup {h}
    BY <2>1, <2>3
  <2>8. h \notin {current} \cup PendingOf(queue) \cup Parsed \cup leaked
    BY <1>2, <2>3 DEF Owned
  <2>9. \A l \in workers : l.cfg # h
    BY <2>3, <2>8 DEF Parsed
  <2>10. queue' = queue /\ current' = current /\ leaked' = leaked
    BY <1>12 DEF WorkerParses
  <2>11. PendingOf(queue)' = PendingOf(queue) /\ Distinct(queue)' = Distinct(queue)
    BY <2>10 DEF PendingOf, Elems, Distinct
  <2>12. \A l, m \in workers' : l.cfg = m.cfg /\ l.cfg # 0 => l = m
    BY <1>2, <2>4, <2>5, <2>9 DEF Owned
  <2> QED
    BY <1>2, <2>6, <2>7, <2>8, <2>10, <2>11, <2>12 DEF Owned
<1>13. ASSUME NEW k \in workers, WorkerPosts(k)
       PROVE  Owned'
  <2> DEFINE x == [op |-> "hard_reload", w |-> k.w, cfg |-> k.cfg]
  <2>1. k.w \in Windows /\ k.cfg \in Configs /\ k.cfg # 0
    BY <1>13 DEF WorkerPosts, TypeOK
  <2>2. x \in Calls /\ x.op \in ConfigOps /\ x.cfg = k.cfg
    BY <2>1 DEF Calls, ConfigOps
  <2>3. queue' = Append(queue, x) /\ workers' = workers \ {k}
        /\ heap' = heap /\ current' = current /\ leaked' = leaked
    BY <1>13 DEF WorkerPosts, configVars
  <2> HIDE DEF x
  <2>4. k.cfg \in Parsed /\ k.cfg \notin PendingOf(queue)
    BY <1>2, <2>1 DEF Owned, Parsed
  <2>5. Distinct(queue') /\ PendingOf(queue') = PendingOf(queue) \cup {k.cfg}
    BY <1>2, <2>2, <2>3, <2>4, PendingAppend DEF Owned
  <2>6. Parsed' = Parsed \ {k.cfg}
    BY <1>2, <2>1, <2>3 DEF Owned, Parsed
  <2> QED
    BY <1>2, <2>3, <2>4, <2>5, <2>6 DEF Owned
<1>14. CASE RunSevered
  <2>1. /\ queue # <<>> /\ queue' = Tail(queue) /\ closure = queue[1] /\ closure.op \in GatedOps
        /\ workers' = workers /\ heap' = heap /\ current' = current
        /\ leaked' = IF closure.op = "replace_config" THEN leaked \cup {closure.cfg} ELSE leaked
    BY <1>14 DEF RunSevered, Is, threads, closure
  <2>2. closure.op # "hard_reload"
    BY <2>1, TagFacts DEF BareOps
  <2>3. CASE closure.op = "replace_config"
    <3>1. Distinct(queue)
      BY <1>2 DEF Owned
    <3>2. /\ Distinct(queue') /\ PendingOf(queue') = PendingOf(queue) \ {closure.cfg}
          /\ closure.cfg \in PendingOf(queue)
      BY <1>2, <2>1, <2>3, <3>1, PendingTail DEF ConfigOps
    <3>3. leaked' = leaked \cup {closure.cfg} /\ Parsed' = Parsed
      BY <2>1, <2>3 DEF Parsed
    <3> QED
      BY <1>2, <2>1, <3>2, <3>3 DEF Owned
  <2>4. CASE closure.op # "replace_config"
    BY <2>1, <2>2, <2>4, <1>3, <1>6 DEF ConfigOps
  <2> QED
    BY <2>3, <2>4
<1>15. CASE RunHandler \/ RunOpens \/ RunCloses \/ RunNewWindow \/ RunCloseWindow \/ RunClosePane
  <2> DEFINE ops == MovesNothing \cup {"new_tab", "new_split", "undo", "redo"}
                      \cup {"close_tab", "show_child_exited"}
                      \cup {"move_tab_to_new_window", "new_window"}
                      \cup {"close_window", "close_all_windows", "quit"} \cup {"close_pane"}
  <2>1. /\ Is(ops) /\ queue' = Tail(queue)
        /\ workers' = workers /\ heap' = heap /\ current' = current /\ leaked' = leaked
    BY <1>15 DEF RunHandler, RunOpens, RunCloses, RunNewWindow, RunCloseWindow, RunClosePane,
                 Is, threads, configVars
  <2>2. ops \cap ConfigOps = {}
    BY TagFacts DEF MovesNothing, ConfigOps, BareOps, GatedOps
  <2>3. queue # <<>> /\ queue[1].op \notin ConfigOps
    BY <2>1, <2>2 DEF Is
  <2> QED
    BY <2>1, <2>3, <1>3, <1>6
<1>16. CASE RunReplaceConfig
  <2>1. /\ queue # <<>> /\ queue' = Tail(queue) /\ closure = queue[1]
        /\ closure.op = "replace_config"
        /\ workers' = workers /\ leaked' = leaked /\ Replaced(heap, closure.cfg)
    BY <1>16 DEF RunReplaceConfig, Is, threads, closure
  <2>2. Distinct(queue)
    BY <1>2 DEF Owned
  <2>3. /\ Distinct(queue') /\ PendingOf(queue') = PendingOf(queue) \ {closure.cfg}
        /\ closure.cfg \in PendingOf(queue)
    BY <1>2, <2>1, <2>2, PendingTail DEF ConfigOps
  <2>4. closure.cfg # current
    BY <1>2, <2>3 DEF Owned
  <2>5. /\ current' = closure.cfg
        /\ {h \in Configs : heap'[h] # 0} = {h \in Configs : heap[h] # 0} \ {current}
    BY <2>1, <2>4 DEF Replaced, TypeOK
  <2>6. Parsed' = Parsed
    BY <2>1 DEF Parsed
  <2> QED
    BY <1>2, <2>1, <2>3, <2>4, <2>5, <2>6 DEF Owned
<1>17. ASSUME NEW ws \in Reports, NEW hs \in Handles(Len(ws)), queue # <<>>,
              queue' = Tail(queue) \o Reported(ws, hs)
       PROVE  /\ Distinct(queue')
              /\ PendingOf(queue') = PendingOf(Tail(queue)) \cup {hs[i] : i \in DOMAIN hs}
              /\ {hs[i] : i \in DOMAIN hs} \subseteq Free
  <2>1. Tail(queue) \in Seq(Calls) /\ Reported(ws, hs) \in Seq(Calls)
    BY <1>2, <1>17, TailElems, ReportedTypes
  <2>2. /\ Distinct(Reported(ws, hs))
        /\ PendingOf(Reported(ws, hs)) = {hs[i] : i \in DOMAIN hs}
        /\ PendingOf(Reported(ws, hs)) \subseteq Free
    BY ReportedConfigs
  <2>3. Distinct(queue)
    BY <1>2 DEF Owned
  <2>4. Distinct(Tail(queue)) /\ PendingOf(Tail(queue)) \subseteq PendingOf(queue)
    BY <1>2, <1>17, <2>3, PendingTail
  <2>5. PendingOf(queue) \cap Free = {}
    BY <1>2 DEF Owned, Free
  <2>6. PendingOf(Tail(queue)) \cap PendingOf(Reported(ws, hs)) = {}
    BY <2>2, <2>4, <2>5
  <2>7. /\ Distinct(Tail(queue) \o Reported(ws, hs))
        /\ PendingOf(Tail(queue) \o Reported(ws, hs)) =
             PendingOf(Tail(queue)) \cup PendingOf(Reported(ws, hs))
    BY <2>1, <2>2, <2>4, <2>6, PendingConcat
  <2> QED
    BY <1>17, <2>2, <2>7
<1>18. CASE RunSoftReload
  <2>1. PICK ws \in Reports : \E hs \in Handles(Len(ws)) :
          /\ queue' = Tail(queue) \o Reported(ws, hs)
          /\ heap' = Clones(hs, heap[current])
    BY <1>18 DEF RunSoftReload
  <2>2. PICK hs \in Handles(Len(ws)) :
          /\ queue' = Tail(queue) \o Reported(ws, hs)
          /\ heap' = Clones(hs, heap[current])
    BY <2>1
  <2>3. /\ queue # <<>> /\ queue[1].op = "soft_reload" /\ current' = current
        /\ workers' = workers /\ leaked' = leaked
    BY <1>18 DEF RunSoftReload, Is, threads
  <2> DEFINE new == {hs[i] : i \in DOMAIN hs}
  <2>4. Distinct(queue') /\ PendingOf(queue') = PendingOf(Tail(queue)) \cup new /\ new \subseteq Free
    BY <1>17, <2>2, <2>3
  <2>5. PendingOf(Tail(queue)) = PendingOf(queue)
    BY <1>2, <2>3, PendingTail DEF Owned, ConfigOps
  <2>6. heap[current] # 0
    BY <1>2 DEF Owned
  <2>7. {h \in Configs : heap'[h] # 0} = {h \in Configs : heap[h] # 0} \cup new
    BY <2>2, <2>4, <2>6 DEF Clones, Free
  <2>8. new \cap ({current} \cup PendingOf(queue) \cup Parsed \cup leaked) = {}
    BY <1>2, <2>4 DEF Owned, Free
  <2>9. Parsed' = Parsed
    BY <2>3 DEF Parsed
  <2> HIDE DEF new
  <2> QED
    BY <1>2, <2>3, <2>4, <2>5, <2>7, <2>8, <2>9 DEF Owned
<1>19. CASE RunHardReload
  <2>1. PICK ws \in Reports : \E hs \in Handles(Len(ws)) :
          /\ queue' = Tail(queue) \o Reported(ws, hs)
          /\ Replaced(Clones(hs, heap[closure.cfg]), closure.cfg)
    BY <1>19 DEF RunHardReload
  <2>2. PICK hs \in Handles(Len(ws)) :
          /\ queue' = Tail(queue) \o Reported(ws, hs)
          /\ Replaced(Clones(hs, heap[closure.cfg]), closure.cfg)
    BY <2>1
  <2>3. /\ queue # <<>> /\ closure = queue[1] /\ closure.op = "hard_reload"
        /\ workers' = workers /\ leaked' = leaked
    BY <1>19 DEF RunHardReload, Is, threads, closure
  <2> DEFINE new == {hs[i] : i \in DOMAIN hs}
  <2>4. Distinct(queue') /\ PendingOf(queue') = PendingOf(Tail(queue)) \cup new /\ new \subseteq Free
    BY <1>17, <2>2, <2>3
  <2>5. /\ PendingOf(Tail(queue)) = PendingOf(queue) \ {closure.cfg}
        /\ closure.cfg \in PendingOf(queue)
    BY <1>2, <2>3, PendingTail DEF Owned, ConfigOps
  <2>6. heap[closure.cfg] # 0 /\ closure.cfg \in Configs /\ closure.cfg # current
    BY <1>2, <2>5 DEF Owned
  <2>7. /\ current' = closure.cfg
        /\ heap' = [Clones(hs, heap[closure.cfg]) EXCEPT ![current] = 0]
    BY <2>2, <2>6 DEF Replaced
  <2>8. new \cap ({current} \cup PendingOf(queue) \cup Parsed \cup leaked) = {}
    BY <1>2, <2>4 DEF Owned, Free
  <2>9. {h \in Configs : heap'[h] # 0} = ({h \in Configs : heap[h] # 0} \ {current}) \cup new
    <3>1. \A h \in Configs : heap'[h] = IF h = current THEN 0
                                      ELSE IF h \in new THEN heap[closure.cfg] ELSE heap[h]
      BY <2>7 DEF Clones
    <3>2. new \subseteq Configs /\ current \notin new
      BY <2>4, <2>8 DEF Free
    <3> HIDE DEF new
    <3> QED
      BY <2>6, <3>1, <3>2
  <2>10. Parsed' = Parsed
    BY <2>3 DEF Parsed
  <2> HIDE DEF new
  <2> QED
    BY <1>2, <2>3, <2>4, <2>5, <2>6, <2>7, <2>8, <2>9, <2>10 DEF Owned
<1> QED
  BY <1>7, <1>8, <1>9, <1>10, <1>11, <1>12, <1>13, <1>14, <1>15, <1>16, <1>18, <1>19
     DEF Next, Callback, Run

-----------------------------------------------------------------------------
(* The last word of a reload. *)

Report(x) == x.op = "replace_config"

LastReport(q, i) ==
  /\ i \in 1 .. Len(q) /\ Report(q[i])
  /\ \A j \in i + 1 .. Len(q) : ~Report(q[j])

(* A report is for a window that is registered, or severed by now.         *)
Registered ==
  \A x \in Elems(queue) : Report(x) /\ alive[x.w] => x.w \in Elems(reg)

(* The last report on its way carries what libghostty runs, and without    *)
(* one App holds it, unless a report is lost or will be.                   *)
Settling ==
  \/ leaked # {}
  \/ \E x \in Elems(queue) : Report(x) /\ ~alive[x.w]
  \/ \E i \in 1 .. Len(queue) : LastReport(queue, i) /\ heap[queue[i].cfg] = lib
  \/ (\A x \in Elems(queue) : ~Report(x)) /\ heap[current] = lib

(* What is no report moves no report: appended, ...                        *)
LEMMA AppendReports ==
  ASSUME NEW q \in Seq(Calls), NEW x \in Calls, ~Report(x), NEW i, LastReport(q, i)
  PROVE  LastReport(Append(q, x), i) /\ Append(q, x)[i] = q[i]
<1>1. /\ Len(Append(q, x)) = Len(q) + 1 /\ Len(q) \in Nat
      /\ \A j \in 1 .. Len(q) : Append(q, x)[j] = q[j]
      /\ Append(q, x)[Len(q) + 1] = x
  BY AppendProperties, LenProperties
<1>2. i \in 1 .. Len(q) /\ Report(q[i]) /\ \A j \in i + 1 .. Len(q) : ~Report(q[j])
  BY DEF LastReport
<1>3. ASSUME NEW j \in i + 1 .. Len(q) + 1
      PROVE  ~Report(Append(q, x)[j])
  <2>1. CASE j = Len(q) + 1
    BY <2>1, <1>1
  <2>2. CASE j # Len(q) + 1
    <3>1. j \in i + 1 .. Len(q) /\ j \in 1 .. Len(q)
      BY <2>2, <1>1, <1>2
    <3> QED
      BY <3>1, <1>1, <1>2
  <2> QED
    BY <2>1, <2>2
<1> QED
  BY <1>1, <1>2, <1>3 DEF LastReport

(* ... or run from the head.                                               *)
LEMMA TailReports ==
  ASSUME NEW q \in Seq(Calls), q # <<>>, NEW i, LastReport(q, i)
  PROVE  i # 1 => LastReport(Tail(q), i - 1) /\ Tail(q)[i - 1] = q[i]
<1> SUFFICES ASSUME i # 1
             PROVE  LastReport(Tail(q), i - 1) /\ Tail(q)[i - 1] = q[i]
  OBVIOUS
<1>1. /\ Len(Tail(q)) = Len(q) - 1 /\ Len(q) \in Nat \ {0}
      /\ \A j \in 1 .. Len(Tail(q)) : Tail(q)[j] = q[j + 1]
  BY HeadTailProperties, EmptySeq
<1>2. i \in 1 .. Len(q) /\ Report(q[i]) /\ \A j \in i + 1 .. Len(q) : ~Report(q[j])
  BY DEF LastReport
<1>3. i - 1 \in 1 .. Len(Tail(q)) /\ (i - 1) + 1 = i
  BY <1>1, <1>2
<1>4. ASSUME NEW j \in (i - 1) + 1 .. Len(Tail(q))
      PROVE  ~Report(Tail(q)[j])
  <2>1. j \in 1 .. Len(Tail(q)) /\ j + 1 \in i + 1 .. Len(q)
    BY <1>1, <1>2
  <2> QED
    BY <2>1, <1>1, <1>2
<1>5. Tail(q)[i - 1] = q[i]
  BY <1>1, <1>3
<1> QED
  BY <1>2, <1>3, <1>4, <1>5 DEF LastReport

(* A window stays registered unless it is the one that is unregistered.    *)
LEMMA UnregisterKeeps ==
  ASSUME TypeOK, NEW w \in Windows, Unregister(w), NEW v \in Elems(reg), v # w
  PROVE  v \in Elems(reg')
<1> reg \in Seq(Windows) /\ DOMAIN reg = 1 .. Len(reg) /\ Len(reg) \in Nat
  BY LenProperties DEF TypeOK
<1>1. CASE reg' = reg
  BY <1>1 DEF Elems
<1>2. ASSUME NEW i \in DOMAIN reg, reg[i] = w, reg' = RemoveAt(reg, i)
      PROVE  v \in Elems(reg')
  <2>1. reg' = SubSeq(reg, 1, i - 1) \o SubSeq(reg, i + 1, Len(reg))
    BY <1>2 DEF RemoveAt
  <2>2. PICK k \in 1 .. Len(reg) : reg[k] = v
    BY DEF Elems
  <2>3. /\ SubSeq(reg, 1, i - 1) \in Seq(Windows) /\ Len(SubSeq(reg, 1, i - 1)) = i - 1
        /\ \A j \in 1 .. i - 1 : SubSeq(reg, 1, i - 1)[j] = reg[j]
    BY SubSeqProperties
  <2>4. /\ SubSeq(reg, i + 1, Len(reg)) \in Seq(Windows)
        /\ Len(SubSeq(reg, i + 1, Len(reg))) = Len(reg) - i
        /\ \A j \in 1 .. Len(reg) - i : SubSeq(reg, i + 1, Len(reg))[j] = reg[i + j]
    BY SubSeqProperties
  <2>5. Elems(reg') = Elems(SubSeq(reg, 1, i - 1)) \cup Elems(SubSeq(reg, i + 1, Len(reg)))
    BY <2>1, <2>3, <2>4, ConcatElems
  <2>6. CASE k < i
    <3>1. k \in 1 .. i - 1
      BY <2>6
    <3> QED
      BY <2>2, <2>3, <2>5, <3>1 DEF Elems
  <2>7. CASE k > i
    <3>1. k - i \in 1 .. Len(reg) - i /\ i + (k - i) = k
      BY <2>7
    <3> QED
      BY <2>2, <2>4, <2>5, <3>1 DEF Elems
  <2> QED
    BY <1>2, <2>2, <2>6, <2>7
<1> QED
  BY <1>1, <1>2 DEF Unregister

(* The reports of a reload go to registered windows, and there is none     *)
(* only if no window is.                                                   *)
LEMMA ReportsRegistered ==
  ASSUME TypeOK, NEW ws \in Reports
  PROVE  /\ ws \in Seq(Windows)
         /\ \A i \in 1 .. Len(ws) : ws[i] \in Elems(reg)
         /\ Len(ws) = 0 => reg = <<>>
<1> DEFINE S == {p \in DOMAIN panes : Holders(p) # {}}
<1>0. reg \in Seq(Windows) /\ DOMAIN reg = 1 .. Len(reg) /\ Len(reg) \in Nat
  BY LenProperties DEF TypeOK
<1>1. PICK ps \in SetToSeqs(S) :
        ws = [i \in DOMAIN ps |-> panes[ps[i]].home] \o
               (IF IsReady THEN <<AnyWindow>> ELSE <<>>)
  BY DEF Reports
<1>2. IsFiniteSet(S)
  <2>1. S \subseteq 1 .. nextId - 1 /\ nextId - 1 \in Nat
    BY CallbackAssumption DEF TypeOK
  <2>2. IsFiniteSet(1 .. nextId - 1)
    BY <2>1, FS_Interval
  <2> QED
    BY <2>1, <2>2, FS_Subset
<1>3. Cardinality(S) \in Nat
  BY <1>2, FS_CardinalityType
<1>4. ps \in [1 .. Cardinality(S) -> S]
  BY <1>1 DEF SetToSeqs
<1> DEFINE hs == [i \in DOMAIN ps |-> panes[ps[i]].home]
           any == IF IsReady THEN <<AnyWindow>> ELSE <<>>
<1>5. \A p \in S : panes[p].home \in Elems(reg)
  BY <1>0 DEF Holders, Owns, ToSet, Elems
<1>6. hs \in [1 .. Cardinality(S) -> Elems(reg)]
  BY <1>4, <1>5
<1>7. hs \in Seq(Elems(reg))
  <2> HIDE DEF hs
  <2> DEFINE R == Elems(reg)
  <2>1. hs \in [1 .. Cardinality(S) -> R]
    BY <1>6
  <2>2. \A n \in Nat : \A f \in [1 .. n -> R] : f \in Seq(R)
    BY SeqDef
  <2> QED
    BY <1>3, <2>1, <2>2, Zenon
<1>8. reg # <<>> => reg[1] \in Elems(reg)
  BY <1>0, EmptySeq DEF Elems
<1>9. any \in Seq(Elems(reg)) /\ (reg # <<>> => Len(any) = 1)
  BY <1>8 DEF IsReady, AnyWindow
<1> HIDE DEF hs, any
<1>10. ws \in Seq(Elems(reg)) /\ Len(ws) = Len(hs) + Len(any) /\ Len(hs) \in Nat /\ Len(any) \in Nat
  <2>1. ws = hs \o any
    BY <1>1 DEF hs, any
  <2>2. hs \in Seq(Elems(reg)) /\ any \in Seq(Elems(reg))
    BY <1>7, <1>9
  <2>3. Len(hs) \in Nat /\ Len(any) \in Nat
    BY <2>2, LenProperties
  <2>4. hs \o any \in Seq(Elems(reg)) /\ Len(hs \o any) = Len(hs) + Len(any)
    BY <2>2, ConcatProperties
  <2> QED
    BY <2>1, <2>3, <2>4
<1>11. \A i \in 1 .. Len(ws) : ws[i] \in Elems(reg)
  BY <1>10, ElementOfSeq
<1>12. ASSUME reg # <<>>
       PROVE  Len(ws) # 0
  <2>1. Len(any) = 1
    BY <1>9, <1>12, Zenon
  <2> QED
    BY <1>10, <2>1
<1> QED
  BY <1>11, <1>12, ReportTypes

(* Every step keeps the reports' windows registered or severed.            *)
LEMMA RegisteredStep == TypeOK /\ Registered /\ [Next]_vars => Registered'
<1> SUFFICES ASSUME TypeOK, Registered, [Next]_vars
             PROVE  Registered'
  OBVIOUS
<1> queue \in Seq(Calls) /\ reg \in Seq(Windows)
  BY DEF TypeOK
<1>1. ASSUME \A x \in Elems(queue') : Report(x) => x \in Elems(queue),
             UNCHANGED <<alive, reg>>
      PROVE  Registered'
  BY <1>1 DEF Registered
<1>2. ASSUME UNCHANGED <<queue, alive, reg>>
      PROVE  Registered'
  BY <1>2 DEF Registered
<1>3. ASSUME NEW x \in Calls, ~Report(x), queue' = Append(queue, x), UNCHANGED <<alive, reg>>
      PROVE  Registered'
  <2>1. Elems(queue') = Elems(queue) \cup {x}
    BY <1>3, AppendElems
  <2> QED
    BY <1>1, <1>3, <2>1
<1>4. ASSUME queue # <<>>, queue' = Tail(queue), UNCHANGED <<alive, reg>>
      PROVE  Registered'
  <2>1. Elems(queue') \subseteq Elems(queue)
    BY <1>4, TailElems
  <2> QED
    BY <1>1, <1>4, <2>1
<1>5. ASSUME NEW ws \in Reports, NEW hs \in Handles(Len(ws)), queue # <<>>,
             queue' = Tail(queue) \o Reported(ws, hs), UNCHANGED <<alive, reg>>
      PROVE  Registered'
  <2>1. /\ Tail(queue) \in Seq(Calls) /\ Reported(ws, hs) \in Seq(Calls)
        /\ Elems(Tail(queue)) \subseteq Elems(queue)
    BY <1>5, TailElems, ReportedTypes
  <2>2. Elems(queue') = Elems(Tail(queue)) \cup Elems(Reported(ws, hs))
    BY <1>5, <2>1, ConcatElems
  <2>3. Len(Reported(ws, hs)) = Len(ws) /\ DOMAIN ws = 1 .. Len(ws)
    BY ReportedTypes, ReportsRegistered, LenProperties
  <2>4. \A x \in Elems(Reported(ws, hs)) : x.w \in Elems(reg)
    <3>1. \A i \in 1 .. Len(ws) : Reported(ws, hs)[i].w = ws[i]
      BY <2>3 DEF Reported
    <3>2. \A i \in 1 .. Len(ws) : ws[i] \in Elems(reg)
      BY ReportsRegistered
    <3>3. \A x \in Elems(Reported(ws, hs)) : \E i \in 1 .. Len(ws) : x = Reported(ws, hs)[i]
      BY <2>3 DEF Elems
    <3> QED
      BY <3>1, <3>2, <3>3, Zenon
  <2> QED
    BY <1>5, <2>1, <2>2, <2>4 DEF Registered
<1>6. ASSUME NEW w \in Windows, Activated(w)
      PROVE  Registered'
  <2>1. reg' = Append(reg, w) /\ alive' = alive /\ queue' = queue
    BY <1>6 DEF Activated
  <2>2. Elems(reg') = Elems(reg) \cup {w}
    BY <1>6, <2>1, AppendElems
  <2> QED
    BY <2>1, <2>2 DEF Registered
<1>7. ASSUME NEW w \in Windows, Destroy(w)
      PROVE  Registered'
  <2>1. alive' = [alive EXCEPT ![w] = FALSE] /\ queue' = queue /\ Unregister(w)
    BY <1>7 DEF Destroy
  <2> SUFFICES ASSUME NEW x \in Elems(queue), Report(x), alive'[x.w]
               PROVE  x.w \in Elems(reg')
    BY <2>1 DEF Registered
  <2>2. x \in Calls
    BY ElementOfSeq DEF Elems
  <2>3. x.w \in Windows /\ x.w # w /\ alive[x.w]
    BY <2>1, <2>2, CallTypes DEF TypeOK
  <2>4. x.w \in Elems(reg)
    BY <2>3 DEF Registered
  <2> QED
    BY <2>1, <2>3, <2>4, UnregisterKeeps
<1>8. ASSUME \/ \E w \in Windows : \/ UserOpensPane(w) \/ UserClosesWindow(w)
                                  \/ Asks(w) \/ Answers(w)
             \/ \E p \in DOMAIN panes :
                  UserClosesPane(p) \/ Undo(p) \/ Expire(p) \/ UserMovesPane(p)
             \/ EditFile
      PROVE  Registered'
  BY <1>2, <1>8 DEF UserOpensPane, UserClosesWindow, Asks, Answers, UserClosesPane, Undo, Expire,
                    UserMovesPane, EditFile, windowVars
<1>9. ASSUME \/ \E p \in DOMAIN panes : OnWakeup(p) \/ PostWakeup(p)
             \/ \E k \in workers : WorkerParses(k)
      PROVE  Registered'
  BY <1>2, <1>9 DEF OnWakeup, PostWakeup, WorkerParses, windowVars
<1>10. ASSUME NEW p \in DOMAIN panes, OnCloseSurface(p)
       PROVE  Registered'
  <2>1. CloseCall(p) \in Calls /\ ~Report(CloseCall(p))
    BY PaneIds DEF CloseCall, Calls, TypeOK, Report
  <2>2. UNCHANGED <<alive, reg>> /\ (queue' = queue \/ queue' = Append(queue, CloseCall(p)))
    BY <1>10 DEF OnCloseSurface, windowVars
  <2> QED
    BY <1>2, <1>3, <2>1, <2>2
<1>11. ASSUME NEW t \in Targets, NEW tag \in Tags, OnAction(t, tag)
       PROVE  Registered'
  <2>1. PICK w \in Routed(t) : \E call \in Posted(tag, w, t) : queue' = Append(queue, call)
    BY <1>11 DEF OnAction
  <2>2. PICK call \in Posted(tag, w, t) : queue' = Append(queue, call)
    BY <2>1
  <2>3. call \in Calls /\ ~Report(call)
    BY RoutedTypes, PostedTypes, TagFacts DEF Report
  <2>4. UNCHANGED <<alive, reg>>
    BY <1>11 DEF OnAction, windowVars
  <2> QED
    BY <1>3, <2>2, <2>3, <2>4
<1>12. ASSUME NEW t \in Targets, NEW soft \in BOOLEAN, ReloadConfig(t, soft)
       PROVE  Registered'
  <2>1. PICK w \in Routed(t) :
          queue' = queue \/ queue' = Append(queue, [op |-> "soft_reload", w |-> w])
    BY <1>12, Zenon DEF ReloadConfig
  <2>2. [op |-> "soft_reload", w |-> w] \in Calls
    BY RoutedTypes DEF Calls
  <2>3. UNCHANGED <<alive, reg>>
    BY <1>12 DEF ReloadConfig, windowVars
  <2> QED
    BY <1>2, <1>3, <2>1, <2>2, <2>3 DEF Report
<1>13. ASSUME NEW k \in workers, WorkerPosts(k)
       PROVE  Registered'
  <2> DEFINE x == [op |-> "hard_reload", w |-> k.w, cfg |-> k.cfg]
  <2>1. x \in Calls /\ ~Report(x)
    BY <1>13 DEF WorkerPosts, TypeOK, Calls, Report
  <2>2. UNCHANGED <<alive, reg>> /\ (queue' = queue \/ queue' = Append(queue, x))
    BY <1>13 DEF WorkerPosts, windowVars
  <2> HIDE DEF x
  <2> QED
    BY <1>2, <1>3, <2>1, <2>2
<1>14. ASSUME \/ RunSevered \/ RunHandler \/ RunOpens \/ RunCloses \/ RunNewWindow
              \/ RunCloseWindow \/ RunClosePane \/ RunReplaceConfig
       PROVE  Registered'
  <2>1. queue # <<>> /\ queue' = Tail(queue) /\ UNCHANGED <<alive, reg>>
    BY <1>14 DEF RunSevered, RunHandler, RunOpens, RunCloses, RunNewWindow, RunCloseWindow,
                 RunClosePane, RunReplaceConfig, Is, windowVars
  <2> QED
    BY <1>4, <2>1
<1>15. ASSUME RunSoftReload \/ RunHardReload
       PROVE  Registered'
  <2>1. PICK ws \in Reports : \E hs \in Handles(Len(ws)) :
          queue' = Tail(queue) \o Reported(ws, hs)
    BY <1>15 DEF RunSoftReload, RunHardReload
  <2>2. queue # <<>> /\ UNCHANGED <<alive, reg>>
    BY <1>15 DEF RunSoftReload, RunHardReload, Is, windowVars
  <2> QED
    BY <1>5, <2>1, <2>2
<1>16. CASE UNCHANGED vars
  BY <1>2, <1>16 DEF vars, windowVars
<1> QED
  BY <1>6, <1>7, <1>8, <1>9, <1>10, <1>11, <1>12, <1>13, <1>14, <1>15, <1>16
     DEF Next, User, Callback, Run


(* What joining two queues of calls gives: its type, its calls, its length and
   which call stands where. *)
LEMMA JoinedCalls ==
  ASSUME NEW a \in Seq(Calls), NEW b \in Seq(Calls)
  PROVE  /\ a \o b \in Seq(Calls)
         /\ Elems(a \o b) = Elems(a) \cup Elems(b)
         /\ Len(a \o b) = Len(a) + Len(b) /\ Len(a) \in Nat
         /\ \A i \in 1 .. Len(a) + Len(b) :
               (a \o b)[i] = IF i <= Len(a) THEN a[i] ELSE b[i - Len(a)]
<1>1. a \o b \in Seq(Calls) /\ Len(a \o b) = Len(a) + Len(b)
  BY ConcatProperties
<1>2. \A i \in 1 .. Len(a) + Len(b) :
         (a \o b)[i] = IF i <= Len(a) THEN a[i] ELSE b[i - Len(a)]
  BY ConcatProperties
<1>3. Elems(a \o b) = Elems(a) \cup Elems(b)
  BY ConcatElems
<1>4. Len(a) \in Nat
  BY LenProperties
<1> QED
  BY <1>1, <1>2, <1>3, <1>4

(* Every step keeps the last word of a reload with libghostty's config.    *)
LEMMA SettlingStep ==
  TypeOK /\ Owned /\ Registered /\ Settling /\ [Next]_vars => Settling'
<1> SUFFICES ASSUME TypeOK, Owned, Registered, Settling, [Next]_vars
             PROVE  Settling'
  OBVIOUS
<1> queue \in Seq(Calls) /\ Len(queue) \in Nat
  BY LenProperties DEF TypeOK
<1>1. ASSUME UNCHANGED <<queue, heap, current, lib, leaked>>,
             \A w \in Windows : alive'[w] => alive[w]
      PROVE  Settling'
  <2>1. \A x \in Elems(queue) : x.w \in Windows
    BY ElementOfSeq, CallTypes DEF Elems
  <2> QED
    BY <1>1, <2>1 DEF Settling
<1> SUFFICES ASSUME Next
             PROVE  Settling'
  BY <1>1 DEF vars, configVars, windowVars
<1>2. stale = {}
  BY DEF Next
<1>3. ASSUME NEW x \in Calls, ~Report(x), queue' = Append(queue, x),
             UNCHANGED <<heap, current, lib, leaked, alive>>
      PROVE  Settling'
  <2>1. Elems(queue') = Elems(queue) \cup {x}
    BY <1>3, AppendElems
  <2>2. ASSUME NEW i \in 1 .. Len(queue), LastReport(queue, i), heap[queue[i].cfg] = lib
        PROVE  Settling'
    <3>1. LastReport(queue', i) /\ queue'[i] = queue[i]
      BY <1>3, <2>2, AppendReports
    <3> QED
      BY <1>3, <2>2, <3>1 DEF Settling, LastReport
  <2> QED
    BY <1>3, <2>1, <2>2 DEF Settling
<1>4. ASSUME queue # <<>>, queue' = Tail(queue), ~Report(queue[1]),
             UNCHANGED <<heap, current, lib, alive>>, leaked \subseteq leaked'
      PROVE  Settling'
  <2>1. Elems(queue) = {queue[1]} \cup Elems(queue')
    BY <1>4, TailElems
  <2>2. ASSUME NEW i \in 1 .. Len(queue), LastReport(queue, i), heap[queue[i].cfg] = lib
        PROVE  Settling'
    <3>1. i # 1
      BY <1>4, <2>2 DEF LastReport
    <3>2. LastReport(queue', i - 1) /\ queue'[i - 1] = queue[i]
      BY <1>4, <2>2, <3>1, TailReports
    <3> QED
      BY <1>4, <2>2, <3>2 DEF Settling, LastReport
  <2> QED
    BY <1>4, <2>1, <2>2 DEF Settling
<1>5. /\ heap[current] # 0 /\ current \in Configs
      /\ \A i \in 1 .. Len(queue) : Report(queue[i]) =>
           queue[i].cfg \in Configs /\ heap[queue[i].cfg] # 0 /\ queue[i].cfg # current
  <2>1. \A i \in 1 .. Len(queue) : Report(queue[i]) => queue[i].cfg \in PendingOf(queue)
    BY DEF Report, PendingOf, Elems, ConfigOps
  <2> QED
    BY <1>2, <2>1 DEF Owned
<1>6. ASSUME NEW w \in Windows,
             \/ Activated(w) \/ UserOpensPane(w) \/ UserClosesWindow(w)
             \/ Asks(w) \/ Answers(w)
      PROVE  Settling'
  BY <1>1, <1>6 DEF Activated, UserOpensPane, UserClosesWindow, Asks, Answers, configVars, windowVars
<1>7. ASSUME NEW w \in Windows, Destroy(w)
      PROVE  Settling'
  BY <1>1, <1>7 DEF Destroy, configVars, TypeOK
<1>8. ASSUME \/ \E p \in DOMAIN panes :
                  UserClosesPane(p) \/ Undo(p) \/ Expire(p) \/ UserMovesPane(p)
             \/ EditFile
      PROVE  Settling'
  BY <1>1, <1>8 DEF UserClosesPane, Undo, Expire, UserMovesPane, EditFile, configVars, windowVars
<1>9. ASSUME NEW p \in DOMAIN panes, OnWakeup(p) \/ PostWakeup(p)
      PROVE  Settling'
  BY <1>1, <1>9 DEF OnWakeup, PostWakeup, configVars, windowVars
<1>10. ASSUME NEW p \in DOMAIN panes, OnCloseSurface(p)
       PROVE  Settling'
  <2>1. CloseCall(p) \in Calls /\ ~Report(CloseCall(p))
    BY PaneIds DEF CloseCall, Calls, TypeOK, Report
  <2>2. /\ UNCHANGED <<heap, current, lib, leaked, alive>>
        /\ queue' = queue \/ queue' = Append(queue, CloseCall(p))
    BY <1>10 DEF OnCloseSurface, windowVars, configVars
  <2> QED
    BY <1>1, <1>3, <2>1, <2>2
<1>11. ASSUME NEW t \in Targets, NEW tag \in Tags, OnAction(t, tag)
       PROVE  Settling'
  <2>1. PICK w \in Routed(t) : \E call \in Posted(tag, w, t) : queue' = Append(queue, call)
    BY <1>11 DEF OnAction
  <2>2. PICK call \in Posted(tag, w, t) : queue' = Append(queue, call)
    BY <2>1
  <2>3. call \in Calls /\ ~Report(call)
    BY RoutedTypes, PostedTypes, TagFacts DEF Report
  <2>4. UNCHANGED <<heap, current, lib, leaked, alive>>
    BY <1>11 DEF OnAction, windowVars, configVars
  <2> QED
    BY <1>3, <2>2, <2>3, <2>4
<1>12. ASSUME NEW t \in Targets, NEW soft \in BOOLEAN, ReloadConfig(t, soft)
       PROVE  Settling'
  <2>1. PICK w \in Routed(t) :
          queue' = queue \/ queue' = Append(queue, [op |-> "soft_reload", w |-> w])
    BY <1>12, Zenon DEF ReloadConfig
  <2>2. [op |-> "soft_reload", w |-> w] \in Calls
    BY RoutedTypes DEF Calls
  <2>3. UNCHANGED <<heap, current, lib, leaked, alive>>
    BY <1>12 DEF ReloadConfig, windowVars
  <2> QED
    BY <1>1, <1>3, <2>1, <2>2, <2>3 DEF Report
<1>13. ASSUME NEW k \in workers, WorkerParses(k)
       PROVE  Settling'
  <2>1. PICK h \in Free : heap' = [heap EXCEPT ![h] = file]
    BY <1>13 DEF WorkerParses
  <2>2. UNCHANGED <<queue, current, lib, leaked, alive>>
    BY <1>13 DEF WorkerParses, windowVars
  <2>3. \A c \in Configs : heap[c] # 0 => heap'[c] = heap[c]
    BY <2>1 DEF Free, TypeOK
  <2> QED
    BY <1>5, <2>2, <2>3 DEF Settling, LastReport
<1>14. ASSUME NEW k \in workers, WorkerPosts(k)
       PROVE  Settling'
  <2> DEFINE x == [op |-> "hard_reload", w |-> k.w, cfg |-> k.cfg]
  <2>1. x \in Calls /\ ~Report(x)
    BY <1>14 DEF WorkerPosts, TypeOK, Calls, Report
  <2>2. /\ UNCHANGED <<heap, current, lib, leaked, alive>>
        /\ queue' = queue \/ queue' = Append(queue, x)
    BY <1>14 DEF WorkerPosts, windowVars, configVars
  <2> HIDE DEF x
  <2> QED
    BY <1>1, <1>3, <2>1, <2>2
<1>15. ASSUME RunSevered
       PROVE  Settling'
  <2>1. /\ queue # <<>> /\ queue' = Tail(queue) /\ closure = queue[1]
        /\ UNCHANGED <<heap, current, lib, alive>>
        /\ leaked' = IF closure.op = "replace_config" THEN leaked \cup {closure.cfg} ELSE leaked
    BY <1>15 DEF RunSevered, Is, closure, windowVars
  <2>2. CASE Report(closure)
    BY <2>1, <2>2 DEF Settling, Report
  <2>3. CASE ~Report(closure)
    BY <1>4, <2>1, <2>3 DEF Report
  <2> QED
    BY <2>2, <2>3
<1>16. ASSUME \/ RunHandler \/ RunOpens \/ RunCloses \/ RunNewWindow
              \/ RunCloseWindow \/ RunClosePane
       PROVE  Settling'
  <2> DEFINE ops == MovesNothing \cup {"new_tab", "new_split", "undo", "redo"}
                      \cup {"close_tab", "show_child_exited"}
                      \cup {"move_tab_to_new_window", "new_window"}
                      \cup {"close_window", "close_all_windows", "quit"} \cup {"close_pane"}
  <2>1. /\ Is(ops) /\ queue' = Tail(queue)
        /\ UNCHANGED <<heap, current, lib, leaked, alive>>
    BY <1>16 DEF RunHandler, RunOpens, RunCloses, RunNewWindow, RunCloseWindow, RunClosePane,
                 Is, windowVars, configVars
  <2>2. "replace_config" \notin ops
    BY TagFacts DEF MovesNothing
  <2> HIDE DEF ops
  <2>3. queue # <<>> /\ ~Report(queue[1])
    BY <2>1, <2>2 DEF Is, Report
  <2> QED
    BY <1>4, <2>1, <2>3
<1>17. ASSUME RunReplaceConfig
       PROVE  Settling'
  <2>1. /\ queue # <<>> /\ queue' = Tail(queue) /\ closure = queue[1] /\ Report(queue[1])
        /\ alive[queue[1].w]
        /\ UNCHANGED <<lib, leaked, alive>> /\ Replaced(heap, queue[1].cfg)
    BY <1>17 DEF RunReplaceConfig, Is, closure, windowVars, Open, Report
  <2>2. 1 \in 1 .. Len(queue) /\ Elems(queue) = {queue[1]} \cup Elems(queue')
    BY <2>1, TailElems, EmptySeq
  <2>3. /\ current' = queue[1].cfg /\ heap'[current'] = heap[queue[1].cfg]
        /\ \A c \in Configs : c # current => heap'[c] = heap[c]
    BY <1>5, <2>1, <2>2 DEF Replaced, TypeOK
  <2>4. CASE \E x \in Elems(queue) : Report(x) /\ ~alive[x.w]
    BY <2>1, <2>2, <2>4 DEF Settling
  <2>5. ASSUME NEW i \in 1 .. Len(queue), LastReport(queue, i), heap[queue[i].cfg] = lib
        PROVE  Settling'
    <3>1. CASE i = 1
      <4>1. \A x \in Elems(queue') : ~Report(x)
        <5> SUFFICES ASSUME NEW j \in 1 .. Len(queue')
                     PROVE  ~Report(queue'[j])
          BY DEF Elems
        <5>1. j + 1 \in 2 .. Len(queue) /\ queue'[j] = queue[j + 1]
          BY <2>1, HeadTailProperties
        <5> QED
          BY <2>5, <3>1, <5>1 DEF LastReport
      <4> QED
        BY <2>1, <2>3, <2>5, <3>1, <4>1 DEF Settling
    <3>2. CASE i # 1
      <4>1. LastReport(queue', i - 1) /\ queue'[i - 1] = queue[i]
        BY <2>1, <2>5, <3>2, TailReports
      <4>2. heap'[queue[i].cfg] = heap[queue[i].cfg]
        BY <1>5, <2>3, <2>5 DEF LastReport
      <4> QED
        BY <2>1, <2>5, <4>1, <4>2 DEF Settling, LastReport
    <3> QED
      BY <3>1, <3>2
  <2> QED
    BY <2>1, <2>2, <2>4, <2>5 DEF Settling
<1>18. ASSUME NEW ws \in Reports, NEW hs \in Handles(Len(ws)), queue # <<>>,
              queue' = Tail(queue) \o Reported(ws, hs), UNCHANGED <<leaked, alive>>,
              \A i \in 1 .. Len(ws) : heap'[hs[i]] = lib',
              Len(ws) = 0 => heap'[current'] = lib', ~Report(queue[1])
       PROVE  Settling'
  <2>1. /\ Tail(queue) \in Seq(Calls) /\ Reported(ws, hs) \in Seq(Calls)
        /\ Elems(queue) = {queue[1]} \cup Elems(Tail(queue))
    BY <1>18, TailElems, ReportedTypes
  <2>2. /\ Elems(Tail(queue) \o Reported(ws, hs)) = Elems(Tail(queue)) \cup Elems(Reported(ws, hs))
        /\ Tail(queue) \o Reported(ws, hs) \in Seq(Calls)
    BY <2>1, JoinedCalls, Zenon
  <2>3. /\ Len(Reported(ws, hs)) = Len(ws) /\ Len(ws) \in Nat
        /\ \A i \in 1 .. Len(ws) : /\ Reported(ws, hs)[i].op = "replace_config"
                                   /\ Reported(ws, hs)[i].cfg = hs[i]
    BY ReportedTypes
  <2>4. CASE Len(ws) = 0
    <3>1. reg = <<>> /\ Elems(<<>>) = {}
      BY <2>4, ReportsRegistered, EmptySeq DEF Elems
    <3>2. \A x \in Elems(queue) : Report(x) => ~alive[x.w]
      BY <3>1 DEF Registered
    <3>3. Elems(Reported(ws, hs)) = {}
      <4>1. 1 .. Len(Reported(ws, hs)) = {}
        BY <2>3, <2>4
      <4> QED
        BY <4>1 DEF Elems
    <3>4. Elems(queue') = Elems(Tail(queue))
      BY <1>18, <2>2, <3>3
    <3> QED
      BY <1>18, <2>1, <2>4, <3>2, <3>4 DEF Settling
  <2>5. CASE Len(ws) # 0
    <3> DEFINE n == Len(queue')
    <3>1. /\ n = Len(Tail(queue)) + Len(ws) /\ Len(Tail(queue)) \in Nat
          /\ \A i \in 1 .. n : queue'[i] = IF i <= Len(Tail(queue)) THEN Tail(queue)[i]
                                           ELSE Reported(ws, hs)[i - Len(Tail(queue))]
      <4>1. /\ Len(Tail(queue) \o Reported(ws, hs)) = Len(Tail(queue)) + Len(Reported(ws, hs))
            /\ Len(Tail(queue)) \in Nat
            /\ \A i \in 1 .. Len(Tail(queue)) + Len(Reported(ws, hs)) :
                  (Tail(queue) \o Reported(ws, hs))[i] =
                     IF i <= Len(Tail(queue)) THEN Tail(queue)[i]
                     ELSE Reported(ws, hs)[i - Len(Tail(queue))]
        BY <2>1, JoinedCalls, Zenon
      <4> QED
        BY <1>18, <2>3, <4>1
    <3>2. n \in 1 .. n /\ queue'[n] = Reported(ws, hs)[Len(ws)] /\ Len(ws) \in 1 .. Len(ws)
      <4>1. n \in 1 .. n /\ ~(n <= Len(Tail(queue))) /\ n - Len(Tail(queue)) = Len(ws)
        BY <2>3, <2>5, <3>1
      <4> QED
        BY <2>3, <2>5, <3>1, <4>1
    <3>3. queue'[n].op = "replace_config" /\ queue'[n].cfg = hs[Len(ws)]
      BY <2>3, <3>2
    <3>4. LastReport(queue', n)
      BY <3>2, <3>3 DEF LastReport, Report
    <3> QED
      BY <1>18, <3>2, <3>3, <3>4 DEF Settling
  <2> QED
    BY <2>4, <2>5
<1>19. ASSUME NEW ws \in Reports, NEW hs \in Handles(Len(ws))
       PROVE  /\ hs \in [1 .. Len(ws) -> Free]
              /\ \A v : \A i \in 1 .. Len(ws) : Clones(hs, v)[hs[i]] = v
              /\ \A v : Len(ws) = 0 => \A c \in Configs : Clones(hs, v)[c] = heap[c]
  <2>1. hs \in [1 .. Len(ws) -> Free] /\ Len(ws) \in Nat
    BY ReportedTypes
  <2>2. \A i \in 1 .. Len(ws) : hs[i] \in Configs
    BY <2>1 DEF Free
  <2> QED
    BY <2>1, <2>2 DEF Clones
<1>20. ASSUME RunSoftReload
       PROVE  Settling'
  <2>1. PICK ws \in Reports : \E hs \in Handles(Len(ws)) :
          /\ queue' = Tail(queue) \o Reported(ws, hs)
          /\ heap' = Clones(hs, heap[current])
    BY <1>20 DEF RunSoftReload
  <2>2. PICK hs \in Handles(Len(ws)) :
          /\ queue' = Tail(queue) \o Reported(ws, hs)
          /\ heap' = Clones(hs, heap[current])
    BY <2>1
  <2>3. /\ queue # <<>> /\ ~Report(queue[1]) /\ current' = current /\ lib' = heap[current]
        /\ UNCHANGED <<leaked, alive>>
    BY <1>20 DEF RunSoftReload, Is, windowVars, Report
  <2>4. /\ \A i \in 1 .. Len(ws) : heap'[hs[i]] = lib'
        /\ Len(ws) = 0 => heap'[current'] = lib'
    BY <1>5, <1>19, <2>2, <2>3
  <2> QED
    BY <1>18, <2>2, <2>3, <2>4
<1>21. ASSUME RunHardReload
       PROVE  Settling'
  <2>1. PICK ws \in Reports : \E hs \in Handles(Len(ws)) :
          /\ queue' = Tail(queue) \o Reported(ws, hs)
          /\ Replaced(Clones(hs, heap[closure.cfg]), closure.cfg)
    BY <1>21 DEF RunHardReload
  <2>2. PICK hs \in Handles(Len(ws)) :
          /\ queue' = Tail(queue) \o Reported(ws, hs)
          /\ Replaced(Clones(hs, heap[closure.cfg]), closure.cfg)
    BY <2>1
  <2>3. /\ queue # <<>> /\ closure = queue[1] /\ queue[1].op = "hard_reload" /\ ~Report(queue[1])
        /\ lib' = heap[closure.cfg] /\ UNCHANGED <<leaked, alive>>
    BY <1>21 DEF RunHardReload, Is, windowVars, Report, closure
  <2>4. closure.cfg \in PendingOf(queue)
    <3>1. closure \in Elems(queue)
      BY <2>3, TailElems
    <3> QED
      BY <2>3, <3>1 DEF PendingOf, ConfigOps
  <2>5. closure.cfg \in Configs /\ closure.cfg # current
    BY <1>2, <2>4 DEF Owned
  <2>6. current' = closure.cfg /\ heap' = [Clones(hs, heap[closure.cfg]) EXCEPT ![current] = 0]
    BY <2>2, <2>5 DEF Replaced
  <2>7. \A i \in 1 .. Len(ws) : heap'[hs[i]] = lib'
    <3> SUFFICES ASSUME NEW i \in 1 .. Len(ws)
                 PROVE  heap'[hs[i]] = lib'
      OBVIOUS
    <3>1. hs[i] \in Free /\ hs[i] # current
      BY <1>5, <1>19 DEF Free
    <3>2. Clones(hs, heap[closure.cfg])[hs[i]] = heap[closure.cfg]
      BY <1>19
    <3> QED
      BY <2>3, <2>6, <3>1, <3>2 DEF Clones, Free
  <2>8. Len(ws) = 0 => heap'[current'] = lib'
    <3> SUFFICES ASSUME Len(ws) = 0
                 PROVE  heap'[current'] = lib'
      OBVIOUS
    <3>1. Clones(hs, heap[closure.cfg])[closure.cfg] = heap[closure.cfg]
      BY <1>19, <2>5
    <3> QED
      BY <2>3, <2>5, <2>6, <3>1 DEF Clones
  <2> QED
    BY <1>18, <2>2, <2>3, <2>7, <2>8
<1> QED
  BY <1>6, <1>7, <1>8, <1>9, <1>10, <1>11, <1>12, <1>13, <1>14, <1>15, <1>16, <1>17, <1>20, <1>21
     DEF Next, User, Callback, Run

-----------------------------------------------------------------------------
IInv == TypeOK /\ Gate /\ ExitInv /\ Owned /\ Registered /\ Settling

LEMMA InitInv == Init => IInv
<1> SUFFICES ASSUME Init
             PROVE  IInv
  OBVIOUS
<1>1. queue = <<>> /\ reg = <<>> /\ Elems(<<>>) = {}
  BY DEF Init, Elems
<1>2. TypeOK
  BY CallbackAssumption DEF Init, TypeOK
<1>3. Gate
  BY DEF Init, Gate
<1>4. ExitInv
  BY <1>1 DEF Init, ExitInv, CloseCalls
<1>5. Owned
  <2>1. {h \in Configs : heap[h] # 0} = {1}
    BY CallbackAssumption DEF Init
  <2>2. Len(<<>>) = 0
    BY LenProperties, EmptySeq
  <2> QED
    BY <1>1, <2>1, <2>2 DEF Init, Owned, PendingOf, Distinct, Parsed
<1>6. Registered
  BY <1>1 DEF Registered
<1>7. Settling
  BY <1>1, CallbackAssumption DEF Init, Settling
<1> QED
  BY <1>2, <1>3, <1>4, <1>5, <1>6, <1>7 DEF IInv

(* The inductive invariant of the routing holds in every reachable state.  *)
THEOREM Invariance == Spec => []IInv
<1>1. IInv /\ [Next]_vars => IInv'
  BY TypeStep, GateStep, ExitStep, OwnedStep, RegisteredStep, SettlingStep DEF IInv
<1> QED
  BY <1>1, InitInv, PTL DEF Spec

(* Every variable keeps its type: each closure captures what its handler   *)
(* reads, and no PaneId is given twice.                                    *)
THEOREM TypeCorrect == Spec => []TypeOK
BY Invariance, PTL DEF IInv

(* No closure behind the liveness gate of Actions touches a window that is *)
(* destroyed (issue #131), however many windows and queued closures.       *)
THEOREM GateProtects == Spec => []GatedNeverStale
<1>1. IInv => GatedNeverStale
  BY DEF IInv, Gate, GatedNeverStale
<1> QED
  BY <1>1, Invariance, PTL

(* The pane of an exited shell has its close on the way, but for the two   *)
(* ways the code loses an exit: OnCloseSurface or CloseSurfaceByPaneId     *)
(* found no window that lists the pane, or the gate of its window was      *)
(* pending.  However many panes, windows and closures, nothing else does.  *)
THEOREM ExitsAreHandled == Spec => []ExitsAccounted
<1>1. IInv => ExitsAccounted
  <2> SUFFICES ASSUME IInv, NEW p \in exited \ (displaced \cup refused), Live(p)
               PROVE  \E i \in DOMAIN queue : queue[i].op = "close_pane" /\ queue[i].pane = p
    BY DEF ExitsAccounted
  <2>1. PICK x \in CloseCalls(queue) : x.pane = p
    BY DEF IInv, ExitInv
  <2>2. DOMAIN queue = 1 .. Len(queue)
    BY LenProperties DEF IInv, TypeOK
  <2> QED
    BY <2>1, <2>2 DEF CloseCalls, Elems
<1> QED
  BY <1>1, Invariance, PTL

(* The close that a surface asked for ends no pane but one whose shell     *)
(* exited or whose close a key asked for (CloseSurfaceByPaneId).           *)
THEOREM ClosesAreTheirs == Spec => PaneClosesAreTheirs
<1>1. IInv /\ [Next]_vars =>
        [RunClosePane => DOMAIN panes \ DOMAIN panes' \subseteq exited \cup asked]_vars
  <2> SUFFICES ASSUME IInv, RunClosePane
               PROVE  DOMAIN panes \ DOMAIN panes' \subseteq exited \cup asked
    OBVIOUS
  <2> TypeOK
    BY DEF IInv
  <2>1. closure.pane \in exited \cup asked
    BY HeadTypes DEF RunClosePane, CloseCalls, IInv, ExitInv
  <2>2. ASSUME NEW p \in DOMAIN panes, p # closure.pane
        PROVE  p \in DOMAIN panes'
    <3>1. CASE NothingCloses
      BY <3>1 DEF NothingCloses, paneVars
    <3>2. ASSUME NEW q \in Named(closure), Ends(q) \/ Closes(q)
          PROVE  p \in DOMAIN panes'
      <4>1. q = closure.pane /\ q \in DOMAIN panes
        BY DEF Named, In
      <4>2. DropPanes({q}) \/ Parked(q)
        BY <3>2 DEF Ends, Closes
      <4>3. ASSUME DropPanes({q})
            PROVE  DOMAIN panes' = DOMAIN panes \ {q}
        BY <4>3, PaneSteps
      <4>4. ASSUME Parked(q)
            PROVE  DOMAIN panes' = DOMAIN panes
        BY <4>1, <4>4, PaneSteps
      <4> QED
        BY <2>2, <4>1, <4>2, <4>3, <4>4
    <3> QED
      BY <3>1, <3>2 DEF RunClosePane, Submit
  <2> QED
    BY <2>1, <2>2
<1> QED
  BY <1>1, Invariance, PTL DEF Spec, PaneClosesAreTheirs

(* Every config that was allocated has one owner that will free it, but    *)
(* for the clones whose window was severed: App::ReplaceConfig frees       *)
(* nothing that is in use and keeps nothing that is not.                   *)
THEOREM ConfigsOwned == Spec => []ConfigsAccounted
<1>1. IInv => ConfigsAccounted
  BY PendingIs DEF IInv, Owned, ConfigsAccounted
<1> QED
  BY <1>1, Invariance, PTL

(* With no reload under way App holds the config that libghostty runs,     *)
(* unless a report was lost with its window: an older report never has the *)
(* last word (OnConfigChange, App::ReplaceConfig).                         *)
THEOREM ReloadsSettle == Spec => []ConfigSettles
<1>1. IInv => ConfigSettles
  <2> SUFFICES ASSUME IInv, QueuedConfigs = {}, leaked = {}
               PROVE  heap[current] = lib
    BY DEF ConfigSettles
  <2>1. DOMAIN queue = 1 .. Len(queue)
    BY LenProperties DEF IInv, TypeOK
  <2>2. \A i \in 1 .. Len(queue) : ~Report(queue[i])
    BY <2>1 DEF QueuedConfigs, Report
  <2> QED
    BY <2>2 DEF IInv, Settling, LastReport, Elems
<1> QED
  BY <1>1, Invariance, PTL
=============================================================================
