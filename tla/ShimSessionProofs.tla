-------------------------- MODULE ShimSessionProofs --------------------------
(***************************************************************************)
(* What ShimSession guarantees for any number of `wsl` lines, shells and   *)
(* windows, any exit codes and any length of the dispatcher queue.         *)
(***************************************************************************)
EXTENDS ShimSession, SequenceTheorems, TLAPS

(* A queued request for the session of s. *)
Queued(s) == \E i \in DOMAIN queue : queue[i].op = "open" /\ queue[i].pane = s

(* The host has the request of s and has not opened a session for it. *)
Waiting(s) == s \in {client, serving} \/ Queued(s)

(* A session of s has yet to be answered. *)
InSession(s) == \E t \in Shells : session[t].overlay = s /\ session[t].open

(* A session was opened for s, as far as the state still shows it. *)
Given(s) == s \in running \/ ended[s] # NotEnded \/ \E t \in Shells : session[t].overlay = s

(* A tab that is gone has no session, the overlay of a session is in the   *)
(* tree, and no WSL pane stands in for two.                                *)
TabsOK ==
  /\ \A t \in listed : home[t] # Null
  /\ \A t \in Shells :
       /\ home[t] = Null => session[t] = NoSession
       /\ session[t].overlay = Null => session[t] = NoSession
       /\ session[t].overlay # Null => pane[t] = session[t].overlay
  /\ \A t, u \in Shells :
       session[t].overlay # Null /\ session[t].overlay = session[u].overlay => t = u

(* The request of a shim is in one place. *)
OnePlace ==
  /\ client # Null => client # serving /\ ~Queued(client)
  /\ serving # Null => ~Queued(serving)

(* What the server thread knows of the shim it deals with. *)
ServingOK ==
  /\ serving = Null <=> stage = "idle"
  /\ stage = "probing" => shim[serving] \in {"asked", "ended"}

(* A session is requested once, and a request tells what happened. *)
QueueOK ==
  /\ \A i, j \in DOMAIN queue :
       queue[i].op = "open" /\ queue[j].op = "open" /\ queue[i].pane = queue[j].pane => i = j
  /\ \A i \in DOMAIN queue :
       /\ queue[i].op = "open" =>
            queue[i].pane \in Shims /\ shim[queue[i].pane] \in {"asked", "ended"}
       /\ queue[i].op = "exited" =>
            queue[i].pane \in Shims /\ ended[queue[i].pane].code \in Codes

(* A shim that waits has no answer and no session, one with a session is   *)
(* never refused, and one without an answer is held.                       *)
Pipe(s) ==
  /\ Waiting(s) => shim[s] \in {"connected", "asked", "ended"} /\ reply[s] = NoReply /\ ~Given(s)
  /\ Given(s) => shim[s] \in {"asked", "ended"} /\ reply[s].kind \in {"none", "eof", "done"}
  /\ InSession(s) => reply[s] = NoReply
  /\ shim[s] \in {"connected", "asked"} /\ reply[s] = NoReply => Waiting(s) \/ InSession(s)
  /\ reply[s] # NoReply => shim[s] \notin {"idle", "connecting"}

PipesOK == \A s \in Shims : Pipe(s)

(* WSL ends once, and an answer has its code or that of a cut session.     *)
EndsOK ==
  \A s \in Shims :
    /\ ended[s] # NotEnded => s \notin running
    /\ reply[s].kind = "done" =>
         reply[s].code = Cut \/ (ended[s] # NotEnded /\ reply[s].code = ended[s].code)

CodesOK == OneWsl /\ CodeIsTheSessions

IInv == TypeOK /\ TabsOK /\ OnePlace /\ ServingOK /\ QueueOK
          /\ PipesOK /\ EndsOK /\ CodesOK /\ NoOrphan

Replies == [kind : {"none", "refused", "explained", "eof", "done"}, code : Nat]

Calls == [op : {"open", "exited", "close"}, pane : Panes, window : Windows \cup {Null}]

-----------------------------------------------------------------------------
(* Names, replies and the queue. *)

(* Null names nobody, and a shim is not a shell. *)
LEMMA Names ==
  /\ \A s \in Shims : s # Null /\ s \in Panes
  /\ \A t \in Shells : t # Null /\ t \in Panes /\ t \notin Shims
  /\ \A w \in Windows : w # Null
  /\ \A c \in Codes : c # Null /\ c \in Nat
  /\ \A p \in Panes : p # Null
BY NamesAssumption DEF Panes

(* The answers are answers, and the codes of the host are codes. *)
LEMMA ReplyFacts ==
  /\ NoReply \in Replies /\ Refused \in Replies /\ Explained \in Replies /\ EndOfFile \in Replies
  /\ \A c \in Nat : Done(c) \in Replies /\ Done(c).kind = "done" /\ Done(c).code = c
  /\ NoReply.kind = "none" /\ Refused.kind = "refused" /\ Explained.kind = "explained"
  /\ EndOfFile.kind = "eof"
BY DEF NoReply, Refused, Explained, EndOfFile, Done, Replies

(* What Answered does to the reply of each shim. *)
LEMMA AnsweredIs ==
  ASSUME reply \in [Shims -> Replies], NEW s \in Shims, NEW r \in Replies, reply' = Answered(s, r)
  PROVE  /\ reply' \in [Shims -> Replies]
         /\ \A z \in Shims \ {s} : reply'[z] = reply[z]
         /\ reply'[s] = IF reply[s] = NoReply THEN r ELSE reply[s]
BY DEF Answered

(* A request behind the others. *)
LEMMA QueueGrows ==
  ASSUME queue \in Seq(Calls), NEW r \in Calls, queue' = Append(queue, r)
  PROVE  /\ queue' \in Seq(Calls)
         /\ DOMAIN queue' = 1 .. Len(queue) + 1 /\ DOMAIN queue = 1 .. Len(queue)
         /\ Len(queue) \in Nat
         /\ \A i \in DOMAIN queue : i \in DOMAIN queue' /\ queue'[i] = queue[i]
         /\ \A i \in DOMAIN queue' : i = Len(queue) + 1 \/ i \in DOMAIN queue
         /\ queue'[Len(queue) + 1] = r
OBVIOUS

(* The queue without its oldest request. *)
LEMMA QueueShrinks ==
  ASSUME queue \in Seq(Calls), queue # <<>>, queue' = Tail(queue)
  PROVE  /\ queue' \in Seq(Calls)
         /\ Head(queue) \in Calls /\ Head(queue) = queue[1] /\ 1 \in DOMAIN queue
         /\ \A i \in DOMAIN queue' : i + 1 \in DOMAIN queue /\ queue'[i] = queue[i + 1] /\ i + 1 # 1
         /\ \A i \in DOMAIN queue : i # 1 => i - 1 \in DOMAIN queue' /\ queue'[i - 1] = queue[i]
         /\ \A i, j \in DOMAIN queue' : i \in Nat /\ j \in Nat
OBVIOUS

(* Nobody moves in a queue that stays. *)
LEMMA QueueStays == queue' = queue => \A s : Queued(s)' <=> Queued(s)
BY DEF Queued

(* An opened request is queued.                                           *)
LEMMA QueueOpens ==
  ASSUME queue \in Seq(Calls), NEW r \in Calls, queue' = Append(queue, r), r.op = "open"
  PROVE  \A s : Queued(s)' <=> Queued(s) \/ s = r.pane
<1> TAKE s
<1>1. Queued(s)' => Queued(s) \/ s = r.pane
  BY QueueGrows DEF Queued
<1>2. Queued(s) => Queued(s)'
  BY QueueGrows DEF Queued
<1>3. s = r.pane => Queued(s)'
  <2>1. Len(queue) + 1 \in DOMAIN queue' /\ queue'[Len(queue) + 1] = r
    BY QueueGrows
  <2>2. QED
    BY <2>1 DEF Queued
<1>4. QED
  BY <1>1, <1>2, <1>3

(* Any other request changes nobody's place.                               *)
LEMMA QueueNotifies ==
  ASSUME queue \in Seq(Calls), NEW r \in Calls, queue' = Append(queue, r), r.op # "open"
  PROVE  \A s : Queued(s)' <=> Queued(s)
<1> TAKE s
<1>1. Queued(s)' => Queued(s)
  BY QueueGrows DEF Queued
<1>2. Queued(s) => Queued(s)'
  BY QueueGrows DEF Queued
<1>3. QED
  BY <1>1, <1>2

(* The request that is served leaves the queue, and no other.              *)
LEMMA QueueServes ==
  ASSUME queue \in Seq(Calls), queue # <<>>, queue' = Tail(queue), QueueOK
  PROVE  \A s : Queued(s)' <=> Queued(s) /\ ~(Head(queue).op = "open" /\ s = Head(queue).pane)
<1> TAKE s
<1>1. Queued(s)' => Queued(s)
  BY QueueShrinks DEF Queued
<1>2. ASSUME Queued(s)', Head(queue).op = "open", s = Head(queue).pane
      PROVE  FALSE
  <2>1. PICK i \in DOMAIN queue' : queue'[i].op = "open" /\ queue'[i].pane = s
    BY <1>2 DEF Queued
  <2>2. i + 1 \in DOMAIN queue /\ queue'[i] = queue[i + 1] /\ i + 1 # 1 /\ 1 \in DOMAIN queue
        /\ Head(queue) = queue[1]
    BY QueueShrinks
  <2>3. i + 1 = 1
    BY <1>2, <2>1, <2>2 DEF QueueOK
  <2>4. QED
    BY <2>2, <2>3
<1>3. ASSUME Queued(s), ~(Head(queue).op = "open" /\ s = Head(queue).pane)
      PROVE  Queued(s)'
  <2>1. PICK i \in DOMAIN queue : queue[i].op = "open" /\ queue[i].pane = s
    BY <1>3 DEF Queued
  <2>2. i # 1
    BY <1>3, <2>1, QueueShrinks
  <2>3. i - 1 \in DOMAIN queue' /\ queue'[i - 1] = queue[i]
    BY <2>2, QueueShrinks
  <2>4. QED
    BY <2>1, <2>3 DEF Queued
<1>4. QED
  BY <1>1, <1>2, <1>3

(* What QueueOK needs of a step that adds nothing to the queue. *)
LEMMA QueueKept ==
  ASSUME TypeOK, QueueOK, queue' = queue \/ (queue # <<>> /\ queue' = Tail(queue)),
         \A s \in Shims : Queued(s) => shim'[s] \in {"asked", "ended"},
         \A s \in Shims : ended[s].code \in Codes => ended'[s].code \in Codes
  PROVE  QueueOK'
<1>1. queue \in Seq(Calls)
  BY DEF TypeOK, Calls
<1>2. \A i \in DOMAIN queue :
        /\ queue[i].op = "open" => queue[i].pane \in Shims /\ shim'[queue[i].pane] \in {"asked", "ended"}
        /\ queue[i].op = "exited" => queue[i].pane \in Shims /\ ended'[queue[i].pane].code \in Codes
  BY DEF QueueOK, Queued
<1>3. CASE queue' = queue
  BY <1>2, <1>3 DEF QueueOK
<1>4. CASE queue # <<>> /\ queue' = Tail(queue)
  <2>1. \A i \in DOMAIN queue' : i + 1 \in DOMAIN queue /\ queue'[i] = queue[i + 1] /\ i \in Nat
    BY <1>1, <1>4, QueueShrinks
  <2>2. \A i, j \in DOMAIN queue' :
          queue'[i].op = "open" /\ queue'[j].op = "open" /\ queue'[i].pane = queue'[j].pane => i = j
    <3> TAKE i, j \in DOMAIN queue'
    <3> HAVE queue'[i].op = "open" /\ queue'[j].op = "open" /\ queue'[i].pane = queue'[j].pane
    <3>1. i + 1 = j + 1
      BY <2>1 DEF QueueOK
    <3>2. QED
      BY <2>1, <3>1
  <2>3. QED
    BY <1>2, <2>1, <2>2 DEF QueueOK
<1>5. QED
  BY <1>3, <1>4

(* And of a step that adds a request. *)
LEMMA QueueAdds ==
  ASSUME TypeOK, QueueOK, NEW r \in Calls, queue' = Append(queue, r), shim' = shim,
         r.op = "open" => r.pane \in Shims /\ ~Queued(r.pane) /\ shim[r.pane] \in {"asked", "ended"},
         r.op = "exited" => r.pane \in Shims /\ ended'[r.pane].code \in Codes,
         \A s \in Shims : ended[s].code \in Codes => ended'[s].code \in Codes
  PROVE  QueueOK'
<1>1. queue \in Seq(Calls)
  BY DEF TypeOK, Calls
<1>2. /\ \A i \in DOMAIN queue : queue'[i] = queue[i]
      /\ \A i \in DOMAIN queue' : i = Len(queue) + 1 \/ i \in DOMAIN queue
      /\ queue'[Len(queue) + 1] = r
  BY <1>1, QueueGrows
<1>3. \A i \in DOMAIN queue :
        r.op = "open" /\ queue[i].op = "open" => queue[i].pane # r.pane
  BY DEF Queued
<1>4. \A i, j \in DOMAIN queue' :
        queue'[i].op = "open" /\ queue'[j].op = "open" /\ queue'[i].pane = queue'[j].pane => i = j
  <2> TAKE i, j \in DOMAIN queue'
  <2>1. CASE i \in DOMAIN queue /\ j \in DOMAIN queue
    BY <1>2, <2>1 DEF QueueOK
  <2>2. CASE i = Len(queue) + 1 \/ j = Len(queue) + 1
    BY <1>2, <1>3, <2>2
  <2>3. QED
    BY <1>2, <2>1, <2>2
<1>5. QED
  BY <1>2, <1>4 DEF QueueOK

-----------------------------------------------------------------------------
(* The operations on a tab. *)

(* What every operation that ends a pane, a session or a tab comes to: one *)
(* tab changes, nothing starts, an open session is answered as it is       *)
(* dropped, and what runs on is where the tab gives it back.               *)
TabChange(t) ==
  /\ home' \in [Shells -> Windows \cup {Null}] /\ listed' \subseteq listed
  /\ pane' \in [Shells -> Panes] /\ session' \in [Shells -> Sessions]
  /\ running' \subseteq running /\ UNCHANGED ended
  /\ \A u \in Shells \ {t} : home'[u] = home[u] /\ pane'[u] = pane[u] /\ session'[u] = session[u]
  /\ t \in listed' => home'[t] # Null
  /\ home'[t] = Null => session'[t] = NoSession
  /\ session'[t].overlay \in {session[t].overlay, Null}
  /\ session'[t].overlay = Null => session'[t] = NoSession
  /\ session'[t].overlay # Null => pane'[t] = session'[t].overlay
  /\ \A q \in {pane[t], session[t].parked} \cap running' :
       home'[t] # Null /\ q \in {pane'[t], session'[t].parked}
  /\ \/ reply' = reply /\ session'[t].open = session[t].open
     \/ /\ ~session'[t].open
        /\ \E r \in Replies :
             /\ r.kind \in {"eof", "done"}
             /\ r.kind = "done" =>
                  \/ r.code = Cut
                  \/ /\ ended[session[t].overlay] # NotEnded
                     /\ r.code = ended[session[t].overlay].code
             /\ reply' = IF session[t].open THEN Answered(session[t].overlay, r) ELSE reply

TabState ==
  /\ home \in [Shells -> Windows \cup {Null}] /\ listed \subseteq Shells
  /\ pane \in [Shells -> Panes] /\ session \in [Shells -> Sessions]
  /\ running \subseteq Panes /\ reply \in [Shims -> Replies]
  /\ ended \in [Shims -> [code : Codes \cup {Null}, failed : BOOLEAN]]

OtherState ==
  /\ shim \in [Shims -> {"idle", "connecting", "connected", "asked", "wsl", "ended"}]
  /\ origin \in [Shims -> Panes \cup {Null}] /\ code \in [Shims -> Nat \cup {Null}]
  /\ {client, serving} \subseteq Shims \cup {Null}
  /\ stage \in {"idle", "accepted", "reading", "probing"}
  /\ server \in {"on", "off"} /\ ui \in {"free", "joining"} /\ enabled \in BOOLEAN
  /\ queue \in Seq(Calls) /\ host \in {"up", "gone"}

(* The type as the lemmas below use it, before a step and after it.        *)
LEMMA TypeIs ==
  /\ TypeOK <=> TabState /\ OtherState
  /\ TypeOK' <=> TabState' /\ OtherState'
BY DEF TypeOK, TabState, OtherState, Replies, Calls

(* NoSession has no overlay, nobody parked behind it, and owes nothing.    *)
LEMMA NoSessionIs ==
  NoSession \in Sessions /\ NoSession.overlay = Null /\ NoSession.parked = Null /\ ~NoSession.open
BY DEF NoSession, Sessions

(* A session, field by field. *)
LEMMA SessionIs ==
  ASSUME TabState, TabsOK, NEW t \in Shells
  PROVE  /\ session[t].overlay \in Shims \cup {Null} /\ session[t].parked \in Panes \cup {Null}
         /\ session[t].open \in BOOLEAN /\ session[t] \in Sessions
         /\ pane[t] \in Panes /\ home[t] \in Windows \cup {Null}
         /\ session[t].open => session[t].overlay # Null /\ session[t].overlay \in Shims
                               /\ pane[t] = session[t].overlay
         /\ session[t].overlay = pane[t] => session[t].overlay \in Shims
         /\ session[t].overlay = Null => session[t].parked = Null /\ ~session[t].open
<1>1. session[t] \in Sessions /\ pane[t] \in Panes /\ home[t] \in Windows \cup {Null}
  BY DEF TabState
<1>2. /\ session[t].overlay \in Shims \cup {Null} /\ session[t].parked \in Panes \cup {Null}
      /\ session[t].open \in BOOLEAN
  BY <1>1 DEF Sessions
<1>3. /\ session[t].overlay = Null => session[t] = NoSession
      /\ session[t].overlay # Null => pane[t] = session[t].overlay
  BY DEF TabsOK
<1>4. session[t].overlay = Null => session[t].parked = Null /\ ~session[t].open
  BY <1>3, NoSessionIs
<1>5. pane[t] # Null
  BY <1>1, Names
<1>6. QED
  BY <1>1, <1>2, <1>3, <1>4, <1>5

(* TearDownTab ends what the tab holds. *)
LEMMA TearDownChanges ==
  ASSUME TabState, TabsOK, NEW t \in Shells, TearDownTab(t)
  PROVE  TabChange(t)
<1>1. /\ home' = [home EXCEPT ![t] = Null] /\ listed' = listed \ {t}
      /\ session' = [session EXCEPT ![t] = NoSession]
      /\ reply' = IF session[t].open THEN Answered(session[t].overlay, EndOfFile) ELSE reply
      /\ running' = running \ {pane[t], session[t].parked} /\ pane' = pane /\ ended' = ended
  BY DEF TearDownTab
<1>2. /\ home' \in [Shells -> Windows \cup {Null}] /\ home'[t] = Null
      /\ pane' \in [Shells -> Panes]
      /\ session' \in [Shells -> Sessions] /\ session'[t] = NoSession
      /\ \A u \in Shells \ {t} : home'[u] = home[u] /\ session'[u] = session[u]
  BY <1>1, NoSessionIs DEF TabState
<1>3. EndOfFile \in Replies /\ EndOfFile.kind = "eof"
  BY ReplyFacts
<1>4. QED
  BY <1>1, <1>2, <1>3, NoSessionIs DEF TabChange

(* ParkTab takes the tab off its strip and leaves it as it is. *)
LEMMA ParkChanges ==
  ASSUME TabState, TabsOK, NEW t \in Shells, ParkTab(t), UNCHANGED <<session, reply>>,
         home[t] # Null
  PROVE  TabChange(t)
BY DEF ParkTab, TabChange, TabState, TabsOK, wslVars

(* A restored shell is the pane again, and WSL ends. *)
LEMMA RestoreChanges ==
  ASSUME TabState, TabsOK, NEW t \in Shells, RestoreParkedPane(t),
         session[t].parked # Null, home[t] # Null, NEW r \in Replies, r.kind = "done",
         r.code = Cut \/ (ended[session[t].overlay] # NotEnded /\ r.code = ended[session[t].overlay].code),
         reply' = IF session[t].open THEN Answered(session[t].overlay, r) ELSE reply
  PROVE  TabChange(t)
<1>1. /\ pane' = [pane EXCEPT ![t] = session[t].parked]
      /\ session' = [session EXCEPT ![t] = NoSession]
      /\ running' = running \ {pane[t]} /\ home' = home /\ listed' = listed /\ ended' = ended
  BY DEF RestoreParkedPane
<1>2. session[t].parked \in Panes
  BY SessionIs
<1>3. /\ home' \in [Shells -> Windows \cup {Null}] /\ home'[t] # Null
      /\ pane' \in [Shells -> Panes] /\ pane'[t] = session[t].parked
      /\ session' \in [Shells -> Sessions] /\ session'[t] = NoSession
      /\ \A u \in Shells \ {t} :
           home'[u] = home[u] /\ pane'[u] = pane[u] /\ session'[u] = session[u]
  BY <1>1, <1>2, NoSessionIs DEF TabState
<1>4. QED
  BY <1>1, <1>3, NoSessionIs DEF TabChange

(* RemovePane restores, ends the session, parks the tab or tears it down.  *)
LEMMA RemoveChanges ==
  ASSUME TabState, TabsOK, NEW t \in listed, RemovePane(t)
  PROVE  TabChange(t)
<1>1. t \in Shells /\ home[t] # Null
  BY DEF TabState, TabsOK
<1>2. Done(Cut) \in Replies /\ Done(Cut).kind = "done" /\ Done(Cut).code = Cut
  BY ReplyFacts DEF Cut
<1>3. CASE /\ session[t].overlay = pane[t] /\ session[t].parked # Null
           /\ reply' = IF session[t].open THEN Answered(pane[t], Done(Cut)) ELSE reply
           /\ RestoreParkedPane(t)
  BY <1>1, <1>2, <1>3, RestoreChanges
<1>4. CASE /\ session[t].overlay = pane[t] /\ session[t].parked = Null
           /\ reply' = IF session[t].open THEN Answered(pane[t], Done(Cut)) ELSE reply
           /\ session' = [session EXCEPT ![t] = NoSession]
           /\ \/ pane[t] \in running /\ ParkTab(t)
              \/ /\ home' = [home EXCEPT ![t] = Null]
                 /\ listed' = listed \ {t}
                 /\ running' = running \ {pane[t]}
                 /\ UNCHANGED <<pane, ended>>
  <2>1. /\ session' \in [Shells -> Sessions] /\ session'[t] = NoSession
        /\ \A u \in Shells \ {t} : session'[u] = session[u]
    BY <1>1, <1>4, NoSessionIs DEF TabState
  <2>2. Null \notin running
    BY Names DEF TabState
  <2>3. /\ home' \in [Shells -> Windows \cup {Null}] /\ pane' = pane /\ ended' = ended
        /\ \A u \in Shells \ {t} : home'[u] = home[u]
        /\ listed' = listed \ {t} /\ running' \subseteq running
        /\ pane[t] \in running' => home'[t] # Null
    BY <1>1, <1>4 DEF TabState, ParkTab, wslVars
  <2>4. QED
    BY <1>1, <1>2, <1>4, <2>1, <2>2, <2>3, NoSessionIs DEF TabChange, TabState
<1>5. CASE session[t].overlay = Null /\ pane[t] \in running /\ ParkTab(t) /\ UNCHANGED <<session, reply>>
  BY <1>1, <1>5, ParkChanges
<1>6. CASE TearDownTab(t)
  BY <1>1, <1>6, TearDownChanges
<1>7. QED
  BY <1>3, <1>4, <1>5, <1>6 DEF RemovePane

(* ChildExited finds nothing, or answers and keeps, restores or drops.     *)
LEMMA ExitedChanges ==
  ASSUME TabState, TabsOK, NEW s \in Shims, NEW w, ended[s].code \in Codes, s \notin running,
         ChildExited(s, w)
  PROVE  UNCHANGED <<reply, tabVars, wslVars>> \/ \E t \in Shells : TabChange(t)
<1> SUFFICES ASSUME ~UNCHANGED <<reply, tabVars, wslVars>>
             PROVE  \E t \in Shells : TabChange(t)
  OBVIOUS
<1> DEFINE r == Done(ended[s].code)
<1>1. PICK t \in InTree(s) :
        /\ session[t].overlay = s
        /\ \/ /\ session[t].parked # Null
              /\ reply' = IF session[t].open THEN Answered(s, r) ELSE reply
              /\ IF ended[s].failed
                 THEN /\ session' = [session EXCEPT ![t].open = FALSE]
                      /\ UNCHANGED <<home, listed, pane, wslVars>>
                 ELSE RestoreParkedPane(t)
           \/ /\ session[t].parked = Null
              /\ reply' = IF session[t].open THEN Answered(s, r) ELSE reply
              /\ home' = [home EXCEPT ![t] = Null]
              /\ listed' = listed \ {t}
              /\ session' = [session EXCEPT ![t] = NoSession]
              /\ UNCHANGED <<pane, wslVars>>
  BY DEF ChildExited
<1>2. /\ t \in listed /\ t \in Shells /\ pane[t] = s /\ home[t] # Null
      /\ session[t].overlay = s /\ s # Null
  BY <1>1, Names DEF InTree, TabState, TabsOK
<1>3. r \in Replies /\ r.kind = "done" /\ r.code = ended[s].code /\ ended[s] # NotEnded
  <2>1. ended[s].code \in Nat /\ ended[s].code # Null
    BY Names
  <2>2. ended[s] # NotEnded
    BY <2>1 DEF NotEnded
  <2>3. QED
    BY <2>1, <2>2, ReplyFacts
<1> HIDE DEF r
<1>4. CASE /\ session[t].parked # Null
           /\ reply' = IF session[t].open THEN Answered(s, r) ELSE reply
           /\ session' = [session EXCEPT ![t].open = FALSE]
           /\ UNCHANGED <<home, listed, pane, wslVars>>
  <2>1. session[t] \in Sessions /\ [session[t] EXCEPT !.open = FALSE] \in Sessions
    BY <1>2 DEF TabState, Sessions
  <2>2. /\ session' \in [Shells -> Sessions]
        /\ session'[t] = [session[t] EXCEPT !.open = FALSE]
        /\ \A u \in Shells \ {t} : session'[u] = session[u]
    BY <1>2, <1>4, <2>1 DEF TabState
  <2>3. ~session'[t].open /\ session'[t].overlay = session[t].overlay
        /\ session'[t].parked = session[t].parked
    BY <2>1, <2>2 DEF Sessions
  <2>4. TabChange(t)
    BY <1>2, <1>3, <1>4, <2>2, <2>3 DEF TabChange, TabState, wslVars
  <2>5. QED
    BY <1>2, <2>4
<1>5. CASE /\ session[t].parked # Null
           /\ reply' = IF session[t].open THEN Answered(s, r) ELSE reply
           /\ RestoreParkedPane(t)
  BY <1>2, <1>3, <1>5, RestoreChanges
<1>6. CASE /\ session[t].parked = Null
           /\ reply' = IF session[t].open THEN Answered(s, r) ELSE reply
           /\ home' = [home EXCEPT ![t] = Null]
           /\ listed' = listed \ {t}
           /\ session' = [session EXCEPT ![t] = NoSession]
           /\ UNCHANGED <<pane, wslVars>>
  <2>1. /\ session' \in [Shells -> Sessions] /\ session'[t] = NoSession
        /\ home' \in [Shells -> Windows \cup {Null}] /\ home'[t] = Null
        /\ \A u \in Shells \ {t} : session'[u] = session[u] /\ home'[u] = home[u]
    BY <1>2, <1>6, NoSessionIs DEF TabState
  <2>2. Null \notin running
    BY Names DEF TabState
  <2>3. TabChange(t)
    BY <1>2, <1>3, <1>6, <2>1, <2>2, NoSessionIs DEF TabChange, TabState, wslVars
  <2>4. QED
    BY <1>2, <2>3
<1>7. QED
  BY <1>1, <1>4, <1>5, <1>6

(* CloseSurface removes the pane, or the shell behind it, or finds nobody. *)
LEMMA CloseChanges ==
  ASSUME TabState, TabsOK, NEW p \in Panes, NEW w, CloseSurface(p, w)
  PROVE  UNCHANGED <<reply, tabVars, wslVars>> \/ \E t \in Shells : TabChange(t)
<1>1. CASE \E t \in InTree(p) : home[t] = w /\ RemovePane(t)
  BY <1>1, RemoveChanges DEF InTree, TabState
<1>2. CASE \E t \in listed :
             /\ home[t] = w /\ InTree(p) = {} /\ session[t].parked = p
             /\ session' = [session EXCEPT ![t].parked = Null]
             /\ running' = running \ {p}
             /\ UNCHANGED <<reply, home, listed, pane, ended>>
  <2>1. PICK t \in listed :
             /\ InTree(p) = {} /\ session[t].parked = p
             /\ session' = [session EXCEPT ![t].parked = Null]
             /\ running' = running \ {p}
             /\ UNCHANGED <<reply, home, listed, pane, ended>>
    BY <1>2
  <2>2. t \in Shells /\ home[t] # Null /\ p # Null
    BY Names DEF TabState, TabsOK
  <2>3. session[t] \in Sessions /\ [session[t] EXCEPT !.parked = Null] \in Sessions
    BY <2>2 DEF TabState, Sessions
  <2>4. /\ session' \in [Shells -> Sessions]
        /\ session'[t] = [session[t] EXCEPT !.parked = Null]
        /\ \A u \in Shells \ {t} : session'[u] = session[u]
    BY <2>1, <2>2, <2>3 DEF TabState
  <2>5. /\ session'[t].open = session[t].open /\ session'[t].overlay = session[t].overlay
    BY <2>3, <2>4 DEF Sessions
  <2>6. session[t].overlay # Null
    BY <2>1, <2>2, SessionIs
  <2>7. TabChange(t)
    BY <2>1, <2>2, <2>4, <2>5, <2>6 DEF TabChange, TabState, TabsOK
  <2>8. QED
    BY <2>2, <2>7
<1>3. QED
  BY <1>1, <1>2 DEF CloseSurface

(* Who is answered by a change of a tab: the shim of its open session.     *)
LEMMA ChangeAnswers ==
  ASSUME TabState, TabsOK, PipesOK, NEW t \in Shells, TabChange(t)
  PROVE  /\ reply' \in [Shims -> Replies]
         /\ \A z \in Shims :
              \/ reply'[z] = reply[z] /\ (z = session[t].overlay => session'[t].open = session[t].open)
              \/ reply'[z] = reply[z] /\ ~session[t].open /\ ~session'[t].open
              \/ /\ session[t].open /\ z = session[t].overlay /\ ~session'[t].open
                 /\ reply'[z].kind \in {"eof", "done"}
                 /\ reply'[z].kind = "done" =>
                      reply'[z].code = Cut \/ (ended[z] # NotEnded /\ reply'[z].code = ended[z].code)
<1>1. reply \in [Shims -> Replies]
  BY DEF TabState
<1>2. CASE reply' = reply /\ session'[t].open = session[t].open
  BY <1>1, <1>2
<1>3. CASE /\ ~session'[t].open
           /\ \E r \in Replies :
                /\ r.kind \in {"eof", "done"}
                /\ r.kind = "done" =>
                     \/ r.code = Cut
                     \/ /\ ended[session[t].overlay] # NotEnded
                        /\ r.code = ended[session[t].overlay].code
                /\ reply' = IF session[t].open THEN Answered(session[t].overlay, r) ELSE reply
  <2>1. CASE ~session[t].open
    BY <1>1, <1>3, <2>1
  <2>2. CASE session[t].open
    <3>1. PICK r \in Replies :
            /\ r.kind \in {"eof", "done"}
            /\ r.kind = "done" =>
                 \/ r.code = Cut
                 \/ /\ ended[session[t].overlay] # NotEnded
                    /\ r.code = ended[session[t].overlay].code
            /\ reply' = Answered(session[t].overlay, r)
      BY <1>3, <2>2
    <3>2. session[t].overlay \in Shims
      BY <2>2, SessionIs
    <3>3. reply[session[t].overlay] = NoReply
      BY <2>2, <3>2 DEF PipesOK, Pipe, InSession
    <3>4. /\ reply' \in [Shims -> Replies] /\ reply'[session[t].overlay] = r
          /\ \A z \in Shims \ {session[t].overlay} : reply'[z] = reply[z]
      BY <1>1, <3>1, <3>2, <3>3, AnsweredIs
    <3>5. QED
      BY <1>3, <2>2, <3>1, <3>4
  <2>3. QED
    BY <2>1, <2>2, SessionIs
<1>4. QED
  BY <1>2, <1>3 DEF TabChange

(* A change of a tab leaves the tabs in order.                             *)
LEMMA ChangeKeepsTabs ==
  ASSUME TabState, TabsOK, PipesOK, NoOrphan, NEW t \in Shells, TabChange(t)
  PROVE  TabState' /\ TabsOK' /\ NoOrphan'
<1>1. TabState'
  BY ChangeAnswers DEF TabState, TabChange
<1>2. TabsOK'
  <2>1. \A u \in listed' : home'[u] # Null
    BY DEF TabState, TabsOK, TabChange
  <2>2. \A u \in Shells :
          /\ home'[u] = Null => session'[u] = NoSession
          /\ session'[u].overlay = Null => session'[u] = NoSession
          /\ session'[u].overlay # Null => pane'[u] = session'[u].overlay
    BY DEF TabsOK, TabChange
  <2>3. \A u \in Shells : session'[u].overlay \in {session[u].overlay, Null}
    BY DEF TabChange
  <2>4. QED
    BY <2>1, <2>2, <2>3 DEF TabsOK
<1>3. NoOrphan'
  <2> SUFFICES ASSUME NEW p \in running'
               PROVE  \E u \in Shells : home'[u] # Null /\ p \in {pane'[u], session'[u].parked}
    BY DEF NoOrphan
  <2>1. PICK u \in Shells : home[u] # Null /\ p \in {pane[u], session[u].parked}
    BY DEF NoOrphan, TabChange
  <2>2. QED
    BY <2>1 DEF TabChange
<1>4. QED
  BY <1>1, <1>2, <1>3

(* And every shim with what it is owed.                                    *)
LEMMA ChangeKeepsPipes ==
  ASSUME TabState, TabsOK, PipesOK, NEW t \in Shells, TabChange(t),
         UNCHANGED <<shim, client, serving>>, \A s : Queued(s)' <=> Queued(s)
  PROVE  PipesOK'
<1> SUFFICES ASSUME NEW s \in Shims PROVE Pipe(s)'
  BY DEF PipesOK
<1>1. Waiting(s)' <=> Waiting(s)
  BY DEF Waiting
<1>2. \A u \in Shells : session'[u].overlay = s => session[u].overlay = s
  BY Names DEF TabChange
<1>3. Given(s)' => Given(s)
  BY <1>2 DEF Given, TabChange
<1>4. s = session[t].overlay => Given(s)
  BY DEF Given
<1>5. reply'[s] = reply[s] \/ (s = session[t].overlay /\ reply'[s].kind \in {"eof", "done"})
  BY ChangeAnswers
<1>6. InSession(s)' => reply'[s] = NoReply
  <2> SUFFICES ASSUME InSession(s)' PROVE reply'[s] = NoReply
    OBVIOUS
  <2>1. PICK u \in Shells : session'[u].overlay = s /\ session'[u].open
    BY DEF InSession
  <2>2. session[u].overlay = s
    BY <1>2, <2>1
  <2>3. CASE u = t
    <3>1. reply' = reply /\ session[t].open
      BY <2>1, <2>3 DEF TabChange
    <3>2. QED
      BY <2>2, <2>3, <3>1 DEF PipesOK, Pipe, InSession
  <2>4. CASE u # t
    <3>1. session[u].open
      BY <2>1, <2>4 DEF TabChange
    <3>2. session[t].overlay # s
      BY <2>2, <2>4, Names DEF TabsOK
    <3>3. reply'[s] = reply[s]
      BY <1>5, <3>2
    <3>4. QED
      BY <2>2, <3>1, <3>3 DEF PipesOK, Pipe, InSession
  <2>5. QED
    BY <2>3, <2>4
<1>7. ASSUME InSession(s), reply'[s] = NoReply
      PROVE  InSession(s)'
  <2>1. PICK u \in Shells : session[u].overlay = s /\ session[u].open
    BY <1>7 DEF InSession
  <2>2. CASE u # t
    <3>1. session'[u] = session[u]
      BY <2>2 DEF TabChange
    <3>2. QED
      BY <2>1, <3>1 DEF InSession
  <2>3. CASE u = t
    <3>1. session'[t].open = session[t].open
      BY <1>7, <2>1, <2>3, ReplyFacts, ChangeAnswers
    <3>2. session'[t].overlay # Null
      BY <2>1, <2>3, <3>1, NoSessionIs DEF TabChange
    <3>3. session'[t].overlay = s /\ session'[t].open
      BY <2>1, <2>3, <3>1, <3>2 DEF TabChange
    <3>4. QED
      BY <3>3 DEF InSession
  <2>4. QED
    BY <2>2, <2>3
<1>8. QED
  BY <1>1, <1>3, <1>4, <1>5, <1>6, <1>7, ReplyFacts DEF PipesOK, Pipe

(* A change of a tab keeps everything.                                     *)
LEMMA ChangeKeeps ==
  ASSUME IInv, NEW t \in Shells, TabChange(t),
         UNCHANGED <<shimVars, serverVars, host>>,
         queue' = queue \/ (queue # <<>> /\ queue' = Tail(queue) /\ Head(queue).op # "open")
  PROVE  IInv'
<1> USE DEF IInv
<1>1. queue \in Seq(Calls) /\ TabState
  BY TypeIs DEF OtherState
<1>2. \A s : Queued(s)' <=> Queued(s)
  BY <1>1, QueueStays, QueueServes
<1>3. TabState' /\ TabsOK' /\ NoOrphan'
  BY <1>1, ChangeKeepsTabs
<1>4. PipesOK'
  BY <1>1, <1>2, ChangeKeepsPipes DEF shimVars, serverVars, pipeVars
<1>5. OnePlace' /\ ServingOK'
  BY <1>2 DEF OnePlace, ServingOK, shimVars, serverVars, pipeVars
<1>6. QueueOK'
  <2>1. \A s \in Shims : Queued(s) => shim'[s] \in {"asked", "ended"}
    BY DEF QueueOK, Queued, shimVars
  <2>2. \A s \in Shims : ended[s].code \in Codes => ended'[s].code \in Codes
    BY DEF TabChange
  <2>3. QED
    BY <2>1, <2>2, QueueKept
<1>7. EndsOK'
  <2>1. \A s \in Shims : ended[s] # NotEnded => s \notin running'
    BY DEF EndsOK, TabChange
  <2>2. \A s \in Shims : reply'[s].kind = "done" =>
          reply'[s].code = Cut \/ (ended[s] # NotEnded /\ reply'[s].code = ended[s].code)
    BY <1>1, ChangeAnswers DEF EndsOK
  <2>3. ended' = ended
    BY DEF TabChange
  <2>4. QED
    BY <2>1, <2>2, <2>3 DEF EndsOK
<1>8. CodesOK'
  BY DEF CodesOK, OneWsl, CodeIsTheSessions, TabChange, shimVars
<1>9. TypeOK'
  <2>1. queue' \in Seq(Calls)
    BY <1>1, QueueShrinks
  <2>2. QED
    BY <1>3, <2>1, TypeIs DEF OtherState, shimVars, serverVars, pipeVars
<1>10. QED
  BY <1>3, <1>4, <1>5, <1>6, <1>7, <1>8, <1>9

-----------------------------------------------------------------------------
(* The steps. *)

(* What a step that leaves the tabs and the processes alone keeps of them. *)
LEMMA TabsStay ==
  ASSUME IInv, UNCHANGED <<tabVars, wslVars>>
  PROVE  /\ reply' \in [Shims -> Replies] => TabState'
         /\ TabsOK' /\ NoOrphan'
         /\ \A s \in Shims : (Given(s)' <=> Given(s)) /\ (InSession(s)' <=> InSession(s))
<1> USE DEF tabVars, wslVars
<1>1. TabState
  BY TypeIs DEF IInv
<1>2. TabsOK' /\ NoOrphan'
  BY DEF IInv, TabsOK, NoOrphan
<1>3. \A s \in Shims : (Given(s)' <=> Given(s)) /\ (InSession(s)' <=> InSession(s))
  BY DEF Given, InSession
<1>4. reply' \in [Shims -> Replies] => TabState'
  BY <1>1 DEF TabState
<1>5. QED
  BY <1>2, <1>3, <1>4

(* A shim goes on; the host does nothing.                                  *)
LEMMA ShimMoves ==
  ASSUME IInv, NEW s \in Shims,
         NEW v \in {"connecting", "connected", "asked", "wsl", "ended"}, NEW c \in Nat \cup {Null},
         shim' = [shim EXCEPT ![s] = v],
         code' = code \/ code' = [code EXCEPT ![s] = c],
         v = "ended" => code' = [code EXCEPT ![s] = c] /\ c \in {Null, NoAnswer, Cut, ended[s].code},
         origin' \in [Shims -> Panes \cup {Null}],
         UNCHANGED <<reply, serverVars, queue, host, tabVars, wslVars>>,
         Waiting(s) => v \in {"asked", "ended"},
         Given(s) => v \in {"asked", "ended"},
         v = "connected" => reply[s] # NoReply,
         v = "asked" => shim[s] \in {"connected", "asked"},
         reply[s] # NoReply => v # "connecting",
         shim[s] = "ended" => v = "ended"
  PROVE  IInv'
<1> USE DEF IInv
<1>1. /\ shim \in [Shims -> {"idle", "connecting", "connected", "asked", "wsl", "ended"}]
      /\ code \in [Shims -> Nat \cup {Null}] /\ reply \in [Shims -> Replies]
  BY TypeIs DEF OtherState, TabState
<1>2. shim'[s] = v /\ \A z \in Shims \ {s} : shim'[z] = shim[z]
  BY <1>1
<1>3. \A z : (Queued(z)' <=> Queued(z)) /\ (Waiting(z)' <=> Waiting(z))
  BY QueueStays DEF Waiting, serverVars, pipeVars
<1>4. TabState' /\ TabsOK' /\ NoOrphan'
  BY <1>1, TabsStay
<1>5. TypeOK'
  <2>1. shim' \in [Shims -> {"idle", "connecting", "connected", "asked", "wsl", "ended"}]
        /\ code' \in [Shims -> Nat \cup {Null}]
    BY <1>1
  <2>2. QED
    BY <1>4, <2>1, TypeIs DEF OtherState, serverVars, pipeVars
<1>6. OnePlace' /\ EndsOK'
  BY <1>3 DEF OnePlace, EndsOK, serverVars, pipeVars, wslVars
<1>7. ServingOK'
  BY <1>1, <1>2 DEF ServingOK, Waiting, serverVars, pipeVars, OtherState
<1>8. QueueOK'
  <2>1. \A z \in Shims : Queued(z) => shim'[z] \in {"asked", "ended"}
    BY <1>2 DEF QueueOK, Queued, Waiting
  <2>2. QED
    BY <2>1, QueueKept DEF wslVars
<1>9. PipesOK'
  <2> SUFFICES ASSUME NEW z \in Shims PROVE Pipe(z)'
    BY DEF PipesOK
  <2>1. (Given(z)' <=> Given(z)) /\ (InSession(z)' <=> InSession(z)) /\ Pipe(z)
    BY TabsStay DEF PipesOK
  <2>2. QED
    BY <1>2, <1>3, <2>1 DEF Pipe
<1>10. CodesOK'
  <2>1. v = "wsl" => s \notin running /\ ended[s] = NotEnded
    BY DEF Given
  <2>2. v = "ended" => code'[s] = c
    BY <1>1
  <2>3. \A z \in Shims \ {s} : code'[z] = code[z]
    BY <1>1
  <2>4. OneWsl'
    BY <1>2, <2>1 DEF CodesOK, OneWsl, wslVars
  <2>5. CodeIsTheSessions'
    BY <1>2, <2>2, <2>3 DEF CodesOK, CodeIsTheSessions, wslVars
  <2>6. QED
    BY <2>4, <2>5 DEF CodesOK
<1>11. QED
  BY <1>4, <1>5, <1>6, <1>7, <1>8, <1>9, <1>10

(* The steps of a shim.                                                    *)
LEMMA ShimSteps ==
  ASSUME IInv, NEW s \in Shims, ShimStep(s), ~Connect(s)
  PROVE  IInv'
<1> USE DEF IInv
<1>1. /\ Pipe(s) /\ reply[s] \in Replies /\ ended[s] \in [code : Codes \cup {Null}, failed : BOOLEAN]
      /\ origin \in [Shims -> Panes \cup {Null}]
  BY TypeIs DEF PipesOK, TabState, OtherState
<1>2. Null \in Nat \cup {Null} /\ NoAnswer \in Nat
  BY DEF NoAnswer
<1> DEFINE Moves(v, c) ==
      /\ shim' = [shim EXCEPT ![s] = v]
      /\ code' = code \/ code' = [code EXCEPT ![s] = c]
      /\ UNCHANGED <<reply, serverVars, queue, host, tabVars, wslVars>>
<1>3. ASSUME NEW p \in Panes, Start(s, p)
      PROVE  IInv'
  <2>1. Moves("connecting", Null) /\ shim[s] = "idle" /\ origin' \in [Shims -> Panes \cup {Null}]
    BY <1>1, <1>3 DEF Start
  <2>2. QED
    BY <1>1, <1>2, <2>1, ShimMoves DEF Pipe
<1>4. CASE GiveUp(s)
  <2>1. Moves("wsl", Null) /\ shim[s] = "connecting" /\ origin' = origin
    BY <1>4 DEF GiveUp, RunRealWsl
  <2>2. ~Given(s) /\ ~Waiting(s)
    BY <1>1, <2>1 DEF Pipe
  <2>3. QED
    BY <1>1, <1>2, <2>1, <2>2, ShimMoves
<1>5. CASE Write(s)
  <2>1. shim[s] = "connected" /\ origin' = origin
    BY <1>5 DEF Write
  <2>2. CASE reply[s] = NoReply
    <3>1. Moves("asked", Null)
      BY <1>5, <2>2 DEF Write
    <3>2. QED
      BY <1>1, <1>2, <2>1, <2>2, <3>1, ShimMoves
  <2>3. CASE reply[s] # NoReply
    <3>1. Moves("wsl", Null)
      BY <1>5, <2>3 DEF Write, RunRealWsl
    <3>2. ~Given(s) /\ ~Waiting(s)
      BY <1>1, <2>1, <2>3 DEF Pipe
    <3>3. QED
      BY <1>1, <1>2, <2>1, <2>3, <3>1, <3>2, ShimMoves
  <2>4. QED
    BY <2>2, <2>3
<1>6. CASE ReadReply(s)
  <2>1. shim[s] = "asked" /\ reply[s] # NoReply /\ origin' = origin /\ ~Waiting(s)
    BY <1>1, <1>6 DEF ReadReply, Pipe
  <2>2. CASE reply[s] = Refused
    <3>1. Moves("wsl", Null)
      BY <1>6, <2>2 DEF ReadReply, RunRealWsl, Refused, Explained, EndOfFile
    <3>2. ~Given(s)
      BY <1>1, <2>2, ReplyFacts DEF Pipe
    <3>3. QED
      BY <1>1, <1>2, <2>1, <3>1, <3>2, ShimMoves
  <2>3. CASE reply[s] \in {Explained, EndOfFile}
    <3>1. Moves("ended", NoAnswer) /\ code' = [code EXCEPT ![s] = NoAnswer]
      BY <1>6, <2>3 DEF ReadReply, Exit, Refused, Explained, EndOfFile
    <3>2. QED
      BY <1>1, <1>2, <2>1, <3>1, ShimMoves
  <2>4. CASE reply[s].kind = "done"
    <3>1. Moves("ended", reply[s].code) /\ code' = [code EXCEPT ![s] = reply[s].code]
      BY <1>6, <2>4, ReplyFacts DEF ReadReply, Exit
    <3>2. reply[s].code \in {Cut, ended[s].code} /\ reply[s].code \in Nat
      BY <1>1, <2>4 DEF EndsOK, Replies
    <3>3. QED
      BY <1>1, <1>2, <2>1, <3>1, <3>2, ShimMoves
  <2>5. QED
    BY <1>6, <2>2, <2>3, <2>4 DEF ReadReply
<1>7. CASE ConsoleClosed(s)
  <2>1. Moves("ended", Null) /\ code' = [code EXCEPT ![s] = Null] /\ origin' = origin
    BY <1>7 DEF ConsoleClosed, Exit
  <2>2. QED
    BY <1>1, <1>2, <2>1, ShimMoves
<1>8. QED
  BY <1>3, <1>4, <1>5, <1>6, <1>7 DEF ShimStep

(* A shim whose pipe the host leaves alone.                                *)
LEMMA PipeStays ==
  ASSUME NEW s, Pipe(s), shim'[s] = shim[s], reply'[s] = reply[s],
         Waiting(s)' <=> Waiting(s), Given(s)' <=> Given(s), InSession(s)' <=> InSession(s)
  PROVE  Pipe(s)'
BY DEF Pipe

(* A shim that is told that it gets no session.                            *)
LEMMA PipeClosed ==
  ASSUME NEW s, Pipe(s), Waiting(s), ~Waiting(s)', shim'[s] = shim[s],
         reply'[s] # NoReply, Given(s)' <=> Given(s), InSession(s)' <=> InSession(s)
  PROVE  Pipe(s)'
<1>1. ~InSession(s)
  BY DEF Pipe, Given, InSession
<1>2. QED
  BY <1>1 DEF Pipe

(* ConnectToHost puts a shim in the pending instance.                      *)
LEMMA ConnectStep ==
  ASSUME IInv, NEW s \in Shims, Connect(s)
  PROVE  IInv'
<1> USE DEF IInv
<1>1. /\ shim[s] = "connecting" /\ client = Null /\ client' = s
      /\ shim' = [shim EXCEPT ![s] = "connected"]
      /\ UNCHANGED <<origin, code, reply, serving, stage, server, ui, enabled,
                     queue, host, tabVars, wslVars>>
  BY DEF Connect
<1>2. OtherState /\ TabState /\ Pipe(s)
  BY TypeIs DEF PipesOK
<1>3. /\ shim' \in [Shims -> {"idle", "connecting", "connected", "asked", "wsl", "ended"}]
      /\ shim'[s] = "connected" /\ \A z \in Shims \ {s} : shim'[z] = shim[z]
  BY <1>1, <1>2 DEF OtherState
<1>4. ~Waiting(s) /\ ~Given(s) /\ ~InSession(s) /\ reply[s] = NoReply /\ s # Null
  BY <1>1, <1>2, Names DEF Pipe, InSession, Given
<1>5. \A z : Queued(z)' <=> Queued(z)
  BY <1>1, QueueStays
<1>6. TabState' /\ TabsOK' /\ NoOrphan'
  BY <1>1, <1>2, TabsStay DEF TabState
<1>7. TypeOK'
  BY <1>1, <1>2, <1>3, <1>6, TypeIs DEF OtherState
<1>8. OnePlace' /\ EndsOK'
  BY <1>1, <1>4, <1>5 DEF OnePlace, EndsOK, Waiting, wslVars
<1>9. ServingOK'
  BY <1>1, <1>3, <1>4, <1>2 DEF ServingOK, Waiting, OtherState
<1>10. QueueOK'
  <2>1. \A z \in Shims : Queued(z) => shim'[z] \in {"asked", "ended"}
    BY <1>3, <1>4 DEF QueueOK, Queued, Waiting
  <2>2. QED
    BY <1>1, <2>1, QueueKept DEF wslVars
<1>11. PipesOK'
  <2> SUFFICES ASSUME NEW z \in Shims PROVE Pipe(z)'
    BY DEF PipesOK
  <2>1. (Given(z)' <=> Given(z)) /\ (InSession(z)' <=> InSession(z)) /\ Pipe(z)
    BY <1>1, TabsStay DEF PipesOK
  <2>2. CASE z = s
    BY <1>1, <1>3, <1>4, <2>1, <2>2 DEF Pipe, Waiting
  <2>3. CASE z # s
    <3>1. Waiting(z)' <=> Waiting(z)
      BY <1>1, <1>5, <2>3, Names DEF Waiting
    <3>2. QED
      BY <1>1, <1>3, <2>1, <2>3, <3>1, PipeStays
  <2>4. QED
    BY <2>2, <2>3
<1>12. CodesOK'
  BY <1>1, <1>3 DEF CodesOK, OneWsl, CodeIsTheSessions, wslVars
<1>13. QED
  BY <1>6, <1>7, <1>8, <1>9, <1>10, <1>11, <1>12

(* The host closes pipes it has not served, and hands requests on.         *)
LEMMA ServerMoves ==
  ASSUME IInv, UNCHANGED <<shimVars, enabled, host, tabVars, wslVars>>,
         {client', serving'} \subseteq Shims \cup {Null},
         stage' \in {"idle", "accepted", "reading", "probing"},
         server' \in {"on", "off"}, ui' \in {"free", "joining"},
         reply' \in [Shims -> Replies],
         queue' \in Seq(Calls), OnePlace', QueueOK',
         serving' = Null <=> stage' = "idle",
         stage' = "probing" => shim[serving'] \in {"asked", "ended"},
         \A s \in Shims :
           \/ reply'[s] = reply[s] /\ (Waiting(s)' <=> Waiting(s))
           \/ Waiting(s) /\ ~Waiting(s)' /\ reply'[s].kind \in {"refused", "explained", "eof"}
  PROVE  IInv'
<1> USE DEF IInv
<1>1. TabState' /\ TabsOK' /\ NoOrphan'
  BY TabsStay
<1>2. TypeOK'
  BY <1>1, TypeIs DEF OtherState, shimVars
<1>3. ServingOK' /\ CodesOK'
  BY DEF ServingOK, CodesOK, OneWsl, CodeIsTheSessions, wslVars, shimVars
<1>4. EndsOK'
  BY DEF EndsOK, wslVars
<1>5. PipesOK'
  <2> SUFFICES ASSUME NEW s \in Shims PROVE Pipe(s)'
    BY DEF PipesOK
  <2>1. (Given(s)' <=> Given(s)) /\ (InSession(s)' <=> InSession(s)) /\ Pipe(s) /\ shim'[s] = shim[s]
    BY TabsStay DEF PipesOK, shimVars
  <2>2. CASE reply'[s] = reply[s] /\ (Waiting(s)' <=> Waiting(s))
    BY <2>1, <2>2, PipeStays
  <2>3. CASE Waiting(s) /\ ~Waiting(s)' /\ reply'[s].kind \in {"refused", "explained", "eof"}
    <3>1. reply'[s] # NoReply
      BY <2>3, ReplyFacts
    <3>2. QED
      BY <2>1, <2>3, <3>1, PipeClosed
  <2>4. QED
    BY <2>2, <2>3
<1>6. QED
  BY <1>1, <1>2, <1>3, <1>4, <1>5

(* The server thread is done with the shim it served.                      *)
LEMMA DismissStep ==
  ASSUME IInv, NEW r \in {Refused, Explained}, stage # "idle", Dismiss(r),
         UNCHANGED <<shimVars, client, server, ui, enabled, queue, host, tabVars, wslVars>>
  PROVE  IInv'
<1> USE DEF IInv
<1>1. reply' = Answered(serving, r) /\ serving' = Null /\ stage' = "idle"
  BY DEF Dismiss
<1>2. OtherState /\ reply \in [Shims -> Replies]
  BY TypeIs DEF TabState
<1>3. PICK s \in Shims : s = serving
  BY <1>2 DEF ServingOK, OtherState
<1>4. reply[s] = NoReply /\ Waiting(s) /\ s # Null
  BY <1>3, Names DEF PipesOK, Pipe, Waiting
<1>5. /\ reply' \in [Shims -> Replies] /\ reply'[s] = r
      /\ \A z \in Shims \ {s} : reply'[z] = reply[z]
  BY <1>1, <1>2, <1>3, <1>4, AnsweredIs, ReplyFacts
<1>6. \A z : Queued(z)' <=> Queued(z)
  BY QueueStays
<1>7. OnePlace'
  BY <1>1, <1>6, <1>2, Names DEF OnePlace, OtherState
<1>8. QueueOK'
  BY DEF QueueOK, shimVars, wslVars
<1>9. ~Waiting(s)'
  BY <1>1, <1>3, <1>4, <1>6 DEF OnePlace, Waiting
<1>10. \A z \in Shims \ {s} : Waiting(z)' <=> Waiting(z)
  BY <1>1, <1>3, <1>6, Names DEF Waiting
<1>11. r.kind \in {"refused", "explained", "eof"}
  BY ReplyFacts
<1>12. \A z \in Shims :
         \/ reply'[z] = reply[z] /\ (Waiting(z)' <=> Waiting(z))
         \/ Waiting(z) /\ ~Waiting(z)' /\ reply'[z].kind \in {"refused", "explained", "eof"}
  BY <1>4, <1>5, <1>9, <1>10, <1>11
<1>13. QED
  BY <1>1, <1>2, <1>5, <1>7, <1>8, <1>12, ServerMoves DEF OtherState

(* The steps of the server thread.                                         *)
LEMMA ServerSteps ==
  ASSUME IInv, ServerStep
  PROVE  IInv'
<1> USE DEF IInv
<1>1. OtherState /\ TabState
  BY TypeIs
<1>2. Null \notin Shims
  BY Names
<1>3. CASE Accept
  <2>1. /\ client # Null /\ serving = Null /\ serving' = client /\ client' = Null /\ stage' = "accepted"
        /\ UNCHANGED <<shimVars, reply, server, ui, enabled, queue, host, tabVars, wslVars>>
    BY <1>3 DEF Accept
  <2>2. \A z : Queued(z)' <=> Queued(z)
    BY <2>1, QueueStays
  <2>3. \A z \in Shims : Waiting(z)' <=> Waiting(z)
    BY <1>2, <2>1, <2>2 DEF Waiting
  <2>4. OnePlace' /\ QueueOK'
    BY <2>1, <2>2 DEF OnePlace, QueueOK, shimVars, wslVars
  <2>5. QED
    BY <1>1, <2>1, <2>3, <2>4, ServerMoves DEF OtherState, TabState
<1>4. CASE BeginServe
  <2>1. /\ stage = "accepted" /\ stage' = "reading"
        /\ UNCHANGED <<shimVars, reply, client, serving, server, ui, enabled,
                       queue, host, tabVars, wslVars>>
    BY <1>4 DEF BeginServe
  <2>2. \A z : (Queued(z)' <=> Queued(z)) /\ (Waiting(z)' <=> Waiting(z))
    BY <2>1, QueueStays DEF Waiting
  <2>3. OnePlace' /\ QueueOK'
    BY <2>1, <2>2 DEF OnePlace, QueueOK, shimVars, wslVars
  <2>4. QED
    BY <1>1, <2>1, <2>2, <2>3, ServerMoves DEF OtherState, TabState, ServingOK
<1>5. CASE ThreadEnds
  <2>1. /\ reply' = [s \in Shims |-> IF s \in {client, serving} THEN EndOfFile ELSE reply[s]]
        /\ client' = Null /\ serving' = Null /\ stage' = "idle" /\ server' = "off" /\ ui' = "free"
        /\ UNCHANGED <<shimVars, enabled, queue, host, tabVars, wslVars>>
    BY <1>5 DEF ThreadEnds
  <2>2. \A z : Queued(z)' <=> Queued(z)
    BY <2>1, QueueStays
  <2>3. OnePlace' /\ QueueOK'
    BY <2>1, <2>2 DEF OnePlace, QueueOK, shimVars, wslVars
  <2>4. \A z \in Shims :
          \/ reply'[z] = reply[z] /\ (Waiting(z)' <=> Waiting(z))
          \/ Waiting(z) /\ ~Waiting(z)' /\ reply'[z].kind \in {"refused", "explained", "eof"}
    <3> TAKE z \in Shims
    <3>1. Waiting(z)' <=> Queued(z)
      BY <1>2, <2>1, <2>2 DEF Waiting
    <3>2. CASE z \in {client, serving}
      <4>1. ~Queued(z)
        BY <1>2, <3>2 DEF OnePlace
      <4>2. reply'[z] = EndOfFile
        BY <2>1, <3>2
      <4>3. QED
        BY <3>1, <3>2, <4>1, <4>2, ReplyFacts DEF Waiting
    <3>3. CASE z \notin {client, serving}
      BY <2>1, <3>1, <3>3 DEF Waiting
    <3>4. QED
      BY <3>2, <3>3
  <2>5. reply' \in [Shims -> Replies]
    BY <1>1, <2>1, ReplyFacts DEF TabState
  <2>6. QED
    BY <1>1, <2>1, <2>3, <2>4, <2>5, ServerMoves DEF OtherState
<1>6. CASE ServeRequest
  <2>1. CASE \E r \in {Refused, Explained} : Dismiss(r)
    BY <1>6, <2>1, DismissStep DEF ServeRequest
  <2>2. CASE shim[serving] \in {"asked", "ended"} /\ stage' = "probing" /\ UNCHANGED <<reply, serving>>
    <3>1. /\ stage = "reading"
          /\ UNCHANGED <<shimVars, client, server, ui, enabled, queue, host, tabVars, wslVars>>
      BY <1>6 DEF ServeRequest
    <3>2. \A z : (Queued(z)' <=> Queued(z)) /\ (Waiting(z)' <=> Waiting(z))
      BY <2>2, <3>1, QueueStays DEF Waiting
    <3>3. OnePlace' /\ QueueOK'
      BY <2>2, <3>1, <3>2 DEF OnePlace, QueueOK, shimVars, wslVars
    <3>4. QED
      BY <1>1, <2>2, <3>1, <3>2, <3>3, ServerMoves DEF OtherState, TabState, ServingOK
  <2>3. QED
    BY <1>6, <2>1, <2>2 DEF ServeRequest
<1>7. CASE ProbeDone
  <2>1. /\ stage = "probing"
        /\ UNCHANGED <<shimVars, client, server, ui, enabled, host, tabVars, wslVars>>
    BY <1>7 DEF ProbeDone
  <2>2. CASE Dismiss(Explained) /\ UNCHANGED queue
    BY <2>1, <2>2, DismissStep
  <2>3. CASE queue' = Append(queue, Request("open", serving, Null)) /\ serving' = Null
             /\ stage' = "idle" /\ UNCHANGED reply
    <3> DEFINE r == Request("open", serving, Null)
    <3>1. serving \in Shims /\ serving # Null /\ shim[serving] \in {"asked", "ended"} /\ ~Queued(serving)
      BY <1>1, <2>1 DEF ServingOK, OtherState, OnePlace
    <3>2. r \in Calls /\ r.op = "open" /\ r.pane = serving
      BY <3>1, Names DEF Request, Calls
    <3> HIDE DEF r
    <3>3. queue \in Seq(Calls) /\ queue' = Append(queue, r)
      BY <1>1, <2>3 DEF OtherState, r
    <3>4. \A z : Queued(z)' <=> Queued(z) \/ z = serving
      BY <3>2, <3>3, QueueOpens
    <3>5. \A z \in Shims : Waiting(z)' <=> Waiting(z)
      BY <1>2, <2>1, <2>3, <3>1, <3>4 DEF Waiting
    <3>6. OnePlace'
      BY <2>1, <2>3, <3>1, <3>4 DEF OnePlace
    <3>7. QueueOK'
      BY <2>1, <3>1, <3>2, <3>3, QueueAdds DEF shimVars, wslVars
    <3>8. queue' \in Seq(Calls)
      BY <3>2, <3>3, QueueGrows
    <3>9. QED
      BY <1>1, <2>1, <2>3, <3>5, <3>6, <3>7, <3>8, ServerMoves DEF OtherState, TabState
  <2>4. QED
    BY <1>7, <2>2, <2>3 DEF ProbeDone
<1>8. QED
  BY <1>3, <1>4, <1>5, <1>6, <1>7 DEF ServerStep

(* Windows, options and requests change; panes, sessions and pipes do not. *)
LEMMA QuietStep ==
  ASSUME IInv, UNCHANGED <<shimVars, reply, pipeVars, host, pane, session, wslVars>>,
         server' \in {"on", "off"}, ui' \in {"free", "joining"}, enabled' \in BOOLEAN,
         home' \in [Shells -> Windows \cup {Null}], listed' \subseteq Shells,
         \A t \in Shells : home'[t] = Null <=> home[t] = Null,
         \A t \in listed' : home'[t] # Null,
         queue' \in Seq(Calls), QueueOK', \A z : Queued(z)' <=> Queued(z)
  PROVE  IInv'
<1> USE DEF IInv
<1>1. TypeOK'
  BY TypeIs DEF OtherState, TabState, shimVars, pipeVars, wslVars
<1>2. TabsOK' /\ NoOrphan'
  BY DEF TabsOK, NoOrphan, wslVars
<1>3. OnePlace' /\ ServingOK' /\ EndsOK' /\ CodesOK'
  BY DEF OnePlace, ServingOK, EndsOK, CodesOK, OneWsl, CodeIsTheSessions, pipeVars, shimVars, wslVars
<1>4. PipesOK'
  <2> SUFFICES ASSUME NEW s \in Shims PROVE Pipe(s)'
    BY DEF PipesOK
  <2>1. (Given(s)' <=> Given(s)) /\ (InSession(s)' <=> InSession(s))
    BY DEF Given, InSession, wslVars
  <2>2. Waiting(s)' <=> Waiting(s)
    BY DEF Waiting, pipeVars
  <2>3. QED
    BY <2>1, <2>2, PipeStays DEF PipesOK, shimVars
<1>5. QED
  BY <1>1, <1>2, <1>3, <1>4

(* A request that asks for no session joins the queue.                     *)
LEMMA RequestJoins ==
  ASSUME IInv, NEW op \in {"exited", "close"}, NEW p \in Panes, NEW w \in Windows \cup {Null},
         queue' = Append(queue, Request(op, p, w)), shim' = shim,
         op = "exited" => p \in Shims /\ ended'[p].code \in Codes,
         \A s \in Shims : ended[s].code \in Codes => ended'[s].code \in Codes
  PROVE  queue' \in Seq(Calls) /\ QueueOK' /\ \A z : Queued(z)' <=> Queued(z)
<1> USE DEF IInv
<1> DEFINE r == Request(op, p, w)
<1>1. r \in Calls /\ r.op = op /\ r.pane = p
  BY DEF Request, Calls
<1> HIDE DEF r
<1>2. queue \in Seq(Calls) /\ queue' = Append(queue, r)
  BY TypeIs DEF OtherState, r
<1>3. QueueOK'
  BY <1>1, <1>2, QueueAdds
<1>4. QED
  BY <1>1, <1>2, <1>3, QueueGrows, QueueNotifies

(* The steps of the UI thread that come from the user.                     *)
LEMMA UserSteps ==
  ASSUME IInv,
         \/ \E p \in Panes : CloseKey(p)
         \/ \E t \in Shells : TabStep(t)
         \/ ReloadConfig
  PROVE  IInv'
<1> USE DEF IInv
<1>1. OtherState /\ TabState /\ TabsOK
  BY TypeIs
<1>2. ASSUME NEW p \in Panes, CloseKey(p)
      PROVE  IInv'
  <2>1. PICK t \in InTree(p) : queue' = Append(queue, Request("close", p, home[t]))
    BY <1>2 DEF CloseKey
  <2>2. UNCHANGED <<shimVars, reply, serverVars, host, tabVars, wslVars>>
    BY <1>2 DEF CloseKey
  <2>3. home[t] \in Windows \cup {Null}
    BY <1>1 DEF InTree, TabState
  <2>4. queue' \in Seq(Calls) /\ QueueOK' /\ \A z : Queued(z)' <=> Queued(z)
    BY <2>1, <2>2, <2>3, RequestJoins DEF shimVars, wslVars
  <2>5. QED
    BY <1>1, <2>2, <2>4, QuietStep DEF serverVars, pipeVars, tabVars, OtherState, TabState, TabsOK
<1>3. ASSUME NEW t \in Shells, CloseTab(t) \/ Expire(t)
      PROVE  IInv'
  <2>1. UNCHANGED <<shimVars, serverVars, queue, host>> /\ home[t] # Null
    BY <1>1, <1>3 DEF CloseTab, Expire, TabsOK
  <2>2. TabChange(t)
    BY <1>1, <1>3, <2>1, ParkChanges, TearDownChanges DEF CloseTab, Expire
  <2>3. QED
    BY <2>1, <2>2, ChangeKeeps
<1>4. ASSUME NEW t \in Shells, UndoClose(t)
      PROVE  IInv'
  <2>1. /\ home[t] # Null /\ listed' = listed \cup {t}
        /\ UNCHANGED <<shimVars, reply, serverVars, queue, host, home, pane, session, wslVars>>
    BY <1>4 DEF UndoClose
  <2>2. QueueOK' /\ \A z : Queued(z)' <=> Queued(z)
    BY <2>1, QueueStays DEF QueueOK, shimVars, wslVars
  <2>3. QED
    BY <1>1, <2>1, <2>2, QuietStep DEF serverVars, pipeVars, OtherState, TabState, TabsOK
<1>5. ASSUME NEW t \in Shells, NEW w \in Windows, MoveTab(t, w)
      PROVE  IInv'
  <2>1. /\ t \in listed /\ home' = [home EXCEPT ![t] = w]
        /\ UNCHANGED <<shimVars, reply, serverVars, queue, host, listed, pane, session, wslVars>>
    BY <1>5 DEF MoveTab
  <2>2. QueueOK' /\ \A z : Queued(z)' <=> Queued(z)
    BY <2>1, QueueStays DEF QueueOK, shimVars, wslVars
  <2>3. /\ home' \in [Shells -> Windows \cup {Null}] /\ home'[t] # Null /\ home[t] # Null
        /\ \A u \in Shells \ {t} : home'[u] = home[u]
    BY <1>1, <2>1, Names DEF TabState, TabsOK
  <2>4. QED
    BY <1>1, <2>1, <2>2, <2>3, QuietStep DEF serverVars, pipeVars, OtherState, TabState, TabsOK
<1>6. CASE ReloadConfig
  <2>1. /\ enabled' \in BOOLEAN /\ server' \in {"on", "off"} /\ ui' \in {"free", "joining"}
        /\ UNCHANGED <<shimVars, reply, pipeVars, queue, host, tabVars, wslVars>>
    BY <1>1, <1>6 DEF ReloadConfig, OtherState
  <2>2. QueueOK' /\ \A z : Queued(z)' <=> Queued(z)
    BY <2>1, QueueStays DEF QueueOK, shimVars, wslVars
  <2>3. QED
    BY <1>1, <2>1, <2>2, QuietStep DEF tabVars, OtherState, TabState, TabsOK
<1>7. QED
  BY <1>2, <1>3, <1>4, <1>5, <1>6 DEF TabStep

(* The process in a pane ends.                                             *)
LEMMA ProcessEnds ==
  ASSUME IInv, NEW p \in running, NEW op \in {"exited", "close"}, running' = running \ {p},
         Notify(op, p), UNCHANGED <<shimVars, reply, serverVars, host, tabVars>>,
         \/ op = "close" /\ p \in Shells /\ ended' = ended
         \/ /\ op = "exited" /\ p \in Shims
            /\ \E c \in Codes, failed \in BOOLEAN :
                 ended' = [ended EXCEPT ![p] = [code |-> c, failed |-> failed]]
  PROVE  IInv'
<1> USE DEF IInv
<1>1. OtherState /\ TabState /\ p \in Panes
  BY TypeIs DEF TabState
<1>2. p \in Shims => ended[p] = NotEnded /\ ~Waiting(p) /\ shim[p] \in {"asked", "ended"}
  BY DEF EndsOK, PipesOK, Pipe, Given
<1>3. p \in Shims => ended'[p].code \in Codes /\ ended'[p] # NotEnded
  BY <1>1, Names DEF TabState, NotEnded
<1>4. \A z \in Shims \ {p} : ended'[z] = ended[z]
  BY <1>1 DEF TabState
<1>5. /\ ended' \in [Shims -> [code : Codes \cup {Null}, failed : BOOLEAN]]
  BY <1>1 DEF TabState
<1>6. queue' \in Seq(Calls) /\ QueueOK' /\ \A z : Queued(z)' <=> Queued(z)
  <2>1. \A z \in Shims : ended[z].code \in Codes => ended'[z].code \in Codes
    BY <1>3, <1>4
  <2>2. CASE queue' = queue
    <3>1. QueueOK'
      BY <2>1, <2>2 DEF QueueOK, shimVars
    <3>2. QED
      BY <1>1, <2>2, <3>1, QueueStays DEF OtherState
  <2>3. CASE \E t \in Owners(p) : queue' = Append(queue, Request(op, p, home[t]))
    <3>1. PICK t \in Owners(p) : queue' = Append(queue, Request(op, p, home[t]))
      BY <2>3
    <3>2. home[t] \in Windows \cup {Null}
      BY <1>1 DEF Owners, TabState
    <3>3. op = "exited" => p \in Shims /\ ended'[p].code \in Codes
      BY <1>3, Names
    <3>4. QED
      BY <1>1, <2>1, <3>1, <3>2, <3>3, RequestJoins DEF shimVars
  <2>4. QED
    BY <2>2, <2>3 DEF Notify
<1>7. TypeOK'
  BY <1>1, <1>5, <1>6, TypeIs DEF OtherState, TabState, shimVars, serverVars, pipeVars, tabVars
<1>8. TabsOK' /\ NoOrphan'
  BY DEF TabsOK, NoOrphan, tabVars
<1>9. OnePlace' /\ ServingOK'
  BY <1>6 DEF OnePlace, ServingOK, serverVars, pipeVars, shimVars
<1>10. \A z \in Shims : Given(z)' <=> Given(z)
  BY <1>3, <1>4 DEF Given, tabVars
<1>11. PipesOK'
  <2> SUFFICES ASSUME NEW s \in Shims PROVE Pipe(s)'
    BY DEF PipesOK
  <2>1. InSession(s)' <=> InSession(s)
    BY DEF InSession, tabVars
  <2>2. Waiting(s)' <=> Waiting(s)
    BY <1>6 DEF Waiting, serverVars, pipeVars
  <2>3. QED
    BY <1>10, <2>1, <2>2, PipeStays DEF PipesOK, shimVars
<1>12. EndsOK'
  BY <1>2, <1>4 DEF EndsOK
<1>13. CodesOK'
  <2>1. OneWsl'
    BY <1>2, <1>4 DEF CodesOK, OneWsl, shimVars
  <2>2. NotEnded.code = Null
    BY DEF NotEnded
  <2>3. CodeIsTheSessions'
    BY <1>2, <1>4, <2>2 DEF CodesOK, CodeIsTheSessions, shimVars
  <2>4. QED
    BY <2>1, <2>3 DEF CodesOK
<1>14. QED
  BY <1>6, <1>7, <1>8, <1>9, <1>11, <1>12, <1>13

(* The host ends, and takes every tab, process and pipe with it.           *)
LEMMA HostEndsStep ==
  ASSUME IInv, HostEnds
  PROVE  IInv'
<1> USE DEF IInv
<1>1. /\ host' = "gone" /\ server' = "off" /\ ui' = "free"
      /\ client' = Null /\ serving' = Null /\ stage' = "idle" /\ queue' = <<>>
      /\ home' = [t \in Shells |-> Null] /\ listed' = {}
      /\ session' = [t \in Shells |-> NoSession] /\ running' = {}
      /\ reply' = [s \in Shims |-> IF shim[s] \notin {"idle", "connecting"} /\ reply[s] = NoReply
                                   THEN EndOfFile ELSE reply[s]]
      /\ UNCHANGED <<shimVars, enabled, pane, ended>>
  BY DEF HostEnds
<1>2. OtherState /\ TabState /\ reply' \in [Shims -> Replies]
  BY <1>1, TypeIs, ReplyFacts DEF TabState
<1>3. queue' \in Seq(Calls) /\ QueueOK' /\ \A z : ~Queued(z)'
  BY <1>1 DEF QueueOK, Queued
<1>4. TypeOK'
  BY <1>1, <1>2, <1>3, TypeIs, NoSessionIs DEF OtherState, TabState, shimVars
<1>5. TabsOK' /\ OnePlace' /\ ServingOK' /\ NoOrphan'
  BY <1>1, <1>3, NoSessionIs DEF TabsOK, OnePlace, ServingOK, NoOrphan
<1>6. PipesOK'
  <2> SUFFICES ASSUME NEW s \in Shims PROVE Pipe(s)'
    BY DEF PipesOK
  <2>1. ~Waiting(s)' /\ ~InSession(s)' /\ (Given(s)' => Given(s))
    <3>1. s # Null /\ ~Waiting(s)'
      BY <1>1, <1>3, Names DEF Waiting
    <3>2. \A t \in Shells : session'[t].overlay = Null /\ ~session'[t].open
      BY <1>1, NoSessionIs
    <3>3. QED
      BY <1>1, <3>1, <3>2 DEF InSession, Given
  <2>2. reply'[s] = reply[s] \/ (reply'[s].kind = "eof" /\ shim[s] \notin {"idle", "connecting"})
    BY <1>1, ReplyFacts
  <2>3. shim[s] \notin {"idle", "connecting"} => reply'[s] # NoReply
    BY <1>1, ReplyFacts
  <2>4. QED
    BY <1>1, <2>1, <2>2, <2>3 DEF PipesOK, Pipe, shimVars
<1>7. EndsOK'
  <2>1. \A s \in Shims : reply'[s] = reply[s] \/ reply'[s].kind = "eof"
    BY <1>1, ReplyFacts
  <2>2. QED
    BY <1>1, <2>1 DEF EndsOK
<1>8. CodesOK'
  BY <1>1 DEF CodesOK, OneWsl, CodeIsTheSessions, shimVars
<1>9. QED
  BY <1>3, <1>4, <1>5, <1>6, <1>7, <1>8

(* The UI thread takes the request of a shim: no session, or one.          *)
LEMMA OpenStep ==
  ASSUME IInv, Deliver, NEW s \in Panes, Head(queue).op = "open", Head(queue).pane = s,
         OpenWslInPane(s)
  PROVE  IInv'
<1> USE DEF IInv
<1>1. /\ queue # <<>> /\ queue' = Tail(queue)
      /\ UNCHANGED <<shimVars, serverVars, host>>
  BY DEF Deliver
<1>2. OtherState /\ TabState /\ TabsOK
  BY TypeIs
<1>3. Queued(s) /\ Waiting(s) /\ s \in Shims
  BY <1>1, <1>2, QueueShrinks DEF OtherState, Queued, Waiting, QueueOK
<1>4. Pipe(s) /\ shim[s] \in {"asked", "ended"} /\ reply[s] = NoReply /\ ~Given(s)
  BY <1>3 DEF PipesOK, Pipe, QueueOK, Queued
<1>5. \A z : Queued(z)' <=> Queued(z) /\ z # s
  BY <1>1, <1>2, QueueServes DEF OtherState
<1>6. queue' \in Seq(Calls)
  BY <1>1, <1>2, QueueShrinks DEF OtherState
<1>7. ~Waiting(s)' /\ \A z \in Shims \ {s} : Waiting(z)' <=> Waiting(z)
  BY <1>1, <1>3, <1>5, Names DEF Waiting, OnePlace, serverVars, pipeVars
<1>8. OnePlace'
  BY <1>1, <1>5 DEF OnePlace, serverVars, pipeVars
<1>9. \A z \in Shims : Queued(z) => shim'[z] \in {"asked", "ended"}
  BY <1>1 DEF QueueOK, Queued, shimVars
<1>10. CASE reply' = Answered(s, Refused) /\ UNCHANGED <<tabVars, wslVars>>
  <2>1. QueueOK'
    BY <1>1, <1>9, <1>10, QueueKept DEF wslVars
  <2>2. /\ reply' \in [Shims -> Replies] /\ reply'[s] = Refused
        /\ \A z \in Shims \ {s} : reply'[z] = reply[z]
    BY <1>2, <1>3, <1>4, <1>10, AnsweredIs, ReplyFacts DEF TabState
  <2>3. Refused.kind \in {"refused", "explained", "eof"}
    BY ReplyFacts
  <2>4. \A z \in Shims :
          \/ reply'[z] = reply[z] /\ (Waiting(z)' <=> Waiting(z))
          \/ Waiting(z) /\ ~Waiting(z)' /\ reply'[z].kind \in {"refused", "explained", "eof"}
    BY <1>3, <1>7, <2>2, <2>3
  <2>5. QED
    BY <1>1, <1>2, <1>6, <1>8, <1>10, <2>1, <2>2, <2>4, ServerMoves
       DEF OtherState, ServingOK, serverVars, pipeVars
<1>11. ASSUME NEW t \in InTree(origin[s]), session[t].overlay # origin[s],
              session' = [session EXCEPT ![t] = [overlay |-> s, parked |-> origin[s], open |-> TRUE]],
              pane' = [pane EXCEPT ![t] = s], running' = running \cup {s},
              UNCHANGED <<home, listed, reply, ended>>
       PROVE  IInv'
  <2>1. t \in listed /\ t \in Shells /\ home[t] # Null /\ pane[t] = origin[s] /\ pane[t] \in Panes
    BY <1>2, <1>11 DEF InTree, TabState, TabsOK
  <2>2. session[t] = NoSession /\ session[t].overlay = Null /\ session[t].parked = Null
    BY <1>2, <1>11, <2>1, NoSessionIs DEF TabsOK
  <2> DEFINE new == [overlay |-> s, parked |-> origin[s], open |-> TRUE]
  <2>3. new \in Sessions /\ new.overlay = s /\ new.parked = pane[t] /\ new.open
    BY <1>3, <2>1 DEF Sessions
  <2> HIDE DEF new
  <2>4. /\ session' \in [Shells -> Sessions] /\ session'[t] = new
        /\ pane' \in [Shells -> Panes] /\ pane'[t] = s
        /\ \A u \in Shells \ {t} : session'[u] = session[u] /\ pane'[u] = pane[u]
    BY <1>2, <1>3, <1>11, <2>1, <2>3, Names DEF TabState, new
  <2>5. \A u \in Shells : session[u].overlay # s
    BY <1>4 DEF Given
  <2>6. TypeOK'
    BY <1>1, <1>2, <1>6, <1>11, <2>4, <1>3, Names, TypeIs
       DEF OtherState, TabState, shimVars, serverVars, pipeVars
  <2>7. TabsOK'
    <3>1. \A u \in listed' : home'[u] # Null
      BY <1>2, <1>11 DEF TabsOK
    <3>2. \A u \in Shells :
            /\ home'[u] = Null => session'[u] = NoSession
            /\ session'[u].overlay = Null => session'[u] = NoSession
            /\ session'[u].overlay # Null => pane'[u] = session'[u].overlay
      BY <1>2, <1>3, <1>11, <2>1, <2>3, <2>4, Names DEF TabsOK
    <3>3. \A u, v \in Shells :
            session'[u].overlay # Null /\ session'[u].overlay = session'[v].overlay => u = v
      BY <1>2, <2>3, <2>4, <2>5 DEF TabsOK
    <3>4. QED
      BY <3>1, <3>2, <3>3 DEF TabsOK
  <2>8. ServingOK' /\ QueueOK'
    BY <1>1, <1>9, <1>11, QueueKept DEF ServingOK, serverVars, pipeVars, shimVars
  <2>9. PipesOK'
    <3> SUFFICES ASSUME NEW z \in Shims PROVE Pipe(z)'
      BY DEF PipesOK
    <3>1. CASE z = s
      <4>1. reply'[s].kind = "none" /\ reply'[s] = NoReply
        BY <1>4, <1>11, ReplyFacts
      <4>2. InSession(s)'
        BY <2>1, <2>3, <2>4 DEF InSession
      <4>3. QED
        BY <1>1, <1>4, <1>7, <3>1, <4>1, <4>2 DEF Pipe, shimVars
    <3>2. CASE z # s
      <4>1. \A u \in Shells :
              /\ session'[u].overlay = z <=> session[u].overlay = z
              /\ session'[u].overlay = z => session'[u].open = session[u].open
        BY <2>2, <2>3, <2>4, <3>2, Names
      <4>2. (Given(z)' <=> Given(z)) /\ (InSession(z)' <=> InSession(z))
        BY <1>11, <3>2, <4>1 DEF Given, InSession
      <4>3. QED
        BY <1>1, <1>7, <1>11, <3>2, <4>2, PipeStays DEF PipesOK, shimVars
    <3>3. QED
      BY <3>1, <3>2
  <2>10. EndsOK'
    BY <1>4, <1>11 DEF EndsOK, Given
  <2>11. CodesOK'
    BY <1>1, <1>4, <1>11 DEF CodesOK, OneWsl, CodeIsTheSessions, shimVars
  <2>12. NoOrphan'
    <3> SUFFICES ASSUME NEW p \in running'
                 PROVE  \E u \in Shells : home'[u] # Null /\ p \in {pane'[u], session'[u].parked}
      BY DEF NoOrphan
    <3>1. CASE p = s
      BY <1>11, <2>1, <2>4, <3>1
    <3>2. CASE p \in running
      <4>1. PICK u \in Shells : home[u] # Null /\ p \in {pane[u], session[u].parked}
        BY <3>2 DEF NoOrphan
      <4>2. p # Null
        BY <1>2, <3>2, Names DEF TabState
      <4>3. QED
        BY <1>11, <2>1, <2>2, <2>3, <2>4, <4>1, <4>2
    <3>3. QED
      BY <1>11, <3>1, <3>2
  <2>13. QED
    BY <1>8, <2>6, <2>7, <2>8, <2>9, <2>10, <2>11, <2>12
<1>12. QED
  BY <1>10, <1>11 DEF OpenWslInPane

(* The UI thread takes a request off the queue.                            *)
LEMMA DeliverStep ==
  ASSUME IInv, Deliver
  PROVE  IInv'
<1> USE DEF IInv
<1>1. /\ queue # <<>> /\ queue' = Tail(queue)
      /\ UNCHANGED <<shimVars, serverVars, host>>
  BY DEF Deliver
<1>2. OtherState /\ TabState /\ TabsOK /\ queue \in Seq(Calls)
  BY TypeIs DEF OtherState
<1>3. PICK r \in Calls : r = Head(queue)
  BY <1>1, <1>2, QueueShrinks
<1>4. r.pane \in Panes
  BY DEF Calls
<1>5. CASE r.op = "open" /\ OpenWslInPane(r.pane)
  BY <1>3, <1>4, <1>5, OpenStep
<1>6. ASSUME r.op # "open",
             UNCHANGED <<reply, tabVars, wslVars>> \/ \E t \in Shells : TabChange(t)
      PROVE  IInv'
  <2>1. CASE \E t \in Shells : TabChange(t)
    BY <1>1, <1>3, <1>6, <2>1, ChangeKeeps
  <2>2. CASE UNCHANGED <<reply, tabVars, wslVars>>
    <3>1. \A s \in Shims : Queued(s) => shim'[s] \in {"asked", "ended"}
      BY <1>1 DEF QueueOK, Queued, shimVars
    <3>2. QueueOK'
      BY <1>1, <2>2, <3>1, QueueKept DEF wslVars
    <3>3. queue' \in Seq(Calls) /\ \A z : Queued(z)' <=> Queued(z)
      BY <1>1, <1>2, <1>3, <1>6, QueueShrinks, QueueServes
    <3>4. QED
      BY <1>1, <1>2, <2>2, <3>2, <3>3, QuietStep
         DEF serverVars, pipeVars, tabVars, OtherState, TabState, TabsOK
  <2>3. QED
    BY <1>6, <2>1, <2>2
<1>7. CASE r.op = "exited" /\ ChildExited(r.pane, r.window)
  <2>1. r.pane \in Shims /\ ended[r.pane].code \in Codes
    BY <1>1, <1>2, <1>3, <1>7, QueueShrinks DEF QueueOK
  <2>2. ended[r.pane] # NotEnded
    BY <2>1, Names DEF NotEnded
  <2>3. r.pane \notin running
    BY <2>1, <2>2 DEF EndsOK
  <2>4. QED
    BY <1>2, <1>6, <1>7, <2>1, <2>3, ExitedChanges
<1>8. CASE r.op = "close" /\ CloseSurface(r.pane, r.window)
  BY <1>2, <1>4, <1>6, <1>8, CloseChanges
<1>9. QED
  BY <1>3, <1>5, <1>7, <1>8 DEF Deliver

(* Nobody waits and no session is open at the start.                       *)
LEMMA InitHolds == Init => IInv
<1> SUFFICES ASSUME Init PROVE IInv
  OBVIOUS
<1> USE DEF Init
<1>1. TypeOK
  <2>1. queue \in Seq(Calls)
    BY DEF Calls
  <2>2. NotEnded \in [code : Codes \cup {Null}, failed : BOOLEAN]
    BY DEF NotEnded
  <2>3. TabState
    BY <2>2, NoSessionIs, ReplyFacts DEF TabState, Panes
  <2>4. OtherState
    BY <2>1, NamesAssumption DEF OtherState
  <2>5. QED
    BY <2>3, <2>4, TypeIs
<1>2. TabsOK /\ OnePlace /\ ServingOK
  BY NoSessionIs, Names DEF TabsOK, OnePlace, ServingOK
<1>3. QueueOK /\ \A z : ~Queued(z)
  BY DEF QueueOK, Queued
<1>4. \A s \in Shims : ~Waiting(s) /\ ~InSession(s) /\ ~Given(s)
  <2> TAKE s \in Shims
  <2>1. s # Null /\ s \notin running
    BY Names
  <2>2. \A t \in Shells : session[t].overlay = Null /\ ~session[t].open
    BY NoSessionIs
  <2>3. QED
    BY <1>3, <2>1, <2>2 DEF Waiting, InSession, Given
<1>5. PipesOK /\ EndsOK
  BY <1>4, ReplyFacts DEF PipesOK, Pipe, EndsOK
<1>6. CodesOK /\ NoOrphan
  BY Names DEF CodesOK, OneWsl, CodeIsTheSessions, NoOrphan
<1>7. QED
  BY <1>1, <1>2, <1>3, <1>5, <1>6 DEF IInv

(* Every step keeps the invariant. *)
LEMMA StepHolds == IInv /\ [Next]_vars => IInv'
<1> SUFFICES ASSUME IInv, [Next]_vars PROVE IInv'
  OBVIOUS
<1>1. ASSUME NEW s \in Shims, ShimStep(s) PROVE IInv'
  BY <1>1, ShimSteps, ConnectStep
<1>2. CASE ServerStep
  BY <1>2, ServerSteps
<1>3. CASE Deliver
  BY <1>3, DeliverStep
<1>4. CASE ReloadConfig
  BY <1>4, UserSteps
<1>5. CASE HostEnds
  BY <1>5, HostEndsStep
<1>6. ASSUME NEW p \in Panes, CloseKey(p) PROVE IInv'
  BY <1>6, UserSteps
<1>7. ASSUME NEW p \in Panes, ShellEnds(p) PROVE IInv'
  <2>1. /\ p \in running /\ p \in Shells /\ running' = running \ {p} /\ Notify("close", p)
        /\ UNCHANGED <<shimVars, reply, serverVars, host, tabVars>> /\ ended' = ended
    BY <1>7 DEF ShellEnds
  <2>2. QED
    BY <2>1, ProcessEnds
<1>8. ASSUME NEW t \in Shells, TabStep(t) PROVE IInv'
  BY <1>8, UserSteps
<1>9. ASSUME NEW s \in Shims, NEW c \in Codes, NEW failed \in BOOLEAN, WslEnds(s, c, failed)
      PROVE  IInv'
  <2>1. /\ s \in running /\ running' = running \ {s} /\ Notify("exited", s)
        /\ ended' = [ended EXCEPT ![s] = [code |-> c, failed |-> failed]]
        /\ UNCHANGED <<shimVars, reply, serverVars, host, tabVars>>
    BY <1>9 DEF WslEnds
  <2>2. QED
    BY <2>1, ProcessEnds
<1>10. CASE UNCHANGED vars
  <2>1. TabsOK' /\ OnePlace' /\ ServingOK' /\ QueueOK' /\ EndsOK' /\ CodesOK' /\ NoOrphan'
    BY <1>10, QueueStays
       DEF IInv, TabsOK, OnePlace, ServingOK, QueueOK, EndsOK, CodesOK, OneWsl, CodeIsTheSessions,
           NoOrphan, vars, shimVars, serverVars, pipeVars, tabVars, wslVars
  <2>2. QED
    BY <1>10, <2>1, QueueStays, QuietStep, TypeIs
       DEF IInv, OtherState, TabState, TabsOK, vars, serverVars, pipeVars, tabVars
<1>11. QED
  BY <1>1, <1>2, <1>3, <1>4, <1>5, <1>6, <1>7, <1>8, <1>9, <1>10 DEF Next

-----------------------------------------------------------------------------

(* Every behaviour of the bridge keeps the invariant.                      *)
THEOREM Invariance == Spec => []IInv
BY InitHolds, StepHolds, PTL DEF Spec

(* The variables keep their types.                                         *)
THEOREM TypeCorrect == Spec => []TypeOK
<1>1. IInv => TypeOK
  BY DEF IInv
<1>2. QED
  BY <1>1, Invariance, PTL

(* Whatever stops, reloads, closes and moves do, a connected shim without  *)
(* an answer is held by the server thread, the queue or a session of a tab *)
(* that still exists, and a pipe that was answered is held by nobody.      *)
THEOREM PipesAreHeld == Spec => []ShimHeld
<1>1. IInv => ShimHeld
  <2> SUFFICES ASSUME IInv, NEW s \in Shims
               PROVE  /\ shim[s] \in {"connected", "asked"} /\ reply[s] = NoReply => Held(s)
                      /\ Held(s) => reply[s] = NoReply
    BY DEF ShimHeld
  <2>1. Pipe(s) /\ TabsOK
    BY DEF IInv, PipesOK
  <2>2. \A t \in Shells : session[t].open => home[t] # Null
    BY <2>1, NoSessionIs DEF TabsOK
  <2>3. Held(s) <=> Waiting(s) \/ InSession(s)
    BY <2>2 DEF Held, Waiting, Queued, InSession
  <2>4. QED
    BY <2>1, <2>3 DEF Pipe
<1>2. QED
  BY <1>1, Invariance, PTL

(* A shim never starts the real wsl.exe once a session was opened for it.  *)
THEOREM WslRunsOnce == Spec => []OneWsl
<1>1. IInv => OneWsl
  BY DEF IInv, CodesOK
<1>2. QED
  BY <1>1, Invariance, PTL

(* The exit code a shell gets is that of its session, or 1.                *)
THEOREM CodesAreTrue == Spec => []CodeIsTheSessions
<1>1. IInv => CodeIsTheSessions
  BY DEF IInv, CodesOK
<1>2. QED
  BY <1>1, Invariance, PTL

(* No process runs on in a pane that nothing shows or gives back.          *)
THEOREM NobodyIsLost == Spec => []NoOrphan
<1>1. IInv => NoOrphan
  BY DEF IInv
<1>2. QED
  BY <1>1, Invariance, PTL
=============================================================================
