--------------------------- MODULE UndoParkProofs ---------------------------
(***************************************************************************)
(* What UndoPark guarantees for any set of tabs and any undo-timeouts.     *)
(***************************************************************************)
EXTENDS UndoPark, DataLemmas, SequenceTheorems, TLAPS

-----------------------------------------------------------------------------
(* The inductive invariant. *)

(* No tab has two homes, and every home is a tab's that was made. *)
Homes ==
  /\ tabs \cup away \cup ParkedTabs \subseteq born
  /\ away \cap (tabs \cup ParkedTabs) = {}

IInv ==
  /\ TypeOK /\ PanelInvariant /\ StripInvariant /\ Homes /\ SurfaceOwned
  /\ OnePanelShows /\ SlidingWindow /\ RedoCandidates /\ PressForgotten

-----------------------------------------------------------------------------
(* The parts of the operations. *)

(* A listed tab has a position, and it is there. *)
LEMMA PositionIs ==
  ASSUME TypeOK, NEW t \in ToSet(strip)
  PROVE  Position(t) \in 1 .. Len(strip) /\ strip[Position(t)] = t
<1>1. PICK i \in DOMAIN strip : strip[i] = t
  BY DEF ToSet
<1>2. Position(t) \in DOMAIN strip /\ strip[Position(t)] = t
  BY <1>1 DEF Position
<1>3. QED
  BY <1>2 DEF TypeOK

(* Taking an item out of the strip leaves the others, each once, and one   *)
(* of them selected.                                                       *)
LEMMA UnlistIs ==
  ASSUME TypeOK, NEW t \in ToSet(strip), Unlist(t),
         \A i, j \in DOMAIN strip : strip[i] = strip[j] => i = j,
         visible = {selected} \ {None},
         selected # None => selected \in ToSet(strip)
  PROVE  /\ strip' \in Seq(Tabs)
         /\ ToSet(strip') = ToSet(strip) \ {t}
         /\ \A i, j \in DOMAIN strip' : strip'[i] = strip'[j] => i = j
         /\ visible' = {selected'} \ {None}
         /\ selected' # None => selected' \in ToSet(strip')
<1>1. strip \in Seq(Tabs) /\ selected \in Tabs \cup {None}
  BY DEF TypeOK
<1>2. Position(t) \in 1 .. Len(strip) /\ strip[Position(t)] = t
  BY PositionIs
<1>3. strip' = RemoveAt(strip, Position(t))
  BY DEF Unlist
<1>4. strip' \in Seq(Tabs)
  BY <1>1, <1>2, <1>3, RemoveAtIs
<1>5. /\ ToSet(strip') = ToSet(strip) \ {t}
      /\ \A i, j \in DOMAIN strip' : strip'[i] = strip'[j] => i = j
  BY <1>1, <1>2, <1>3, RemoveAtSet
<1>6. /\ visible' = {selected'} \ {None}
      /\ selected' # None => selected' \in ToSet(strip')
  <2>1. CASE selected = t /\ Select(None)
    BY <2>1 DEF Select
  <2>2. CASE selected = t /\ \E s \in ToSet(strip') : Select(s)
    BY <2>2 DEF Select
  <2>3. CASE selected # t /\ visible' = visible \ {t} /\ UNCHANGED selected
    BY <1>5, <2>3
  <2>4. QED
    BY <2>1, <2>2, <2>3 DEF Unlist
<1>7. QED
  BY <1>4, <1>5, <1>6

(* Inserting an item that the strip does not list. *)
LEMMA ListIs ==
  ASSUME TypeOK, NEW t \in Tabs \ ToSet(strip), NEW at \in 0 .. Len(strip),
         strip' = InsertAt(strip, at + 1, t),
         \A i, j \in DOMAIN strip : strip[i] = strip[j] => i = j
  PROVE  /\ strip' \in Seq(Tabs)
         /\ ToSet(strip') = ToSet(strip) \cup {t}
         /\ \A i, j \in DOMAIN strip' : strip'[i] = strip'[j] => i = j
<1>1. strip \in Seq(Tabs) /\ at + 1 \in 1 .. Len(strip) + 1
  BY DEF TypeOK
<1>2. strip' \in Seq(Tabs)
  BY <1>1, InsertAtIs
<1>3. QED
  BY <1>1, <1>2, InsertAtSet

(* Parking appends one entry and gives every entry the same time. *)
LEMMA AppendEntry ==
  ASSUME TypeOK, NEW t \in Tabs, NEW n \in Nat,
         parked' = Append(Rearmed, [tab |-> t, index |-> n, left |-> undoTimeout]),
         t \notin ParkedTabs,
         \A i, j \in DOMAIN parked : parked[i].tab = parked[j].tab => i = j
  PROVE  /\ parked' \in Seq(Entries)
         /\ ParkedTabs' = ParkedTabs \cup {t}
         /\ \A i, j \in DOMAIN parked' : parked'[i].tab = parked'[j].tab => i = j
         /\ \A i \in DOMAIN parked' : parked'[i].left = undoTimeout
<1> DEFINE e == [tab |-> t, index |-> n, left |-> undoTimeout]
           r == Rearmed
<1>1. parked \in Seq(Entries) /\ undoTimeout \in Nat
  BY TimeoutsAssumption DEF TypeOK
<1>2. e \in Entries
  BY <1>1 DEF Entries
<1>3. /\ r \in Seq(Entries) /\ Len(r) = Len(parked)
      /\ \A i \in 1 .. Len(parked) : r[i].tab = parked[i].tab /\ r[i].left = undoTimeout
  <2>1. DOMAIN parked = 1 .. Len(parked) /\ Len(parked) \in Nat
    BY <1>1
  <2>2. ASSUME NEW i \in 1 .. Len(parked)
        PROVE  /\ r[i] \in Entries
               /\ r[i].tab = parked[i].tab /\ r[i].left = undoTimeout
    <3>1. parked[i] \in Entries /\ r[i] = [parked[i] EXCEPT !.left = undoTimeout]
      BY <1>1, <2>1 DEF Rearmed
    <3>2. QED
      BY <1>1, <3>1 DEF Entries
  <2>3. r = [i \in 1 .. Len(parked) |-> r[i]]
    BY <2>1 DEF Rearmed
  <2>4. r \in Seq(Entries) /\ Len(r) = Len(parked)
    BY <2>1, <2>2, <2>3
  <2>5. QED
    BY <2>2, <2>4
<1> HIDE DEF e, r
<1>4. parked' = Append(r, e) /\ e.tab = t /\ e.left = undoTimeout
  BY DEF e, r
<1>5. /\ parked' \in Seq(Entries) /\ DOMAIN parked' = 1 .. Len(parked) + 1
      /\ parked'[Len(parked) + 1] = e
      /\ \A i \in 1 .. Len(parked) : parked'[i] = r[i]
  <2> DEFINE q == Append(r, e)
  <2>1. /\ q \in Seq(Entries) /\ Len(q) = Len(r) + 1 /\ q[Len(r) + 1] = e
        /\ \A i \in 1 .. Len(r) : q[i] = r[i]
    BY <1>2, <1>3, AppendProperties
  <2>2. parked' = q
    BY <1>4
  <2> HIDE DEF q
  <2>3. DOMAIN q = 1 .. Len(parked) + 1
    BY <1>3, <2>1
  <2>4. q[Len(parked) + 1] = e /\ \A i \in 1 .. Len(parked) : q[i] = r[i]
    BY <1>3, <2>1
  <2>5. QED
    BY <2>1, <2>2, <2>3, <2>4, Zenon
<1>6. \A i \in DOMAIN parked' : parked'[i].left = undoTimeout
  BY <1>1, <1>3, <1>4, <1>5
<1>7. \A i \in 1 .. Len(parked) : parked[i].tab # t
  BY <1>1 DEF ParkedTabs
<1>8. ASSUME NEW i \in DOMAIN parked', NEW j \in DOMAIN parked',
             parked'[i].tab = parked'[j].tab
      PROVE  i = j
  <2>1. \A k \in DOMAIN parked' :
          \/ k = Len(parked) + 1 /\ parked'[k].tab = t
          \/ k \in 1 .. Len(parked) /\ parked'[k].tab = parked[k].tab
    <3>1. \A k \in 1 .. Len(parked) : parked'[k].tab = parked[k].tab
      BY <1>3, <1>5
    <3>2. parked'[Len(parked) + 1].tab = t
      BY <1>4, <1>5
    <3>3. \A k \in 1 .. Len(parked) + 1 : k = Len(parked) + 1 \/ k \in 1 .. Len(parked)
      BY <1>1
    <3>4. QED
      BY <1>5, <3>1, <3>2, <3>3, Zenon
  <2>2. CASE i \in 1 .. Len(parked) /\ j \in 1 .. Len(parked)
    <3>1. parked[i].tab = parked[j].tab
      BY <1>3, <1>5, <1>8, <2>2
    <3>2. i \in DOMAIN parked /\ j \in DOMAIN parked
      BY <1>1, <2>2
    <3>3. QED
      BY <3>1, <3>2, Zenon
  <2>3. CASE ~(i \in 1 .. Len(parked) /\ j \in 1 .. Len(parked))
    BY <1>7, <1>8, <2>1, <2>3, Zenon
  <2>4. QED
    BY <2>2, <2>3
<1>9. ParkedTabs' = ParkedTabs \cup {t}
  <2>1. \A i \in 1 .. Len(parked) : parked'[i].tab = parked[i].tab
    BY <1>3, <1>5
  <2>2. parked'[Len(parked) + 1].tab = t
    BY <1>4, <1>5
  <2>3. ASSUME NEW x PROVE x \in ParkedTabs' <=> x \in ParkedTabs \cup {t}
    BY <1>1, <1>5, <2>1, <2>2 DEF ParkedTabs
  <2>4. QED
    BY <2>3
<1>10. QED
  BY <1>5, <1>6, <1>8, <1>9

(* Taking one entry out leaves the others as they are. *)
LEMMA RemoveEntry ==
  ASSUME TypeOK, NEW i \in 1 .. Len(parked), parked' = RemoveAt(parked, i),
         \A j, k \in DOMAIN parked : parked[j].tab = parked[k].tab => j = k
  PROVE  /\ parked' \in Seq(Entries)
         /\ ParkedTabs' = ParkedTabs \ {parked[i].tab}
         /\ \A j, k \in DOMAIN parked' : parked'[j].tab = parked'[k].tab => j = k
         /\ \A j \in DOMAIN parked' : \E k \in DOMAIN parked : parked'[j] = parked[k]
<1>1. parked \in Seq(Entries) /\ DOMAIN parked = 1 .. Len(parked) /\ Len(parked) \in Nat
  BY DEF TypeOK
<1>2. /\ parked' \in Seq(Entries) /\ DOMAIN parked' = 1 .. Len(parked) - 1
      /\ \A j \in 1 .. Len(parked) - 1 :
           parked'[j] = IF j < i THEN parked[j] ELSE parked[j + 1]
  <2>1. /\ parked' \in Seq(Entries) /\ Len(parked') = Len(parked) - 1
        /\ \A j \in 1 .. Len(parked) - 1 :
             parked'[j] = IF j < i THEN parked[j] ELSE parked[j + 1]
    BY <1>1, RemoveAtIs
  <2>2. QED
    BY <2>1
<1>3. ASSUME NEW j \in DOMAIN parked'
      PROVE  \E k \in DOMAIN parked \ {i} : parked'[j] = parked[k]
  <2>1. CASE j < i
    BY <1>1, <1>2, <2>1
  <2>2. CASE j >= i
    <3>1. j + 1 \in DOMAIN parked \ {i} /\ parked'[j] = parked[j + 1]
      BY <1>1, <1>2, <2>2
    <3>2. QED
      BY <3>1
  <2>3. QED
    BY <1>2, <2>1, <2>2
<1>4. ASSUME NEW k \in DOMAIN parked \ {i}
      PROVE  \E j \in DOMAIN parked' : parked'[j] = parked[k]
  <2>1. CASE k < i
    <3>1. k \in DOMAIN parked' /\ parked'[k] = parked[k]
      BY <1>1, <1>2, <2>1
    <3>2. QED
      BY <3>1
  <2>2. CASE k > i
    <3>1. k - 1 \in DOMAIN parked' /\ parked'[k - 1] = parked[k]
      BY <1>1, <1>2, <2>2
    <3>2. QED
      BY <3>1
  <2>3. QED
    BY <1>1, <2>1, <2>2
<1>5. ParkedTabs' = ParkedTabs \ {parked[i].tab}
  <2>1. ASSUME NEW x \in ParkedTabs' PROVE x \in ParkedTabs \ {parked[i].tab}
    <3>1. PICK j \in DOMAIN parked' : x = parked'[j].tab
      BY <2>1 DEF ParkedTabs
    <3>2. PICK k \in DOMAIN parked \ {i} : parked'[j] = parked[k]
      BY <1>3
    <3>3. parked[k].tab # parked[i].tab
      BY <1>1
    <3>4. QED
      BY <3>1, <3>2, <3>3 DEF ParkedTabs
  <2>2. ASSUME NEW x \in ParkedTabs \ {parked[i].tab} PROVE x \in ParkedTabs'
    <3>1. PICK k \in DOMAIN parked \ {i} : x = parked[k].tab
      BY <2>2 DEF ParkedTabs
    <3>2. PICK j \in DOMAIN parked' : parked'[j] = parked[k]
      BY <1>4
    <3>3. QED
      BY <3>1, <3>2 DEF ParkedTabs
  <2>3. QED
    BY <2>1, <2>2
<1>6. ASSUME NEW j \in DOMAIN parked', NEW k \in DOMAIN parked', j < k,
             parked'[j].tab = parked'[k].tab
      PROVE  FALSE
  <2>1. CASE k < i
    BY <1>1, <1>2, <1>6, <2>1
  <2>2. CASE j < i /\ k >= i
    <3>1. parked'[j] = parked[j] /\ parked'[k] = parked[k + 1]
      BY <1>1, <1>2, <2>2
    <3>2. j \in DOMAIN parked /\ k + 1 \in DOMAIN parked /\ j # k + 1
      BY <1>1, <1>2, <1>6
    <3>3. QED
      BY <1>6, <3>1, <3>2
  <2>3. CASE j >= i
    <3>1. parked'[j] = parked[j + 1] /\ parked'[k] = parked[k + 1]
      BY <1>1, <1>2, <1>6, <2>3
    <3>2. j + 1 \in DOMAIN parked /\ k + 1 \in DOMAIN parked /\ j + 1 # k + 1
      BY <1>1, <1>2, <1>6
    <3>3. QED
      BY <1>6, <3>1, <3>2
  <2>4. QED
    BY <1>1, <1>2, <1>6, <2>1, <2>2, <2>3
<1>7. \A j, k \in DOMAIN parked' : parked'[j].tab = parked'[k].tab => j = k
  BY <1>2, <1>6
<1>8. \A j \in DOMAIN parked' : \E k \in DOMAIN parked : parked'[j] = parked[k]
  BY <1>3
<1>9. QED
  BY <1>2, <1>5, <1>7, <1>8

-----------------------------------------------------------------------------
(* The two ways a tab closes keep the invariant. *)

(* What a close leaves alone. *)
CloseFrame ==
  /\ UNCHANGED <<born, away, undoTimeout, awaiting, emptyCheck, exited>>
  /\ closeReq' \subseteq closeReq

(* A tab that is parked moves from the strip to the top of the stack with   *)
(* its panel and its surface, and every entry waits a whole timeout again.  *)
LEMMA ParkTabKeeps ==
  ASSUME IInv, phase = "open", NEW t \in tabs, NEW r \in Seq(Tabs), ParkTab(t, r), CloseFrame,
         \A i \in DOMAIN r : r[i] # t /\ r[i] \notin ParkedTabs,
         \A i, j \in DOMAIN r : r[i] = r[j] => i = j
  PROVE  IInv'
<1> USE DEF IInv, CloseFrame
<1>1. /\ strip' \in Seq(Tabs)
      /\ ToSet(strip') = tabs \ {t}
      /\ \A i, j \in DOMAIN strip' : strip'[i] = strip'[j] => i = j
      /\ visible' = {selected'} \ {None}
      /\ selected' # None => selected' \in tabs \ {t}
  BY UnlistIs DEF ParkTab, StripInvariant, OnePanelShows
<1>2. t \in Tabs /\ t \notin ParkedTabs
  BY DEF TypeOK, PanelInvariant
<1>3. Position(t) - 1 \in Nat
  BY PositionIs DEF StripInvariant
<1>4. /\ parked' \in Seq(Entries)
      /\ ParkedTabs' = ParkedTabs \cup {t}
      /\ \A i, j \in DOMAIN parked' : parked'[i].tab = parked'[j].tab => i = j
      /\ \A i \in DOMAIN parked' : parked'[i].left = undoTimeout
  BY <1>2, <1>3, AppendEntry DEF ParkTab, PanelInvariant
<1>5. undoTimeout \in Nat
  BY TimeoutsAssumption DEF TypeOK
<1>6. TypeOK'
  <2>1. pressed' \in Tabs \cup {None} /\ redo' \in Seq(Tabs) /\ armed' \in Nat /\ quiet' \in Nat
    BY <1>5 DEF ParkTab, Forget, TypeOK
  <2>2. selected' \in Tabs \cup {None} /\ visible' \subseteq Tabs /\ tabs' \subseteq Tabs
    BY <1>1 DEF ParkTab, TypeOK
  <2>3. QED
    BY <1>1, <1>4, <2>1, <2>2 DEF ParkTab, TypeOK
<1>7. PanelInvariant'
  BY <1>2, <1>4 DEF ParkTab, PanelInvariant
<1>8. StripInvariant'
  BY <1>1 DEF ParkTab, StripInvariant
<1>9. Homes'
  BY <1>2, <1>4 DEF ParkTab, Homes
<1>10. SurfaceOwned'
  BY <1>2, <1>4 DEF ParkTab, SurfaceOwned
<1>11. OnePanelShows'
  BY <1>1 DEF ParkTab, OnePanelShows
<1>12. SlidingWindow'
  BY <1>4, <1>5 DEF ParkTab, SlidingWindow
<1>13. RedoCandidates'
  BY <1>4 DEF ParkTab, RedoCandidates
<1>14. PressForgotten'
  BY DEF ParkTab, Forget, PressForgotten
<1>15. QED
  BY <1>6, <1>7, <1>8, <1>9, <1>10, <1>11, <1>12, <1>13, <1>14

(* A tab that is torn down leaves the strip, the panels and the surfaces    *)
(* together, unless it was the last and the window closes.                  *)
LEMMA TearDownTabKeeps ==
  ASSUME IInv, phase = "open", NEW t \in tabs, TearDownTab(t), CloseFrame
  PROVE  IInv'
<1> USE DEF IInv, CloseFrame
<1>1. /\ strip' \in Seq(Tabs)
      /\ ToSet(strip') = tabs \ {t}
      /\ \A i, j \in DOMAIN strip' : strip'[i] = strip'[j] => i = j
      /\ visible' = {selected'} \ {None}
      /\ selected' # None => selected' \in tabs \ {t}
  BY UnlistIs DEF TearDownTab, StripInvariant, OnePanelShows
<1>2. t \in Tabs /\ t \notin ParkedTabs /\ t \notin away
  BY DEF TypeOK, PanelInvariant, Homes
<1>3. /\ UNCHANGED <<parked, redo, armed, quiet>> /\ ParkedTabs' = ParkedTabs
      /\ attached' = attached \ {t}
      /\ pressed' = IF pressed = t THEN None ELSE pressed
  BY DEF TearDownTab, undoVars, ParkedTabs, Forget
<1>4. \/ phase' = "closing" /\ tabs' = tabs /\ panels' = panels
      \/ phase' = "open" /\ tabs' = tabs \ {t} /\ panels' = panels \ {t}
  BY DEF TearDownTab
<1>5. TypeOK'
  <2>1. selected' \in Tabs \cup {None} /\ visible' \subseteq Tabs /\ tabs' \subseteq Tabs
    BY <1>1, <1>4 DEF TypeOK
  <2>2. panels' \subseteq Tabs /\ phase' \in {"open", "closing", "closed"}
    BY <1>4 DEF TypeOK
  <2>3. QED
    BY <1>1, <1>3, <2>1, <2>2 DEF TypeOK
<1>6. PanelInvariant'
  BY <1>2, <1>3, <1>4 DEF PanelInvariant
<1>7. StripInvariant'
  BY <1>1, <1>4 DEF StripInvariant
<1>8. Homes'
  BY <1>3, <1>4 DEF Homes
<1>9. SurfaceOwned'
  BY <1>2, <1>3, <1>4 DEF SurfaceOwned
<1>10. OnePanelShows'
  BY <1>1, <1>4 DEF OnePanelShows
<1>11. SlidingWindow' /\ RedoCandidates'
  BY <1>3 DEF SlidingWindow, RedoCandidates
<1>12. PressForgotten'
  BY <1>3, <1>4 DEF PressForgotten
<1>13. QED
  BY <1>5, <1>6, <1>7, <1>8, <1>9, <1>10, <1>11, <1>12

-----------------------------------------------------------------------------
(* Every action keeps the invariant. *)

(* A window starts without tabs. *)
LEMMA InitKeeps == Init => IInv
<1> SUFFICES ASSUME Init PROVE IInv
  OBVIOUS
<1>1. ParkedTabs = {} /\ ToSet(strip) = {}
  BY DEF Init, ParkedTabs, ToSet
<1>2. TypeOK
  <2>1. strip \in Seq(Tabs) /\ parked \in Seq(Entries) /\ redo \in Seq(Tabs)
    BY EmptySeq DEF Init
  <2>2. /\ undoTimeout \in Timeouts /\ armed \in Nat /\ quiet \in Nat
        /\ emptyCheck \in BOOLEAN /\ phase \in {"open", "closing", "closed"}
    BY DEF Init
  <2>3. QED
    BY <2>1, <2>2 DEF Init, TypeOK
<1>3. PanelInvariant /\ StripInvariant /\ Homes /\ SurfaceOwned
  BY <1>1 DEF Init, PanelInvariant, StripInvariant, Homes, SurfaceOwned
<1>4. OnePanelShows /\ SlidingWindow /\ RedoCandidates /\ PressForgotten
  BY DEF Init, OnePanelShows, SlidingWindow, RedoCandidates, PressForgotten
<1>5. QED
  BY <1>2, <1>3, <1>4 DEF IInv

(* A new tab gets its item, its panel and its surface, and is nowhere else. *)
LEMMA CreateTabKeeps ==
  ASSUME IInv, NEW t \in Tabs, CreateTab(t)
  PROVE  IInv'
<1> USE DEF IInv, CreateTab, stripVars, ownerVars, undoVars, shellVars, restVars
<1>1. t \notin tabs \cup away \cup ParkedTabs
  BY DEF Homes
<1>2. ParkedTabs' = ParkedTabs
  BY DEF ParkedTabs
<1>3. /\ strip' \in Seq(Tabs)
      /\ ToSet(strip') = ToSet(strip) \cup {t}
      /\ \A i, j \in DOMAIN strip' : strip'[i] = strip'[j] => i = j
  <2>1. strip \in Seq(Tabs) /\ Len(strip) \in Nat /\ t \notin ToSet(strip)
    BY <1>1 DEF TypeOK, StripInvariant
  <2>2. strip' = InsertAt(strip, Len(strip) + 1, t)
    <3>1. SubSeq(strip, 1, Len(strip)) = strip
      BY <2>1, SubSeqFull
    <3>2. SubSeq(strip, Len(strip) + 1, Len(strip)) = <<>>
      BY <2>1, SubSeqEmpty
    <3>3. strip \o <<t>> \in Seq(Tabs)
      BY <2>1, ConcatProperties
    <3>4. (strip \o <<t>>) \o <<>> = strip \o <<t>>
      BY <3>3, ConcatEmptySeq
    <3>5. Append(strip, t) = strip \o <<t>>
      BY <2>1, AppendIsConcat
    <3>6. (Len(strip) + 1) - 1 = Len(strip)
      BY <2>1
    <3>7. QED
      BY <3>1, <3>2, <3>4, <3>5, <3>6 DEF InsertAt
  <2>3. QED
    BY <2>1, <2>2, ListIs DEF StripInvariant
<1>4. TypeOK'
  BY <1>3 DEF TypeOK
<1>5. PanelInvariant' /\ Homes' /\ SurfaceOwned'
  BY <1>1, <1>2 DEF PanelInvariant, Homes, SurfaceOwned
<1>6. StripInvariant' /\ OnePanelShows'
  BY <1>3 DEF StripInvariant, OnePanelShows
<1>7. SlidingWindow' /\ RedoCandidates' /\ PressForgotten'
  BY <1>2 DEF SlidingWindow, RedoCandidates, PressForgotten
<1>8. QED
  BY <1>4, <1>5, <1>6, <1>7

(* Selecting, reordering, pressing, a shell's end, a reload, and a close   *)
(* that only changes the phase: no tab changes its home.                   *)
LEMMA StayAtHomeKeeps ==
  ASSUME IInv,
         \/ \E t \in Tabs : FirstFrame(t) \/ GoToTab(t) \/ ShellExit(t) \/ PressHeader(t)
         \/ TakePress \/ CloseIfTornOutEmpty \/ RequestClose
         \/ \E n \in Timeouts : ReloadConfig(n)
         \/ UNCHANGED vars
  PROVE  IInv'
<1> USE DEF IInv, stripVars, ownerVars, undoVars, shellVars, restVars
<1>1. /\ UNCHANGED <<strip, tabs, panels, attached, parked, redo, born, away, armed, quiet>>
      /\ phase # "open" => phase' # "open"
  BY DEF FirstFrame, GoToTab, Select, ShellExit, PressHeader, TakePress, CloseIfTornOutEmpty,
         RequestClose, ReloadConfig, vars
<1>2. ParkedTabs' = ParkedTabs
  BY <1>1 DEF ParkedTabs
<1>3. \/ UNCHANGED <<selected, visible>>
      \/ selected' \in tabs /\ visible' = {selected'} \ {None}
  BY DEF FirstFrame, GoToTab, Select, ShellExit, PressHeader, TakePress, CloseIfTornOutEmpty,
         RequestClose, ReloadConfig, vars
<1>4. pressed' = pressed \/ pressed' = None \/ pressed' \in tabs
  BY DEF FirstFrame, GoToTab, Select, ShellExit, PressHeader, TakePress, CloseIfTornOutEmpty,
         RequestClose, ReloadConfig, vars
<1>5. TypeOK'
  <2>1. /\ exited' \subseteq Tabs /\ closeReq' \subseteq Tabs /\ undoTimeout' \in Timeouts
        /\ awaiting' \subseteq Tabs /\ emptyCheck' \in BOOLEAN
        /\ phase' \in {"open", "closing", "closed"}
    BY DEF TypeOK, FirstFrame, GoToTab, Select, ShellExit, PressHeader, TakePress,
           CloseIfTornOutEmpty, RequestClose, ReloadConfig, vars
  <2>2. selected' \in Tabs \cup {None} /\ visible' \subseteq Tabs /\ pressed' \in Tabs \cup {None}
    BY <1>3, <1>4 DEF TypeOK
  <2>3. QED
    BY <1>1, <2>1, <2>2 DEF TypeOK
<1>6. PanelInvariant' /\ StripInvariant' /\ Homes' /\ SurfaceOwned'
  BY <1>1, <1>2 DEF PanelInvariant, StripInvariant, Homes, SurfaceOwned
<1>7. OnePanelShows' /\ PressForgotten'
  BY <1>1, <1>3, <1>4 DEF OnePanelShows, PressForgotten
<1>8. SlidingWindow' /\ RedoCandidates'
  BY <1>1, <1>2 DEF SlidingWindow, RedoCandidates
<1>9. QED
  BY <1>5, <1>6, <1>7, <1>8

(* A reorder lists the same tabs, each once. *)
LEMMA MoveActiveTabKeeps ==
  ASSUME IInv, NEW target \in DOMAIN strip, MoveActiveTab(target)
  PROVE  IInv'
<1> USE DEF IInv, MoveActiveTab, Select, stripVars, ownerVars, undoVars, shellVars, restVars
<1> DEFINE short == RemoveAt(strip, Position(selected))
<1>1. /\ strip \in Seq(Tabs) /\ selected \in tabs /\ selected \in Tabs
      /\ \A i, j \in DOMAIN strip : strip[i] = strip[j] => i = j
  BY DEF TypeOK, StripInvariant, OnePanelShows
<1>2. Position(selected) \in 1 .. Len(strip) /\ strip[Position(selected)] = selected
  BY PositionIs DEF StripInvariant, OnePanelShows
<1>3. short \in Seq(Tabs) /\ Len(short) = Len(strip) - 1
  BY <1>1, <1>2, RemoveAtIs
<1>4. /\ ToSet(short) = ToSet(strip) \ {selected}
      /\ \A i, j \in DOMAIN short : short[i] = short[j] => i = j
  BY <1>1, <1>2, RemoveAtSet
<1>5. strip' = InsertAt(short, target, selected)
  OBVIOUS
<1> HIDE DEF short
<1>6. target \in 1 .. Len(short) + 1
  BY <1>1, <1>3
<1>7. strip' \in Seq(Tabs)
  BY <1>1, <1>3, <1>5, <1>6, InsertAtIs
<1>8. /\ ToSet(strip') = ToSet(short) \cup {selected}
      /\ \A i, j \in DOMAIN strip' : strip'[i] = strip'[j] => i = j
  BY <1>1, <1>3, <1>4, <1>5, <1>6, InsertAtSet
<1>9. ToSet(strip') = tabs
  BY <1>1, <1>4, <1>8 DEF StripInvariant
<1>10. ParkedTabs' = ParkedTabs
  BY DEF ParkedTabs
<1>11. TypeOK'
  BY <1>1, <1>7 DEF TypeOK
<1>12. PanelInvariant' /\ Homes' /\ SurfaceOwned' /\ PressForgotten'
  BY <1>10 DEF PanelInvariant, Homes, SurfaceOwned, PressForgotten
<1>13. StripInvariant' /\ OnePanelShows'
  BY <1>1, <1>8, <1>9 DEF StripInvariant, OnePanelShows
<1>14. SlidingWindow' /\ RedoCandidates'
  BY <1>10 DEF SlidingWindow, RedoCandidates
<1>15. QED
  BY <1>11, <1>12, <1>13, <1>14

(* The user's own close, of a tab or of its only pane, parks or tears down. *)
LEMMA CloseKeeps ==
  ASSUME IInv, NEW t \in Tabs, CloseTabByItem(t) \/ ClosePane(t) \/ DeliverClose(t)
  PROVE  IInv'
<1>1. CASE (CloseTabByItem(t) \/ ClosePane(t) \/ DeliverClose(t)) /\ t \in tabs
  <2>1. phase = "open" /\ CloseFrame
    BY <1>1 DEF CloseTabByItem, ClosePane, DeliverClose, CloseFrame, shellVars
  <2>2. ParkTab(t, <<>>) \/ TearDownTab(t)
    BY <1>1 DEF CloseTabByItem, ClosePane, DeliverClose, RemoveOnlyPane
  <2>3. CASE ParkTab(t, <<>>)
    <3>1. <<>> \in Seq(Tabs) /\ DOMAIN <<>> = {}
      BY EmptySeq
    <3>2. QED
      BY <1>1, <2>1, <2>3, <3>1, ParkTabKeeps
  <2>4. CASE TearDownTab(t)
    BY <1>1, <2>1, <2>4, TearDownTabKeeps
  <2>5. QED
    BY <2>2, <2>3, <2>4
<1>2. CASE DeliverClose(t) /\ t \notin tabs
  <2> USE <1>2 DEF IInv, DeliverClose, stripVars, undoVars
  <2>1. ParkedTabs' = ParkedTabs
    BY DEF ParkedTabs
  <2>2. TypeOK'
    BY DEF TypeOK
  <2>3. PanelInvariant' /\ Homes' /\ SurfaceOwned' /\ PressForgotten'
    BY <2>1 DEF PanelInvariant, Homes, SurfaceOwned, PressForgotten
  <2>4. StripInvariant' /\ OnePanelShows' /\ SlidingWindow' /\ RedoCandidates'
    BY <2>1 DEF StripInvariant, OnePanelShows, SlidingWindow, RedoCandidates
  <2>5. QED
    BY <2>2, <2>3, <2>4
<1>3. QED
  BY <1>1, <1>2 DEF CloseTabByItem, ClosePane

(* Undo takes the newest entry off the stack and lists its tab again; the   *)
(* tab becomes a redo candidate and was none before.                        *)
LEMMA UndoKeeps ==
  ASSUME IInv, Undo
  PROVE  IInv'
<1> USE DEF IInv, stripVars, undoVars, shellVars, restVars
<1> DEFINE n == Len(parked)
           t == parked[n].tab
<1>1. /\ parked \in Seq(Entries) /\ n \in 1 .. n /\ n \in Nat
      /\ Last(parked) = parked[n] /\ parked[n] \in Entries
      /\ DOMAIN parked = 1 .. n
  BY DEF Undo, TypeOK, Last
<1>2. t \in Tabs /\ t \in ParkedTabs /\ t \notin tabs /\ t \notin away
  BY <1>1 DEF Entries, ParkedTabs, PanelInvariant, Homes
<1>3. parked' = RemoveAt(parked, n)
  <2>1. parked' = SubSeq(parked, 1, n - 1)
    BY DEF Undo, Front
  <2>2. SubSeq(parked, n + 1, n) = <<>>
    BY <1>1, SubSeqEmpty
  <2>3. \A i \in 1 .. n - 1 : parked[i] \in Entries
    BY <1>1
  <2>4. SubSeq(parked, 1, n - 1) \in Seq(Entries)
    BY <1>1, <2>3, SubSeqProperties
  <2>5. SubSeq(parked, 1, n - 1) \o <<>> = SubSeq(parked, 1, n - 1)
    BY <2>4, ConcatEmptySeq
  <2>6. QED
    BY <2>1, <2>2, <2>5 DEF RemoveAt
<1>4. /\ parked' \in Seq(Entries)
      /\ ParkedTabs' = ParkedTabs \ {t}
      /\ \A j, k \in DOMAIN parked' : parked'[j].tab = parked'[k].tab => j = k
      /\ \A j \in DOMAIN parked' : \E k \in DOMAIN parked : parked'[j] = parked[k]
  BY <1>1, <1>3, RemoveEntry DEF PanelInvariant
<1>5. PICK at \in 0 .. Len(strip) : strip' = InsertAt(strip, at + 1, t)
  <2>1. parked[n].index \in Nat /\ Len(strip) \in Nat
    BY <1>1 DEF Entries, TypeOK
  <2>2. CASE parked[n].index <= Len(strip)
    BY <1>1, <2>1, <2>2 DEF Undo
  <2>3. CASE ~(parked[n].index <= Len(strip))
    BY <1>1, <2>1, <2>3 DEF Undo
  <2>4. QED
    BY <2>2, <2>3
<1>6. /\ tabs' = tabs \cup {t} /\ redo' = Append(redo, t)
      /\ selected' = t /\ visible' = {t} \ {None}
      /\ UNCHANGED <<panels, attached, born, away, armed, quiet, exited, closeReq, undoTimeout,
                     awaiting, emptyCheck, pressed, phase>>
      /\ phase = "open"
  BY <1>1 DEF Undo, Select
<1> HIDE DEF t, n
<1>7. /\ strip' \in Seq(Tabs)
      /\ ToSet(strip') = tabs'
      /\ \A i, j \in DOMAIN strip' : strip'[i] = strip'[j] => i = j
  BY <1>2, <1>5, <1>6, ListIs DEF StripInvariant
<1>8. /\ redo' \in Seq(Tabs) /\ DOMAIN redo' = 1 .. Len(redo) + 1 /\ Len(redo) \in Nat
      /\ \A i \in 1 .. Len(redo) : redo'[i] = redo[i]
      /\ redo'[Len(redo) + 1] = t
  <2> DEFINE q == Append(redo, t)
  <2>1. redo \in Seq(Tabs) /\ Len(redo) \in Nat
    BY DEF TypeOK
  <2>2. /\ q \in Seq(Tabs) /\ Len(q) = Len(redo) + 1 /\ q[Len(redo) + 1] = t
        /\ \A i \in 1 .. Len(redo) : q[i] = redo[i]
    BY <1>2, <2>1, AppendProperties
  <2>3. redo' = q
    BY <1>6
  <2> HIDE DEF q
  <2>4. DOMAIN q = 1 .. Len(redo) + 1
    BY <2>1, <2>2
  <2>5. QED
    BY <2>1, <2>2, <2>3, <2>4, Zenon
<1>9. RedoCandidates'
  <2>1. \A i \in 1 .. Len(redo) : redo[i] \notin ParkedTabs /\ redo[i] # t
    BY <1>2, <1>8 DEF RedoCandidates, TypeOK
  <2>2. \A i \in DOMAIN redo' : redo'[i] \notin ParkedTabs'
    BY <1>4, <1>8, <2>1
  <2>3. \A i, j \in 1 .. Len(redo) : redo[i] = redo[j] => i = j
    BY DEF RedoCandidates, TypeOK
  <2>4. \A i, j \in DOMAIN redo' : redo'[i] = redo'[j] => i = j
    BY <1>8, <2>1, <2>3
  <2>5. QED
    BY <2>2, <2>4 DEF RedoCandidates
<1>10. TypeOK'
  BY <1>2, <1>4, <1>6, <1>7, <1>8 DEF TypeOK
<1>11. PanelInvariant' /\ Homes' /\ SurfaceOwned' /\ PressForgotten'
  BY <1>2, <1>4, <1>6 DEF PanelInvariant, Homes, SurfaceOwned, PressForgotten
<1>12. StripInvariant' /\ OnePanelShows'
  BY <1>6, <1>7 DEF StripInvariant, OnePanelShows
<1>13. SlidingWindow'
  BY <1>4, <1>6 DEF SlidingWindow
<1>14. QED
  BY <1>9, <1>10, <1>11, <1>12, <1>13

(* Redo parks the newest candidate still listed, or only drops candidates. *)
LEMMA RedoKeeps ==
  ASSUME IInv, Redo
  PROVE  IInv'
<1>1. redo \in Seq(Tabs) /\ phase = "open" /\ CloseFrame
  BY DEF IInv, TypeOK, Redo, CloseFrame, shellVars
<1>2. ASSUME NEW i \in DOMAIN redo, NEW q, q = SubSeq(redo, 1, i - 1)
      PROVE  /\ q \in Seq(Tabs)
             /\ \A j \in DOMAIN q : q[j] # redo[i] /\ q[j] \notin ParkedTabs
             /\ \A j, k \in DOMAIN q : q[j] = q[k] => j = k
  <2>1. i \in 1 .. Len(redo) /\ Len(redo) \in Nat /\ DOMAIN redo = 1 .. Len(redo)
    BY <1>1
  <2>2. /\ q \in Seq(Tabs) /\ DOMAIN q = 1 .. i - 1
        /\ \A j \in 1 .. i - 1 : q[j] = redo[j] /\ j \in DOMAIN redo /\ j # i
    BY <1>1, <1>2, <2>1
  <2>3. QED
    BY <2>1, <2>2 DEF IInv, RedoCandidates
<1>3. CASE \E i \in DOMAIN redo : redo[i] \in tabs /\ ParkTab(redo[i], SubSeq(redo, 1, i - 1))
  <2>1. PICK i \in DOMAIN redo : redo[i] \in tabs /\ ParkTab(redo[i], SubSeq(redo, 1, i - 1))
    BY <1>3
  <2> DEFINE q == SubSeq(redo, 1, i - 1)
  <2>2. /\ q \in Seq(Tabs)
        /\ \A j \in DOMAIN q : q[j] # redo[i] /\ q[j] \notin ParkedTabs
        /\ \A j, k \in DOMAIN q : q[j] = q[k] => j = k
    BY <1>2
  <2>3. ParkTab(redo[i], q)
    BY <2>1
  <2> HIDE DEF q
  <2>4. QED
    BY <1>1, <2>1, <2>2, <2>3, ParkTabKeeps
<1>4. CASE /\ redo' = <<>> \/ \E i \in DOMAIN redo : redo' = SubSeq(redo, 1, i - 1)
           /\ UNCHANGED <<stripVars, tabs, panels, attached, parked, armed, quiet, pressed, phase>>
  <2> USE DEF IInv, CloseFrame, stripVars
  <2>1. ParkedTabs' = ParkedTabs
    BY <1>4 DEF ParkedTabs
  <2>2. redo' \in Seq(Tabs) /\ RedoCandidates'
    <3>1. CASE redo' = <<>>
      BY <3>1, EmptySeq DEF RedoCandidates
    <3>2. CASE \E i \in DOMAIN redo : redo' = SubSeq(redo, 1, i - 1)
      BY <1>2, <2>1, <3>2 DEF RedoCandidates
    <3>3. QED
      BY <1>4, <3>1, <3>2
  <2>3. TypeOK'
    BY <1>1, <1>4, <2>2 DEF TypeOK
  <2>4. PanelInvariant' /\ Homes' /\ SurfaceOwned' /\ PressForgotten'
    BY <1>1, <1>4, <2>1 DEF PanelInvariant, Homes, SurfaceOwned, PressForgotten
  <2>5. StripInvariant' /\ OnePanelShows' /\ SlidingWindow'
    BY <1>1, <1>4 DEF StripInvariant, OnePanelShows, SlidingWindow
  <2>6. QED
    BY <2>2, <2>3, <2>4, <2>5
<1>5. QED
  BY <1>3, <1>4 DEF Redo

(* A clock unit shortens every deadline by one at most, and the quiet time  *)
(* grows by one: the sliding window keeps its sum.                          *)
LEMMA ElapseKeeps ==
  ASSUME IInv, Elapse
  PROVE  IInv'
<1> USE DEF IInv
<1>1. parked \in Seq(Entries) /\ DOMAIN parked = 1 .. Len(parked) /\ Len(parked) \in Nat
  BY DEF TypeOK
<1>2. /\ UNCHANGED <<strip, selected, visible, tabs, panels, attached, born, away, redo, armed,
                     exited, closeReq, undoTimeout, awaiting, emptyCheck, pressed, phase>>
      /\ quiet' = quiet + 1
  BY DEF Elapse, stripVars, ownerVars, shellVars, restVars
<1>3. ASSUME NEW i \in DOMAIN parked
      PROVE  /\ parked'[i] \in Entries /\ parked'[i].tab = parked[i].tab
             /\ parked'[i].left + 1 >= parked[i].left
  <2>1. parked[i] \in Entries
    BY <1>1
  <2>2. parked'[i] = [parked[i] EXCEPT !.left = IF @ > 0 THEN @ - 1 ELSE 0]
    BY DEF Elapse
  <2>3. QED
    BY <2>1, <2>2 DEF Entries
<1>4. parked' \in Seq(Entries) /\ DOMAIN parked' = DOMAIN parked
  <2> DEFINE q == [i \in 1 .. Len(parked) |->
                     [parked[i] EXCEPT !.left = IF @ > 0 THEN @ - 1 ELSE 0]]
  <2>1. parked' = q
    BY <1>1 DEF Elapse
  <2>2. \A i \in 1 .. Len(parked) : q[i] \in Entries
    BY <1>1, <1>3, <2>1
  <2>3. q = [i \in 1 .. Len(parked) |-> q[i]]
    OBVIOUS
  <2> HIDE DEF q
  <2>4. q \in Seq(Entries) /\ DOMAIN q = 1 .. Len(parked)
    BY <1>1, <2>2, <2>3
  <2>5. QED
    BY <1>1, <2>1, <2>4
<1>5. ParkedTabs' = ParkedTabs
  BY <1>3, <1>4 DEF ParkedTabs
<1>6. TypeOK'
  BY <1>2, <1>4 DEF TypeOK
<1>7. PanelInvariant'
  BY <1>2, <1>3, <1>4, <1>5 DEF PanelInvariant
<1>8. Homes' /\ SurfaceOwned' /\ PressForgotten' /\ StripInvariant' /\ OnePanelShows'
  BY <1>2, <1>5 DEF Homes, SurfaceOwned, PressForgotten, StripInvariant, OnePanelShows
<1>9. SlidingWindow'
  <2>1. ASSUME NEW i \in DOMAIN parked PROVE parked'[i].left + quiet' >= armed'
    <3>1. /\ parked[i].left \in Nat /\ parked'[i].left \in Nat /\ quiet \in Nat /\ armed \in Nat
      <4>1. parked[i] \in Entries /\ parked'[i] \in Entries
        BY <1>1, <1>3
      <4>2. quiet \in Nat /\ armed \in Nat
        BY DEF TypeOK
      <4>3. \A e \in Entries : e.left \in Nat
        BY DEF Entries
      <4>4. QED
        BY <4>1, <4>2, <4>3
    <3>2. parked[i].left + quiet >= armed
      BY DEF SlidingWindow
    <3>3. QED
      BY <1>2, <1>3, <3>1, <3>2
  <2>2. QED
    BY <1>4, <2>1 DEF SlidingWindow
<1>10. RedoCandidates'
  BY <1>2, <1>5 DEF RedoCandidates
<1>11. QED
  BY <1>6, <1>7, <1>8, <1>9, <1>10

(* An entry that expires takes its panel and its surface along. *)
LEMMA ExpireKeeps ==
  ASSUME IInv, NEW i \in DOMAIN parked, Expire(i)
  PROVE  IInv'
<1> USE DEF IInv, Expire, stripVars, ownerVars, undoVars, shellVars, restVars
<1>1. i \in 1 .. Len(parked) /\ parked[i].tab \in ParkedTabs
  BY DEF TypeOK, ParkedTabs
<1>2. /\ parked' \in Seq(Entries)
      /\ ParkedTabs' = ParkedTabs \ {parked[i].tab}
      /\ \A j, k \in DOMAIN parked' : parked'[j].tab = parked'[k].tab => j = k
      /\ \A j \in DOMAIN parked' : \E k \in DOMAIN parked : parked'[j] = parked[k]
  BY <1>1, RemoveEntry DEF PanelInvariant
<1>3. TypeOK'
  BY <1>2 DEF TypeOK
<1>4. PanelInvariant' /\ Homes' /\ SurfaceOwned'
  BY <1>1, <1>2 DEF PanelInvariant, Homes, SurfaceOwned
<1>5. PressForgotten' /\ StripInvariant' /\ OnePanelShows'
  BY DEF PressForgotten, StripInvariant, OnePanelShows
<1>6. SlidingWindow' /\ RedoCandidates'
  BY <1>2 DEF SlidingWindow, RedoCandidates
<1>7. QED
  BY <1>3, <1>4, <1>5, <1>6

(* A tab that another window takes leaves the strip and the panels and      *)
(* keeps its surface.                                                       *)
LEMMA ReleaseTornOutTabKeeps ==
  ASSUME IInv, NEW t \in Tabs, ReleaseTornOutTab(t)
  PROVE  IInv'
<1> USE DEF IInv, ReleaseTornOutTab, undoVars, shellVars
<1>1. /\ strip' \in Seq(Tabs)
      /\ ToSet(strip') = tabs \ {t}
      /\ \A i, j \in DOMAIN strip' : strip'[i] = strip'[j] => i = j
      /\ visible' = {selected'} \ {None}
      /\ selected' # None => selected' \in tabs \ {t}
  BY UnlistIs DEF StripInvariant, OnePanelShows
<1>2. t \notin ParkedTabs /\ t \notin away /\ ParkedTabs' = ParkedTabs
  BY DEF PanelInvariant, Homes, ParkedTabs
<1>3. TypeOK'
  BY <1>1 DEF TypeOK
<1>4. PanelInvariant' /\ Homes' /\ SurfaceOwned' /\ PressForgotten'
  BY <1>2 DEF PanelInvariant, Homes, SurfaceOwned, PressForgotten
<1>5. StripInvariant' /\ OnePanelShows'
  BY <1>1 DEF StripInvariant, OnePanelShows
<1>6. SlidingWindow' /\ RedoCandidates'
  BY <1>2 DEF SlidingWindow, RedoCandidates
<1>7. QED
  BY <1>3, <1>4, <1>5, <1>6

(* A tab taken in is listed, shown and owned here and nowhere else. *)
LEMMA AdoptTornOutTabKeeps ==
  ASSUME IInv, NEW t \in Tabs, NEW at \in 0 .. Len(strip), AdoptTornOutTab(t, at)
  PROVE  IInv'
<1> USE DEF IInv, AdoptTornOutTab, Select, undoVars, shellVars, restVars
<1>1. t \notin tabs /\ t \notin ParkedTabs /\ ParkedTabs' = ParkedTabs
  BY DEF Homes, ParkedTabs
<1>2. /\ strip' \in Seq(Tabs)
      /\ ToSet(strip') = tabs'
      /\ \A i, j \in DOMAIN strip' : strip'[i] = strip'[j] => i = j
  BY <1>1, ListIs DEF StripInvariant
<1>3. TypeOK'
  BY <1>2 DEF TypeOK
<1>4. PanelInvariant' /\ Homes' /\ SurfaceOwned' /\ PressForgotten'
  BY <1>1 DEF PanelInvariant, Homes, SurfaceOwned, PressForgotten
<1>5. StripInvariant' /\ OnePanelShows'
  BY <1>2 DEF StripInvariant, OnePanelShows
<1>6. SlidingWindow' /\ RedoCandidates'
  BY <1>1 DEF SlidingWindow, RedoCandidates
<1>7. QED
  BY <1>3, <1>4, <1>5, <1>6

(* The end of a tab in another window frees its surface alone. *)
LEMMA EndAwayKeeps ==
  ASSUME IInv, NEW t \in Tabs, EndAway(t)
  PROVE  IInv'
<1> USE DEF IInv, EndAway, Forget, stripVars, undoVars, shellVars
<1>1. t \notin tabs /\ t \notin ParkedTabs /\ ParkedTabs' = ParkedTabs
  BY DEF Homes, ParkedTabs
<1>2. TypeOK'
  BY DEF TypeOK
<1>3. PanelInvariant' /\ Homes' /\ SurfaceOwned' /\ PressForgotten'
  BY <1>1 DEF PanelInvariant, Homes, SurfaceOwned, PressForgotten
<1>4. StripInvariant' /\ OnePanelShows' /\ SlidingWindow' /\ RedoCandidates'
  BY <1>1 DEF StripInvariant, OnePanelShows, SlidingWindow, RedoCandidates
<1>5. QED
  BY <1>2, <1>3, <1>4

(* The destroyed window keeps no panel, and its promises end with it. *)
LEMMA DestroyKeeps ==
  ASSUME IInv, Destroy
  PROVE  IInv'
<1> USE DEF IInv, Destroy, shellVars
<1>1. ParkedTabs' = {}
  BY DEF ParkedTabs
<1>2. strip' \in Seq(Tabs) /\ parked' \in Seq(Entries) /\ redo' \in Seq(Tabs)
  BY EmptySeq
<1>3. TypeOK'
  BY <1>2 DEF TypeOK
<1>4. PanelInvariant' /\ Homes' /\ SurfaceOwned' /\ PressForgotten'
  BY <1>1 DEF PanelInvariant, Homes, SurfaceOwned, PressForgotten
<1>5. StripInvariant' /\ OnePanelShows' /\ SlidingWindow' /\ RedoCandidates'
  BY DEF StripInvariant, OnePanelShows, SlidingWindow, RedoCandidates
<1>6. QED
  BY <1>3, <1>4, <1>5

(* No step of the window breaks the invariant. *)
LEMMA NextKeeps == IInv /\ [Next]_vars => IInv'
<1> SUFFICES ASSUME IInv, [Next]_vars PROVE IInv'
  OBVIOUS
<1>1. CASE \E t \in Tabs : TabStep(t)
  <2>1. PICK t \in Tabs : TabStep(t)
    BY <1>1
  <2>2. CASE CreateTab(t)
    BY <2>2, CreateTabKeeps
  <2>3. CASE FirstFrame(t) \/ GoToTab(t) \/ ShellExit(t) \/ PressHeader(t)
    BY <2>3, StayAtHomeKeeps
  <2>4. CASE CloseTabByItem(t) \/ ClosePane(t) \/ DeliverClose(t)
    BY <2>4, CloseKeeps
  <2>5. CASE ReleaseTornOutTab(t)
    BY <2>5, ReleaseTornOutTabKeeps
  <2>6. CASE EndAway(t)
    BY <2>6, EndAwayKeeps
  <2>7. CASE \E at \in 0 .. Len(strip) : AdoptTornOutTab(t, at)
    BY <2>7, AdoptTornOutTabKeeps
  <2>8. QED
    BY <2>1, <2>2, <2>3, <2>4, <2>5, <2>6, <2>7 DEF TabStep
<1>2. CASE \E target \in DOMAIN strip : MoveActiveTab(target)
  BY <1>2, MoveActiveTabKeeps
<1>3. CASE Undo
  BY <1>3, UndoKeeps
<1>4. CASE Redo
  BY <1>4, RedoKeeps
<1>5. CASE Elapse
  BY <1>5, ElapseKeeps
<1>6. CASE \E i \in DOMAIN parked : Expire(i)
  BY <1>6, ExpireKeeps
<1>7. CASE \/ CloseIfTornOutEmpty \/ TakePress \/ RequestClose
           \/ \E n \in Timeouts : ReloadConfig(n)
           \/ UNCHANGED vars
  BY <1>7, StayAtHomeKeeps
<1>8. CASE Destroy
  BY <1>8, DestroyKeeps
<1>9. QED
  BY <1>1, <1>2, <1>3, <1>4, <1>5, <1>6, <1>7, <1>8 DEF Next

-----------------------------------------------------------------------------
(* The theorems. *)

(* Every behaviour of the window keeps the invariant. *)
THEOREM Invariance == Spec => []IInv
<1>1. QED
  BY InitKeeps, NextKeeps, PTL DEF Spec

(* Every variable of the window keeps its type. *)
THEOREM TypeCorrect == Spec => []TypeOK
<1>1. IInv => TypeOK
  BY DEF IInv
<1>2. QED
  BY <1>1, Invariance, PTL

(* AppContent holds the panels of the open and the parked tabs             *)
(* (DebugAssertPanelInvariant never fails), and the strip lists the tabs,  *)
(* whatever the order of closes, undos, expiries, tear-outs and drops.     *)
THEOREM ContainersAlwaysAgree == Spec => []ContainersAgree
<1>1. IInv => ContainersAgree
  BY DEF IInv, ContainersAgree
<1>2. QED
  BY <1>1, Invariance, PTL

(* A surface lives exactly as long as some owner has its tab. *)
THEOREM SurfacesOwned == Spec => []SurfaceOwned
<1>1. IInv => SurfaceOwned
  BY DEF IInv
<1>2. QED
  BY <1>1, Invariance, PTL

(* One panel shows, the selected tab's. *)
THEOREM OneShows == Spec => []OnePanelShows
<1>1. IInv => OnePanelShows
  BY DEF IInv
<1>2. QED
  BY <1>1, Invariance, PTL

(* No entry of the undo stack is due before a whole undo-timeout has       *)
(* passed since the last close.                                            *)
THEOREM WindowSlides == Spec => []SlidingWindow
<1>1. IInv => SlidingWindow
  BY DEF IInv
<1>2. QED
  BY <1>1, Invariance, PTL

(* No tab is a redo candidate twice, nor while it waits for an undo. *)
THEOREM CandidatesRestored == Spec => []RedoCandidates
<1>1. IInv => RedoCandidates
  BY DEF IInv
<1>2. QED
  BY <1>1, Invariance, PTL

(* While the window is open the press slot pins no closed tab. *)
THEOREM PressNeverStale == Spec => []PressForgotten
<1>1. IInv => PressForgotten
  BY DEF IInv
<1>2. QED
  BY <1>1, Invariance, PTL

-----------------------------------------------------------------------------
(* The window keeps the promise of TabLife. *)

(* The tabs of a stack of entries. *)
TabsOf(q) == [i \in DOMAIN q |-> q[i].tab]

(* A surface is alive only with an owner, also while the window closes. *)
NoStray == attached \subseteq tabs \cup ParkedTabs \cup away

(* The tabs of the entries, position by position. *)
LEMMA TabsOfIs ==
  ASSUME NEW q \in Seq(Entries)
  PROVE  /\ TabsOf(q) \in Seq(Tabs) /\ Len(TabsOf(q)) = Len(q) /\ Len(q) \in Nat
         /\ DOMAIN q = 1 .. Len(q) /\ DOMAIN TabsOf(q) = 1 .. Len(q)
         /\ \A i \in 1 .. Len(q) : TabsOf(q)[i] = q[i].tab
<1>1. Len(q) \in Nat /\ DOMAIN q = 1 .. Len(q)
  OBVIOUS
<1>2. \A i \in 1 .. Len(q) : q[i].tab \in Tabs
  <2>1. \A e \in Entries : e.tab \in Tabs
    BY DEF Entries
  <2>2. QED
    BY <2>1
<1> DEFINE s == TabsOf(q)
<1>3. s = [i \in 1 .. Len(q) |-> s[i]] /\ \A i \in 1 .. Len(q) : s[i] = q[i].tab
  BY <1>1 DEF TabsOf
<1> HIDE DEF s
<1>4. s \in Seq(Tabs) /\ Len(s) = Len(q) /\ DOMAIN s = 1 .. Len(q)
  BY <1>1, <1>2, <1>3
<1>5. QED
  BY <1>1, <1>3, <1>4 DEF s

(* Removing an entry removes its tab. *)
LEMMA TabsOfRemoved ==
  ASSUME NEW q \in Seq(Entries), NEW i \in 1 .. Len(q)
  PROVE  RemoveAt(q, i) \in Seq(Entries) /\ TabsOf(RemoveAt(q, i)) = RemoveAt(TabsOf(q), i)
<1> DEFINE r == RemoveAt(q, i)
           s == RemoveAt(TabsOf(q), i)
<1>1. /\ r \in Seq(Entries) /\ Len(r) = Len(q) - 1
      /\ \A j \in 1 .. Len(q) - 1 : r[j] = IF j < i THEN q[j] ELSE q[j + 1]
  BY RemoveAtIs
<1>2. /\ TabsOf(q) \in Seq(Tabs) /\ Len(TabsOf(q)) = Len(q)
      /\ \A j \in 1 .. Len(q) : TabsOf(q)[j] = q[j].tab
  BY TabsOfIs
<1>3. /\ s \in Seq(Tabs) /\ Len(s) = Len(q) - 1
      /\ \A j \in 1 .. Len(q) - 1 : s[j] = IF j < i THEN TabsOf(q)[j] ELSE TabsOf(q)[j + 1]
  <2>1. i \in 1 .. Len(TabsOf(q))
    BY <1>2
  <2>2. QED
    BY <1>2, <2>1, RemoveAtIs
<1> HIDE DEF r, s
<1>4. /\ TabsOf(r) \in Seq(Tabs) /\ Len(TabsOf(r)) = Len(q) - 1
      /\ \A j \in 1 .. Len(q) - 1 : TabsOf(r)[j] = r[j].tab
  BY <1>1, TabsOfIs
<1>5. \A j \in 1 .. Len(TabsOf(r)) : TabsOf(r)[j] = s[j]
  <2> TAKE j \in 1 .. Len(TabsOf(r))
  <2>1. j \in 1 .. Len(q) - 1 /\ j \in 1 .. Len(q) /\ j + 1 \in 1 .. Len(q)
    BY <1>4
  <2>2. QED
    BY <1>1, <1>2, <1>3, <1>4, <2>1
<1>6. TabsOf(r) = s
  BY <1>3, <1>4, <1>5, SeqEqual
<1>7. QED
  BY <1>1, <1>6 DEF r, s

(* The front of a sequence is what is left without its last element. *)
LEMMA FrontIsRemoved ==
  ASSUME NEW S, NEW s \in Seq(S), s # <<>>
  PROVE  Front(s) = RemoveAt(s, Len(s)) /\ Len(s) \in 1 .. Len(s) /\ Last(s) = s[Len(s)]
<1>1. Len(s) \in Nat /\ Len(s) # 0 /\ Len(s) \in 1 .. Len(s)
  OBVIOUS
<1>2. SubSeq(s, Len(s) + 1, Len(s)) = <<>>
  BY <1>1, SubSeqEmpty
<1>3. \A i \in 1 .. Len(s) - 1 : s[i] \in S
  BY <1>1
<1>4. SubSeq(s, 1, Len(s) - 1) \in Seq(S)
  BY <1>1, <1>3, SubSeqProperties
<1>5. SubSeq(s, 1, Len(s) - 1) \o <<>> = SubSeq(s, 1, Len(s) - 1)
  BY <1>4, ConcatEmptySeq
<1>6. QED
  BY <1>1, <1>2, <1>5 DEF Front, Last, RemoveAt

(* Re-arming changes no tab, and a parked tab is on top. *)
LEMMA TabsOfParked ==
  ASSUME TypeOK, NEW t \in Tabs, NEW n \in Nat,
         parked' = Append(Rearmed, [tab |-> t, index |-> n, left |-> undoTimeout])
  PROVE  TabsOf(parked') = Append(TabsOf(parked), t)
<1> DEFINE e == [tab |-> t, index |-> n, left |-> undoTimeout]
           r == Rearmed
<1>1. parked \in Seq(Entries) /\ undoTimeout \in Nat
  BY TimeoutsAssumption DEF TypeOK
<1>2. /\ TabsOf(parked) \in Seq(Tabs) /\ Len(TabsOf(parked)) = Len(parked) /\ Len(parked) \in Nat
      /\ DOMAIN parked = 1 .. Len(parked)
      /\ \A i \in 1 .. Len(parked) : TabsOf(parked)[i] = parked[i].tab
  BY <1>1, TabsOfIs
<1>3. e \in Entries /\ e.tab = t
  BY <1>1 DEF Entries
<1>4. /\ r \in Seq(Entries) /\ Len(r) = Len(parked)
      /\ \A i \in 1 .. Len(parked) : r[i].tab = parked[i].tab
  <2>1. ASSUME NEW i \in 1 .. Len(parked)
        PROVE  r[i] \in Entries /\ r[i].tab = parked[i].tab
    <3>1. parked[i] \in Entries /\ r[i] = [parked[i] EXCEPT !.left = undoTimeout]
      BY <1>1, <1>2 DEF Rearmed
    <3>2. QED
      BY <1>1, <3>1 DEF Entries
  <2>2. r = [i \in 1 .. Len(parked) |-> r[i]]
    BY <1>2 DEF Rearmed
  <2>3. r \in Seq(Entries) /\ Len(r) = Len(parked)
    BY <1>2, <2>1, <2>2
  <2>4. QED
    BY <2>1, <2>3
<1> HIDE DEF e, r
<1> DEFINE q == Append(r, e)
           s == Append(TabsOf(parked), t)
<1>5. /\ q \in Seq(Entries) /\ Len(q) = Len(parked) + 1 /\ q[Len(parked) + 1].tab = t
      /\ \A i \in 1 .. Len(parked) : q[i].tab = parked[i].tab
  <2>1. /\ q \in Seq(Entries) /\ Len(q) = Len(r) + 1 /\ q[Len(r) + 1] = e
        /\ \A i \in 1 .. Len(r) : q[i] = r[i]
    BY <1>3, <1>4, AppendProperties
  <2> HIDE DEF q
  <2>2. QED
    BY <1>3, <1>4, <2>1
<1>6. /\ s \in Seq(Tabs) /\ Len(s) = Len(parked) + 1 /\ s[Len(parked) + 1] = t
      /\ \A i \in 1 .. Len(parked) : s[i] = parked[i].tab
  <2>1. /\ s \in Seq(Tabs) /\ Len(s) = Len(TabsOf(parked)) + 1 /\ s[Len(TabsOf(parked)) + 1] = t
        /\ \A i \in 1 .. Len(TabsOf(parked)) : s[i] = TabsOf(parked)[i]
    BY <1>2, AppendProperties
  <2> HIDE DEF s
  <2>2. QED
    BY <1>2, <2>1
<1>7. parked' = q
  BY DEF e, r
<1> HIDE DEF q, s
<1>8. /\ TabsOf(q) \in Seq(Tabs) /\ Len(TabsOf(q)) = Len(parked) + 1
      /\ \A i \in 1 .. Len(parked) + 1 : TabsOf(q)[i] = q[i].tab
  BY <1>5, TabsOfIs
<1>9. \A i \in 1 .. Len(TabsOf(q)) : TabsOf(q)[i] = s[i]
  <2> TAKE i \in 1 .. Len(TabsOf(q))
  <2>1. i \in 1 .. Len(parked) \/ i = Len(parked) + 1
    BY <1>2, <1>8
  <2>2. QED
    BY <1>2, <1>5, <1>6, <1>8, <2>1
<1>10. TabsOf(q) = s
  BY <1>6, <1>8, <1>9, SeqEqual
<1>11. QED
  BY <1>7, <1>10 DEF s

(* While the window closes nothing gains a surface.                        *)
LEMMA OwnersKept ==
  ASSUME IInv, NoStray, [Next]_vars
  PROVE  NoStray'
<1>1. IInv'
  BY NextKeeps
<1>2. CASE phase' = "open"
  BY <1>1, <1>2 DEF IInv, SurfaceOwned, NoStray
<1>3. CASE phase' # "open"
  <2>1. ASSUME NEW t \in Tabs, TabStep(t)
        PROVE  NoStray'
    <3>1. CASE CloseTabByItem(t) \/ ClosePane(t) \/ (DeliverClose(t) /\ t \in tabs)
      <4>1. /\ phase = "open" /\ away' = away
            /\ ParkTab(t, <<>>) \/ TearDownTab(t)
        BY <3>1 DEF CloseTabByItem, ClosePane, DeliverClose, RemoveOnlyPane
      <4>2. /\ tabs' = tabs /\ attached' \subseteq attached /\ parked' = parked
        BY <1>3, <4>1 DEF ParkTab, TearDownTab, undoVars
      <4>3. QED
        BY <4>1, <4>2 DEF NoStray, ParkedTabs
    <3>2. CASE EndAway(t)
      BY <3>2 DEF EndAway, undoVars, NoStray, ParkedTabs
    <3>3. QED
      BY <1>3, <2>1, <3>1, <3>2
         DEF TabStep, CreateTab, FirstFrame, GoToTab, ShellExit, DeliverClose, ReleaseTornOutTab,
             PressHeader, AdoptTornOutTab, restVars
  <2>2. CASE Redo
    BY <1>3, <2>2 DEF Redo, ParkTab
  <2>3. CASE CloseIfTornOutEmpty \/ TakePress \/ RequestClose \/ UNCHANGED vars
    BY <2>3 DEF CloseIfTornOutEmpty, TakePress, RequestClose, vars, ownerVars, undoVars,
                NoStray, ParkedTabs
  <2>4. CASE Destroy
    BY <2>4 DEF Destroy, NoStray
  <2>5. CASE \/ \E target \in DOMAIN strip : MoveActiveTab(target)
             \/ Undo \/ Elapse
             \/ \E i \in DOMAIN parked : Expire(i)
             \/ \E n \in Timeouts : ReloadConfig(n)
    BY <1>3, <2>5 DEF MoveActiveTab, Undo, Elapse, Expire, ReloadConfig, restVars
  <2>6. QED
    BY <2>1, <2>2, <2>3, <2>4, <2>5 DEF Next
<1>4. QED
  BY <1>2, <1>3

(* What TabLife sees of the window. *)
LEMMA LifeIs ==
  /\ Life!vars = <<tabs \cap attached, TabsOf(parked), away, born \ attached>>
  /\ Life!vars' = <<tabs' \cap attached', TabsOf(parked'), away', born' \ attached'>>
  /\ ToSet(TabsOf(parked)) = ParkedTabs
  /\ Life!Known = (tabs \cap attached) \cup ParkedTabs \cup away \cup (born \ attached)
<1>1. /\ Life!vars = <<tabs \cap attached, TabsOf(parked), away, born \ attached>>
      /\ Life!vars' = <<tabs' \cap attached', TabsOf(parked'), away', born' \ attached'>>
  BY DEF Life!vars, TabsOf
<1>2. ToSet(TabsOf(parked)) = ParkedTabs
  BY DEF ToSet, TabsOf, ParkedTabs
<1>3. Life!Known = (tabs \cap attached) \cup ToSet(TabsOf(parked)) \cup away \cup (born \ attached)
  BY DEF Life!Known, Life!ToSet, ToSet, TabsOf
<1>4. QED
  BY <1>1, <1>2, <1>3

(* A step that keeps the homes and the surfaces is none for TabLife. *)
LEMMA LifeStays ==
  ASSUME UNCHANGED <<tabs, attached, away, born>>, TabsOf(parked') = TabsOf(parked)
  PROVE  UNCHANGED Life!vars
BY LifeIs

(* The two ways a tab closes are those of TabLife. *)
LEMMA LifeCloses ==
  ASSUME IInv, phase = "open", NEW t \in tabs, NEW r, UNCHANGED <<away, born>>,
         ParkTab(t, r) \/ TearDownTab(t)
  PROVE  Life!Park(t) \/ Life!Close(t)
<1> USE DEF IInv
<1>1. /\ t \in Tabs /\ t \in attached /\ t \in born /\ t \notin ParkedTabs /\ t \notin away
  BY DEF TypeOK, SurfaceOwned, Homes, PanelInvariant
<1>2. CASE ParkTab(t, r)
  <2>1. Position(t) - 1 \in Nat
    BY PositionIs DEF StripInvariant
  <2>2. TabsOf(parked') = Append(TabsOf(parked), t)
    BY <1>1, <1>2, <2>1, TabsOfParked DEF ParkTab
  <2>3. tabs' = tabs \ {t} /\ attached' = attached
    BY <1>2 DEF ParkTab
  <2>4. QED
    BY <1>1, <2>2, <2>3 DEF Life!Park, TabsOf
<1>3. CASE TearDownTab(t)
  <2>1. attached' = attached \ {t} /\ (tabs' = tabs \/ tabs' = tabs \ {t}) /\ parked' = parked
    BY <1>3 DEF TearDownTab, undoVars
  <2>2. tabs' \cap attached' = (tabs \cap attached) \ {t}
    BY <2>1
  <2>3. born' \ attached' = (born \ attached) \cup {t}
    BY <1>1, <2>1
  <2>4. QED
    BY <1>1, <2>1, <2>2, <2>3 DEF Life!Close
<1>4. QED
  BY <1>2, <1>3

(* Every step of the window is a step of TabLife or none.                  *)
LEMMA LifeSteps ==
  ASSUME IInv, NoStray, [Next]_vars
  PROVE  [Life!Next]_(Life!vars)
<1> USE DEF IInv
<1>1. parked \in Seq(Entries) /\ DOMAIN parked = 1 .. Len(parked) /\ Len(parked) \in Nat
  BY DEF TypeOK
<1>2. ASSUME NEW t \in Tabs, CreateTab(t)
      PROVE  Life!Next
  <2>1. /\ t \notin born /\ tabs' = tabs \cup {t} /\ attached' = attached \cup {t}
        /\ born' = born \cup {t} /\ away' = away /\ parked' = parked
    BY <1>2 DEF CreateTab, undoVars
  <2>2. t \notin Life!Known
    BY <2>1, LifeIs DEF Homes
  <2>3. /\ tabs' \cap attached' = (tabs \cap attached) \cup {t}
        /\ born' \ attached' = born \ attached
    BY <2>1, <2>2, LifeIs DEF NoStray, Homes
  <2>4. Life!Open(t)
    BY <2>1, <2>2, <2>3 DEF Life!Open
  <2>5. QED
    BY <2>4 DEF Life!Next
<1>3. ASSUME NEW t \in Tabs, CloseTabByItem(t) \/ ClosePane(t) \/ (DeliverClose(t) /\ t \in tabs)
      PROVE  Life!Next
  <2>1. /\ phase = "open" /\ t \in tabs /\ UNCHANGED <<away, born>>
        /\ ParkTab(t, <<>>) \/ TearDownTab(t)
    BY <1>3 DEF CloseTabByItem, ClosePane, DeliverClose, RemoveOnlyPane
  <2>2. QED
    BY <2>1, LifeCloses DEF Life!Next
<1>4. CASE Undo
  <2> DEFINE n == Len(parked)
             t == parked[n].tab
  <2>1. /\ phase = "open" /\ parked # <<>> /\ parked' = Front(parked)
        /\ tabs' = tabs \cup {Last(parked).tab} /\ UNCHANGED <<attached, born, away>>
    BY <1>4 DEF Undo
  <2>2. n \in 1 .. n /\ Front(parked) = RemoveAt(parked, n) /\ Last(parked) = parked[n]
    BY <1>1, <2>1, FrontIsRemoved
  <2>3. /\ TabsOf(parked) \in Seq(Tabs) /\ Len(TabsOf(parked)) = n
        /\ TabsOf(parked)[n] = t /\ TabsOf(parked) # <<>>
    BY <1>1, <2>2, TabsOfIs
  <2>4. TabsOf(parked') = Front(TabsOf(parked)) /\ Last(TabsOf(parked)) = t
    BY <1>1, <2>1, <2>2, <2>3, TabsOfRemoved, FrontIsRemoved
  <2>5. t \in attached
    BY <1>1, <2>1, <2>2 DEF SurfaceOwned, ParkedTabs
  <2> HIDE DEF n, t
  <2>6. tabs' \cap attached' = (tabs \cap attached) \cup {Last(TabsOf(parked))}
    BY <2>1, <2>2, <2>4, <2>5 DEF t
  <2>7. Life!Restore
    BY <2>1, <2>3, <2>4, <2>6 DEF Life!Restore, Life!Front, Life!Last, Front, Last, TabsOf
  <2>8. QED
    BY <2>7 DEF Life!Next
<1>5. CASE Redo
  <2>1. CASE \E i \in DOMAIN redo : redo[i] \in tabs /\ ParkTab(redo[i], SubSeq(redo, 1, i - 1))
    <3>1. PICK i \in DOMAIN redo : redo[i] \in tabs /\ ParkTab(redo[i], SubSeq(redo, 1, i - 1))
      BY <2>1
    <3>2. phase = "open" /\ UNCHANGED <<away, born>> /\ redo[i] \in Tabs
      BY <1>5, <3>1 DEF Redo, TypeOK
    <3>3. QED
      BY <3>1, <3>2, LifeCloses DEF Life!Next
  <2>2. CASE UNCHANGED <<tabs, attached, parked, away, born>>
    BY <2>2, LifeStays
  <2>3. QED
    BY <1>5, <2>1, <2>2 DEF Redo
<1>6. CASE Elapse
  <2>1. /\ UNCHANGED <<tabs, attached, away, born>>
        /\ parked' = [i \in DOMAIN parked |->
                        [parked[i] EXCEPT !.left = IF @ > 0 THEN @ - 1 ELSE 0]]
    BY <1>6 DEF Elapse, ownerVars
  <2>2. \A i \in DOMAIN parked : parked'[i].tab = parked[i].tab
    <3> TAKE i \in DOMAIN parked
    <3>1. parked[i] \in Entries /\ parked'[i] = [parked[i] EXCEPT !.left = IF @ > 0 THEN @ - 1 ELSE 0]
      BY <1>1, <2>1
    <3>2. QED
      BY <3>1 DEF Entries
  <2>3. DOMAIN parked' = DOMAIN parked
    BY <2>1
  <2>4. TabsOf(parked') = TabsOf(parked)
    BY <2>2, <2>3 DEF TabsOf
  <2>5. QED
    BY <2>1, <2>4, LifeStays
<1>7. ASSUME NEW i \in DOMAIN parked, Expire(i)
      PROVE  Life!Next
  <2>1. /\ phase = "open" /\ parked' = RemoveAt(parked, i) /\ attached' = attached \ {parked[i].tab}
        /\ UNCHANGED <<tabs, away, born>>
    BY <1>7 DEF Expire
  <2>2. /\ TabsOf(parked') = RemoveAt(TabsOf(parked), i) /\ TabsOf(parked)[i] = parked[i].tab
        /\ DOMAIN TabsOf(parked) = DOMAIN parked
    BY <1>1, <2>1, TabsOfRemoved, TabsOfIs
  <2>3. parked[i].tab \in ParkedTabs
    BY DEF ParkedTabs
  <2>4. parked[i].tab \notin tabs /\ parked[i].tab \in born
    BY <2>3 DEF PanelInvariant, Homes
  <2>5. /\ tabs' \cap attached' = tabs \cap attached
        /\ born' \ attached' = (born \ attached) \cup {TabsOf(parked)[i]}
    BY <2>1, <2>2, <2>4
  <2>6. Life!Expire(i)
    BY <2>1, <2>2, <2>5 DEF Life!Expire, Life!RemoveAt, RemoveAt, TabsOf
  <2>7. QED
    BY <2>2, <2>6 DEF Life!Next, TabsOf
<1>8. ASSUME NEW t \in Tabs, ReleaseTornOutTab(t)
      PROVE  Life!Next
  <2>1. /\ phase = "open" /\ t \in tabs /\ tabs' = tabs \ {t} /\ away' = away \cup {t}
        /\ UNCHANGED <<attached, born, parked>>
    BY <1>8 DEF ReleaseTornOutTab, undoVars
  <2>2. t \in attached
    BY <2>1 DEF SurfaceOwned
  <2>3. Life!Leave(t)
    BY <2>1, <2>2 DEF Life!Leave
  <2>4. QED
    BY <2>3 DEF Life!Next
<1>9. ASSUME NEW t \in Tabs, NEW at, AdoptTornOutTab(t, at)
      PROVE  Life!Next
  <2>1. /\ phase = "open" /\ t \in away /\ tabs' = tabs \cup {t} /\ away' = away \ {t}
        /\ UNCHANGED <<attached, born, parked>>
    BY <1>9 DEF AdoptTornOutTab, undoVars
  <2>2. t \in attached
    BY <2>1 DEF SurfaceOwned
  <2>3. Life!Return(t)
    BY <2>1, <2>2 DEF Life!Return
  <2>4. QED
    BY <2>3 DEF Life!Next
<1>10. ASSUME NEW t \in Tabs, EndAway(t)
       PROVE  Life!Next
  <2>1. /\ t \in away /\ away' = away \ {t} /\ attached' = attached \ {t}
        /\ UNCHANGED <<tabs, born, parked>>
    BY <1>10 DEF EndAway, undoVars
  <2>2. t \notin tabs /\ t \in born
    BY <2>1 DEF Homes
  <2>3. tabs' \cap attached' = tabs \cap attached /\ born' \ attached' = (born \ attached) \cup {t}
    BY <2>1, <2>2
  <2>4. Life!EndAway(t)
    BY <2>1, <2>3 DEF Life!EndAway
  <2>5. QED
    BY <2>4 DEF Life!Next
<1>11. CASE Destroy
  <2>1. /\ tabs' = {} /\ parked' = <<>> /\ attached' = attached \cap away /\ UNCHANGED <<born, away>>
    BY <1>11 DEF Destroy
  <2>2. TabsOf(parked') = <<>>
    BY <2>1 DEF TabsOf
  <2>3. born' \ attached' = (born \ attached) \cup (tabs \cap attached) \cup ParkedTabs
    BY <2>1 DEF NoStray, Homes
  <2>4. born' \ attached' = (born \ attached) \cup (tabs \cap attached) \cup ToSet(TabsOf(parked))
    BY <2>3, LifeIs
  <2>5. Life!CloseWindow
    BY <2>1, <2>2, <2>4 DEF Life!CloseWindow, Life!ToSet, ToSet, TabsOf
  <2>6. QED
    BY <2>5 DEF Life!Next
<1>12. CASE UNCHANGED <<tabs, attached, parked, away, born>>
  BY <1>12, LifeStays
<1>13. CASE UNCHANGED vars
  BY <1>12, <1>13 DEF vars, ownerVars, undoVars
<1>14. ASSUME NEW t \in Tabs,
              \/ FirstFrame(t) \/ GoToTab(t) \/ ShellExit(t) \/ PressHeader(t)
              \/ (DeliverClose(t) /\ t \notin tabs)
       PROVE  [Life!Next]_(Life!vars)
  BY <1>12, <1>14 DEF FirstFrame, GoToTab, ShellExit, PressHeader, DeliverClose, ownerVars, undoVars
<1>15. CASE \/ \E target \in DOMAIN strip : MoveActiveTab(target)
            \/ CloseIfTornOutEmpty \/ TakePress \/ RequestClose
            \/ \E n \in Timeouts : ReloadConfig(n)
  BY <1>12, <1>15 DEF MoveActiveTab, CloseIfTornOutEmpty, TakePress, RequestClose, ReloadConfig,
                      ownerVars, undoVars
<1>16. ASSUME NEW t \in Tabs, TabStep(t)
       PROVE  [Life!Next]_(Life!vars)
  BY <1>2, <1>3, <1>8, <1>9, <1>10, <1>14, <1>16 DEF TabStep
<1>17. QED
  BY <1>4, <1>5, <1>6, <1>7, <1>11, <1>13, <1>15, <1>16 DEF Next

(* Whatever the strip, the timers, the redo history and the other windows  *)
(* do, the window keeps the promise of TabLife: a closed tab is gone or    *)
(* waits alive, undo gives back the one closed last, and what is gone      *)
(* stays gone.                                                             *)
THEOREM PromiseKept == Spec => KeepsPromise
<1>1. Init => Life!Init /\ NoStray
  <2> SUFFICES ASSUME Init PROVE Life!Init /\ NoStray
    OBVIOUS
  <2>1. NoStray
    BY DEF Init, NoStray
  <2>2. TabsOf(parked) = <<>>
    BY DEF Init, TabsOf
  <2>3. tabs \cap attached = {} /\ born \ attached = {} /\ away = {}
    BY DEF Init
  <2>4. Life!Init
    BY <2>2, <2>3 DEF Life!Init, TabsOf
  <2>5. QED
    BY <2>1, <2>4
<1>2. Init => IInv
  BY InitKeeps
<1>3. IInv /\ NoStray /\ [Next]_vars => IInv' /\ NoStray' /\ [Life!Next]_(Life!vars)
  BY NextKeeps, OwnersKept, LifeSteps
<1>4. QED
  BY <1>1, <1>2, <1>3, PTL DEF Spec, KeepsPromise, Life!Spec
=============================================================================
