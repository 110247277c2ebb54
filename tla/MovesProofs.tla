---------------------------- MODULE MovesProofs ----------------------------
(***************************************************************************)
(* What the three components of MCMoves guarantee: TabMove for any number  *)
(* of windows and tabs, with moves that throw at any of their calls,       *)
(* PaneFocus for any number of panes, tabs and focus events on their way,  *)
(* and Palette for configurations of any length.  They share no variable.  *)
(***************************************************************************)
EXTENDS TabMove, PaneFocus, Palette, FiniteSetTheorems, SequenceTheorems, TLAPS

-----------------------------------------------------------------------------
(* The tabs and the windows they move between (TabMove). *)

(* What the phase of a window says about its containers.                   *)
Homes ==
  /\ windows = {w \in Windows : phase[w] \in {"hidden", "shown", "active", "dark"}}
  /\ \A w \in Windows : items[w] \subseteq born /\ tabs[w] \subseteq born
  /\ \A w \in Windows : phase[w] \in {"unborn", "gone"} => tabs[w] = {}
  /\ \A w \in Windows : phase[w] = "unborn" =>
       items[w] = {} /\ panels[w] = {} /\ w \notin hosts
  /\ \A w \in Windows : phase[w] = "closing" =>
       /\ tabs[w] \subseteq asked
       /\ tabs[w] \subseteq alive \/ \E t \in Tabs : tabs[w] = {t}

(* A tracked window lists the live tabs it owns; unless a move that threw  *)
(* left it behind it lists nothing else, and a host that lost its tab is   *)
(* looked at, activated or not.                                            *)
Tracked ==
  /\ \A w \in windows : tabs[w] \subseteq alive /\ tabs[w] \subseteq items[w]
  /\ \A w \in windows \ stray : /\ items[w] = tabs[w]
                                /\ w \in hosts /\ tabs[w] = {} => w \in checks

(* The item of a drag is the header grabbed, or was not identified. *)
DragItem == drag # NoDrag => item \in {drag.tab, None}

IInv ==
  /\ TypeOK /\ OneHome /\ NothingLost /\ NoStrayWindow
  /\ Homes /\ Tracked /\ DragItem

-----------------------------------------------------------------------------
(* A set from which taking t leaves nothing has at most one element.       *)
LEMMA OnlyOne ==
  ASSUME NEW S, NEW t, S \ {t} = {}
  PROVE  ~(Cardinality(S) > 1)
<1>1. S = {} \/ S = {t}
  OBVIOUS
<1>2. Cardinality({}) = 0 /\ Cardinality({t}) = 1
  BY FS_EmptySet, FS_Singleton
<1>3. CASE S = {}
  BY <1>2, <1>3
<1>4. CASE S = {t}
  BY <1>2, <1>4
<1>5. QED
  BY <1>1, <1>3, <1>4

(* However far a move of t from s to d comes, only t moves, no tab gets a  *)
(* second owner, none but t can die, and where the containers agreed they  *)
(* agree on what is not hurt.                                              *)
LEMMA HandOverKeeps ==
  ASSUME TypeOK, OneHome, NEW s \in Windows, NEW d \in Windows, s # d,
         NEW t \in tabs[s], NEW n \in Calls, HandOver(s, d, t, n)
  PROVE  /\ items' \in [Windows -> SUBSET Tabs]
         /\ tabs' \in [Windows -> SUBSET Tabs]
         /\ panels' \in [Windows -> SUBSET Tabs]
         /\ alive' \subseteq alive /\ alive \ alive' \subseteq hurt'
         /\ hurt' \subseteq Tabs /\ hurt \subseteq hurt'
         /\ \A v, w \in Windows : v # w => tabs'[v] \cap tabs'[w] = {}
         /\ \A w \in Windows : tabs'[w] \subseteq tabs[w] \cup {t}
         /\ \A w \in Windows : items'[w] \subseteq items[w] \cup {t}
         /\ \A u \in alive' : \A w \in Windows :
              u \in tabs[w] => u \in tabs'[w] \/ u \in tabs'[d]
         /\ \A w \in Windows :
              /\ items[w] \ hurt = tabs[w] \ hurt => items'[w] \ hurt' = tabs'[w] \ hurt'
              /\ panels[w] \ hurt = tabs[w] \ hurt => panels'[w] \ hurt' = tabs'[w] \ hurt'
              /\ tabs[w] \subseteq items[w] => tabs'[w] \subseteq items'[w]
              /\ (t \in alive /\ tabs[w] \subseteq alive) => tabs'[w] \subseteq alive'
         /\ \A w \in Windows \ {s, d} : items'[w] = items[w] /\ tabs'[w] = tabs[w]
         /\ tabs'[s] \subseteq tabs[s] /\ tabs[s] \ {t} \subseteq tabs'[s]
         /\ tabs[d] \subseteq tabs'[d]
         /\ n = Whole => /\ t \in tabs'[d]
                         /\ items[d] = tabs[d] => items'[d] = tabs'[d]
         /\ items[s] = tabs[s] => items'[s] = tabs'[s]
<1> DEFINE unparented == n >= 1
           left       == n >= 2
           listedInD  == n >= 3
           owned      == n >= 4
<1>1. /\ left => unparented
      /\ listedInD => left
      /\ owned => listedInD
      /\ n \in {2, 3} <=> left /\ ~owned
      /\ n \in 1 .. 3 <=> unparented /\ ~owned
      /\ n = Whole => owned
  BY DEF Calls, Whole
<1>2. t \in Tabs
  BY DEF TypeOK
<1>3. \A w \in Windows :
        /\ items'[w] = IF w = s /\ left THEN items[w] \ {t}
                       ELSE IF w = d /\ listedInD THEN items[w] \cup {t} ELSE items[w]
        /\ tabs'[w] = IF w = s /\ left THEN tabs[w] \ {t}
                      ELSE IF w = d /\ owned THEN tabs[w] \cup {t} ELSE tabs[w]
        /\ panels'[w] = IF w = s /\ unparented THEN panels[w] \ {t}
                        ELSE IF w = d /\ owned THEN panels[w] \cup {t} ELSE panels[w]
  BY DEF HandOver, Shifted
<1>4. /\ items' \in [Windows -> SUBSET Tabs]
      /\ tabs' \in [Windows -> SUBSET Tabs]
      /\ panels' \in [Windows -> SUBSET Tabs]
  BY <1>2 DEF HandOver, Shifted, TypeOK
<1>5. /\ alive' = IF left /\ ~owned THEN alive \ {t} ELSE alive
      /\ hurt' = IF unparented /\ ~owned THEN hurt \cup {t} ELSE hurt
  BY <1>1 DEF HandOver
<1> HIDE DEF unparented, left, listedInD, owned
<1>6. \A w \in Windows \ {s} : t \notin tabs[w]
  BY DEF OneHome
<1>7. /\ alive' \subseteq alive /\ alive \ alive' \subseteq hurt'
      /\ hurt' \subseteq Tabs /\ hurt \subseteq hurt'
  BY <1>1, <1>2, <1>5 DEF TypeOK
<1>8. \A v, w \in Windows : v # w => tabs'[v] \cap tabs'[w] = {}
  <2> SUFFICES ASSUME NEW v \in Windows, NEW w \in Windows, NEW u,
                      u \in tabs'[v], u \in tabs'[w]
               PROVE  v = w
    OBVIOUS
  <2>1. \A x, y \in Windows : (u \in tabs[x] /\ u \in tabs[y]) => x = y
    BY DEF OneHome
  <2>2. CASE u = t
    <3>1. \A x \in Windows \ {s, d} : t \notin tabs'[x]
      BY <1>3, <1>6
    <3>2. t \in tabs'[s] => ~left
      BY <1>3
    <3>3. t \in tabs'[d] => owned
      BY <1>3, <1>6
    <3>4. QED
      BY <1>1, <2>2, <3>1, <3>2, <3>3
  <2>3. CASE u # t
    <3>1. u \in tabs[v] /\ u \in tabs[w]
      BY <1>3, <2>3
    <3>2. QED
      BY <2>1, <3>1
  <2>4. QED
    BY <2>2, <2>3
<1>9. /\ \A w \in Windows : tabs'[w] \subseteq tabs[w] \cup {t}
      /\ \A w \in Windows : items'[w] \subseteq items[w] \cup {t}
  BY <1>3
<1>10. \A u \in alive' : \A w \in Windows : u \in tabs[w] => u \in tabs'[w] \/ u \in tabs'[d]
  BY <1>1, <1>3, <1>5
<1>11. ASSUME NEW w \in Windows
       PROVE  /\ items[w] \ hurt = tabs[w] \ hurt => items'[w] \ hurt' = tabs'[w] \ hurt'
              /\ panels[w] \ hurt = tabs[w] \ hurt => panels'[w] \ hurt' = tabs'[w] \ hurt'
              /\ tabs[w] \subseteq items[w] => tabs'[w] \subseteq items'[w]
              /\ (t \in alive /\ tabs[w] \subseteq alive) => tabs'[w] \subseteq alive'
  <2>1. CASE w = s
    BY <1>1, <1>3, <1>5, <2>1
  <2>2. CASE w = d
    <3>1. t \notin tabs[d]
      BY <1>6
    <3>2. CASE owned
      <4>1. /\ items'[w] = items[w] \cup {t} /\ tabs'[w] = tabs[w] \cup {t}
            /\ panels'[w] = panels[w] \cup {t}
        BY <1>1, <1>3, <2>2, <3>2
      <4>2. alive' = alive /\ hurt' = hurt
        BY <1>5, <3>2
      <4>3. QED
        BY <4>1, <4>2
    <3>3. CASE ~owned
      BY <1>1, <1>3, <1>5, <2>2, <3>1, <3>3
    <3>4. QED
      BY <3>2, <3>3
  <2>3. CASE w \notin {s, d}
    BY <1>3, <1>5, <1>6, <2>3
  <2>4. QED
    BY <2>1, <2>2, <2>3
<1>12. \A w \in Windows \ {s, d} : items'[w] = items[w] /\ tabs'[w] = tabs[w]
  BY <1>3
<1>13. /\ tabs'[s] \subseteq tabs[s] /\ tabs[s] \ {t} \subseteq tabs'[s]
       /\ tabs[d] \subseteq tabs'[d]
  BY <1>3
<1>14. /\ n = Whole => /\ t \in tabs'[d]
                       /\ items[d] = tabs[d] => items'[d] = tabs'[d]
       /\ items[s] = tabs[s] => items'[s] = tabs'[s]
  BY <1>1, <1>3
<1>15. QED
  BY <1>4, <1>7, <1>8, <1>9, <1>10, <1>11, <1>12, <1>13, <1>14

-----------------------------------------------------------------------------
(* The part of the invariant that speaks of windows and tabs. *)
Arranged == OneHome /\ NothingLost /\ NoStrayWindow /\ Homes /\ Tracked

(* The variables a move changes keep their types. *)
MoveTypes ==
  /\ phase \in [Windows -> Phases] /\ windows \subseteq Windows /\ hosts \subseteq Windows
  /\ items \in [Windows -> SUBSET Tabs]
  /\ tabs \in [Windows -> SUBSET Tabs]
  /\ panels \in [Windows -> SUBSET Tabs]
  /\ alive \subseteq born /\ hurt \subseteq Tabs /\ stray \subseteq Windows

(* A tear-out keeps everything in its place, whether the tab is there or   *)
(* not and wherever it throws.                                             *)
LEMMA ToNewWindowKeeps ==
  ASSUME TypeOK, Arranged, NEW s \in Windows, NEW t \in Tabs, ToNewWindow(s, t),
         UNCHANGED <<listed, checks, born, asked>>
  PROVE  MoveTypes' /\ Arranged'
<1>1. CASE UNCHANGED <<phase, windows, hosts, homeVars, alive, hurt, stray>>
  BY <1>1 DEF TypeOK, MoveTypes, Arranged, OneHome, NothingLost, NoStrayWindow, Homes,
              Tracked, Made, homeVars
<1>2. ASSUME NEW h \in Windows, phase[h] = "unborn", hosts' = hosts \cup {h},
             CloseHost(h), UNCHANGED <<homeVars, alive, hurt, stray>>
      PROVE  MoveTypes' /\ Arranged'
  <2>1. MoveTypes'
    BY <1>2 DEF TypeOK, MoveTypes, CloseHost, homeVars, Phases
  <2>2. /\ \A w \in Windows \ {h} : phase'[w] = phase[w]
        /\ phase'[h] = "closing" /\ windows' = windows
    BY <1>2 DEF CloseHost, TypeOK
  <2>3. h \notin windows /\ tabs[h] = {}
    BY <1>2 DEF Arranged, Homes
  <2>4. OneHome' /\ NothingLost' /\ NoStrayWindow' /\ Tracked'
    <3> USE <1>2, <2>2, <2>3 DEF Arranged, homeVars
    <3>1. OneHome'
      BY DEF OneHome, Made
    <3>2. NothingLost'
      BY DEF NothingLost
    <3>3. NoStrayWindow'
      <4> SUFFICES ASSUME NEW w \in windows, w \notin stray
                   PROVE  /\ phase'[w] \in {"shown", "active"}
                          /\ phase'[w] = "active" /\ tabs[w] = {} => w \in checks
        BY DEF NoStrayWindow
      <4>1. QED
        BY DEF NoStrayWindow, TypeOK
    <3>4. Tracked'
      BY DEF Tracked
    <3>5. QED
      BY <3>1, <3>2, <3>3, <3>4
  <2>5. Homes'
    BY <1>2, <2>2, <2>3 DEF Arranged, Homes, homeVars
  <2>6. QED
    BY <2>1, <2>4, <2>5 DEF Arranged
<1>3. ASSUME NEW h \in Windows, phase[h] = "unborn", hosts' = hosts \cup {h},
             Cardinality(tabs[s]) > 1, t \in tabs[s], windows' = windows \cup {h},
             NEW n \in Calls, HandOver(s, h, t, n),
             phase' = [phase EXCEPT ![h] = IF n = Whole THEN "shown" ELSE "hidden"],
             stray' = IF n = Whole THEN stray ELSE stray \cup {h}
      PROVE  MoveTypes' /\ Arranged'
  <2> USE DEF Arranged
  <2>1. s # h
    BY <1>3 DEF Homes
  <2>2. /\ items' \in [Windows -> SUBSET Tabs]
        /\ tabs' \in [Windows -> SUBSET Tabs]
        /\ panels' \in [Windows -> SUBSET Tabs]
        /\ alive' \subseteq alive /\ alive \ alive' \subseteq hurt'
        /\ hurt' \subseteq Tabs /\ hurt \subseteq hurt'
        /\ \A v, w \in Windows : v # w => tabs'[v] \cap tabs'[w] = {}
        /\ \A w \in Windows : tabs'[w] \subseteq tabs[w] \cup {t}
        /\ \A w \in Windows : items'[w] \subseteq items[w] \cup {t}
        /\ \A u \in alive' : \A w \in Windows :
             u \in tabs[w] => u \in tabs'[w] \/ u \in tabs'[h]
    BY <1>3, <2>1, HandOverKeeps
  <2>3. \A w \in Windows :
          /\ items[w] \ hurt = tabs[w] \ hurt => items'[w] \ hurt' = tabs'[w] \ hurt'
          /\ panels[w] \ hurt = tabs[w] \ hurt => panels'[w] \ hurt' = tabs'[w] \ hurt'
          /\ tabs[w] \subseteq items[w] => tabs'[w] \subseteq items'[w]
          /\ (t \in alive /\ tabs[w] \subseteq alive) => tabs'[w] \subseteq alive'
    BY <1>3, <2>1, HandOverKeeps
  <2>4. /\ \A w \in Windows \ {s, h} : items'[w] = items[w] /\ tabs'[w] = tabs[w]
        /\ tabs'[s] \subseteq tabs[s] /\ tabs[s] \ {t} \subseteq tabs'[s]
        /\ n = Whole => /\ t \in tabs'[h]
                        /\ items[h] = tabs[h] => items'[h] = tabs'[h]
        /\ items[s] = tabs[s] => items'[s] = tabs'[s]
    BY <1>3, <2>1, HandOverKeeps
  <2>5. tabs[s] \ {t} # {}
    BY <1>3, OnlyOne
  <2>6. t \in alive /\ tabs[s] \subseteq alive
    BY <1>3, <2>5 DEF Homes, Tracked, TypeOK, Phases
  <2>7. /\ items[h] = {} /\ tabs[h] = {} /\ panels[h] = {}
        /\ h \notin windows /\ h \notin hosts
    BY <1>3 DEF Homes
  <2>8. /\ \A w \in Windows \ {h} : phase'[w] = phase[w]
        /\ phase'[h] \in {"shown", "hidden"}
        /\ n = Whole => phase'[h] = "shown"
    BY <1>3 DEF TypeOK
  <2>9. MoveTypes'
    BY <1>3, <2>2 DEF TypeOK, MoveTypes, Phases
  <2>10. OneHome'
    <3>1. \A u \in alive' : \E w \in Made' : u \in tabs'[w]
      BY <2>2, <2>8, <1>3 DEF OneHome, Made
    <3>2. \A w \in windows' : /\ items'[w] \ hurt' = tabs'[w] \ hurt'
                              /\ panels'[w] \ hurt' = tabs'[w] \ hurt'
      BY <1>3, <2>3, <2>7 DEF OneHome, TypeOK
    <3>3. QED
      BY <2>2, <3>1, <3>2 DEF OneHome
  <2>11. NothingLost'
    BY <2>2 DEF NothingLost
  <2>12. NoStrayWindow'
    <3> SUFFICES ASSUME NEW w \in windows', w \notin stray'
                 PROVE  /\ phase'[w] \in {"shown", "active"}
                        /\ phase'[w] = "active" /\ tabs'[w] = {} => w \in checks'
      BY DEF NoStrayWindow
    <3>1. CASE w = h
      BY <1>3, <2>8, <3>1
    <3>2. CASE w = s
      BY <1>3, <2>1, <2>4, <2>5, <2>8, <3>2 DEF NoStrayWindow
    <3>3. CASE w \notin {s, h}
      BY <1>3, <2>4, <2>8, <3>3 DEF NoStrayWindow, TypeOK
    <3>4. QED
      BY <3>1, <3>2, <3>3
  <2>13. Homes'
    <3>1. windows' = {w \in Windows : phase'[w] \in {"hidden", "shown", "active", "dark"}}
      BY <1>3, <2>8 DEF Homes
    <3>2. \A w \in Windows : items'[w] \subseteq born' /\ tabs'[w] \subseteq born'
      BY <2>2, <2>6 DEF Homes, TypeOK
    <3>3. \A w \in Windows : phase'[w] \in {"unborn", "gone"} => tabs'[w] = {}
      BY <2>1, <2>4, <2>8 DEF Homes
    <3>4. \A w \in Windows \ {s, h} : panels'[w] = panels[w]
      BY <1>3 DEF HandOver, Shifted
    <3>5. \A w \in Windows : phase'[w] = "unborn" =>
            items'[w] = {} /\ panels'[w] = {} /\ w \notin hosts'
      BY <1>3, <2>4, <2>8, <3>4 DEF Homes
    <3>6. \A w \in Windows : phase'[w] = "closing" =>
            /\ tabs'[w] \subseteq asked'
            /\ tabs'[w] \subseteq alive' \/ \E u \in Tabs : tabs'[w] = {u}
      <4> SUFFICES ASSUME NEW w \in Windows, phase'[w] = "closing"
                   PROVE  /\ tabs'[w] \subseteq asked'
                          /\ tabs'[w] \subseteq alive' \/ \E u \in Tabs : tabs'[w] = {u}
        OBVIOUS
      <4>1. w # h /\ phase[w] = "closing"
        BY <2>8
      <4>2. tabs'[w] \subseteq tabs[w]
        BY <2>4, <4>1
      <4>3. CASE tabs[w] \subseteq alive
        BY <2>3, <2>6, <4>1, <4>2, <4>3 DEF Homes
      <4>4. CASE \E u \in Tabs : tabs[w] = {u}
        <5>1. w # s
          <6> SUFFICES ASSUME w = s PROVE FALSE
            OBVIOUS
          <6>1. QED
            BY <1>3, <2>5, <4>4
        <5>2. QED
          BY <2>4, <4>1, <4>4, <5>1 DEF Homes
      <4>5. QED
        BY <4>1, <4>3, <4>4 DEF Homes
    <3>7. QED
      BY <3>1, <3>2, <3>3, <3>5, <3>6 DEF Homes
  <2>14. Tracked'
    <3>1. \A w \in windows' : tabs'[w] \subseteq alive' /\ tabs'[w] \subseteq items'[w]
      BY <1>3, <2>3, <2>6, <2>7 DEF Tracked, TypeOK
    <3>2. ASSUME NEW w \in windows', w \notin stray'
          PROVE  /\ items'[w] = tabs'[w]
                 /\ w \in hosts' /\ tabs'[w] = {} => w \in checks'
      <4>1. CASE w = h
        BY <1>3, <2>4, <2>7, <3>2, <4>1
      <4>2. CASE w = s
        BY <1>3, <2>1, <2>4, <2>5, <3>2, <4>2 DEF Tracked
      <4>3. CASE w \notin {s, h}
        BY <1>3, <2>4, <3>2, <4>3 DEF Tracked, TypeOK
      <4>4. QED
        BY <4>1, <4>2, <4>3
    <3>3. QED
      BY <3>1, <3>2 DEF Tracked
  <2>15. QED
    BY <2>9, <2>10, <2>11, <2>12, <2>13, <2>14
<1>4. QED
  BY <1>1, <1>2, <1>3 DEF ToNewWindow

(* A drop on another strip keeps everything in its place, wherever it      *)
(* throws.                                                                 *)
LEMMA DropKeeps ==
  ASSUME TypeOK, Arranged, NEW d \in Windows, TabStripDrop(d)
  PROVE  MoveTypes' /\ checks' \subseteq Windows /\ Arranged'
<1> USE DEF Arranged
<1>1. UNCHANGED <<windowVars, born, asked>> /\ d \in windows
  BY DEF TabStripDrop, Homes
<1>2. CASE UNCHANGED <<homeVars, checks, alive, hurt, stray>>
  BY <1>1, <1>2 DEF TypeOK, MoveTypes, OneHome, NothingLost, NoStrayWindow, Homes,
                    Tracked, Made, homeVars, windowVars
<1>3. ASSUME NEW s \in windows, s # d, item \in tabs[s], NEW n \in Calls,
             HandOver(s, d, item, n),
             IF n = Whole
             THEN checks' = checks \cup {w \in {s} : tabs'[w] = {}} /\ UNCHANGED stray
             ELSE /\ stray' = stray \cup {w \in {s, d} : tabs'[w] = {} \/ items'[w] # tabs'[w]}
                  /\ UNCHANGED checks
      PROVE  MoveTypes' /\ checks' \subseteq Windows /\ Arranged'
  <2>1. s \in Windows
    BY DEF TypeOK
  <2>2. /\ items' \in [Windows -> SUBSET Tabs]
        /\ tabs' \in [Windows -> SUBSET Tabs]
        /\ panels' \in [Windows -> SUBSET Tabs]
        /\ alive' \subseteq alive /\ alive \ alive' \subseteq hurt'
        /\ hurt' \subseteq Tabs /\ hurt \subseteq hurt'
        /\ \A v, w \in Windows : v # w => tabs'[v] \cap tabs'[w] = {}
        /\ \A w \in Windows : tabs'[w] \subseteq tabs[w] \cup {item}
        /\ \A w \in Windows : items'[w] \subseteq items[w] \cup {item}
        /\ \A u \in alive' : \A w \in Windows :
             u \in tabs[w] => u \in tabs'[w] \/ u \in tabs'[d]
    BY <1>3, <2>1, HandOverKeeps
  <2>3. \A w \in Windows :
          /\ items[w] \ hurt = tabs[w] \ hurt => items'[w] \ hurt' = tabs'[w] \ hurt'
          /\ panels[w] \ hurt = tabs[w] \ hurt => panels'[w] \ hurt' = tabs'[w] \ hurt'
          /\ tabs[w] \subseteq items[w] => tabs'[w] \subseteq items'[w]
          /\ (item \in alive /\ tabs[w] \subseteq alive) => tabs'[w] \subseteq alive'
    BY <1>3, <2>1, HandOverKeeps
  <2>4. /\ \A w \in Windows \ {s, d} : items'[w] = items[w] /\ tabs'[w] = tabs[w]
        /\ tabs[d] \subseteq tabs'[d]
        /\ n = Whole => /\ item \in tabs'[d]
                        /\ items[d] = tabs[d] => items'[d] = tabs'[d]
        /\ items[s] = tabs[s] => items'[s] = tabs'[s]
    BY <1>3, <2>1, HandOverKeeps
  <2>5. item \in alive
    BY <1>3 DEF Tracked
  <2>6. \A w \in windows \ stray' :
          /\ w \notin stray
          /\ items'[w] = tabs'[w]
          /\ w = s /\ tabs'[w] = {} => w \in checks'
          /\ checks \subseteq checks'
    <3> SUFFICES ASSUME NEW w \in windows, w \notin stray'
                 PROVE  /\ w \notin stray
                        /\ items'[w] = tabs'[w]
                        /\ w = s /\ tabs'[w] = {} => w \in checks'
                        /\ checks \subseteq checks'
      OBVIOUS
    <3>1. w \in Windows
      BY DEF TypeOK
    <3>2. CASE n = Whole
      <4>1. w \notin stray /\ items[w] = tabs[w]
        BY <1>3, <3>2 DEF Tracked
      <4>2. QED
        BY <1>3, <2>4, <3>1, <3>2, <4>1
    <3>3. CASE n # Whole
      <4>1. w \notin stray /\ items[w] = tabs[w]
        BY <1>3, <3>3 DEF Tracked
      <4>2. w \in {s, d} => tabs'[w] # {} /\ items'[w] = tabs'[w]
        BY <1>3, <3>3
      <4>3. QED
        BY <1>3, <2>4, <3>1, <3>3, <4>1, <4>2
    <3>4. QED
      BY <3>2, <3>3
  <2>7. MoveTypes' /\ checks' \subseteq Windows
    BY <1>1, <1>3, <2>1, <2>2 DEF TypeOK, MoveTypes, windowVars
  <2>8. OneHome'
    <3>1. \A u \in alive' : \E w \in Made' : u \in tabs'[w]
      BY <1>1, <2>2 DEF OneHome, Made, Homes, windowVars
    <3>2. \A w \in windows' : /\ items'[w] \ hurt' = tabs'[w] \ hurt'
                              /\ panels'[w] \ hurt' = tabs'[w] \ hurt'
      BY <1>1, <2>3 DEF OneHome, TypeOK, windowVars
    <3>3. QED
      BY <2>2, <3>1, <3>2 DEF OneHome
  <2>9. NothingLost'
    BY <1>1, <2>2 DEF NothingLost
  <2>10. NoStrayWindow'
    <3> SUFFICES ASSUME NEW w \in windows, w \notin stray'
                 PROVE  /\ phase[w] \in {"shown", "active"}
                        /\ phase[w] = "active" /\ tabs'[w] = {} => w \in checks'
      BY <1>1 DEF NoStrayWindow, windowVars
    <3>1. CASE w = s
      BY <2>6, <3>1 DEF NoStrayWindow
    <3>2. CASE w # s
      BY <2>4, <2>6, <3>2 DEF NoStrayWindow, TypeOK
    <3>3. QED
      BY <3>1, <3>2
  <2>11. Homes'
    <3>1. \A w \in Windows : items'[w] \subseteq born' /\ tabs'[w] \subseteq born'
      BY <1>1, <2>2, <2>5 DEF Homes, TypeOK
    <3>2. \A w \in Windows : w \notin windows =>
            items'[w] = items[w] /\ tabs'[w] = tabs[w] /\ panels'[w] = panels[w]
      BY <1>1, <1>3 DEF HandOver, Shifted
    <3>3. \A w \in Windows : phase[w] \in {"unborn", "gone", "closing"} => w \notin windows
      BY DEF Homes
    <3>4. ASSUME NEW w \in Windows, phase[w] = "closing", tabs[w] \subseteq alive
          PROVE  tabs'[w] \subseteq alive'
      BY <2>3, <2>5, <3>4
    <3>5. QED
      BY <1>1, <3>1, <3>2, <3>3, <3>4 DEF Homes, windowVars
  <2>12. Tracked'
    <3>1. \A w \in windows : tabs'[w] \subseteq alive' /\ tabs'[w] \subseteq items'[w]
      BY <2>3, <2>5 DEF Tracked, TypeOK
    <3>2. ASSUME NEW w \in windows, w \notin stray', w \in hosts, tabs'[w] = {}
          PROVE  w \in checks'
      <4>1. CASE w = s
        BY <2>6, <3>2, <4>1
      <4>2. CASE w # s
        BY <2>4, <2>6, <3>2, <4>2 DEF Tracked, TypeOK
      <4>3. QED
        BY <4>1, <4>2
    <3>3. QED
      BY <1>1, <2>6, <3>1, <3>2 DEF Tracked, windowVars
  <2>13. QED
    BY <2>7, <2>8, <2>9, <2>10, <2>11, <2>12
<1>4. QED
  BY <1>1, <1>2, <1>3 DEF TabStripDrop, Owners

(* A tracked window gets a new tab, at its first Activated or later.       *)
LEMMA AddKeeps ==
  ASSUME TypeOK, Arranged, NEW w \in windows, NEW t \in Tabs, AddTab(w, t),
         phase' = phase \/ phase' = [phase EXCEPT ![w] = "active"],
         UNCHANGED <<windows, hosts, checks, history>>
  PROVE  MoveTypes' /\ born' \subseteq Tabs /\ Arranged'
<1> USE DEF Arranged, history
<1>1. /\ w \in Windows /\ t \notin born
      /\ \A v \in Windows \ {w} : /\ items'[v] = items[v] /\ tabs'[v] = tabs[v]
                                  /\ panels'[v] = panels[v]
      /\ items'[w] = items[w] \cup {t} /\ tabs'[w] = tabs[w] \cup {t}
      /\ panels'[w] = panels[w] \cup {t}
      /\ born' = born \cup {t} /\ alive' = alive \cup {t}
  BY DEF AddTab, TypeOK
<1>2. /\ \A v \in Windows \ {w} : phase'[v] = phase[v]
      /\ phase[w] \in {"hidden", "shown", "active", "dark"} /\ phase'[w] \in {phase[w], "active"}
  BY <1>1 DEF Homes, TypeOK
<1>3. MoveTypes' /\ born' \subseteq Tabs
  BY <1>1, <1>2 DEF AddTab, TypeOK, MoveTypes, Phases
<1>4. \A v \in Windows : t \notin tabs[v]
  BY <1>1 DEF Homes
<1>5. OneHome'
  <2>1. \A u \in alive' : \E v \in Made' : u \in tabs'[v]
    BY <1>1, <1>2 DEF OneHome, Made
  <2>2. \A u, v \in Windows : u # v => tabs'[u] \cap tabs'[v] = {}
    BY <1>1, <1>4 DEF OneHome
  <2>3. \A v \in windows : /\ items'[v] \ hurt = tabs'[v] \ hurt
                           /\ panels'[v] \ hurt = tabs'[v] \ hurt
    BY <1>1 DEF OneHome, TypeOK
  <2>4. QED
    BY <2>1, <2>2, <2>3 DEF OneHome
<1>6. NothingLost'
  BY <1>1 DEF NothingLost
<1>7. NoStrayWindow'
  <2> SUFFICES ASSUME NEW v \in windows, v \notin stray
               PROVE  /\ phase'[v] \in {"shown", "active"}
                      /\ phase'[v] = "active" /\ tabs'[v] = {} => v \in checks
    BY DEF NoStrayWindow
  <2>1. QED
    BY <1>1, <1>2 DEF NoStrayWindow, TypeOK
<1>8. Homes'
  <2>1. windows = {v \in Windows : phase'[v] \in {"hidden", "shown", "active", "dark"}}
    BY <1>1, <1>2 DEF Homes
  <2>2. \A v \in Windows : phase'[v] \in {"unborn", "gone", "closing"} =>
          v # w /\ phase'[v] = phase[v]
    BY <1>2
  <2>3. QED
    BY <1>1, <2>1, <2>2 DEF Homes
<1>9. Tracked'
  BY <1>1 DEF Tracked, TypeOK
<1>10. QED
  BY <1>3, <1>5, <1>6, <1>7, <1>8, <1>9

(* Tracked windows close. Their tabs, all of them asked to go, stay in     *)
(* them.                                                                   *)
LEMMA CloseKeeps ==
  ASSUME TypeOK, Arranged, NEW ws \in SUBSET windows, Close(ws),
         asked' = asked \cup UNION {tabs[w] : w \in ws},
         checks \ ws \subseteq checks',
         UNCHANGED <<hosts, homeVars, tabVars, hurt, stray>>
  PROVE  MoveTypes' /\ asked' \subseteq Tabs /\ Arranged'
<1> USE DEF Arranged, homeVars, tabVars
<1>1. /\ \A w \in Windows : phase'[w] = IF w \in ws THEN "closing" ELSE phase[w]
      /\ phase' \in [Windows -> Phases]
      /\ windows' = windows \ ws /\ windows \subseteq Windows
      /\ \A w \in ws : w \in Windows /\ phase[w] \in {"hidden", "shown", "active", "dark"}
  BY DEF Close, TypeOK, Phases, Homes
<1>2. \A w \in ws : tabs[w] \subseteq asked'
  OBVIOUS
<1>3. MoveTypes' /\ asked' \subseteq Tabs
  BY <1>1 DEF TypeOK, MoveTypes
<1>4. OneHome'
  BY <1>1 DEF OneHome, Made
<1>5. NothingLost'
  BY DEF NothingLost
<1>6. NoStrayWindow'
  <2> SUFFICES ASSUME NEW w \in windows', w \notin stray
               PROVE  /\ phase'[w] \in {"shown", "active"}
                      /\ phase'[w] = "active" /\ tabs[w] = {} => w \in checks'
    BY DEF NoStrayWindow
  <2>1. QED
    BY <1>1 DEF NoStrayWindow
<1>7. Homes'
  <2>1. windows' = {w \in Windows : phase'[w] \in {"hidden", "shown", "active", "dark"}}
    BY <1>1 DEF Homes
  <2>2. \A w \in ws : tabs[w] \subseteq alive
    BY DEF Tracked
  <2>3. QED
    BY <1>1, <1>2, <2>1, <2>2 DEF Homes
<1>8. Tracked'
  BY <1>1 DEF Tracked
<1>9. QED
  BY <1>3, <1>4, <1>5, <1>6, <1>7, <1>8

(* One tab is closed and takes its window along if it was the last.        *)
LEMMA CloseTabKeeps ==
  ASSUME TypeOK, Arranged, NEW w \in Windows, NEW t \in Tabs, CloseTab(w, t)
  PROVE  MoveTypes' /\ asked' \subseteq Tabs /\ Arranged'
<1> USE DEF Arranged
<1>1. /\ w \in windows /\ phase[w] = "active" /\ t \in tabs[w]
      /\ alive' = alive \ {t} /\ asked' = asked \cup {t}
      /\ items' = [items EXCEPT ![w] = @ \ {t}]
      /\ UNCHANGED <<hosts, checks, born, hurt, stray>>
  BY DEF CloseTab, Homes
<1>2. /\ \A v \in Windows \ {w} : items'[v] = items[v] /\ t \notin tabs[v]
      /\ items'[w] = items[w] \ {t} /\ tabs[w] \subseteq items[w]
  BY <1>1 DEF TypeOK, OneHome, Tracked
<1>3. NothingLost' /\ asked' \subseteq Tabs
  BY <1>1 DEF NothingLost, TypeOK
<1>4. CASE items'[w] = {} /\ Close({w}) /\ UNCHANGED <<tabs, panels>>
  <2>1. /\ \A v \in Windows \ {w} : phase'[v] = phase[v]
        /\ phase'[w] = "closing" /\ windows' = windows \ {w}
        /\ phase' \in [Windows -> Phases]
    BY <1>4 DEF Close, TypeOK, Phases
  <2>2. tabs[w] = {t}
    BY <1>1, <1>2, <1>4
  <2>3. MoveTypes'
    BY <1>1, <1>4, <2>1 DEF TypeOK, MoveTypes
  <2>4. OneHome'
    <3>1. \A u \in alive' : \E v \in Made' : u \in tabs[v]
      BY <1>1, <2>1 DEF OneHome, Made
    <3>2. \A v \in windows' : items'[v] = items[v]
      BY <1>2, <2>1 DEF TypeOK
    <3>3. QED
      BY <1>1, <1>4, <2>1, <3>1, <3>2 DEF OneHome
  <2>5. NoStrayWindow'
    <3> SUFFICES ASSUME NEW v \in windows', v \notin stray
                 PROVE  /\ phase'[v] \in {"shown", "active"}
                        /\ phase'[v] = "active" /\ tabs[v] = {} => v \in checks
      BY <1>1, <1>4 DEF NoStrayWindow
    <3>1. QED
      BY <2>1 DEF NoStrayWindow, TypeOK
  <2>6. Homes'
    <3>1. windows' = {v \in Windows : phase'[v] \in {"hidden", "shown", "active", "dark"}}
      BY <2>1 DEF Homes
    <3>2. \A v \in Windows : items'[v] \subseteq born /\ tabs[v] \subseteq born
      BY <1>2 DEF Homes
    <3>3. ASSUME NEW v \in Windows, v # w, phase[v] = "closing"
          PROVE  /\ tabs[v] \subseteq asked'
                 /\ tabs[v] \subseteq alive' \/ \E u \in Tabs : tabs[v] = {u}
      BY <1>1, <1>2, <3>3 DEF Homes
    <3>4. QED
      BY <1>1, <1>2, <1>4, <2>1, <2>2, <3>1, <3>2, <3>3 DEF Homes
  <2>7. Tracked'
    <3>1. \A v \in windows' : v \in windows /\ v \in Windows \ {w}
      BY <2>1 DEF TypeOK
    <3>2. QED
      BY <1>1, <1>2, <1>4, <3>1 DEF Tracked
  <2>8. QED
    BY <1>3, <2>3, <2>4, <2>5, <2>6, <2>7
<1>5. CASE /\ items'[w] # {}
           /\ tabs' = [tabs EXCEPT ![w] = @ \ {t}]
           /\ panels' = [panels EXCEPT ![w] = @ \ {t}]
           /\ UNCHANGED <<phase, windows>>
  <2>1. /\ \A v \in Windows \ {w} : tabs'[v] = tabs[v] /\ panels'[v] = panels[v]
        /\ tabs'[w] = tabs[w] \ {t} /\ panels'[w] = panels[w] \ {t}
    BY <1>5 DEF TypeOK
  <2>2. MoveTypes'
    BY <1>1, <1>5 DEF TypeOK, MoveTypes
  <2>3. OneHome'
    <3>1. \A u \in alive' : \E v \in Made' : u \in tabs'[v]
      BY <1>1, <1>5, <2>1 DEF OneHome, Made
    <3>2. \A u, v \in Windows : u # v => tabs'[u] \cap tabs'[v] = {}
      BY <2>1 DEF OneHome
    <3>3. \A v \in windows : /\ items'[v] \ hurt = tabs'[v] \ hurt
                             /\ panels'[v] \ hurt = tabs'[v] \ hurt
      BY <1>2, <2>1 DEF OneHome, TypeOK
    <3>4. QED
      BY <1>1, <1>5, <3>1, <3>2, <3>3 DEF OneHome
  <2>4. \A v \in windows \ stray : items'[v] = tabs'[v]
    BY <1>2, <2>1 DEF Tracked, TypeOK
  <2>5. NoStrayWindow'
    <3> SUFFICES ASSUME NEW v \in windows, v \notin stray
                 PROVE  /\ phase[v] \in {"shown", "active"}
                        /\ phase[v] = "active" /\ tabs'[v] = {} => v \in checks
      BY <1>1, <1>5 DEF NoStrayWindow
    <3>1. QED
      BY <1>5, <2>1, <2>4 DEF NoStrayWindow, TypeOK
  <2>6. Homes'
    <3>1. \A v \in Windows : items'[v] \subseteq born /\ tabs'[v] \subseteq born
      BY <1>2, <2>1 DEF Homes
    <3>2. \A v \in Windows : phase[v] \in {"unborn", "gone", "closing"} => v # w
      BY <1>1
    <3>3. ASSUME NEW v \in Windows, phase[v] = "closing"
          PROVE  /\ tabs'[v] \subseteq asked'
                 /\ tabs'[v] \subseteq alive' \/ \E u \in Tabs : tabs'[v] = {u}
      BY <1>1, <1>2, <2>1, <3>2, <3>3 DEF Homes
    <3>4. QED
      BY <1>1, <1>2, <1>5, <2>1, <3>1, <3>2, <3>3 DEF Homes
  <2>7. Tracked'
    <3>1. \A v \in windows : tabs'[v] \subseteq alive' /\ tabs'[v] \subseteq items'[v]
      BY <1>1, <1>2, <2>1 DEF Tracked, TypeOK
    <3>2. ASSUME NEW v \in windows, v \notin stray, v \in hosts, tabs'[v] = {}
          PROVE  v \in checks
      BY <1>5, <2>1, <2>4, <3>2 DEF Tracked, TypeOK
    <3>3. QED
      BY <1>1, <1>5, <2>4, <3>1, <3>2 DEF Tracked
  <2>8. QED
    BY <1>3, <2>2, <2>3, <2>5, <2>6, <2>7
<1>6. QED
  BY <1>4, <1>5 DEF CloseTab

(* A closed window is destroyed with what is in it.                        *)
LEMMA DestroyKeeps ==
  ASSUME TypeOK, Arranged, NEW w \in Windows, Destroy(w)
  PROVE  MoveTypes' /\ Arranged'
<1> USE DEF Arranged
<1>1. /\ phase[w] = "closing" /\ w \notin windows
      /\ \A v \in Windows \ {w} : /\ phase'[v] = phase[v] /\ items'[v] = items[v]
                                  /\ tabs'[v] = tabs[v] /\ panels'[v] = panels[v]
      /\ phase'[w] = "gone" /\ items'[w] = {} /\ tabs'[w] = {} /\ panels'[w] = {}
      /\ alive' = alive \ tabs[w] /\ checks' = checks \ {w}
      /\ UNCHANGED <<windows, hosts, born, asked, hurt, stray>>
  BY DEF Destroy, TypeOK, Homes, history
<1>2. \A v \in Windows \ {w} : tabs[v] \cap tabs[w] = {}
  BY DEF OneHome
<1>3. \A v \in windows : v \in Windows \ {w}
  BY <1>1 DEF TypeOK
<1>4. MoveTypes'
  BY <1>1 DEF Destroy, TypeOK, MoveTypes, Phases
<1>5. OneHome'
  <2>1. \A u \in alive' : \E v \in Made' : u \in tabs'[v]
    BY <1>1 DEF OneHome, Made
  <2>2. \A u, v \in Windows : u # v => tabs'[u] \cap tabs'[v] = {}
    BY <1>1 DEF OneHome
  <2>3. QED
    BY <1>1, <1>3, <2>1, <2>2 DEF OneHome
<1>6. NothingLost'
  BY <1>1 DEF NothingLost, Homes
<1>7. NoStrayWindow'
  <2> SUFFICES ASSUME NEW v \in windows, v \notin stray
               PROVE  /\ phase'[v] \in {"shown", "active"}
                      /\ phase'[v] = "active" /\ tabs'[v] = {} => v \in checks'
    BY <1>1 DEF NoStrayWindow
  <2>1. QED
    BY <1>1, <1>3 DEF NoStrayWindow
<1>8. Homes'
  <2>1. windows' = {v \in Windows : phase'[v] \in {"hidden", "shown", "active", "dark"}}
    BY <1>1 DEF Homes
  <2>2. ASSUME NEW v \in Windows, phase'[v] = "closing"
        PROVE  /\ tabs'[v] \subseteq asked'
               /\ tabs'[v] \subseteq alive' \/ \E u \in Tabs : tabs'[v] = {u}
    <3>1. v # w /\ phase[v] = "closing" /\ tabs'[v] = tabs[v]
      BY <1>1, <2>2
    <3>2. QED
      BY <1>1, <1>2, <3>1 DEF Homes
  <2>3. QED
    BY <1>1, <2>1, <2>2 DEF Homes
<1>9. Tracked'
  BY <1>1, <1>2, <1>3 DEF Tracked
<1>10. QED
  BY <1>4, <1>5, <1>6, <1>7, <1>8, <1>9

(* A window is made or shown.                                              *)
LEMMA ShowKeeps ==
  ASSUME TypeOK, Arranged, NEW w \in Windows, CreateNewWindow(w) \/ PresentWindow(w)
  PROVE  MoveTypes' /\ Arranged'
<1> USE DEF Arranged, homeVars, tabVars, history
<1>1. /\ \/ phase[w] \in {"unborn", "hidden"} /\ phase'[w] = "shown"
         \/ phase[w] = "dark" /\ phase'[w] = "active"
      /\ \A v \in Windows \ {w} : phase'[v] = phase[v]
      /\ windows' = windows \cup {w}
      /\ phase' \in [Windows -> Phases]
      /\ UNCHANGED <<hosts, checks, homeVars, tabVars, history>>
  BY DEF CreateNewWindow, PresentWindow, TypeOK, Phases
<1>2. w \notin windows => /\ items[w] = {} /\ tabs[w] = {} /\ panels[w] = {}
                         /\ w \notin hosts
  BY <1>1 DEF Homes
<1>3. MoveTypes'
  BY <1>1 DEF TypeOK, MoveTypes
<1>4. OneHome'
  BY <1>1, <1>2 DEF OneHome, Made
<1>5. NothingLost'
  BY <1>1 DEF NothingLost
<1>6. NoStrayWindow'
  <2> SUFFICES ASSUME NEW v \in windows', v \notin stray
               PROVE  /\ phase'[v] \in {"shown", "active"}
                      /\ phase'[v] = "active" /\ tabs[v] = {} => v \in checks
    BY <1>1 DEF NoStrayWindow
  <2>1. ASSUME phase[w] = "dark", v = w PROVE FALSE
    <3>1. w \in windows
      BY <2>1 DEF Homes
    <3>2. QED
      BY <2>1, <3>1 DEF NoStrayWindow
  <2>2. CASE v # w
    BY <1>1, <2>2 DEF NoStrayWindow, TypeOK
  <2>3. QED
    BY <1>1, <2>1, <2>2
<1>7. Homes'
  BY <1>1 DEF Homes
<1>8. Tracked'
  BY <1>1, <1>2 DEF Tracked
<1>9. QED
  BY <1>3, <1>4, <1>5, <1>6, <1>7, <1>8

(* The first Activated of a window gives it a tab unless it is a host or   *)
(* its surface could not be made.                                          *)
LEMMA ActivateKeeps ==
  ASSUME TypeOK, Arranged, NEW w \in Windows, FirstActivated(w)
  PROVE  MoveTypes' /\ born' \subseteq Tabs /\ Arranged'
<1> USE DEF Arranged
<1>1. /\ w \in windows /\ phase[w] = "shown"
      /\ UNCHANGED <<windows, hosts, checks, asked, hurt>>
  BY DEF FirstActivated, Homes
<1>2. CASE /\ \E t \in Tabs : AddTab(w, t)
           /\ phase' = [phase EXCEPT ![w] = "active"] /\ UNCHANGED stray
  BY <1>1, <1>2, AddKeeps DEF history
<1>3. CASE /\ UNCHANGED <<homeVars, tabVars>>
           /\ \/ /\ w \in hosts /\ UNCHANGED stray
                 /\ phase' = [phase EXCEPT ![w] = "active"]
              \/ /\ stray' = stray \cup {w}
                 /\ phase' = [phase EXCEPT ![w] = "dark"]
  <2> USE DEF homeVars, tabVars
  <2>1. /\ \A v \in Windows \ {w} : phase'[v] = phase[v]
        /\ phase'[w] \in {"active", "dark"} /\ phase' \in [Windows -> Phases]
    BY <1>3 DEF TypeOK, Phases
  <2>2. MoveTypes' /\ born' \subseteq Tabs
    BY <1>1, <1>3, <2>1 DEF TypeOK, MoveTypes
  <2>3. OneHome'
    BY <1>1, <1>3, <2>1 DEF OneHome, Made
  <2>4. NothingLost'
    BY <1>1, <1>3 DEF NothingLost
  <2>5. NoStrayWindow'
    <3> SUFFICES ASSUME NEW v \in windows, v \notin stray'
                 PROVE  /\ phase'[v] \in {"shown", "active"}
                        /\ phase'[v] = "active" /\ tabs[v] = {} => v \in checks
      BY <1>1, <1>3 DEF NoStrayWindow
    <3>1. CASE v # w
      BY <1>3, <2>1, <3>1 DEF NoStrayWindow, TypeOK
    <3>2. CASE v = w
      BY <1>3, <2>1, <3>2 DEF NoStrayWindow, Tracked, TypeOK
    <3>3. QED
      BY <3>1, <3>2
  <2>6. Homes'
    BY <1>1, <1>3, <2>1 DEF Homes
  <2>7. Tracked'
    BY <1>1, <1>3 DEF Tracked
  <2>8. QED
    BY <2>2, <2>3, <2>4, <2>5, <2>6, <2>7
<1>4. QED
  BY <1>2, <1>3 DEF FirstActivated

-----------------------------------------------------------------------------
LEMMA InitInv == Init => IInv
<1> SUFFICES ASSUME NEW first \in Windows,
                    phase = [w \in Windows |-> IF w = first THEN "shown" ELSE "unborn"],
                    windows = {first}, listed = {}, hosts = {},
                    items = [w \in Windows |-> {}], tabs = [w \in Windows |-> {}],
                    panels = [w \in Windows |-> {}],
                    checks = {}, born = {}, alive = {},
                    pressed = None, item = None, inFlight = FALSE, drag = NoDrag,
                    asked = {}, hurt = {}, stray = {}
             PROVE  IInv
  BY DEF Init
<1>1. TypeOK
  BY DEF TypeOK, Phases
<1>2. OneHome /\ NothingLost /\ NoStrayWindow
  BY DEF OneHome, NothingLost, NoStrayWindow
<1>3. Homes /\ Tracked /\ DragItem
  BY DEF Homes, Tracked, DragItem
<1>4. QED
  BY <1>1, <1>2, <1>3 DEF IInv

(* What the steps on windows and tabs leave to show of the types. *)
RestTypes ==
  /\ listed \subseteq Windows /\ checks \subseteq Windows /\ born \subseteq Tabs
  /\ pressed \in Tabs \cup {None} /\ item \in Tabs \cup {None}
  /\ inFlight \in BOOLEAN
  /\ drag \in [from : Windows, tab : Tabs, dropped : BOOLEAN] \cup {NoDrag}
  /\ inFlight => item # None /\ drag # NoDrag
  /\ asked \subseteq Tabs
  /\ DragItem

(* The drag state of a step that leaves it alone.                          *)
LEMMA SameDrag ==
  ASSUME TypeOK, DragItem, UNCHANGED dragVars,
         listed' \subseteq Windows, checks' \subseteq Windows, born' \subseteq Tabs,
         asked' \subseteq Tabs
  PROVE  RestTypes'
BY DEF TypeOK, DragItem, RestTypes, dragVars, NoDrag

LEMMA StepInv == IInv /\ [Next]_vars => IInv'
<1> SUFFICES ASSUME IInv, [Next]_vars
             PROVE  MoveTypes' /\ RestTypes' /\ Arranged'
  BY DEF IInv, TypeOK, MoveTypes, RestTypes, Arranged
<1> USE DEF IInv, Arranged
<1>a. TypeOK /\ Arranged /\ DragItem
  OBVIOUS
<1>b. /\ listed \subseteq Windows /\ checks \subseteq Windows /\ born \subseteq Tabs
      /\ asked \subseteq Tabs
  BY DEF TypeOK
<1> HIDE DEF IInv, Arranged
<1>1. ASSUME UNCHANGED <<windowVars, homeVars, checks, tabVars, history>>
      PROVE  MoveTypes' /\ Arranged'
  BY <1>a, <1>1 DEF TypeOK, MoveTypes, Arranged, OneHome, NothingLost, NoStrayWindow, Homes,
         Tracked, Made, windowVars, homeVars, tabVars, history
<1>2. CASE UNCHANGED vars
  <2>1. RestTypes'
    BY <1>a, <1>b, <1>2, SameDrag DEF vars, windowVars, tabVars, history
  <2>2. QED
    BY <1>1, <1>2, <2>1 DEF vars
<1>3. ASSUME NEW w \in Windows, NEW t \in Tabs, TabStep(w, t)
      PROVE  MoveTypes' /\ RestTypes' /\ Arranged'
  <2>1. CASE CreateTab(w, t)
    <3>1. w \in windows
      BY <1>a, <2>1 DEF CreateTab, Arranged, Homes
    <3>2. MoveTypes' /\ born' \subseteq Tabs /\ Arranged'
      BY <1>a, <2>1, <3>1, AddKeeps DEF CreateTab, windowVars
    <3>3. QED
      BY <1>a, <1>b, <2>1, <3>2, SameDrag DEF CreateTab, windowVars, history
  <2>2. CASE CloseTab(w, t)
    <3>1. MoveTypes' /\ asked' \subseteq Tabs /\ Arranged'
      BY <1>a, <2>2, CloseTabKeeps
    <3>2. RestTypes'
      BY <1>a, <1>b, <2>2, <3>1 DEF CloseTab, TypeOK, DragItem, RestTypes
    <3>3. QED
      BY <3>1, <3>2
  <2>3. CASE MoveTabToNewWindow(w, t)
    <3>1. MoveTypes' /\ Arranged'
      BY <1>a, <2>3, ToNewWindowKeeps DEF MoveTabToNewWindow
    <3>2. QED
      BY <1>a, <1>b, <2>3, <3>1, SameDrag DEF MoveTabToNewWindow
  <2>4. CASE Press(w, t)
    <3>1. RestTypes'
      BY <1>a, <1>b, <2>4 DEF Press, TypeOK, DragItem, RestTypes, windowVars, tabVars, history
    <3>2. QED
      BY <1>1, <2>4, <3>1 DEF Press
  <2>5. CASE TabDragStarting(w, t)
    <3>1. drag' \in [from : Windows, tab : Tabs, dropped : BOOLEAN] /\ drag'.tab = t
      BY <2>5 DEF TabDragStarting
    <3>2. drag' # NoDrag
      BY <3>1, NoneAssumption DEF NoDrag
    <3>3. RestTypes'
      BY <1>a, <1>b, <2>5, <3>1, <3>2
         DEF TabDragStarting, TypeOK, DragItem, RestTypes, windowVars, tabVars, history
    <3>4. QED
      BY <1>1, <2>5, <3>3 DEF TabDragStarting
  <2>6. QED
    BY <1>3, <2>1, <2>2, <2>3, <2>4, <2>5 DEF TabStep
<1>4. ASSUME NEW w \in Windows, WindowStep(w)
      PROVE  MoveTypes' /\ RestTypes' /\ Arranged'
  <2>1. CASE CreateNewWindow(w) \/ PresentWindow(w)
    <3>1. MoveTypes' /\ Arranged'
      BY <1>a, <2>1, ShowKeeps
    <3>2. QED
      BY <1>a, <1>b, <2>1, <3>1, SameDrag DEF CreateNewWindow, PresentWindow, tabVars, history
  <2>2. CASE FirstActivated(w)
    <3>1. MoveTypes' /\ born' \subseteq Tabs /\ Arranged'
      BY <1>a, <2>2, ActivateKeeps
    <3>2. listed' \subseteq Windows
      BY <1>b, <2>2 DEF FirstActivated
    <3>3. QED
      BY <1>a, <1>b, <2>2, <3>1, <3>2, SameDrag DEF FirstActivated, history
  <2>3. CASE RequestClose(w)
    <3>1. {w} \in SUBSET windows
      BY <1>a, <2>3 DEF RequestClose, Arranged, Homes
    <3>2. MoveTypes' /\ asked' \subseteq Tabs /\ Arranged'
      BY <1>a, <2>3, <3>1, CloseKeeps DEF RequestClose
    <3>3. QED
      BY <1>a, <1>b, <2>3, <3>2, SameDrag DEF RequestClose, tabVars
  <2>4. CASE Destroy(w)
    <3>1. MoveTypes' /\ Arranged'
      BY <1>a, <2>4, DestroyKeeps
    <3>2. listed' \subseteq Windows /\ checks' \subseteq Windows
      BY <1>b, <2>4 DEF Destroy
    <3>3. QED
      BY <1>a, <1>b, <2>4, <3>1, <3>2, SameDrag DEF Destroy, history
  <2>5. CASE CheckEmpty(w)
    <3>1. CASE tabs[w] = {} /\ w \in windows
      <4>1. Close({w}) /\ asked' = asked \cup UNION {tabs[v] : v \in {w}}
        BY <2>5, <3>1 DEF CheckEmpty, history
      <4>2. MoveTypes' /\ asked' \subseteq Tabs /\ Arranged'
        BY <1>a, <2>5, <3>1, <4>1, CloseKeeps DEF CheckEmpty, history
      <4>3. QED
        BY <1>a, <1>b, <2>5, <4>2, SameDrag DEF CheckEmpty, tabVars
    <3>2. CASE ~(tabs[w] = {} /\ w \in windows)
      <4>1. /\ UNCHANGED <<windowVars, homeVars, tabVars, dragVars, history>>
            /\ checks' = checks \ {w}
        BY <2>5, <3>2 DEF CheckEmpty, windowVars
      <4>2. NoStrayWindow' /\ Tracked'
        BY <1>a, <3>2, <4>1 DEF Arranged, NoStrayWindow, Tracked, windowVars, homeVars,
                                tabVars, history
      <4>3. MoveTypes' /\ OneHome' /\ NothingLost' /\ Homes'
        BY <1>a, <4>1 DEF Arranged, TypeOK, MoveTypes, OneHome, NothingLost, Homes, Made,
                          windowVars, homeVars, tabVars, history
      <4>4. QED
        BY <1>a, <1>b, <4>1, <4>2, <4>3, SameDrag DEF Arranged, windowVars, tabVars, history
    <3>3. QED
      BY <3>1, <3>2
  <2>6. CASE TabStripDrop(w)
    <3>1. MoveTypes' /\ checks' \subseteq Windows /\ Arranged'
      BY <1>a, <2>6, DropKeeps
    <3>2. /\ drag' \in [from : Windows, tab : Tabs, dropped : BOOLEAN]
          /\ drag'.tab = drag.tab /\ drag # NoDrag
      BY <1>a, <2>6 DEF TabStripDrop, TypeOK
    <3>3. drag' # NoDrag
      BY <3>2, NoneAssumption DEF NoDrag
    <3>4. RestTypes'
      BY <1>a, <1>b, <2>6, <3>1, <3>2, <3>3
         DEF TabStripDrop, TypeOK, DragItem, RestTypes, windowVars
    <3>5. QED
      BY <3>1, <3>4
  <2>7. QED
    BY <1>4, <2>1, <2>2, <2>3, <2>4, <2>5, <2>6 DEF WindowStep
<1>5. CASE CloseAllWindows
  <2>1. MoveTypes' /\ asked' \subseteq Tabs /\ Arranged'
    BY <1>a, <1>5, CloseKeeps DEF CloseAllWindows
  <2>2. QED
    BY <1>a, <1>b, <1>5, <2>1, SameDrag DEF CloseAllWindows, tabVars
<1>6. CASE TabDragCompleted
  <2>1. RestTypes'
    BY <1>a, <1>b, <1>6
       DEF TabDragCompleted, TypeOK, DragItem, RestTypes, windowVars, tabVars, history
  <2>2. QED
    BY <1>1, <1>6, <2>1 DEF TabDragCompleted
<1>7. CASE TabDroppedOutside
  <2>1. MoveTypes' /\ Arranged'
    <3>1. CASE UNCHANGED <<phase, windows, hosts, homeVars, alive, hurt, stray>>
      BY <1>1, <1>7, <3>1 DEF TabDroppedOutside, windowVars, tabVars, history
    <3>2. CASE item # None /\ ToNewWindow(drag.from, item)
      <4>1. drag.from \in Windows /\ item \in Tabs
        BY <1>a, <1>7, <3>2 DEF TabDroppedOutside, TypeOK
      <4>2. QED
        BY <1>a, <1>7, <3>2, <4>1, ToNewWindowKeeps DEF TabDroppedOutside
    <3>3. QED
      BY <1>7, <3>1, <3>2 DEF TabDroppedOutside
  <2>2. RestTypes'
    BY <1>a, <1>b, <1>7 DEF TabDroppedOutside, TypeOK, DragItem, RestTypes
  <2>3. QED
    BY <2>1, <2>2
<1>8. QED
  BY <1>2, <1>3, <1>4, <1>5, <1>6, <1>7 DEF Next

(* A move leaves every tab but its own where it is.                        *)
LEMMA OthersStay ==
  ASSUME NEW s, NEW d, NEW t, NEW n, HandOver(s, d, t, n)
  PROVE  \A w \in Windows, u \in Tabs \ {t} : u \in tabs[w] <=> u \in tabs'[w]
BY DEF HandOver, Shifted

LEMMA StepGrabbed ==
  ASSUME IInv, [Next]_vars, drag # NoDrag, drag' # drag,
         NEW w \in Windows, NEW u \in Tabs \ {drag.tab}
  PROVE  u \in tabs[w] <=> u \in tabs'[w]
<1>1. DragItem
  BY DEF IInv
<1>2. ASSUME NEW v \in Windows, NEW t \in Tabs, TabStep(v, t)
      PROVE  FALSE
  BY <1>2 DEF TabStep, CreateTab, CloseTab, MoveTabToNewWindow, Press, TabDragStarting, dragVars
<1>3. ASSUME NEW v \in Windows, WindowStep(v)
      PROVE  TabStripDrop(v)
  BY <1>3 DEF WindowStep, CreateNewWindow, FirstActivated, PresentWindow, RequestClose,
              Destroy, CheckEmpty, dragVars
<1>4. ASSUME NEW v \in Windows, TabStripDrop(v)
      PROVE  u \in tabs[w] <=> u \in tabs'[w]
  <2>1. item # None
    BY <1>4 DEF TabStripDrop, IInv, TypeOK
  <2>2. item = drag.tab
    BY <1>1, <2>1 DEF DragItem
  <2>3. QED
    BY <1>4, <2>2, OthersStay DEF TabStripDrop, homeVars
<1>5. CASE TabDroppedOutside
  <2>1. CASE UNCHANGED homeVars
    BY <2>1 DEF homeVars
  <2>2. CASE item # None /\ ToNewWindow(drag.from, item)
    <3>1. item = drag.tab
      BY <1>1, <2>2 DEF DragItem
    <3>2. QED
      BY <2>2, <3>1, OthersStay DEF ToNewWindow, homeVars
  <2>3. QED
    BY <1>5, <2>1, <2>2 DEF TabDroppedOutside
<1>6. QED
  BY <1>2, <1>3, <1>4, <1>5 DEF Next, vars, CloseAllWindows, TabDragCompleted, dragVars,
                               homeVars

-----------------------------------------------------------------------------
(* The invariant holds in every behaviour.                                 *)
THEOREM Invariance == Spec => []IInv
BY InitInv, StepInv, PTL DEF Spec

(* The variables keep their types, and a drag in flight has an item and a  *)
(* drag of the platform behind it.                                         *)
THEOREM TypeCorrect == Spec => []TypeOK
<1>1. IInv => TypeOK
  BY DEF IInv
<1>2. QED
  BY <1>1, Invariance, PTL

(* However tabs are dragged, dropped, torn out and closed, a tab is in one *)
(* window, with its item and its panel.                                    *)
THEOREM OneHomeEach == Spec => []OneHome
<1>1. IInv => OneHome
  BY DEF IInv
<1>2. QED
  BY <1>1, Invariance, PTL

(* Only a close or a move that threw ends a tab.                           *)
THEOREM MovesLoseNothing == Spec => []NothingLost
<1>1. IInv => NothingLost
  BY DEF IInv
<1>2. QED
  BY <1>1, Invariance, PTL

(* Only a move that threw leaves a window nobody sees or one without tabs. *)
THEOREM NoWindowLeft == Spec => []NoStrayWindow
<1>1. IInv => NoStrayWindow
  BY DEF IInv
<1>2. QED
  BY <1>1, Invariance, PTL

(* What a drag moves is the header it grabbed.                             *)
THEOREM GrabbedMoves == Spec => DragMovesGrabbed
<1>1. IInv /\ [Next]_vars =>
        [drag # NoDrag /\ drag' # drag =>
           \A w \in Windows, t \in Tabs \ {drag.tab} : t \in tabs[w] <=> t \in tabs'[w]]_vars
  BY StepGrabbed
<1>2. QED
  BY <1>1, Invariance, PTL DEF Spec, DragMovesGrabbed

-----------------------------------------------------------------------------
(* The focus among the panes of a window (PaneFocus). *)

(* A parked shell is in no tree and behind one pane; the active pane of a  *)
(* tab is in its tree.                                                     *)
Trees ==
  /\ \A p \in Panes : shell[p] # Null => home[p] # Null /\ home[shell[p]] = Null
  /\ \A p, q \in Panes : shell[p] = shell[q] /\ shell[p] # Null => p = q
  /\ \A p \in Panes : home[p] # Null =>
       active[home[p]] \in Panes /\ home[active[home[p]]] = home[p]
  /\ ActivePane \in Panes /\ home[ActivePane] = selected

(* One pane at most waits to be loaded, in a tab without a zoom.           *)
Loading ==
  /\ \A p \in loaded : home[p] # Null
  /\ \A p, q \in Panes \ loaded : home[p] # Null /\ home[q] # Null => p = q
  /\ \A p \in Panes \ loaded : home[p] # Null => zoomed[home[p]] = Null

(* The last Activated event still to come tells how the window stands.     *)
InFront == acts # <<>> => acts[Len(acts)] = fg

FocusShown ==
  focus.pane # Null =>
    /\ focus.pane \in loaded /\ home[focus.pane] = selected
    /\ zoomed[selected] \in {Null, focus.pane}

EventsLive ==
  \A i \in DOMAIN events : events[i].pane # Null => home[events[i].pane] # Null

(* The last event owed to a pane tells it whether it has the focus.        *)
Settles ==
  \A i \in DOMAIN events :
    events[i].pane # Null /\ (\A j \in DOMAIN events : j > i => events[j].pane # events[i].pane) =>
      (events[i].op = "got" <=> focus.pane = events[i].pane)

Got(p) == [op |-> "got", pane |-> p]

(* After a pane that lost the focus since is told that it got it, the one  *)
(* that has it is told so too.                                             *)
GotLast ==
  \A i \in DOMAIN events :
    /\ focus.pane # Null /\ events[i].pane \notin {Null, focus.pane}
    /\ events[i].op = "got"
    => \E j \in DOMAIN events : j > i /\ events[j] = Got(focus.pane)

Late == FocusShown /\ EventsLive /\ Settles /\ GotLast

Pending(p) == \E i \in DOMAIN events : events[i].pane = p

Gained(p) == \E i \in DOMAIN events : events[i] = Got(p)

(* A pane that takes the focus as soon as it is loaded. *)
Awaited(p) == p \notin loaded /\ home[p] = selected

Coming == \E p \in Panes : Awaited(p)

ZoomedActs == \A t \in Strip : zoomed[t] \in {Null, active[t]}

(* The context that is typed into is engaged, an engaged one belongs to    *)
(* the terminal with the focus or to one an event will reach, and that     *)
(* terminal is engaged or will be.                                         *)
Engaged ==
  /\ typed # Null => engage[typed] /\ typed \in context
  /\ \A p \in Panes : engage[p] =>
       home[p] # Null /\ (focus = Terminal(p) \/ Pending(p) \/ Awaited(p))
  /\ focus.at = "terminal" =>
       \/ engage[focus.pane] \/ Pending(focus.pane) \/ Coming
       \/ ~fg \/ acts # <<>> \/ "restore" \in queued

Told ==
  \A p \in lib : home[p] # Null /\ (focus.pane = p \/ Pending(p) \/ Awaited(p))

Follows ==
  focus.pane # Null => Coming \/ ActivePane = focus.pane \/ Gained(focus.pane)

Lawful == ZoomedActs /\ Engaged /\ Told /\ Follows

FocusInv ==
  /\ FocusTypeOK /\ Trees /\ Loading /\ InFront /\ Late
  /\ astray = {} => Lawful

Event == [op : {"got", "lost"}, pane : Panes \cup {Null}]

(* FocusTypeOK without the focus and its events, which Moves sets.         *)
RestTyped ==
  /\ home \in [Panes -> Strip \cup {Null}] /\ shell \in [Panes -> Panes \cup {Null}]
  /\ loaded \subseteq Panes /\ context \subseteq Panes /\ search \subseteq Panes
  /\ selected \in Strip /\ active \in [Strip -> Panes \cup {Null}]
  /\ zoomed \in [Strip -> Panes \cup {Null}]
  /\ popup \in BOOLEAN /\ fg \in BOOLEAN /\ told \in BOOLEAN
  /\ back \in Elements /\ acts \in Seq(BOOLEAN)
  /\ engage \in [Panes -> BOOLEAN] /\ typed \in Panes \cup {Null}
  /\ lib \subseteq Panes /\ astray \subseteq {"hidden", "skipped"} /\ queued \subseteq {"focus", "restore"}

LEMMA TypedIs == FocusTypeOK <=> RestTyped /\ focus \in Elements /\ events \in Seq(Event)
BY DEF FocusTypeOK, RestTyped, Event

LEMMA ElementIs ==
  ASSUME NEW el \in Elements
  PROVE  /\ el.pane \in Panes \cup {Null}
         /\ el.at \in {"terminal", "bar"} => el.pane \in Panes /\ el.pane # Null
         /\ el.at = "terminal" => el = Terminal(el.pane)
         /\ el.pane # Null => el \in {Terminal(el.pane), Bar(el.pane)}
BY NullAssumption DEF Elements, Terminal, Bar, Elsewhere

LEMMA ElementsAre ==
  /\ Elsewhere \in Elements /\ Elsewhere.pane = Null
  /\ \A p \in Panes : /\ Terminal(p) \in Elements /\ Bar(p) \in Elements
                      /\ Terminal(p).pane = p /\ Bar(p).pane = p
                      /\ Terminal(p) # Bar(p) /\ p # Null
BY NullAssumption DEF Elements, Terminal, Bar, Elsewhere

-----------------------------------------------------------------------------
(* What the focus does when it moves. *)

(* The focus goes to an element that can have it, or nowhere.              *)
Placed ==
  /\ focus' \in Elements
  /\ focus'.pane # Null => CanFocus(focus'.pane)
  /\ Moves(focus')

(* The focus stays, or leaves an element that cannot keep it. *)
LEMMA RestsPlaces ==
  ASSUME FocusTypeOK, Rests
  PROVE  Placed /\ focus' \in {focus, Elsewhere}
<1> DEFINE el == IF focus.pane # Null /\ ~CanFocus(focus.pane) THEN Elsewhere ELSE focus
<1>1. Moves(el)
  BY DEF Rests
<1>2. focus' = el
  BY <1>1 DEF Moves
<1>3. el \in Elements /\ (el.pane # Null => CanFocus(el.pane))
  BY ElementsAre DEF FocusTypeOK
<1> HIDE DEF el
<1>4. Placed
  BY <1>1, <1>2, <1>3 DEF Placed
<1> QED
  BY <1>2, <1>4 DEF el

(* SetFocus on a control that cannot take it moves nothing. *)
LEMMA TakeFocusPlaces ==
  ASSUME FocusTypeOK, NEW p \in Panes \cup {Null}, TakeFocus(p)
  PROVE  /\ Placed
         /\ p # Null /\ CanFocus(p) => focus' = Terminal(p)
         /\ ~(p # Null /\ CanFocus(p)) => focus' \in {focus, Elsewhere}
<1>1. CASE p # Null /\ CanFocus(p)
  <2>1. Moves(Terminal(p))
    BY <1>1 DEF TakeFocus
  <2>2. focus' = Terminal(p)
    BY <2>1 DEF Moves
  <2>3. p \in Panes /\ Terminal(p) \in Elements /\ Terminal(p).pane = p
    BY <1>1, ElementsAre
  <2>4. Placed
    BY <1>1, <2>1, <2>2, <2>3 DEF Placed
  <2> QED
    BY <1>1, <2>2, <2>4
<1>2. CASE ~(p # Null /\ CanFocus(p))
  BY <1>2, RestsPlaces DEF TakeFocus
<1> QED
  BY <1>1, <1>2

LEMMA MovesPlaces ==
  ASSUME NEW el \in Elements, el.pane # Null => CanFocus(el.pane), Moves(el)
  PROVE  Placed /\ focus' = el
BY DEF Placed, Moves

(* The events after a move, position by position.                          *)
Tells ==
  /\ events' \in Seq(Event)
  /\ DOMAIN events \subseteq DOMAIN events'
  /\ \A i \in DOMAIN events : events'[i] = Owed[i]
  /\ focus' = focus => DOMAIN events' = DOMAIN events
  /\ \A i \in DOMAIN events' : i \notin DOMAIN events =>
       /\ focus' # focus /\ \A j \in DOMAIN events : i > j
       /\ \/ /\ focus.pane # Null /\ home'[focus.pane] # Null
             /\ events'[i] = [op |-> "lost", pane |-> focus.pane]
          \/ /\ focus'.pane # Null /\ events'[i] = Got(focus'.pane)
             /\ \A j \in DOMAIN events' : j <= i
  /\ focus' # focus /\ focus.pane # Null /\ home'[focus.pane] # Null =>
       \E i \in DOMAIN events' : i \notin DOMAIN events /\ events'[i] = [op |-> "lost", pane |-> focus.pane]
  /\ focus' # focus /\ focus'.pane # Null =>
       \E i \in DOMAIN events' : i \notin DOMAIN events /\ events'[i] = Got(focus'.pane)

(* The events still owed keep their places; those of panes that left the   *)
(* tree are struck.                                                        *)
LEMMA OwedIs ==
  ASSUME FocusTypeOK, home' \in [Panes -> Strip \cup {Null}]
  PROVE  /\ Owed \in Seq(Event) /\ DOMAIN Owed = DOMAIN events /\ Len(Owed) = Len(events)
         /\ \A i \in DOMAIN events :
              IF events[i].pane # Null /\ home'[events[i].pane] = Null
              THEN Owed[i].pane = Null /\ Owed[i].op = events[i].op ELSE Owed[i] = events[i]
<1>1. events \in Seq(Event) /\ DOMAIN events = 1 .. Len(events) /\ Len(events) \in Nat
  BY TypedIs, LenProperties
<1>2. \A i \in DOMAIN events : events[i] \in Event
  BY <1>1
<1>3. ASSUME NEW i \in DOMAIN events
      PROVE  /\ Owed[i] \in Event
             /\ IF events[i].pane # Null /\ home'[events[i].pane] = Null
                THEN Owed[i].pane = Null /\ Owed[i].op = events[i].op ELSE Owed[i] = events[i]
  BY <1>2 DEF Owed, Event
<1>4. DOMAIN Owed = 1 .. Len(events) /\ Owed = [i \in 1 .. Len(events) |-> Owed[i]]
  BY <1>1 DEF Owed
<1>5. Owed \in [1 .. Len(events) -> Event]
  BY <1>1, <1>3, <1>4
<1>6. Owed \in Seq(Event)
  BY <1>1, <1>5, IsASeq
<1>7. Len(Owed) = Len(events)
  BY <1>1, <1>4, <1>6, LenProperties
<1> QED
  BY <1>1, <1>3, <1>4, <1>6, <1>7

(* r is s followed by t, position by position. *)
Joins(S, r, s, t) ==
  /\ r \in Seq(S) /\ Len(r) = Len(s) + Len(t)
  /\ \A i \in 1 .. Len(s) : r[i] = s[i]
  /\ \A i \in 1 .. Len(t) : r[Len(s) + i] = t[i]

LEMMA Joined ==
  ASSUME NEW S, NEW s \in Seq(S), NEW t \in Seq(S)
  PROVE  Joins(S, s \o t, s, t)
<1> DEFINE r == s \o t
<1>1. /\ r \in Seq(S) /\ Len(r) = Len(s) + Len(t)
      /\ \A i \in 1 .. Len(s) + Len(t) : r[i] = IF i <= Len(s) THEN s[i] ELSE t[i - Len(s)]
  BY ConcatProperties
<1>2. Len(s) \in Nat /\ Len(t) \in Nat
  BY LenProperties
<1> HIDE DEF r
<1>3. \A i \in 1 .. Len(s) : r[i] = s[i]
  BY <1>1, <1>2
<1>4. \A i \in 1 .. Len(t) : r[Len(s) + i] = t[i]
  <2> TAKE i \in 1 .. Len(t)
  <2>1. Len(s) + i \in 1 .. Len(s) + Len(t) /\ ~(Len(s) + i <= Len(s)) /\ Len(s) + i - Len(s) = i
    BY <1>2
  <2> QED
    BY <1>1, <2>1
<1>5. Joins(S, r, s, t)
  BY <1>1, <1>3, <1>4 DEF Joins
<1> QED
  BY <1>5 DEF r

(* A move of the focus owes a loss to the element left and a gain to the   *)
(* element reached.                                                        *)
LEMMA MovesTells ==
  ASSUME FocusTypeOK, home' \in [Panes -> Strip \cup {Null}], Placed, selected' \in Strip
  PROVE  Tells
<1> DEFINE n == Len(events)
           L == Raised("lost", focus)
           G == Raised("got", focus')
<1>1. /\ Owed \in Seq(Event) /\ DOMAIN events = 1 .. n /\ n \in Nat
      /\ DOMAIN Owed = 1 .. n /\ Len(Owed) = n
  BY OwedIs, TypedIs, LenProperties
<1>2. focus' \in Elements /\ focus \in Elements
  BY DEF Placed, FocusTypeOK
<1>3. focus'.pane \in Panes \cup {Null} /\ focus.pane \in Panes \cup {Null}
  BY <1>2, ElementIs
<1>4. focus'.pane # Null => home'[focus'.pane] # Null
  BY NullAssumption DEF Placed, CanFocus
<1>5. events' = IF focus' = focus THEN Owed ELSE Owed \o L \o G
  BY DEF Placed, Moves
<1>6. /\ L = IF focus.pane # Null /\ home'[focus.pane] # Null
             THEN <<[op |-> "lost", pane |-> focus.pane]>> ELSE <<>>
      /\ G = IF focus'.pane # Null THEN <<Got(focus'.pane)>> ELSE <<>>
  BY <1>4 DEF Raised, Got
<1>7. L \in Seq(Event) /\ G \in Seq(Event)
  <2>1. focus.pane # Null => [op |-> "lost", pane |-> focus.pane] \in Event
    BY <1>3 DEF Event
  <2>2. focus'.pane # Null => Got(focus'.pane) \in Event
    BY <1>3 DEF Event, Got
  <2> HIDE DEF L, G
  <2> QED
    BY <1>6, <2>1, <2>2
<1> HIDE DEF L, G
<1>8. CASE focus' = focus
  <2>1. events' = Owed
    BY <1>5, <1>8
  <2> QED
    BY <1>1, <1>8, <2>1 DEF Tells
<1>9. CASE focus' # focus
  <2> DEFINE a == Owed \o L
  <2>1. /\ a \in Seq(Event) /\ Len(a) = n + Len(L)
        /\ \A i \in 1 .. n : a[i] = Owed[i]
        /\ \A i \in 1 .. Len(L) : a[n + i] = L[i]
    <3>1. Joins(Event, a, Owed, L)
      BY <1>1, <1>7, Joined
    <3> HIDE DEF a
    <3> QED
      BY <1>1, <3>1 DEF Joins
  <2> HIDE DEF a
  <2>2. events' = a \o G
    BY <1>5, <1>9 DEF a
  <2>3. /\ events' \in Seq(Event) /\ Len(events') = Len(a) + Len(G)
        /\ \A i \in 1 .. Len(a) : events'[i] = a[i]
        /\ \A i \in 1 .. Len(G) : events'[Len(a) + i] = G[i]
    <3>1. Joins(Event, a \o G, a, G)
      BY <1>7, <2>1, Joined
    <3>2. Joins(Event, events', a, G)
      BY <2>2, <3>1
    <3> QED
      BY <3>2 DEF Joins
  <2>4. DOMAIN events' = 1 .. Len(events') /\ Len(L) \in Nat /\ Len(G) \in Nat
    BY <1>7, <2>3, LenProperties
  <2>5. /\ IF focus.pane # Null /\ home'[focus.pane] # Null
           THEN Len(L) = 1 /\ L[1] = [op |-> "lost", pane |-> focus.pane] ELSE Len(L) = 0
        /\ IF focus'.pane # Null THEN Len(G) = 1 /\ G[1] = Got(focus'.pane) ELSE Len(G) = 0
    BY <1>6
  <2>6. \A i \in DOMAIN events : i \in DOMAIN events' /\ events'[i] = Owed[i]
    BY <1>1, <2>1, <2>3, <2>4
  <2>7. ASSUME NEW i \in DOMAIN events', i \notin DOMAIN events
        PROVE  /\ \A j \in DOMAIN events : i > j
               /\ \/ /\ focus.pane # Null /\ home'[focus.pane] # Null
                     /\ events'[i] = [op |-> "lost", pane |-> focus.pane]
                  \/ /\ focus'.pane # Null /\ events'[i] = Got(focus'.pane)
                     /\ \A j \in DOMAIN events' : j <= i
    <3>1. i \in Nat /\ i > n /\ i <= n + Len(L) + Len(G)
      BY <1>1, <2>1, <2>3, <2>4, <2>7
    <3>2. CASE i <= Len(a)
      <4>1. Len(L) = 1 /\ i = n + 1
        BY <1>1, <2>1, <2>4, <2>5, <3>1, <3>2
      <4> QED
        BY <1>1, <2>1, <2>3, <2>4, <2>5, <4>1
    <3>3. CASE i > Len(a)
      <4>1. Len(G) = 1 /\ i = Len(a) + 1 /\ i = Len(events')
        BY <1>1, <2>1, <2>3, <2>4, <2>5, <3>1, <3>3
      <4> QED
        BY <1>1, <2>1, <2>3, <2>4, <2>5, <3>1, <4>1
    <3> QED
      BY <2>1, <3>1, <3>2, <3>3, <1>1, <2>4
  <2>8. focus.pane # Null /\ home'[focus.pane] # Null =>
          \E i \in DOMAIN events' :
            i \notin DOMAIN events /\ events'[i] = [op |-> "lost", pane |-> focus.pane]
    <3> HAVE focus.pane # Null /\ home'[focus.pane] # Null
    <3>1. n + 1 \in DOMAIN events' /\ n + 1 \notin DOMAIN events /\ events'[n + 1] = L[1]
      BY <1>1, <2>1, <2>3, <2>4, <2>5
    <3> QED
      BY <2>5, <3>1
  <2>9. focus'.pane # Null =>
          \E i \in DOMAIN events' : i \notin DOMAIN events /\ events'[i] = Got(focus'.pane)
    <3> HAVE focus'.pane # Null
    <3>1. /\ Len(a) + 1 \in DOMAIN events' /\ Len(a) + 1 \notin DOMAIN events
          /\ events'[Len(a) + 1] = G[1]
      BY <1>1, <2>1, <2>3, <2>4, <2>5
    <3> QED
      BY <2>5, <3>1
  <2> HIDE DEF n
  <2> QED
    BY <1>9, <2>3, <2>6, <2>7, <2>8, <2>9 DEF Tells
<1> QED
  BY <1>8, <1>9

(* What a move of the focus leaves owed. *)
Moved ==
  /\ \A p \in Panes : home'[p] # Null => (Pending(p) => Pending(p)') /\ (Gained(p) => Gained(p)')
  /\ focus' # focus =>
       /\ \A p \in Panes : p = focus.pane /\ home'[p] # Null => Pending(p)'
       /\ focus'.pane # Null => Pending(focus.pane)' /\ Gained(focus.pane)'

(* After a move the last event owed to each pane still tells it how it     *)
(* stands.                                                                 *)
LEMMA MovesSettle ==
  ASSUME FocusTypeOK, Late, home' \in [Panes -> Strip \cup {Null}], selected' \in Strip, Placed
  PROVE  Tells /\ Late' /\ Moved
<1>1. Tells
  BY MovesTells
<1>2. /\ \A i \in DOMAIN events :
           IF events[i].pane # Null /\ home'[events[i].pane] = Null
           THEN Owed[i].pane = Null ELSE Owed[i] = events[i]
  BY OwedIs
<1>3. /\ \A i \in DOMAIN events : i \in DOMAIN events' /\
           IF events[i].pane # Null /\ home'[events[i].pane] = Null
           THEN events'[i].pane = Null ELSE events'[i] = events[i]
  BY <1>1, <1>2 DEF Tells
<1>4. /\ focus \in Elements /\ focus' \in Elements
      /\ focus.pane \in Panes \cup {Null} /\ focus'.pane \in Panes \cup {Null}
  BY ElementIs DEF FocusTypeOK, Placed
<1>5. focus'.pane # Null =>
        focus'.pane \in loaded' /\ home'[focus'.pane] = selected' /\ home'[focus'.pane] # Null
        /\ zoomed'[selected'] \in {Null, focus'.pane}
  BY NullAssumption DEF Placed, CanFocus
<1>6. FocusShown'
  BY <1>5 DEF FocusShown
<1>7. DOMAIN events \in SUBSET Nat /\ DOMAIN events' \in SUBSET Nat
  BY <1>1, TypedIs, LenProperties DEF Tells
<1>8. ASSUME NEW i \in DOMAIN events', i \notin DOMAIN events
      PROVE  /\ focus' # focus /\ \A j \in DOMAIN events : i > j
             /\ \/ /\ focus.pane # Null /\ home'[focus.pane] # Null
                   /\ events'[i] = [op |-> "lost", pane |-> focus.pane]
                \/ /\ focus'.pane # Null /\ events'[i] = Got(focus'.pane)
                   /\ \A j \in DOMAIN events' : j <= i
  BY <1>1, <1>8 DEF Tells
<1>9. focus' # focus /\ focus.pane # Null /\ home'[focus.pane] # Null =>
       \E i \in DOMAIN events' : i \notin DOMAIN events /\ events'[i] = [op |-> "lost", pane |-> focus.pane]
  BY <1>1 DEF Tells
<1>10. focus' # focus /\ focus'.pane # Null =>
       \E i \in DOMAIN events' : i \notin DOMAIN events /\ events'[i] = Got(focus'.pane)
  BY <1>1 DEF Tells
<1>11. \A p \in Panes, i \in DOMAIN events :
         events[i].pane = p /\ home'[p] # Null => events'[i] = events[i]
  BY <1>3
<1>12. EventsLive'
  <2> SUFFICES ASSUME NEW i \in DOMAIN events', events'[i].pane # Null
               PROVE  home'[events'[i].pane] # Null
    BY DEF EventsLive
  <2>1. CASE i \in DOMAIN events
    BY <1>3, <2>1
  <2>2. CASE i \notin DOMAIN events
    BY <1>5, <1>8, <2>2 DEF Got
  <2> QED
    BY <2>1, <2>2
<1>13. Settles'
  <2> SUFFICES ASSUME NEW i \in DOMAIN events', events'[i].pane # Null,
                      \A j \in DOMAIN events' : j > i => events'[j].pane # events'[i].pane
               PROVE  events'[i].op = "got" <=> focus'.pane = events'[i].pane
    BY DEF Settles
  <2>1. CASE i \notin DOMAIN events
    <3>1. CASE focus'.pane # Null /\ events'[i] = Got(focus'.pane)
      BY <3>1 DEF Got
    <3>2. CASE focus.pane # Null /\ events'[i] = [op |-> "lost", pane |-> focus.pane]
      <4>1. ASSUME focus'.pane = focus.pane
            PROVE  FALSE
        <5>1. PICK j \in DOMAIN events' : j \notin DOMAIN events /\ events'[j] = Got(focus'.pane)
          BY <1>8, <1>10, <2>1, <3>2, <4>1
        <5>2. j # i /\ events'[j].pane = events'[i].pane /\ events'[j].op = "got"
          BY <3>2, <4>1, <5>1 DEF Got
        <5>3. i <= j
          BY <1>8, <5>1, <5>2
        <5> QED
          BY <1>7, <5>2, <5>3
      <4> QED
        BY <3>2, <4>1
    <3> QED
      BY <1>8, <2>1, <3>1, <3>2
  <2>2. CASE i \in DOMAIN events
    <3>1. events'[i] = events[i] /\ events[i].pane # Null /\ home'[events[i].pane] # Null
      BY <1>3, <2>2
    <3>2. \A j \in DOMAIN events : j > i => events[j].pane # events[i].pane
      <4> SUFFICES ASSUME NEW j \in DOMAIN events, j > i, events[j].pane = events[i].pane
                   PROVE  FALSE
        OBVIOUS
      <4>1. j \in DOMAIN events' /\ events'[j] = events[j]
        BY <1>3, <3>1
      <4> QED
        BY <3>1, <4>1
    <3>3. events[i].op = "got" <=> focus.pane = events[i].pane
      BY <2>2, <3>1, <3>2 DEF Late, Settles
    <3>4. CASE focus' = focus
      BY <3>1, <3>3, <3>4
    <3>5. CASE focus' # focus
      <4>1. focus.pane # events[i].pane
        <5> SUFFICES ASSUME focus.pane = events[i].pane PROVE FALSE
          OBVIOUS
        <5>1. PICK j \in DOMAIN events' : j \notin DOMAIN events /\ events'[j] = [op |-> "lost", pane |-> focus.pane]
          BY <1>9, <3>1, <3>5
        <5>2. j > i /\ events'[j].pane = events'[i].pane
          BY <1>8, <2>2, <3>1, <5>1
        <5> QED
          BY <5>2
      <4>2. focus'.pane # events[i].pane
        <5> SUFFICES ASSUME focus'.pane = events[i].pane PROVE FALSE
          OBVIOUS
        <5>1. PICK j \in DOMAIN events' : j \notin DOMAIN events /\ events'[j] = Got(focus'.pane)
          BY <1>10, <3>1, <3>5
        <5>2. j > i /\ events'[j].pane = events'[i].pane
          BY <1>8, <2>2, <3>1, <5>1 DEF Got
        <5> QED
          BY <5>2
      <4> QED
        BY <3>1, <3>3, <4>1, <4>2
    <3> QED
      BY <3>4, <3>5
  <2> QED
    BY <2>1, <2>2
<1>14. GotLast'
  <2> SUFFICES ASSUME NEW i \in DOMAIN events', focus'.pane # Null,
                      events'[i].pane \notin {Null, focus'.pane}, events'[i].op = "got"
               PROVE  \E j \in DOMAIN events' : j > i /\ events'[j] = Got(focus'.pane)
    BY DEF GotLast
  <2>1. CASE focus' # focus
    <3>1. PICK j \in DOMAIN events' : j \notin DOMAIN events /\ events'[j] = Got(focus'.pane)
      BY <1>10, <2>1
    <3>2. i # j
      BY <3>1 DEF Got
    <3>3. i <= j
      <4>1. CASE events'[j] = [op |-> "lost", pane |-> focus.pane]
        BY <3>1, <4>1 DEF Got
      <4> QED
        BY <1>8, <3>1, <4>1
    <3> QED
      BY <1>7, <3>1, <3>2, <3>3
  <2>2. CASE focus' = focus
    <3>1. i \in DOMAIN events
      BY <1>8, <2>2
    <3>2. events'[i] = events[i]
      BY <1>3, <3>1
    <3>3. PICK j \in DOMAIN events : j > i /\ events[j] = Got(focus.pane)
      BY <2>2, <3>1, <3>2 DEF Late, GotLast
    <3>4. j \in DOMAIN events' /\ events'[j] = events[j]
      BY <1>3, <1>5, <2>2, <3>3 DEF Got
    <3> QED
      BY <2>2, <3>3, <3>4
  <2> QED
    BY <2>1, <2>2
<1>15. Moved
  <2>1. ASSUME NEW p \in Panes, home'[p] # Null
        PROVE  (Pending(p) => Pending(p)') /\ (Gained(p) => Gained(p)')
    <3>1. \A i \in DOMAIN events : events[i].pane = p => i \in DOMAIN events' /\ events'[i] = events[i]
      BY <1>3, <1>11, <2>1
    <3>2. Pending(p) => Pending(p)'
      BY <3>1 DEF Pending
    <3>3. Gained(p) => Gained(p)'
      BY <3>1 DEF Gained, Got
    <3> QED
      BY <3>2, <3>3
  <2>2. ASSUME focus' # focus, NEW p \in Panes, p = focus.pane, home'[p] # Null
        PROVE  Pending(p)'
    BY <1>9, <2>2, NullAssumption DEF Pending
  <2>3. ASSUME focus' # focus, focus'.pane # Null
        PROVE  Pending(focus.pane)' /\ Gained(focus.pane)'
    BY <1>10, <2>3 DEF Pending, Gained, Got
  <2> QED
    BY <2>1, <2>2, <2>3 DEF Moved
<1> QED
  BY <1>1, <1>6, <1>12, <1>13, <1>14, <1>15 DEF Late

(* What a step that arranges the tree and moves the focus does to what is  *)
(* engaged, to what libghostty holds and to the active pane.               *)
Keeps ==
  /\ typed' # Null => engage'[typed'] /\ typed' \in context'
  /\ \A p \in Panes : engage'[p] =>
       home'[p] # Null /\ (engage[p] \/ focus' = Terminal(p) \/ Awaited(p)')
  /\ \A p \in lib' : home'[p] # Null /\ (p \in lib \/ focus'.pane = p \/ Awaited(p)')
  /\ \A p \in Panes : Awaited(p) /\ home'[p] # Null => Awaited(p)' \/ focus' = Terminal(p)
  /\ focus' = focus =>
       /\ Coming => Coming'
       /\ focus.pane # Null /\ ActivePane = focus.pane => Coming' \/ ActivePane' = focus.pane
       /\ focus.at = "terminal" /\ engage[focus.pane] => engage'[focus.pane]
       /\ focus.at = "terminal" /\ (~fg \/ acts # <<>> \/ "restore" \in queued) =>
            \/ engage'[focus.pane] \/ Pending(focus.pane)' \/ Coming'
            \/ ~fg' \/ acts' # <<>> \/ "restore" \in queued'

(* A step that keeps what is said of every other pane keeps who has the    *)
(* keyboard and who was told.                                              *)
LEMMA KeepsLawful ==
  ASSUME FocusInv, Lawful, FocusTypeOK', Placed, Moved, Keeps, ZoomedActs'
  PROVE  Lawful'
<1>1. /\ focus \in Elements /\ focus' \in Elements
      /\ focus.pane \in Panes \cup {Null} /\ focus'.pane \in Panes \cup {Null}
      /\ focus.at = "terminal" => focus.pane # Null /\ focus = Terminal(focus.pane)
      /\ focus'.at = "terminal" => focus'.pane # Null /\ focus' = Terminal(focus'.pane)
  BY ElementIs DEF FocusInv, FocusTypeOK
<1>2. \A p \in Panes : Terminal(p).pane = p /\ Terminal(p) \in Elements
  BY ElementsAre
<1>3. focus'.pane # Null => home'[focus'.pane] # Null
  BY NullAssumption DEF Placed, CanFocus, FocusTypeOK
<1>4. \A p \in Panes : home'[p] # Null => (Pending(p) => Pending(p)') /\ (Gained(p) => Gained(p)')
  BY DEF Moved
<1>5. focus' # focus => \A p \in Panes : p = focus.pane /\ home'[p] # Null => Pending(p)'
  BY DEF Moved
<1>6. focus' # focus /\ focus'.pane # Null => Pending(focus.pane)' /\ Gained(focus.pane)'
  BY DEF Moved
<1>7. \A p \in Panes : Awaited(p) /\ home'[p] # Null => Awaited(p)' \/ focus' = Terminal(p)
  BY DEF Keeps
<1>8. Engaged'
  <2>1. typed' # Null => engage'[typed'] /\ typed' \in context'
    BY DEF Keeps
  <2>2. ASSUME NEW p \in Panes, engage'[p]
        PROVE  home'[p] # Null /\ (focus' = Terminal(p) \/ Pending(p)' \/ Awaited(p)')
    <3>1. home'[p] # Null /\ (engage[p] \/ focus' = Terminal(p) \/ Awaited(p)')
      BY <2>2 DEF Keeps
    <3>2. CASE engage[p]
      <4>1. focus = Terminal(p) \/ Pending(p) \/ Awaited(p)
        BY <3>2 DEF Lawful, Engaged
      <4>2. CASE focus = Terminal(p)
        <5>1. focus.pane = p
          BY <1>2, <4>2
        <5> QED
          BY <1>5, <3>1, <4>2, <5>1
      <4> QED
        BY <1>4, <1>7, <3>1, <4>1, <4>2
    <3> QED
      BY <3>1, <3>2
  <2>3. ASSUME focus'.at = "terminal"
        PROVE  \/ engage'[focus'.pane] \/ Pending(focus.pane)' \/ Coming'
               \/ ~fg' \/ acts' # <<>> \/ "restore" \in queued'
    <3>1. CASE focus' # focus
      BY <1>1, <1>6, <2>3, <3>1
    <3>2. CASE focus' = focus
      <4>1. \/ engage[focus.pane] \/ Pending(focus.pane) \/ Coming
            \/ ~fg \/ acts # <<>> \/ "restore" \in queued
        BY <2>3, <3>2 DEF Lawful, Engaged
      <4>2. CASE Pending(focus.pane)
        <5>1. \A p \in Panes : p = focus.pane => Pending(p)'
          BY <1>1, <1>3, <1>4, <2>3, <3>2, <4>2
        <5>2. focus'.pane \in Panes
          BY <1>1, <2>3
        <5>3. \A p \in Panes : p = focus'.pane => Pending(focus.pane)'
          BY <3>2, <5>1 DEF Pending
        <5> QED
          BY <5>2, <5>3
      <4>3. CASE ~Pending(focus.pane)
        BY <2>3, <3>2, <4>1, <4>3 DEF Keeps
      <4> QED
        BY <4>2, <4>3
    <3> QED
      BY <3>1, <3>2
  <2> QED
    BY <2>1, <2>2, <2>3 DEF Engaged
<1>9. Told'
  <2> SUFFICES ASSUME NEW p \in lib'
               PROVE  home'[p] # Null /\ (focus'.pane = p \/ Pending(p)' \/ Awaited(p)')
    BY DEF Told
  <2>1. p \in Panes
    BY DEF FocusTypeOK
  <2>2. home'[p] # Null /\ (p \in lib \/ focus'.pane = p \/ Awaited(p)')
    BY DEF Keeps
  <2>3. CASE p \in lib
    <3>1. focus.pane = p \/ Pending(p) \/ Awaited(p)
      BY <2>3 DEF Lawful, Told
    <3>2. CASE focus.pane = p
      BY <1>5, <2>1, <2>2, <3>2
    <3> QED
      BY <1>2, <1>4, <1>7, <2>1, <2>2, <3>1, <3>2
  <2> QED
    BY <2>2, <2>3
<1>10. Follows'
  <2> SUFFICES ASSUME focus'.pane # Null
               PROVE  Coming' \/ ActivePane' = focus'.pane \/ Gained(focus.pane)'
    BY DEF Follows
  <2>1. CASE focus' # focus
    BY <1>6, <2>1
  <2>2. CASE focus' = focus
    <3>1. Coming \/ ActivePane = focus.pane \/ Gained(focus.pane)
      BY <2>2 DEF Lawful, Follows
    <3>2. CASE Gained(focus.pane)
      <4>1. \A p \in Panes : p = focus.pane => Gained(p)'
        BY <1>3, <1>4, <2>2, <3>2
      <4>2. focus'.pane \in Panes
        BY <1>1
      <4>3. \A p \in Panes : p = focus'.pane => Gained(focus.pane)'
        BY <2>2, <4>1 DEF Gained
      <4> QED
        BY <4>2, <4>3
    <3> QED
      BY <2>2, <3>1, <3>2 DEF Keeps
  <2> QED
    BY <2>1, <2>2
<1> QED
  BY <1>8, <1>9, <1>10 DEF Lawful

(* A step that moves the focus keeps the invariant, if the rest of it is   *)
(* in order.                                                               *)
LEMMA Arranges ==
  ASSUME FocusInv, RestTyped', Placed, Trees', Loading', InFront',
         astray' = {} => astray = {} /\ (Lawful => ZoomedActs' /\ (Moved => Keeps))
  PROVE  FocusInv'
<1>1. home' \in [Panes -> Strip \cup {Null}] /\ selected' \in Strip
  BY DEF RestTyped
<1>2. FocusTypeOK /\ Late
  BY DEF FocusInv
<1>3. Tells /\ Late' /\ Moved
  BY <1>1, <1>2, MovesSettle
<1>4. FocusTypeOK'
  <2>1. FocusTypeOK' <=> RestTyped' /\ focus' \in Elements /\ events' \in Seq(Event)
    BY DEF FocusTypeOK, RestTyped, Event
  <2> QED
    BY <1>3, <2>1 DEF Tells, Placed
<1>5. ASSUME astray' = {}
      PROVE  Lawful'
  <2>1. Lawful /\ ZoomedActs' /\ Keeps
    BY <1>3, <1>5 DEF FocusInv
  <2> QED
    BY <1>3, <1>4, <2>1, KeepsLawful
<1> QED
  BY <1>3, <1>4, <1>5 DEF FocusInv

-----------------------------------------------------------------------------
(* The steps that leave the tree and the contexts alone. *)

(* A step that touches neither a tree, nor a TSF context, nor the window. *)
LEMMA SameTree ==
  ASSUME FocusInv, Placed, UNCHANGED <<treeVars, liveVars, imeVars, lib, frontVars, astray>>,
         search' \subseteq Panes, popup' \in BOOLEAN, told' \in BOOLEAN, back' \in Elements,
         queued' \subseteq {"focus", "restore"}, "restore" \in queued => "restore" \in queued'
  PROVE  FocusInv'
<1>1. /\ home' = home /\ shell' = shell /\ active' = active /\ zoomed' = zoomed
      /\ selected' = selected /\ loaded' = loaded /\ context' = context
      /\ engage' = engage /\ typed' = typed /\ lib' = lib /\ fg' = fg /\ acts' = acts
      /\ astray' = astray
  BY DEF treeVars, liveVars, imeVars, frontVars
<1>2. RestTyped'
  BY <1>1 DEF FocusInv, FocusTypeOK, RestTyped
<1>3. Trees' /\ Loading' /\ InFront'
  BY <1>1 DEF FocusInv, Trees, Loading, InFront, ActivePane
<1>4. \A p \in Panes : Awaited(p)' <=> Awaited(p)
  BY <1>1 DEF Awaited
<1>5. Coming' <=> Coming
  BY <1>4 DEF Coming
<1>6. ASSUME Lawful
      PROVE  ZoomedActs' /\ Keeps
  <2>1. ZoomedActs'
    BY <1>1, <1>6 DEF Lawful, ZoomedActs
  <2>2. /\ typed # Null => engage[typed] /\ typed \in context
        /\ \A p \in Panes : engage[p] => home[p] # Null
        /\ \A p \in lib : home[p] # Null
    BY <1>6 DEF Lawful, Engaged, Told
  <2>3. ActivePane' = ActivePane
    BY <1>1 DEF ActivePane
  <2>4. Keeps
    BY <1>1, <1>4, <1>5, <2>2, <2>3 DEF Keeps
  <2> QED
    BY <2>1, <2>4
<1>7. astray' = {} => astray = {} /\ (Lawful => ZoomedActs' /\ (Moved => Keeps))
  BY <1>1, <1>6
<1> QED
  BY <1>2, <1>3, <1>7, Arranges

LEMMA ClicksKeep ==
  ASSUME FocusInv, NEW p \in Panes, Click(p) \/ ClickBar(p)
  PROVE  FocusInv'
<1>1. FocusTypeOK
  BY DEF FocusInv
<1>2. Placed
  <2>1. CASE Click(p)
    BY <1>1, <2>1, TakeFocusPlaces DEF Click
  <2>2. CASE ClickBar(p)
    <3>1. CanFocus(p) /\ Moves(Bar(p))
      BY <2>2 DEF ClickBar
    <3>2. Bar(p) \in Elements /\ Bar(p).pane = p
      BY ElementsAre
    <3> QED
      BY <3>1, <3>2, MovesPlaces
  <2> QED
    BY <2>1, <2>2
<1>3. UNCHANGED <<treeVars, liveVars, overlays, imeVars, lib, frontVars, told, queued, astray>>
  BY DEF Click, ClickBar
<1> QED
  BY <1>1, <1>2, <1>3, SameTree DEF overlays, FocusTypeOK

LEMMA ElsewherePlaces ==
  ASSUME Moves(Elsewhere)
  PROVE  Placed
BY ElementsAre, MovesPlaces

LEMMA CaptionKeeps ==
  ASSUME FocusInv, ClickCaption
  PROVE  FocusInv'
<1>1. FocusTypeOK
  BY DEF FocusInv
<1>2. Placed
  BY <1>1, ElsewherePlaces, RestsPlaces DEF ClickCaption
<1>3. /\ UNCHANGED <<treeVars, liveVars, overlays, imeVars, lib, frontVars, told, astray>>
      /\ queued' = queued \cup {"focus"}
  BY DEF ClickCaption
<1> QED
  BY <1>1, <1>2, <1>3, SameTree DEF overlays, FocusTypeOK

LEMMA DialogKeeps ==
  ASSUME FocusInv, OpenDialog \/ CloseDialog
  PROVE  FocusInv'
<1>1. FocusTypeOK
  BY DEF FocusInv
<1>2. Placed
  <2>1. CASE OpenDialog
    BY <2>1, ElsewherePlaces DEF OpenDialog
  <2>2. CASE CloseDialog
    BY <1>1, <2>2, RestsPlaces, MovesPlaces DEF CloseDialog, FocusTypeOK
  <2> QED
    BY <2>1, <2>2
<1>3. /\ UNCHANGED <<treeVars, liveVars, search, imeVars, lib, frontVars, told, queued, astray>>
      /\ popup' \in BOOLEAN /\ back' \in Elements
  BY <1>1, ElementsAre DEF OpenDialog, CloseDialog, FocusTypeOK
<1> QED
  BY <1>1, <1>2, <1>3, SameTree DEF FocusTypeOK

LEMMA SearchKeeps ==
  ASSUME FocusInv, NEW p \in Panes, StartSearch(p) \/ EndSearch(p)
  PROVE  FocusInv'
<1>1. FocusTypeOK
  BY DEF FocusInv
<1>2. Placed
  <2>1. CASE StartSearch(p)
    <3>1. CASE CanFocus(p)
      BY <2>1, <3>1, ElementsAre, MovesPlaces DEF StartSearch
    <3>2. CASE ~CanFocus(p)
      BY <1>1, <2>1, <3>2, RestsPlaces DEF StartSearch
    <3> QED
      BY <3>1, <3>2
  <2>2. CASE EndSearch(p)
    BY <1>1, <2>2, TakeFocusPlaces DEF EndSearch
  <2> QED
    BY <2>1, <2>2
<1>3. /\ UNCHANGED <<treeVars, liveVars, popup, back, imeVars, lib, frontVars, told, queued, astray>>
      /\ search' \subseteq Panes
  BY <1>1 DEF StartSearch, EndSearch, FocusTypeOK
<1> QED
  BY <1>1, <1>2, <1>3, SameTree DEF FocusTypeOK

(* The queued FocusActive. *)
LEMMA RunFocusKeeps ==
  ASSUME FocusInv, RunFocus
  PROVE  FocusInv'
<1>1. FocusTypeOK /\ ActivePane \in Panes
  BY DEF FocusInv, Trees
<1>2. Placed
  BY <1>1, TakeFocusPlaces DEF RunFocus
<1>3. /\ UNCHANGED <<treeVars, liveVars, overlays, imeVars, lib, frontVars, told, astray>>
      /\ queued' = queued \ {"focus"}
  BY DEF RunFocus
<1> QED
  BY <1>1, <1>2, <1>3, SameTree DEF overlays, FocusTypeOK

-----------------------------------------------------------------------------
(* Activation of the window, which moves no focus. *)

(* Where neither the tree nor the focus changes, the events stay in order, *)
(* and what is engaged or told at most loses a pane.                       *)
LEMMA SameFocus ==
  ASSUME FocusInv, UNCHANGED <<treeVars, liveVars, overlays, xamlVars, astray>>,
         fg' \in BOOLEAN, acts' \in Seq(BOOLEAN), told' \in BOOLEAN, InFront',
         queued' \subseteq {"focus", "restore"},
         engage' \in [Panes -> BOOLEAN], \A p \in Panes : engage'[p] => engage[p],
         typed' \in Panes \cup {Null}, lib' \subseteq lib,
         Lawful => (typed' # Null => engage'[typed'] /\ typed' \in context),
         focus.at = "terminal" =>
           \/ engage'[focus.pane] /\ acts' = acts /\ fg' = fg /\ queued' = queued
           \/ ~fg' \/ acts' # <<>> \/ "restore" \in queued'
           \/ ~engage[focus.pane] /\ fg' = fg /\ acts = acts' /\ queued \subseteq queued'
  PROVE  FocusInv'
<1>1. /\ home' = home /\ shell' = shell /\ active' = active /\ zoomed' = zoomed
      /\ selected' = selected /\ loaded' = loaded /\ context' = context
      /\ search' = search /\ popup' = popup /\ back' = back
      /\ focus' = focus /\ events' = events /\ astray' = astray
  BY DEF treeVars, liveVars, overlays, xamlVars
<1>2. FocusTypeOK'
  BY <1>1 DEF FocusInv, FocusTypeOK
<1>3. Trees' /\ Loading'
  BY <1>1 DEF FocusInv, Trees, Loading, ActivePane
<1>4. Late'
  BY <1>1 DEF FocusInv, Late, FocusShown, EventsLive, Settles, GotLast
<1>5. /\ \A p : (Awaited(p)' <=> Awaited(p)) /\ (Pending(p)' <=> Pending(p)) /\ (Gained(p)' <=> Gained(p))
      /\ ActivePane' = ActivePane
  BY <1>1 DEF Awaited, Pending, Gained, ActivePane
<1>6. Coming' <=> Coming
  BY <1>5 DEF Coming
<1>7. ASSUME Lawful
      PROVE  Lawful'
  <2>1. ZoomedActs'
    BY <1>1, <1>7 DEF Lawful, ZoomedActs
  <2>2. Told'
    BY <1>1, <1>5, <1>7 DEF Lawful, Told
  <2>3. Follows'
    <3>1. Gained(focus.pane)' <=> Gained(focus.pane)
      BY <1>1 DEF Gained
    <3> QED
      BY <1>1, <1>5, <1>6, <1>7, <3>1 DEF Lawful, Follows
  <2>4. Engaged'
    <3>1. typed' # Null => engage'[typed'] /\ typed' \in context'
      BY <1>1, <1>7
    <3>2. \A p \in Panes : engage'[p] =>
            home'[p] # Null /\ (focus' = Terminal(p) \/ Pending(p)' \/ Awaited(p)')
      BY <1>1, <1>5, <1>7 DEF Lawful, Engaged
    <3>3. Pending(focus.pane)' <=> Pending(focus.pane)
      BY <1>1 DEF Pending
    <3>4. focus'.at = "terminal" =>
            \/ engage'[focus'.pane] \/ Pending(focus.pane)' \/ Coming'
            \/ ~fg' \/ acts' # <<>> \/ "restore" \in queued'
      BY <1>1, <1>6, <1>7, <3>3 DEF Lawful, Engaged
    <3> QED
      BY <3>1, <3>2, <3>4 DEF Engaged
  <2> QED
    BY <2>1, <2>2, <2>3, <2>4 DEF Lawful
<1> QED
  BY <1>1, <1>2, <1>3, <1>4, <1>7 DEF FocusInv

(* What remains of a sequence without its head. *)
LEMMA TailIs ==
  ASSUME NEW S, NEW s \in Seq(S), s # <<>>
  PROVE  /\ Tail(s) \in Seq(S) /\ Head(s) \in S /\ s[1] = Head(s)
         /\ Tail(s) = <<>> => Len(s) = 1
         /\ Tail(s) # <<>> => Tail(s)[Len(Tail(s))] = s[Len(s)]
         /\ DOMAIN s = 1 .. Len(s) /\ DOMAIN Tail(s) = 1 .. Len(s) - 1 /\ Len(s) \in Nat \ {0}
         /\ \A i \in DOMAIN Tail(s) : i + 1 \in DOMAIN s /\ Tail(s)[i] = s[i + 1]
<1>1. /\ Tail(s) \in Seq(S) /\ Head(s) \in S /\ Len(Tail(s)) = Len(s) - 1
      /\ \A i \in 1 .. Len(Tail(s)) : Tail(s)[i] = s[i + 1]
      /\ Len(s) \in Nat /\ Len(s) # 0 /\ s[1] = Head(s)
  <2>1. /\ Tail(s) \in Seq(S) /\ Head(s) \in S /\ Len(Tail(s)) = Len(s) - 1
        /\ \A i \in 1 .. Len(Tail(s)) : Tail(s)[i] = s[i + 1]
    BY HeadTailProperties
  <2>2. Len(s) \in Nat /\ Len(s) # 0
    BY EmptySeq, LenProperties
  <2>3. s[1] = Head(s)
    OBVIOUS
  <2> QED
    BY <2>1, <2>2, <2>3
<1>2. DOMAIN s = 1 .. Len(s) /\ DOMAIN Tail(s) = 1 .. Len(s) - 1
  BY <1>1, LenProperties
<1> DEFINE t == Tail(s)
<1> HIDE DEF t
<1>3. t = <<>> => Len(t) = 0
  BY EmptySeq
<1>4. t # <<>> => Len(t) # 0
  <2>1. t \in Seq(S)
    BY <1>1 DEF t
  <2> QED
    BY <2>1, EmptySeq
<1>5. t = Tail(s)
  BY DEF t
<1>6. Tail(s) = <<>> => Len(s) = 1
  BY <1>1, <1>3, <1>5
<1>7. Tail(s) # <<>> => Tail(s)[Len(Tail(s))] = s[Len(s)]
  BY <1>1, <1>4, <1>5
<1>8. \A i \in DOMAIN Tail(s) : i + 1 \in DOMAIN s /\ Tail(s)[i] = s[i + 1]
  BY <1>1, <1>2
<1> QED
  BY <1>1, <1>2, <1>6, <1>7, <1>8

(* The user leaves the window or comes back to it. *)
LEMMA SwitchesKeep ==
  ASSUME FocusInv, SwitchAway \/ SwitchTo
  PROVE  FocusInv'
<1>1. FocusTypeOK /\ acts \in Seq(BOOLEAN)
  BY DEF FocusInv, FocusTypeOK
<1>2. /\ UNCHANGED <<treeVars, liveVars, overlays, xamlVars, imeVars, lib, told, queued, astray>>
      /\ fg' \in BOOLEAN /\ acts' = Append(acts, fg')
  BY DEF SwitchAway, SwitchTo
<1>3. acts' \in Seq(BOOLEAN) /\ acts' # <<>> /\ acts'[Len(acts')] = fg'
  BY <1>1, <1>2, AppendProperties
<1>4. InFront'
  BY <1>3 DEF InFront
<1>5. Lawful => (typed' # Null => engage'[typed'] /\ typed' \in context)
  BY <1>2 DEF Lawful, Engaged, imeVars
<1>6. engage' = engage /\ typed' = typed /\ lib' = lib
  BY <1>2 DEF imeVars
<1> QED
  BY <1>1, <1>2, <1>3, <1>4, <1>5, <1>6, SameFocus DEF FocusTypeOK

(* An Activated event of a window that came to the front. *)
LEMMA ActivatedKeeps ==
  ASSUME FocusInv, Activated
  PROVE  FocusInv'
<1>1. FocusTypeOK /\ acts \in Seq(BOOLEAN)
  BY DEF FocusInv, FocusTypeOK
<1>2. /\ UNCHANGED <<treeVars, liveVars, overlays, xamlVars, imeVars, lib, fg, told, astray>>
      /\ acts # <<>> /\ acts' = Tail(acts) /\ queued' = queued \cup {"restore"}
  BY DEF Activated
<1>3. acts' \in Seq(BOOLEAN) /\ (acts' # <<>> => acts'[Len(acts')] = acts[Len(acts)])
  BY <1>1, <1>2, TailIs
<1>4. InFront'
  BY <1>2, <1>3 DEF FocusInv, InFront
<1>5. engage' = engage /\ typed' = typed /\ lib' = lib
  BY <1>2 DEF imeVars
<1>6. Lawful => (typed' # Null => engage'[typed'] /\ typed' \in context)
  BY <1>5 DEF Lawful, Engaged
<1> QED
  BY <1>1, <1>2, <1>3, <1>4, <1>5, <1>6, SameFocus DEF FocusTypeOK

(* An Activated event of a window that left the front. *)
LEMMA DeactivatedKeeps ==
  ASSUME FocusInv, Deactivated
  PROVE  FocusInv'
<1>1. FocusTypeOK /\ acts \in Seq(BOOLEAN) /\ ActivePane \in Panes
  BY DEF FocusInv, FocusTypeOK, Trees
<1>2. /\ UNCHANGED <<treeVars, liveVars, search, popup, back, xamlVars, fg, queued, astray>>
      /\ acts # <<>> /\ ~Head(acts) /\ acts' = Tail(acts)
      /\ Wants(ActivePane, FALSE)
      /\ told' \in BOOLEAN /\ lib' \subseteq lib
  BY <1>1 DEF Deactivated, SetFocus, FocusTypeOK
<1>3. /\ acts' \in Seq(BOOLEAN) /\ (acts' # <<>> => acts'[Len(acts')] = acts[Len(acts)])
      /\ acts' = <<>> => Len(acts) = 1 /\ acts[1] = Head(acts)
  BY <1>1, <1>2, TailIs
<1>4. InFront'
  BY <1>2, <1>3 DEF FocusInv, InFront
<1>5. acts' # <<>> \/ ~fg'
  BY <1>2, <1>3 DEF FocusInv, InFront
<1>6. /\ engage' \in [Panes -> BOOLEAN] /\ \A p \in Panes : engage'[p] => engage[p]
      /\ typed' \in Panes \cup {Null}
  BY <1>1, <1>2 DEF Wants, FocusTypeOK
<1>7. Lawful => (typed' # Null => engage'[typed'] /\ typed' \in context)
  BY <1>1, <1>2 DEF Wants, Lawful, Engaged, FocusTypeOK
<1> QED
  BY <1>1, <1>2, <1>3, <1>4, <1>5, <1>6, <1>7, SameFocus DEF FocusTypeOK, overlays

-----------------------------------------------------------------------------
(* The events of XAML. *)

(* What is known once the first event has been raised: what it said to a   *)
(* pane that is owed no other is how the focus stands, and if it told one  *)
(* that lost the focus since, the one that has it will be told.            *)
Raising ==
  /\ Head(events) \in Event /\ events' \in Seq(Event) /\ Late'
  /\ Head(events).pane # Null => home[Head(events).pane] # Null
  /\ \A q \in Panes : q # Head(events).pane =>
       (Pending(q) => Pending(q)') /\ (Gained(q) => Gained(q)')
  /\ \A q \in Panes : Gained(q) /\ Head(events).op = "lost" => Gained(q)'
  /\ \A q \in Panes : q = Head(events).pane /\ ~Pending(q)' =>
       (Head(events).op = "got" <=> focus.pane = q)
  /\ \A q \in Panes : Head(events).op = "got" /\ focus.pane = q /\ Head(events).pane \notin {Null, q}
       => Gained(q)'

(* What raising the oldest event leaves of the promises of the events. *)
LEMMA EventRaised ==
  ASSUME FocusTypeOK, Late, events # <<>>, events' = Tail(events), focus' = focus, home' = home,
         loaded' = loaded, selected' = selected, zoomed' = zoomed
  PROVE  Raising
<1> DEFINE e == Head(events)
<1>1. events \in Seq(Event)
  BY TypedIs
<1>2. /\ events' \in Seq(Event) /\ e \in Event /\ events[1] = e
      /\ DOMAIN events = 1 .. Len(events) /\ DOMAIN events' = 1 .. Len(events) - 1
      /\ Len(events) \in Nat \ {0}
      /\ \A i \in DOMAIN events' : i + 1 \in DOMAIN events /\ events'[i] = events[i + 1]
  BY <1>1, TailIs
<1> HIDE DEF e
<1>3. 1 \in DOMAIN events
  BY <1>2
<1>4. \A j \in DOMAIN events : j # 1 =>
        j - 1 \in DOMAIN events' /\ events'[j - 1] = events[j] /\ j - 1 + 1 = j
  <2> TAKE j \in DOMAIN events
  <2> HAVE j # 1
  <2>1. j - 1 \in DOMAIN events' /\ j - 1 + 1 = j
    BY <1>2
  <2> QED
    BY <1>2, <2>1
<1>5. \A i, j \in DOMAIN events' : i + 1 \in Nat /\ (j + 1 > i + 1 <=> j > i)
  BY <1>2
<1>6. FocusShown'
  BY DEF Late, FocusShown
<1>7. EventsLive'
  BY <1>2 DEF Late, EventsLive
<1>8. Settles'
  <2> SUFFICES ASSUME NEW i \in DOMAIN events', events'[i].pane # Null,
                      \A j \in DOMAIN events' : j > i => events'[j].pane # events'[i].pane
               PROVE  events'[i].op = "got" <=> focus.pane = events'[i].pane
    BY DEF Settles
  <2>1. i + 1 \in DOMAIN events /\ events'[i] = events[i + 1]
    BY <1>2
  <2>2. \A j \in DOMAIN events : j > i + 1 => events[j].pane # events[i + 1].pane
    <3> TAKE j \in DOMAIN events
    <3> HAVE j > i + 1
    <3>1. j # 1 /\ j - 1 > i
      BY <1>2
    <3>2. j - 1 \in DOMAIN events' /\ events'[j - 1] = events[j]
      BY <1>4, <3>1
    <3> QED
      BY <2>1, <3>1, <3>2
  <2> QED
    BY <2>1, <2>2 DEF Late, Settles
<1>9. GotLast'
  <2> SUFFICES ASSUME NEW i \in DOMAIN events', focus.pane # Null,
                      events'[i].pane \notin {Null, focus.pane}, events'[i].op = "got"
               PROVE  \E j \in DOMAIN events' : j > i /\ events'[j] = Got(focus.pane)
    BY DEF GotLast
  <2>1. i + 1 \in DOMAIN events /\ events'[i] = events[i + 1]
    BY <1>2
  <2>2. PICK j \in DOMAIN events : j > i + 1 /\ events[j] = Got(focus.pane)
    BY <2>1 DEF Late, GotLast
  <2>3. j # 1 /\ j - 1 > i
    BY <1>2, <2>2
  <2>4. j - 1 \in DOMAIN events' /\ events'[j - 1] = events[j]
    BY <1>4, <2>3
  <2> QED
    BY <2>2, <2>3, <2>4
<1>10. e.pane # Null => home[e.pane] # Null
  BY <1>2, <1>3 DEF Late, EventsLive
<1>11. ASSUME NEW q \in Panes, q # e.pane
       PROVE  (Pending(q) => Pending(q)') /\ (Gained(q) => Gained(q)')
  <2>1. \A j \in DOMAIN events : events[j].pane = q =>
          j - 1 \in DOMAIN events' /\ events'[j - 1] = events[j]
    BY <1>2, <1>4, <1>11
  <2>2. Pending(q) => Pending(q)'
    BY <2>1 DEF Pending
  <2>3. Gained(q) => Gained(q)'
    BY <2>1 DEF Gained, Got
  <2> QED
    BY <2>2, <2>3
<1>12. ASSUME NEW q \in Panes, Gained(q), e.op = "lost"
       PROVE  Gained(q)'
  <2>1. PICK j \in DOMAIN events : events[j] = Got(q)
    BY <1>12 DEF Gained
  <2>2. j # 1
    BY <1>2, <1>12, <2>1 DEF Got
  <2> QED
    BY <1>4, <2>1, <2>2 DEF Gained
<1>13. ASSUME NEW q \in Panes, q = e.pane, ~Pending(q)'
       PROVE  e.op = "got" <=> focus.pane = q
  <2>1. \A j \in DOMAIN events : j > 1 => events[j].pane # q
    <3> TAKE j \in DOMAIN events
    <3> HAVE j > 1
    <3>1. j # 1
      BY <1>2
    <3> QED
      BY <1>4, <1>13, <3>1 DEF Pending
  <2>2. events[1].pane = q /\ q # Null
    BY <1>2, <1>13, NullAssumption
  <2> QED
    BY <1>2, <1>3, <2>1, <2>2 DEF Late, Settles
<1>14. ASSUME NEW q \in Panes, e.op = "got", focus.pane = q, e.pane \notin {Null, q}
       PROVE  Gained(q)'
  <2>1. PICK j \in DOMAIN events : j > 1 /\ events[j] = Got(q)
    BY <1>2, <1>3, <1>14, NullAssumption DEF Late, GotLast
  <2>2. j # 1
    BY <1>2, <2>1
  <2> QED
    BY <1>4, <2>1, <2>2 DEF Gained
<1>15. Late'
  BY <1>6, <1>7, <1>8, <1>9 DEF Late
<1> QED
  BY <1>2, <1>10, <1>11, <1>12, <1>13, <1>14, <1>15 DEF Raising, e

(* Engage and Disengage of one TSF context. *)
LEMMA WantsIs ==
  ASSUME FocusTypeOK, NEW p \in Panes, NEW b \in BOOLEAN, Wants(p, b)
  PROVE  /\ engage' \in [Panes -> BOOLEAN] /\ typed' \in Panes \cup {Null}
         /\ engage'[p] = b /\ \A q \in Panes : q # p => engage'[q] = engage[q]
         /\ Lawful => (typed' # Null => engage'[typed'] /\ typed' \in context)
<1>1. /\ engage \in [Panes -> BOOLEAN] /\ typed \in Panes \cup {Null} /\ context \subseteq Panes
      /\ engage' = [engage EXCEPT ![p] = b]
      /\ typed' = IF p \notin context \/ engage[p] = b THEN typed
                  ELSE IF b THEN p ELSE IF typed = p THEN Null ELSE typed
  BY DEF Wants, FocusTypeOK
<1>2. /\ engage' \in [Panes -> BOOLEAN] /\ typed' \in Panes \cup {Null}
      /\ engage'[p] = b /\ \A q \in Panes : q # p => engage'[q] = engage[q]
  BY <1>1
<1>3. ASSUME Lawful, typed' # Null
      PROVE  engage'[typed'] /\ typed' \in context
  <2>1. typed # Null => engage[typed] /\ typed \in context
    BY <1>3 DEF Lawful, Engaged
  <2>2. CASE b
    BY <1>1, <1>2, <1>3, <2>1, <2>2
  <2>3. CASE ~b
    BY <1>1, <1>2, <1>3, <2>1, <2>3
  <2> QED
    BY <2>2, <2>3
<1> QED
  BY <1>2, <1>3

(* Another pane of a tab is made active, where the trees stay.             *)
LEMMA ChoosesIs ==
  ASSUME FocusTypeOK, NEW p \in Panes, home' \in [Panes -> Strip \cup {Null}],
         home'[p] # Null, Chooses(p)
  PROVE  /\ active' \in [Strip -> Panes \cup {Null}]
         /\ astray' \subseteq {"hidden", "skipped"}
         /\ home'[p] \in Strip /\ active'[home'[p]] = p
         /\ \A t \in Strip : t # home'[p] => active'[t] = active[t]
         /\ astray' = {} => astray = {} /\ zoomed'[home'[p]] \in {Null, p}
<1>1. /\ active' = [active EXCEPT ![home'[p]] = p] /\ home'[p] \in Strip
      /\ astray' = IF zoomed'[home'[p]] \in {Null, p} THEN astray ELSE astray \cup {"hidden"}
      /\ active \in [Strip -> Panes \cup {Null}] /\ astray \subseteq {"hidden", "skipped"}
  BY DEF Chooses, FocusTypeOK
<1> QED
  BY <1>1

(* A choice of the active pane of its tab leaves the trees in order. *)
LEMMA SameHomes ==
  ASSUME FocusInv, home' = home, shell' = shell, selected' = selected,
         NEW p \in Panes, home[p] # Null, Chooses(p)
  PROVE  Trees' /\ (ActivePane' = IF home[p] = selected THEN p ELSE ActivePane)
<1>1. FocusTypeOK /\ home \in [Panes -> Strip \cup {Null}] /\ selected \in Strip /\ Trees
  BY DEF FocusInv, FocusTypeOK
<1>2. /\ home[p] \in Strip /\ active'[home[p]] = p
      /\ \A t \in Strip : t # home[p] => active'[t] = active[t]
  BY <1>1, ChoosesIs
<1>3. ActivePane' = IF home[p] = selected THEN p ELSE ActivePane
  BY <1>1, <1>2 DEF ActivePane
<1>4. \A q \in Panes : home[q] # Null =>
        active'[home[q]] \in Panes /\ home[active'[home[q]]] = home[q]
  <2> TAKE q \in Panes
  <2> HAVE home[q] # Null
  <2>1. CASE home[q] = home[p]
    BY <1>2, <2>1
  <2>2. CASE home[q] # home[p]
    <3>1. home[q] \in Strip
      BY <1>1
    <3> QED
      BY <1>1, <1>2, <2>2, <3>1 DEF Trees
  <2> QED
    BY <2>1, <2>2
<1>5. ActivePane' \in Panes /\ home[ActivePane'] = selected
  BY <1>1, <1>3 DEF Trees
<1> QED
  BY <1>1, <1>3, <1>4, <1>5 DEF Trees

(* OnGotFocus and OnLostFocus of a pane, run late. *)
LEMMA RaiseKeeps ==
  ASSUME FocusInv, RaiseFocusEvent
  PROVE  FocusInv'
<1> DEFINE to == Head(events).pane
           op == Head(events).op
<1>1. FocusTypeOK /\ Late /\ Trees /\ Loading /\ InFront
  BY DEF FocusInv
<1>2. /\ UNCHANGED <<home, shell, zoomed, selected, liveVars, overlays, focus, frontVars, told, queued>>
      /\ events # <<>> /\ events' = Tail(events)
      /\ \/ to = Null /\ UNCHANGED <<active, astray, imeVars, lib>>
         \/ /\ to # Null /\ op = "got"
            /\ Wants(to, OwnsInput(to)) /\ SetFocus(to, TRUE) /\ Chooses(to)
         \/ /\ to # Null /\ op # "got"
            /\ Wants(to, FALSE) /\ SetFocus(to, FALSE) /\ UNCHANGED <<active, astray>>
  BY DEF RaiseFocusEvent, OnFocusGained, OnFocusLost, NotifySurfaceFocused
<1>3. /\ home' = home /\ shell' = shell /\ zoomed' = zoomed /\ selected' = selected
      /\ loaded' = loaded /\ context' = context /\ search' = search /\ popup' = popup
      /\ back' = back /\ focus' = focus /\ fg' = fg /\ acts' = acts /\ told' = told
      /\ queued' = queued
  BY <1>2 DEF liveVars, overlays, frontVars
<1>4. Raising
  BY <1>1, <1>2, <1>3, EventRaised
<1>5. PICK p \in Panes \cup {Null} :
        p = to /\ op \in {"got", "lost"} /\ (p # Null => home[p] # Null)
  BY <1>4 DEF Raising, Event
<1> HIDE DEF to, op
<1>6. /\ \A q : Awaited(q)' <=> Awaited(q)
      /\ Coming' <=> Coming
  BY <1>3 DEF Awaited, Coming
<1>7. focus \in Elements /\ focus.pane \in Panes \cup {Null}
      /\ (focus.at = "terminal" => focus.pane # Null /\ focus = Terminal(focus.pane))
      /\ (focus.pane # Null => focus \in {Terminal(focus.pane), Bar(focus.pane)})
  BY <1>1, ElementIs DEF FocusTypeOK
<1>8. /\ \A q \in Panes : q # p => (Pending(q) => Pending(q)') /\ (Gained(q) => Gained(q)')
      /\ \A q \in Panes : Gained(q) /\ op = "lost" => Gained(q)'
      /\ \A q \in Panes : q = p /\ ~Pending(q)' => (op = "got" <=> focus.pane = q)
      /\ \A q \in Panes : op = "got" /\ focus.pane = q /\ p \notin {Null, q} => Gained(q)'
  BY <1>4, <1>5 DEF Raising, to, op
<1>9. Late' /\ events' \in Seq(Event)
  BY <1>4 DEF Raising
<1>10. Loading' /\ InFront'
  BY <1>1, <1>3 DEF Loading, InFront
<1>11. ASSUME RestTyped'
       PROVE  FocusTypeOK'
  <2>1. FocusTypeOK' <=> RestTyped' /\ focus' \in Elements /\ events' \in Seq(Event)
    BY DEF FocusTypeOK, RestTyped, Event
  <2> QED
    BY <1>3, <1>7, <1>9, <1>11, <2>1
<1>12. CASE p = Null
  <2>1. active' = active /\ astray' = astray /\ engage' = engage /\ typed' = typed /\ lib' = lib
    BY <1>2, <1>5, <1>12 DEF imeVars
  <2>2. RestTyped'
    BY <1>1, <1>3, <2>1 DEF FocusTypeOK, RestTyped
  <2>3. Trees' /\ ActivePane' = ActivePane
    BY <1>1, <1>3, <2>1 DEF Trees, ActivePane
  <2>4. \A q \in Panes : (Pending(q) => Pending(q)') /\ (Gained(q) => Gained(q)')
    BY <1>8, <1>12, NullAssumption
  <2>5. focus.pane # Null =>
          (Pending(focus.pane) => Pending(focus.pane)') /\ (Gained(focus.pane) => Gained(focus.pane)')
    <3>1. ASSUME NEW q \in Panes, q = focus.pane
          PROVE  (Pending(q)' => Pending(focus.pane)') /\ (Gained(q)' => Gained(focus.pane)')
      BY <1>3, <3>1 DEF Pending, Gained
    <3> QED
      BY <1>7, <2>4, <3>1
  <2>6. ASSUME Lawful
        PROVE  Lawful'
    <3>1. ZoomedActs'
      BY <1>3, <2>1, <2>6 DEF Lawful, ZoomedActs
    <3>2. Engaged'
      BY <1>3, <1>6, <1>7, <2>1, <2>4, <2>5, <2>6 DEF Lawful, Engaged
    <3>3. Told'
      BY <1>1, <1>3, <1>6, <2>1, <2>4, <2>6 DEF Lawful, Told, FocusTypeOK
    <3>4. Follows'
      BY <1>3, <1>6, <2>3, <2>5, <2>6 DEF Lawful, Follows
    <3> QED
      BY <3>1, <3>2, <3>3, <3>4 DEF Lawful
  <2> QED
    BY <1>9, <1>10, <1>11, <2>1, <2>2, <2>3, <2>6 DEF FocusInv
<1>13. CASE p # Null /\ op = "got"
  <2>1. /\ Wants(p, OwnsInput(p)) /\ lib' = lib \cup {p} /\ Chooses(p)
        /\ p \in Panes /\ home[p] # Null /\ OwnsInput(p) \in BOOLEAN
        /\ OwnsInput(p) <=> focus # Bar(p)
    BY <1>2, <1>5, <1>13 DEF SetFocus, OwnsInput
  <2>2. /\ engage' \in [Panes -> BOOLEAN] /\ typed' \in Panes \cup {Null}
        /\ engage'[p] = OwnsInput(p) /\ \A q \in Panes : q # p => engage'[q] = engage[q]
        /\ Lawful => (typed' # Null => engage'[typed'] /\ typed' \in context)
    BY <1>1, <2>1, WantsIs
  <2>3. /\ active' \in [Strip -> Panes \cup {Null}] /\ astray' \subseteq {"hidden", "skipped"}
        /\ active'[home[p]] = p
        /\ \A t \in Strip : t # home[p] => active'[t] = active[t]
        /\ astray' = {} => astray = {} /\ zoomed[home[p]] \in {Null, p}
    <3>1. home' \in [Panes -> Strip \cup {Null}] /\ home'[p] # Null
      BY <1>1, <1>3, <2>1 DEF FocusTypeOK
    <3> QED
      BY <1>1, <1>3, <2>1, <3>1, ChoosesIs
  <2>4. RestTyped'
    BY <1>1, <1>3, <2>1, <2>2, <2>3 DEF FocusTypeOK, RestTyped
  <2>5. Trees' /\ ActivePane' = IF home[p] = selected THEN p ELSE ActivePane
    BY <1>3, <2>1, SameHomes
  <2>6. ASSUME astray' = {}
        PROVE  Lawful'
    <3>1. Lawful
      BY <2>3, <2>6 DEF FocusInv
    <3>2. ZoomedActs'
      BY <1>3, <2>3, <2>6, <3>1 DEF Lawful, ZoomedActs
    <3>3. \A q \in Panes : Pending(q) => Pending(q)' \/ q = p
      BY <1>8
    <3>4. focus.pane = p \/ Pending(p)'
      BY <1>8, <1>13, <2>1
    <3>5. Engaged'
      <4>1. typed' # Null => engage'[typed'] /\ typed' \in context'
        BY <1>3, <2>2, <3>1
      <4>2. ASSUME NEW q \in Panes, engage'[q]
            PROVE  home'[q] # Null /\ (focus' = Terminal(q) \/ Pending(q)' \/ Awaited(q)')
        <5>1. CASE q = p
          <6>1. focus # Bar(p)
            BY <2>1, <2>2, <4>2, <5>1
          <6> QED
            BY <1>3, <1>7, <1>13, <2>1, <3>4, <5>1, <6>1
        <5>2. CASE q # p
          <6>1. home[q] # Null /\ (focus = Terminal(q) \/ Pending(q) \/ Awaited(q))
            BY <2>2, <3>1, <4>2, <5>2 DEF Lawful, Engaged
          <6> QED
            BY <1>3, <1>6, <3>3, <5>2, <6>1
        <5> QED
          BY <5>1, <5>2
      <4>3. ASSUME focus'.at = "terminal"
            PROVE  \/ engage'[focus'.pane] \/ Pending(focus.pane)' \/ Coming'
                   \/ ~fg' \/ acts' # <<>> \/ "restore" \in queued'
        <5>1. focus.pane \in Panes /\ focus = Terminal(focus.pane)
          BY <1>3, <1>7, <4>3
        <5>2. CASE focus.pane = p
          <6>1. focus # Bar(p)
            BY <2>1, <5>1, <5>2, ElementsAre
          <6> QED
            BY <1>3, <2>1, <2>2, <5>2, <6>1
        <5>3. CASE focus.pane # p
          <6>1. \/ engage[focus.pane] \/ Pending(focus.pane) \/ Coming
                \/ ~fg \/ acts # <<>> \/ "restore" \in queued
            BY <1>3, <3>1, <4>3 DEF Lawful, Engaged
          <6>2. Pending(focus.pane) => Pending(focus.pane)'
            <7>1. ASSUME NEW q \in Panes, q = focus.pane
                  PROVE  Pending(q)' => Pending(focus.pane)'
              BY <1>3, <7>1 DEF Pending
            <7> QED
              BY <3>3, <5>1, <5>3, <7>1
          <6> QED
            BY <1>3, <1>6, <2>2, <5>1, <5>3, <6>1, <6>2
        <5> QED
          BY <5>2, <5>3
      <4> QED
        BY <4>1, <4>2, <4>3 DEF Engaged
    <3>6. Told'
      <4> SUFFICES ASSUME NEW q \in lib'
                   PROVE  home'[q] # Null /\ (focus'.pane = q \/ Pending(q)' \/ Awaited(q)')
        BY DEF Told
      <4>1. CASE q = p
        BY <1>3, <2>1, <3>4, <4>1
      <4>2. CASE q # p
        <5>1. q \in lib /\ q \in Panes
          BY <1>1, <2>1, <4>2 DEF FocusTypeOK
        <5>2. home[q] # Null /\ (focus.pane = q \/ Pending(q) \/ Awaited(q))
          BY <3>1, <5>1 DEF Lawful, Told
        <5> QED
          BY <1>3, <1>6, <3>3, <4>2, <5>1, <5>2
      <4> QED
        BY <4>1, <4>2
    <3>7. Follows'
      <4> SUFFICES ASSUME focus'.pane # Null
                   PROVE  Coming' \/ ActivePane' = focus'.pane \/ Gained(focus.pane)'
        BY DEF Follows
      <4>1. focus.pane \in Panes /\ home[focus.pane] = selected
        BY <1>1, <1>3, <1>7 DEF Late, FocusShown
      <4>2. CASE focus.pane = p
        BY <1>3, <2>5, <4>1, <4>2
      <4>3. CASE focus.pane # p
        <5>1. ASSUME NEW q \in Panes, q = focus.pane
              PROVE  Gained(focus.pane)'
          <6>1. Gained(q)'
            BY <1>8, <1>13, <4>3, <5>1
          <6> QED
            BY <1>3, <5>1, <6>1 DEF Gained
        <5> QED
          BY <4>1, <5>1
      <4> QED
        BY <4>2, <4>3
    <3> QED
      BY <3>2, <3>5, <3>6, <3>7 DEF Lawful
  <2> QED
    BY <1>9, <1>10, <1>11, <2>4, <2>5, <2>6 DEF FocusInv
<1>14. CASE p # Null /\ op # "got"
  <2>1. /\ Wants(p, FALSE) /\ lib' = lib \ {p} /\ active' = active /\ astray' = astray
        /\ p \in Panes /\ home[p] # Null /\ op = "lost"
    BY <1>2, <1>5, <1>14 DEF SetFocus
  <2>2. /\ engage' \in [Panes -> BOOLEAN] /\ typed' \in Panes \cup {Null}
        /\ engage'[p] = FALSE /\ \A q \in Panes : q # p => engage'[q] = engage[q]
        /\ Lawful => (typed' # Null => engage'[typed'] /\ typed' \in context)
    BY <1>1, <2>1, WantsIs
  <2>3. RestTyped'
    BY <1>1, <1>3, <2>1, <2>2 DEF FocusTypeOK, RestTyped
  <2>4. Trees' /\ ActivePane' = ActivePane
    BY <1>1, <1>3, <2>1 DEF Trees, ActivePane
  <2>5. \A q \in Panes : q # p => (Pending(q) => Pending(q)')
    BY <1>8
  <2>6. ASSUME Lawful
        PROVE  Lawful'
    <3>1. ZoomedActs'
      BY <1>3, <2>1, <2>6 DEF Lawful, ZoomedActs
    <3>2. Told'
      <4> SUFFICES ASSUME NEW q \in lib'
                   PROVE  home'[q] # Null /\ (focus'.pane = q \/ Pending(q)' \/ Awaited(q)')
        BY DEF Told
      <4>1. q \in lib /\ q \in Panes /\ q # p
        BY <1>1, <2>1 DEF FocusTypeOK
      <4>2. home[q] # Null /\ (focus.pane = q \/ Pending(q) \/ Awaited(q))
        BY <2>6, <4>1 DEF Lawful, Told
      <4> QED
        BY <1>3, <1>6, <2>5, <4>1, <4>2
    <3>3. Follows'
      <4> SUFFICES ASSUME focus'.pane # Null
                   PROVE  Coming' \/ ActivePane' = focus'.pane \/ Gained(focus.pane)'
        BY DEF Follows
      <4>1. Coming \/ ActivePane = focus.pane \/ Gained(focus.pane)
        BY <1>3, <2>6 DEF Lawful, Follows
      <4>2. ASSUME NEW q \in Panes, q = focus.pane, Gained(focus.pane)
            PROVE  Gained(focus.pane)'
        <5>1. Gained(q)
          BY <4>2
        <5>2. Gained(q)'
          BY <1>8, <2>1, <5>1
        <5> QED
          BY <1>3, <4>2, <5>2 DEF Gained
      <4> QED
        BY <1>3, <1>6, <1>7, <2>4, <4>1, <4>2
    <3>4. Engaged'
      <4>1. typed' # Null => engage'[typed'] /\ typed' \in context'
        BY <1>3, <2>2, <2>6
      <4>2. ASSUME NEW q \in Panes, engage'[q]
            PROVE  home'[q] # Null /\ (focus' = Terminal(q) \/ Pending(q)' \/ Awaited(q)')
        <5>1. q # p /\ engage[q]
          BY <2>2, <4>2
        <5>2. home[q] # Null /\ (focus = Terminal(q) \/ Pending(q) \/ Awaited(q))
          BY <2>6, <5>1 DEF Lawful, Engaged
        <5> QED
          BY <1>3, <1>6, <2>5, <5>1, <5>2
      <4>3. ASSUME focus'.at = "terminal"
            PROVE  \/ engage'[focus'.pane] \/ Pending(focus.pane)' \/ Coming'
                   \/ ~fg' \/ acts' # <<>> \/ "restore" \in queued'
        <5>1. focus.pane \in Panes
          BY <1>3, <1>7, <4>3
        <5>2. ASSUME NEW q \in Panes, q = focus.pane, Pending(q)'
              PROVE  Pending(focus.pane)'
          BY <1>3, <5>2 DEF Pending
        <5>3. CASE focus.pane = p
          <6>1. Pending(p)'
            BY <1>8, <2>1, <5>3
          <6> QED
            BY <2>1, <5>2, <5>3, <6>1
        <5>4. CASE focus.pane # p
          <6>1. \/ engage[focus.pane] \/ Pending(focus.pane) \/ Coming
                \/ ~fg \/ acts # <<>> \/ "restore" \in queued
            BY <1>3, <2>6, <4>3 DEF Lawful, Engaged
          <6>2. Pending(focus.pane) => Pending(focus.pane)'
            BY <2>5, <5>1, <5>2, <5>4
          <6> QED
            BY <1>3, <1>6, <2>2, <5>1, <5>4, <6>1, <6>2
        <5> QED
          BY <5>3, <5>4
      <4> QED
        BY <4>1, <4>2, <4>3 DEF Engaged
    <3> QED
      BY <3>1, <3>2, <3>3, <3>4 DEF Lawful
  <2> QED
    BY <1>9, <1>10, <1>11, <2>1, <2>3, <2>4, <2>6 DEF FocusInv
<1> QED
  BY <1>12, <1>13, <1>14

-----------------------------------------------------------------------------
(* Restored, loaded, selected. *)

(* The queued restoring of the focus after Activated. *)
LEMMA RestoreKeeps ==
  ASSUME FocusInv, Restore
  PROVE  FocusInv'
<1> DEFINE p == ActivePane
<1>1. FocusTypeOK /\ p \in Panes /\ home[p] = selected /\ selected \in Strip
  BY DEF FocusInv, Trees, FocusTypeOK
<1>2. /\ UNCHANGED <<treeVars, liveVars, overlays, frontVars>>
      /\ queued' = queued \ {"restore"} /\ "restore" \in queued
      /\ astray' = IF popup THEN astray \cup {"skipped"} ELSE astray
  BY DEF Restore
<1>3. /\ home' = home /\ shell' = shell /\ active' = active /\ zoomed' = zoomed
      /\ selected' = selected /\ loaded' = loaded /\ context' = context
      /\ search' = search /\ popup' = popup /\ back' = back /\ fg' = fg /\ acts' = acts
  BY <1>2 DEF treeVars, liveVars, overlays, frontVars
<1>4. queued' \subseteq {"focus", "restore"} /\ astray' \subseteq {"hidden", "skipped"}
  BY <1>1, <1>2 DEF FocusTypeOK
<1>5. Trees' /\ Loading' /\ InFront' /\ p' = p
  BY <1>3 DEF FocusInv, Trees, Loading, InFront, ActivePane
<1>6. (\A q \in Panes : Awaited(q)' <=> Awaited(q)) /\ (Coming' <=> Coming)
  BY <1>3 DEF Awaited, Coming
<1>7. Lawful => ZoomedActs' /\ (CanFocus(p) \/ Awaited(p))
  BY <1>1, <1>3 DEF Lawful, ZoomedActs, CanFocus, Awaited, ActivePane
<1>8. astray' = {} => astray = {} /\ ~popup
  BY <1>2
<1>9. CASE Skips /\ UNCHANGED <<xamlVars, imeVars, lib, told>>
  <2>1. /\ focus' = focus /\ events' = events /\ engage' = engage /\ typed' = typed
        /\ lib' = lib /\ told' = told
    BY <1>9 DEF xamlVars, imeVars
  <2>2. FocusTypeOK'
    BY <1>1, <1>3, <1>4, <2>1 DEF FocusTypeOK
  <2>3. Late'
    BY <1>3, <2>1 DEF FocusInv, Late, FocusShown, EventsLive, Settles, GotLast
  <2>4. ASSUME astray' = {}
        PROVE  Lawful'
    <3>1. Lawful /\ ~fg
      BY <1>8, <1>9, <2>4 DEF FocusInv, Skips
    <3>2. /\ \A q : (Pending(q)' <=> Pending(q)) /\ (Gained(q)' <=> Gained(q))
          /\ Gained(focus.pane)' <=> Gained(focus.pane)
      BY <2>1 DEF Pending, Gained
    <3>3. Engaged'
      BY <1>3, <1>6, <2>1, <3>1, <3>2 DEF Lawful, Engaged
    <3>4. Told'
      BY <1>1, <1>3, <1>6, <2>1, <3>1, <3>2 DEF Lawful, Told, FocusTypeOK
    <3>5. Follows'
      BY <1>5, <1>6, <2>1, <3>1, <3>2 DEF Lawful, Follows
    <3> QED
      BY <1>7, <3>1, <3>3, <3>4, <3>5 DEF Lawful
  <2> QED
    BY <1>5, <2>2, <2>3, <2>4 DEF FocusInv
<1>10. CASE ~Skips /\ p \in search /\ UNCHANGED <<imeVars, lib, told>>
            /\ IF CanFocus(p) THEN Moves(Bar(p)) ELSE Rests
  <2>1. engage' = engage /\ typed' = typed /\ lib' = lib /\ told' = told
    BY <1>10 DEF imeVars
  <2>2. RestTyped'
    BY <1>1, <1>3, <1>4, <2>1 DEF RestTyped, FocusTypeOK
  <2>3. Placed /\ (CanFocus(p) => focus' = Bar(p))
    BY <1>1, <1>10, ElementsAre, RestsPlaces, MovesPlaces
  <2>4. ASSUME Lawful
        PROVE  Keeps
    <3>1. /\ typed # Null => engage[typed] /\ typed \in context
          /\ \A q \in Panes : engage[q] => home[q] # Null
          /\ \A q \in lib : home[q] # Null
      BY <2>4 DEF Lawful, Engaged, Told
    <3>2. focus'.at = "terminal" => Coming'
      <4>1. Bar(p).at # "terminal"
        BY DEF Bar
      <4> QED
        BY <1>1, <1>6, <1>7, <2>3, <2>4, <4>1 DEF Coming
    <3> QED
      BY <1>3, <1>5, <1>6, <2>1, <3>1, <3>2 DEF Keeps
  <2> QED
    BY <1>5, <1>7, <1>8, <2>2, <2>3, <2>4, Arranges
<1>11. CASE /\ ~Skips /\ TakeFocus(p) /\ Wants(p, TRUE)
            /\ IF told THEN UNCHANGED <<told, lib>> ELSE told' = TRUE /\ SetFocus(p, TRUE)
  <2>1. Placed /\ (CanFocus(p) => focus' = Terminal(p))
    BY <1>1, <1>11, TakeFocusPlaces, NullAssumption
  <2>2. /\ engage' \in [Panes -> BOOLEAN] /\ typed' \in Panes \cup {Null}
        /\ engage'[p] = TRUE /\ \A q \in Panes : q # p => engage'[q] = engage[q]
        /\ Lawful => (typed' # Null => engage'[typed'] /\ typed' \in context)
    BY <1>1, <1>11, WantsIs
  <2>3. lib' \subseteq lib \cup {p} /\ told' \in BOOLEAN
    BY <1>1, <1>11 DEF SetFocus, FocusTypeOK
  <2>4. RestTyped'
    BY <1>1, <1>3, <1>4, <2>2, <2>3 DEF RestTyped, FocusTypeOK
  <2>5. ASSUME Lawful, Moved
        PROVE  Keeps
    <3>1. focus' = Terminal(p) \/ Awaited(p)
      BY <1>7, <2>1, <2>5
    <3>2. typed' # Null => engage'[typed'] /\ typed' \in context'
      BY <1>3, <2>2, <2>5
    <3>3. home[p] # Null
      BY <1>1, NullAssumption
    <3>4. ASSUME NEW q \in Panes, engage'[q]
          PROVE  home'[q] # Null /\ (engage[q] \/ focus' = Terminal(q) \/ Awaited(q)')
      <4>1. CASE q = p
        BY <1>3, <1>6, <3>1, <3>3, <4>1
      <4>2. CASE q # p
        BY <1>3, <2>2, <2>5, <3>4, <4>2 DEF Lawful, Engaged
      <4> QED
        BY <4>1, <4>2
    <3>5. ASSUME NEW q \in lib'
          PROVE  home'[q] # Null /\ (q \in lib \/ focus'.pane = q \/ Awaited(q)')
      <4>1. CASE q \in lib
        BY <1>3, <2>5, <4>1 DEF Lawful, Told
      <4>2. CASE q \notin lib
        <5>1. q = p
          BY <2>3, <4>2
        <5> QED
          BY <1>1, <1>3, <1>6, <3>1, <3>3, <5>1, ElementsAre
      <4> QED
        BY <4>1, <4>2
    <3>6. ASSUME focus' = focus
          PROVE  /\ Coming => Coming'
                 /\ focus.pane # Null /\ ActivePane = focus.pane => Coming' \/ ActivePane' = focus.pane
                 /\ focus.at = "terminal" /\ engage[focus.pane] => engage'[focus.pane]
                 /\ focus.at = "terminal" => engage'[focus.pane] \/ Coming'
      <4>1. focus = Terminal(p) => focus.pane = p
        BY <1>1, ElementsAre
      <4>2. focus.at = "terminal" => focus.pane \in Panes
        BY <1>1, ElementIs DEF FocusTypeOK
      <4>3. Awaited(p) => Coming'
        BY <1>1, <1>6 DEF Coming
      <4> QED
        BY <1>5, <1>6, <2>2, <3>1, <3>6, <4>1, <4>2, <4>3
    <3> QED
      BY <1>3, <1>6, <3>2, <3>4, <3>5, <3>6 DEF Keeps
  <2> QED
    BY <1>5, <1>7, <1>8, <2>1, <2>4, <2>5, Arranges
<1> QED
  BY <1>9, <1>10, <1>11 DEF Restore

(* Loaded of a pane: its context is created and it takes the focus if it   *)
(* is active.                                                              *)
LEMMA LoadKeeps ==
  ASSUME FocusInv, NEW p \in Panes, Load(p)
  PROVE  FocusInv'
<1>1. FocusTypeOK /\ p # Null
  BY NullAssumption DEF FocusInv
<1>2. /\ UNCHANGED <<treeVars, overlays, engage, lib, frontVars, told, queued, astray>>
      /\ home[p] # Null /\ p \notin loaded
      /\ loaded' = loaded \cup {p} /\ context' = context \cup {p}
      /\ typed' = IF p \notin context /\ engage[p] THEN p ELSE typed
      /\ TakeFocus(p)
  BY DEF Load
<1>3. /\ home' = home /\ shell' = shell /\ active' = active /\ zoomed' = zoomed
      /\ selected' = selected /\ search' = search /\ popup' = popup /\ back' = back
      /\ engage' = engage /\ lib' = lib /\ fg' = fg /\ acts' = acts /\ told' = told
      /\ queued' = queued /\ astray' = astray
  BY <1>2 DEF treeVars, overlays, frontVars
<1>4. RestTyped'
  BY <1>1, <1>2, <1>3 DEF RestTyped, FocusTypeOK
<1>5. Placed /\ (CanFocus(p) => focus' = Terminal(p))
  BY <1>1, <1>2, TakeFocusPlaces
<1>6. Trees' /\ Loading' /\ InFront' /\ ActivePane' = ActivePane
  BY <1>2, <1>3 DEF FocusInv, Trees, Loading, InFront, ActivePane
<1>7. home[p] = selected => CanFocus(p)
  BY <1>2, <1>3 DEF FocusInv, Loading, CanFocus
<1>8. \A q \in Panes : Awaited(q) => q = p /\ focus' = Terminal(p)
  <2>1. \A q \in Panes : q \notin loaded /\ home[q] # Null => q = p
    BY <1>2 DEF FocusInv, Loading
  <2>2. selected # Null
    BY <1>1, NullAssumption DEF FocusTypeOK
  <2> QED
    BY <1>5, <1>7, <2>1, <2>2 DEF Awaited
<1>9. Coming => focus' # focus
  <2>1. focus.pane # p
    BY <1>1, <1>2 DEF FocusInv, Late, FocusShown
  <2> QED
    BY <1>8, <2>1, ElementsAre DEF Coming
<1>10. ASSUME Lawful
       PROVE  ZoomedActs' /\ Keeps
  <2>1. ZoomedActs'
    BY <1>3, <1>10 DEF Lawful, ZoomedActs
  <2>2. typed' # Null => engage'[typed'] /\ typed' \in context'
    BY <1>2, <1>3, <1>10 DEF Lawful, Engaged
  <2>3. /\ \A q \in Panes : engage[q] => home[q] # Null
        /\ \A q \in lib : home[q] # Null
    BY <1>10 DEF Lawful, Engaged, Told
  <2> QED
    BY <1>3, <1>6, <1>8, <1>9, <2>1, <2>2, <2>3 DEF Keeps
<1> QED
  BY <1>3, <1>4, <1>5, <1>6, <1>10, Arranges

(* When the user or libghostty acts no pane waits to be loaded.            *)
LEMMA IdleIs ==
  ASSUME FocusInv, Idle
  PROVE  /\ \A q \in Panes : home[q] # Null => q \in loaded
         /\ \A q \in Panes : ~Awaited(q)
         /\ ~Coming
<1>1. \A q \in Panes : home[q] # Null => q \in loaded
  BY DEF Idle
<1>2. selected # Null
  BY NullAssumption DEF FocusInv, FocusTypeOK
<1>3. \A q \in Panes : ~Awaited(q)
  BY <1>1, <1>2 DEF Awaited
<1> QED
  BY <1>1, <1>3 DEF Coming

(* They engage nothing, and tell libghostty of no focus.                   *)
LEMMA IdleKeeps ==
  ASSUME FocusInv, Idle, fg' = fg, acts' = acts, queued \subseteq queued',
         typed' # Null => engage'[typed'] /\ typed' \in context',
         \A p \in Panes : engage'[p] => engage[p] /\ home'[p] # Null,
         \A p \in lib' : p \in lib /\ home'[p] # Null,
         focus' = focus /\ focus.pane # Null =>
           /\ ActivePane = focus.pane => Coming' \/ ActivePane' = focus.pane
           /\ engage[focus.pane] => engage'[focus.pane]
  PROVE  Keeps
<1>1. (\A q \in Panes : ~Awaited(q)) /\ ~Coming
  BY IdleIs
<1>2. focus.at = "terminal" => focus.pane # Null
  BY ElementIs DEF FocusInv, FocusTypeOK
<1> QED
  BY <1>1, <1>2 DEF Keeps

(* Another tab is selected. *)
LEMMA SelectKeeps ==
  ASSUME FocusInv, NEW t \in Strip, SelectTab(t)
  PROVE  FocusInv'
<1>1. FocusTypeOK
  BY DEF FocusInv
<1>2. /\ UNCHANGED <<home, shell, active, zoomed, liveVars, overlays, imeVars, lib, frontVars, told, astray>>
      /\ Idle /\ t # selected /\ PanesOf(t) # {} /\ selected' = t
      /\ queued' = queued \cup {"focus"}
  BY DEF SelectTab
<1>3. /\ home' = home /\ shell' = shell /\ active' = active /\ zoomed' = zoomed
      /\ loaded' = loaded /\ context' = context
      /\ search' = search /\ popup' = popup /\ back' = back
      /\ engage' = engage /\ typed' = typed /\ lib' = lib /\ fg' = fg /\ acts' = acts
      /\ told' = told /\ astray' = astray
  BY <1>2 DEF liveVars, overlays, imeVars, frontVars
<1>4. RestTyped'
  BY <1>1, <1>2, <1>3 DEF RestTyped, FocusTypeOK
<1>5. Placed
  BY <1>1, ElsewherePlaces, RestsPlaces DEF SelectTab
<1>6. Trees'
  <2>1. PICK q \in Panes : home[q] = t
    BY <1>2 DEF PanesOf
  <2>2. home[q] # Null
    BY <2>1, NullAssumption
  <2>3. active[t] \in Panes /\ home[active[t]] = t
    BY <2>1, <2>2 DEF FocusInv, Trees
  <2> QED
    BY <1>2, <1>3, <2>3 DEF FocusInv, Trees, ActivePane
<1>7. Loading' /\ InFront'
  BY <1>3 DEF FocusInv, Loading, InFront
<1>8. focus' = focus => focus.pane = Null
  <2> SUFFICES ASSUME focus' = focus, focus.pane # Null PROVE FALSE
    OBVIOUS
  <2>1. home[focus.pane] = selected
    BY DEF FocusInv, Late, FocusShown
  <2>2. home[focus.pane] = t
    BY <1>2, <1>3, <1>5 DEF Placed, CanFocus
  <2> QED
    BY <1>2, <2>1, <2>2
<1>9. ASSUME Lawful
      PROVE  ZoomedActs' /\ Keeps
  <2>1. ZoomedActs'
    BY <1>3, <1>9 DEF Lawful, ZoomedActs
  <2>2. Keeps
    BY <1>2, <1>3, <1>8, <1>9, IdleKeeps DEF Lawful, Engaged, Told
  <2> QED
    BY <2>1, <2>2
<1> QED
  BY <1>3, <1>4, <1>5, <1>6, <1>7, <1>9, Arranges

-----------------------------------------------------------------------------
(* Another pane of a tab is made active, and its zoom changes. *)

(* What the three have in common: the tab that holds p makes it active and *)
(* zooms p or nothing, and p takes the focus if its tab is shown.          *)
LEMMA ChosenKeeps ==
  ASSUME FocusInv, Idle, NEW p \in Panes, home[p] # Null, Chooses(p), TakeFocus(p),
         UNCHANGED <<home, shell, liveVars, overlays, imeVars, lib, frontVars, told>>,
         zoomed' \in [Strip -> Panes \cup {Null}],
         \A t \in Strip \ {home[p]} : zoomed'[t] = zoomed[t],
         selected' \in {selected, home[p]},
         queued' \subseteq {"focus", "restore"}, queued \subseteq queued'
  PROVE  FocusInv'
<1>1. FocusTypeOK /\ home \in [Panes -> Strip \cup {Null}] /\ home[p] \in Strip
  BY DEF FocusInv, FocusTypeOK
<1>2. /\ home' = home /\ shell' = shell /\ loaded' = loaded /\ context' = context
      /\ search' = search /\ popup' = popup /\ back' = back
      /\ engage' = engage /\ typed' = typed /\ lib' = lib /\ fg' = fg /\ acts' = acts
      /\ told' = told
  BY DEF liveVars, overlays, imeVars, frontVars
<1>3. /\ active' \in [Strip -> Panes \cup {Null}] /\ astray' \subseteq {"hidden", "skipped"}
      /\ active'[home[p]] = p
      /\ \A t \in Strip : t # home[p] => active'[t] = active[t]
      /\ astray' = {} => astray = {} /\ zoomed'[home[p]] \in {Null, p}
  <2>1. home' \in [Panes -> Strip \cup {Null}] /\ home'[p] # Null
    BY <1>1, <1>2
  <2> QED
    BY <1>1, <1>2, <2>1, ChoosesIs
<1>4. RestTyped'
  BY <1>1, <1>2, <1>3 DEF RestTyped, FocusTypeOK
<1>5. p # Null /\ selected' \in Strip /\ selected \in Strip
  BY <1>1, NullAssumption DEF FocusTypeOK
<1>6. Placed /\ (CanFocus(p) => focus' = Terminal(p))
  BY <1>1, <1>5, TakeFocusPlaces
<1>7. \A q \in Panes : home[q] # Null => q \in loaded
  BY IdleIs
<1>8. Trees'
  <2>1. \A q \in Panes : home[q] # Null =>
          active'[home[q]] \in Panes /\ home[active'[home[q]]] = home[q]
    <3> TAKE q \in Panes
    <3> HAVE home[q] # Null
    <3>1. home[q] \in Strip
      BY <1>1
    <3> QED
      BY <1>3, <3>1 DEF FocusInv, Trees
  <2>2. active'[selected'] \in Panes /\ home[active'[selected']] = selected'
    BY <1>3, <1>5 DEF FocusInv, Trees, ActivePane
  <2> QED
    BY <1>2, <2>1, <2>2 DEF FocusInv, Trees, ActivePane
<1>9. Loading' /\ InFront'
  BY <1>2, <1>7 DEF FocusInv, Loading, InFront
<1>10. ASSUME Lawful, zoomed'[home[p]] \in {Null, p}
       PROVE  ZoomedActs' /\ Keeps
  <2>1. ZoomedActs'
    BY <1>3, <1>10 DEF Lawful, ZoomedActs
  <2>2. home[p] = selected' => focus' = Terminal(p) /\ focus'.pane = p /\ ActivePane' = p
    BY <1>1, <1>2, <1>3, <1>6, <1>7, <1>10, ElementsAre DEF CanFocus, ActivePane
  <2>3. home[p] # selected' => ActivePane' = ActivePane
    BY <1>3, <1>5 DEF ActivePane
  <2>4. Keeps
    BY <1>2, <1>10, <2>2, <2>3, IdleKeeps DEF Lawful, Engaged, Told
  <2> QED
    BY <2>1, <2>4
<1> QED
  BY <1>3, <1>4, <1>6, <1>8, <1>9, <1>10, Arranges

LEMMA GotoKeeps ==
  ASSUME FocusInv, NEW p \in Panes, NEW q \in Panes, GotoSplit(p, q)
  PROVE  FocusInv'
<1>1. /\ UNCHANGED <<home, shell, zoomed, selected, liveVars, overlays, imeVars, lib, frontVars, told, queued>>
      /\ Idle /\ home[q] # Null /\ Chooses(q) /\ TakeFocus(q)
  BY DEF GotoSplit
<1>2. FocusTypeOK
  BY DEF FocusInv
<1> QED
  BY <1>1, <1>2, ChosenKeeps DEF FocusTypeOK

LEMMA NotificationKeeps ==
  ASSUME FocusInv, NEW p \in Panes, PresentNotification(p)
  PROVE  FocusInv'
<1>1. /\ UNCHANGED <<home, shell, zoomed, liveVars, overlays, imeVars, lib, frontVars, told>>
      /\ Idle /\ home[p] # Null /\ Chooses(p) /\ TakeFocus(p)
      /\ selected' = home[p]
      /\ queued' = IF home[p] = selected THEN queued ELSE queued \cup {"focus"}
  BY DEF PresentNotification
<1>2. FocusTypeOK
  BY DEF FocusInv
<1> QED
  BY <1>1, <1>2, ChosenKeeps DEF FocusTypeOK

(* A pane is zoomed or the zoom is left. *)
LEMMA ZoomKeeps ==
  ASSUME FocusInv, NEW p \in Panes, ToggleSplitZoom(p)
  PROVE  FocusInv'
<1>1. /\ UNCHANGED <<home, shell, selected, liveVars, overlays, imeVars, lib, frontVars, told, queued>>
      /\ Idle /\ home[p] # Null
  BY DEF ToggleSplitZoom
<1>2. FocusTypeOK /\ home[p] \in Strip
  BY <1>1 DEF FocusInv, FocusTypeOK
<1>3. CASE zoomed' = [zoomed EXCEPT ![home[p]] = p] /\ Chooses(p) /\ TakeFocus(p)
  <2>1. /\ zoomed' \in [Strip -> Panes \cup {Null}]
        /\ \A t \in Strip \ {home[p]} : zoomed'[t] = zoomed[t]
    BY <1>2, <1>3 DEF FocusTypeOK
  <2> QED
    BY <1>1, <1>2, <1>3, <2>1, ChosenKeeps DEF FocusTypeOK
<1>4. CASE zoomed' = [zoomed EXCEPT ![home[p]] = Null] /\ UNCHANGED <<active, astray>> /\ Rests
  <2>1. /\ zoomed' \in [Strip -> Panes \cup {Null}]
        /\ \A t \in Strip : zoomed'[t] \in {Null, zoomed[t]}
    BY <1>2, <1>4 DEF FocusTypeOK
  <2>2. /\ home' = home /\ shell' = shell /\ loaded' = loaded /\ context' = context
        /\ search' = search /\ popup' = popup /\ back' = back
        /\ engage' = engage /\ typed' = typed /\ lib' = lib /\ fg' = fg /\ acts' = acts
        /\ told' = told /\ selected' = selected /\ queued' = queued
        /\ active' = active /\ astray' = astray
    BY <1>1, <1>4 DEF liveVars, overlays, imeVars, frontVars
  <2>3. RestTyped'
    BY <1>2, <2>1, <2>2 DEF RestTyped, FocusTypeOK
  <2>4. Placed
    BY <1>2, <1>4, RestsPlaces
  <2>5. Trees' /\ InFront' /\ ActivePane' = ActivePane
    BY <2>2 DEF FocusInv, Trees, InFront, ActivePane
  <2>6. Loading'
    BY <1>1, <2>2, IdleIs DEF FocusInv, Loading
  <2>7. ASSUME Lawful
        PROVE  ZoomedActs' /\ Keeps
    <3>1. ZoomedActs'
      BY <2>1, <2>2, <2>7 DEF Lawful, ZoomedActs
    <3>2. Keeps
      BY <1>1, <2>2, <2>5, <2>7, IdleKeeps DEF Lawful, Engaged, Told
    <3> QED
      BY <3>1, <3>2
  <2> QED
    BY <2>2, <2>3, <2>4, <2>5, <2>6, <2>7, Arranges
<1> QED
  BY <1>3, <1>4 DEF ToggleSplitZoom

-----------------------------------------------------------------------------
(* The steps that change a tree. *)

(* A new pane beside another: it waits for Loaded. *)
LEMMA SplitKeeps ==
  ASSUME FocusInv, NEW p \in Panes, NEW new \in Panes, Split(p, new)
  PROVE  FocusInv'
<1>1. FocusTypeOK /\ home \in [Panes -> Strip \cup {Null}] /\ Trees /\ Loading
  BY DEF FocusInv, FocusTypeOK
<1>2. /\ Idle /\ home[p] # Null /\ home[new] = Null /\ \A q \in Panes : shell[q] # new
      /\ home' = [home EXCEPT ![new] = home[p]]
      /\ zoomed' = [zoomed EXCEPT ![home[p]] = Null]
      /\ Chooses(new) /\ engage' = [engage EXCEPT ![new] = FALSE] /\ typed' = typed /\ lib' = lib
      /\ UNCHANGED <<shell, selected, liveVars, overlays, frontVars, told, queued>>
      /\ TakeFocus(new)
  BY DEF Split, Attached, Parked
<1>3. /\ shell' = shell /\ selected' = selected /\ loaded' = loaded /\ context' = context
      /\ search' = search /\ popup' = popup /\ back' = back
      /\ fg' = fg /\ acts' = acts /\ told' = told /\ queued' = queued
  BY <1>2 DEF liveVars, overlays, frontVars
<1>4. home[p] \in Strip /\ p # new /\ new \notin loaded /\ new # Null
  BY <1>1, <1>2, NullAssumption DEF Loading
<1>5. /\ home' \in [Panes -> Strip \cup {Null}] /\ home'[new] = home[p]
      /\ \A q \in Panes : q # new => home'[q] = home[q]
      /\ \A q \in Panes : home[q] # Null => home'[q] = home[q]
  BY <1>1, <1>2, <1>4
<1>6. /\ zoomed' \in [Strip -> Panes \cup {Null}] /\ zoomed'[home[p]] = Null
      /\ \A t \in Strip : t # home[p] => zoomed'[t] = zoomed[t]
      /\ engage' \in [Panes -> BOOLEAN] /\ engage'[new] = FALSE
      /\ \A q \in Panes : q # new => engage'[q] = engage[q]
  BY <1>1, <1>2, <1>4 DEF FocusTypeOK
<1>7. /\ active' \in [Strip -> Panes \cup {Null}] /\ astray' \subseteq {"hidden", "skipped"}
      /\ active'[home[p]] = new
      /\ \A t \in Strip : t # home[p] => active'[t] = active[t]
      /\ astray' = {} => astray = {}
  BY <1>1, <1>2, <1>5, ChoosesIs
<1>8. RestTyped'
  BY <1>1, <1>2, <1>3, <1>5, <1>6, <1>7 DEF RestTyped, FocusTypeOK
<1>9. Placed
  BY <1>1, <1>2, TakeFocusPlaces
<1>10. Trees'
  <2>1. \A q \in Panes : shell[q] # Null => home'[q] # Null /\ home'[shell[q]] = Null
    <3> TAKE q \in Panes
    <3> HAVE shell[q] # Null
    <3>1. home[q] # Null /\ home[shell[q]] = Null /\ shell[q] \in Panes /\ shell[q] # new
      BY <1>1, <1>2 DEF Trees, FocusTypeOK
    <3> QED
      BY <1>5, <3>1
  <2>2. \A q \in Panes : home'[q] # Null =>
          active'[home'[q]] \in Panes /\ home'[active'[home'[q]]] = home'[q]
    <3> TAKE q \in Panes
    <3> HAVE home'[q] # Null
    <3>1. CASE home'[q] = home[p]
      BY <1>5, <1>7, <3>1
    <3>2. CASE home'[q] # home[p]
      <4>1. home'[q] = home[q] /\ home[q] \in Strip /\ home[q] # Null
        BY <1>1, <1>5, <3>2
      <4>2. active'[home[q]] = active[home[q]]
        BY <1>7, <3>2, <4>1
      <4>3. active[home[q]] \in Panes /\ home[active[home[q]]] = home[q]
        BY <1>1, <4>1 DEF Trees
      <4> QED
        BY <1>5, <4>1, <4>2, <4>3
    <3> QED
      BY <3>1, <3>2
  <2>3. active'[selected] \in Panes /\ home'[active'[selected]] = selected
    <3>1. active[selected] \in Panes /\ home[active[selected]] = selected /\ selected \in Strip
      BY <1>1 DEF Trees, ActivePane, FocusTypeOK
    <3>2. selected # Null
      BY <3>1, NullAssumption
    <3> QED
      BY <1>5, <1>7, <3>1, <3>2
  <2> QED
    BY <1>1, <1>3, <2>1, <2>2, <2>3 DEF Trees, ActivePane
<1>11. Loading'
  <2>1. \A q \in Panes \ loaded : home'[q] # Null => q = new
    BY <1>2, <1>5, IdleIs
  <2>2. \A q \in loaded : home'[q] # Null
    BY <1>1, <1>5 DEF Loading, FocusTypeOK
  <2> QED
    BY <1>3, <1>5, <1>6, <2>1, <2>2 DEF Loading
<1>12. InFront'
  BY <1>3 DEF FocusInv, InFront
<1>13. ASSUME Lawful
       PROVE  ZoomedActs' /\ Keeps
  <2>1. ZoomedActs'
    BY <1>6, <1>7, <1>13 DEF Lawful, ZoomedActs
  <2>2. \A q \in Panes : engage[q] => home[q] # Null /\ q # new
    BY <1>2, <1>13 DEF Lawful, Engaged
  <2>3. \A q \in Panes : engage'[q] => engage[q] /\ home'[q] # Null
    BY <1>5, <1>6, <2>2
  <2>4. typed' # Null => engage'[typed'] /\ typed' \in context'
    BY <1>1, <1>2, <1>3, <1>6, <1>13, <2>2 DEF Lawful, Engaged, FocusTypeOK
  <2>5. \A q \in lib' : q \in lib /\ home'[q] # Null
    BY <1>1, <1>2, <1>5, <1>13 DEF Lawful, Told, FocusTypeOK
  <2>6. focus' = focus /\ focus.pane # Null =>
          /\ ActivePane = focus.pane => Coming' \/ ActivePane' = focus.pane
          /\ engage[focus.pane] => engage'[focus.pane]
    <3> HAVE focus' = focus /\ focus.pane # Null
    <3>1. focus.pane \in loaded /\ focus.pane \in Panes
      BY <1>1 DEF FocusInv, Late, FocusShown, FocusTypeOK
    <3>2. engage[focus.pane] => engage'[focus.pane]
      BY <1>4, <1>6, <3>1
    <3>3. CASE home[p] = selected
      BY <1>3, <1>4, <1>5, <3>2, <3>3 DEF Coming, Awaited
    <3>4. CASE home[p] # selected
      BY <1>1, <1>3, <1>7, <3>2, <3>4 DEF ActivePane, FocusTypeOK
    <3> QED
      BY <3>3, <3>4
  <2>7. Keeps
    BY <1>2, <1>3, <2>3, <2>4, <2>5, <2>6, IdleKeeps
  <2> QED
    BY <2>1, <2>7
<1> QED
  BY <1>7, <1>8, <1>9, <1>10, <1>11, <1>12, <1>13, Arranges

(* A shell over another: the covered one leaves the tree with its events. *)
LEMMA OpenInPlaceKeeps ==
  ASSUME FocusInv, NEW p \in Panes, NEW new \in Panes, OpenInPlace(p, new)
  PROVE  FocusInv'
<1>1. FocusTypeOK /\ home \in [Panes -> Strip \cup {Null}] /\ Trees /\ Loading
      /\ shell \in [Panes -> Panes \cup {Null}]
  BY DEF FocusInv, FocusTypeOK
<1>2. /\ Idle /\ home[p] # Null /\ shell[p] = Null
      /\ home[new] = Null /\ \A q \in Panes : shell[q] # new
      /\ home' = [home EXCEPT ![new] = home[p], ![p] = Null]
      /\ shell' = [shell EXCEPT ![new] = p]
      /\ zoomed' = [zoomed EXCEPT ![home[p]] = Null]
      /\ Chooses(new)
      /\ loaded' = loaded \ {p} /\ context' = context
      /\ engage' = [engage EXCEPT ![p] = FALSE, ![new] = FALSE]
      /\ typed' = IF typed = p THEN Null ELSE typed
      /\ lib' = lib \ {p}
      /\ UNCHANGED <<selected, overlays, frontVars, told, queued>>
      /\ TakeFocus(new)
  BY DEF OpenInPlace, Attached, Parked, ParkedLoses
<1>3. /\ selected' = selected /\ search' = search /\ popup' = popup /\ back' = back
      /\ fg' = fg /\ acts' = acts /\ told' = told /\ queued' = queued
  BY <1>2 DEF overlays, frontVars
<1>4. /\ home[p] \in Strip /\ p # new /\ new \notin loaded /\ new # Null /\ p # Null
      /\ shell[new] = Null
  BY <1>1, <1>2, NullAssumption DEF Loading, Trees
<1>5. /\ home' \in [Panes -> Strip \cup {Null}] /\ home'[new] = home[p] /\ home'[p] = Null
      /\ \A q \in Panes : q \notin {p, new} => home'[q] = home[q]
      /\ shell' \in [Panes -> Panes \cup {Null}] /\ shell'[new] = p
      /\ \A q \in Panes : q # new => shell'[q] = shell[q]
  BY <1>1, <1>2, <1>4
<1>6. /\ zoomed' \in [Strip -> Panes \cup {Null}] /\ zoomed'[home[p]] = Null
      /\ \A t \in Strip : t # home[p] => zoomed'[t] = zoomed[t]
      /\ engage' \in [Panes -> BOOLEAN] /\ engage'[new] = FALSE /\ engage'[p] = FALSE
      /\ \A q \in Panes : q \notin {p, new} => engage'[q] = engage[q]
  BY <1>1, <1>2, <1>4 DEF FocusTypeOK
<1>7. /\ active' \in [Strip -> Panes \cup {Null}] /\ astray' \subseteq {"hidden", "skipped"}
      /\ active'[home[p]] = new
      /\ \A t \in Strip : t # home[p] => active'[t] = active[t]
      /\ astray' = {} => astray = {}
  BY <1>1, <1>2, <1>5, ChoosesIs
<1>8. RestTyped'
  BY <1>1, <1>2, <1>3, <1>5, <1>6, <1>7 DEF RestTyped, FocusTypeOK
<1>9. Placed
  BY <1>1, <1>2, TakeFocusPlaces
<1>10. Trees'
  <2>1. \A q \in Panes : shell'[q] # Null => home'[q] # Null /\ home'[shell'[q]] = Null
    <3> TAKE q \in Panes
    <3> HAVE shell'[q] # Null
    <3>1. CASE q = new
      BY <1>2, <1>5, <3>1
    <3>2. CASE q # new
      <4>1. shell'[q] = shell[q] /\ q # p
        BY <1>2, <1>5, <3>2
      <4>2. home[q] # Null /\ home[shell[q]] = Null /\ shell[q] \in Panes /\ shell[q] # new
        BY <1>1, <1>2, <4>1 DEF Trees
      <4> QED
        BY <1>5, <3>2, <4>1, <4>2
    <3> QED
      BY <3>1, <3>2
  <2>2. \A q \in Panes : home'[q] # Null =>
          active'[home'[q]] \in Panes /\ home'[active'[home'[q]]] = home'[q]
    <3> TAKE q \in Panes
    <3> HAVE home'[q] # Null
    <3>1. CASE home'[q] = home[p]
      BY <1>5, <1>7, <3>1
    <3>2. CASE home'[q] # home[p]
      <4>1. home'[q] = home[q] /\ home[q] \in Strip /\ home[q] # Null
        BY <1>1, <1>5, <3>2
      <4>2. active'[home[q]] = active[home[q]]
        BY <1>7, <3>2, <4>1
      <4>3. active[home[q]] \in Panes /\ home[active[home[q]]] = home[q]
        BY <1>1, <4>1 DEF Trees
      <4>4. active[home[q]] \notin {p, new}
        BY <1>2, <3>2, <4>1, <4>3
      <4> QED
        BY <1>5, <4>1, <4>2, <4>3, <4>4
    <3> QED
      BY <3>1, <3>2
  <2>3. active'[selected] \in Panes /\ home'[active'[selected]] = selected
    <3>1. active[selected] \in Panes /\ home[active[selected]] = selected /\ selected \in Strip
      BY <1>1 DEF Trees, ActivePane, FocusTypeOK
    <3>2. selected # Null
      BY <3>1, NullAssumption
    <3>3. CASE selected = home[p]
      BY <1>5, <1>7, <3>3
    <3>4. CASE selected # home[p]
      BY <1>2, <1>5, <1>7, <3>1, <3>2, <3>4
    <3> QED
      BY <3>3, <3>4
  <2>4. \A q, r \in Panes : shell'[q] = shell'[r] /\ shell'[q] # Null => q = r
    <3>1. \A q \in Panes : shell[q] # p
      BY <1>1, <1>2, <1>4 DEF Trees
    <3> QED
      BY <1>1, <1>5, <3>1 DEF Trees
  <2> QED
    BY <1>3, <2>1, <2>2, <2>3, <2>4 DEF Trees, ActivePane
<1>11. Loading'
  <2>1. \A q \in Panes \ loaded' : home'[q] # Null => q = new
    BY <1>2, <1>5, IdleIs
  <2>2. \A q \in loaded' : home'[q] # Null
    BY <1>1, <1>2, <1>4, <1>5 DEF Loading, FocusTypeOK
  <2> QED
    BY <1>5, <1>6, <2>1, <2>2 DEF Loading
<1>12. InFront'
  BY <1>3 DEF FocusInv, InFront
<1>13. ASSUME Lawful
       PROVE  ZoomedActs' /\ Keeps
  <2>1. ZoomedActs'
    BY <1>6, <1>7, <1>13 DEF Lawful, ZoomedActs
  <2>2. \A q \in Panes : engage[q] => home[q] # Null /\ q # new
    BY <1>2, <1>13 DEF Lawful, Engaged
  <2>3. \A q \in Panes : engage'[q] => engage[q] /\ home'[q] # Null
    BY <1>5, <1>6, <2>2
  <2>4. typed' # Null => engage'[typed'] /\ typed' \in context'
    BY <1>1, <1>2, <1>3, <1>6, <1>13, <2>2 DEF Lawful, Engaged, FocusTypeOK
  <2>5. \A q \in lib' : q \in lib /\ home'[q] # Null
    BY <1>1, <1>2, <1>5, <1>13 DEF Lawful, Told, FocusTypeOK
  <2>6. focus' = focus /\ focus.pane # Null =>
          /\ ActivePane = focus.pane => Coming' \/ ActivePane' = focus.pane
          /\ engage[focus.pane] => engage'[focus.pane]
    <3> HAVE focus' = focus /\ focus.pane # Null
    <3>1. focus.pane \in loaded' /\ focus.pane \in loaded /\ focus.pane \in Panes
      BY <1>1, <1>2, <1>9 DEF FocusTypeOK, Placed, CanFocus
    <3>2. engage[focus.pane] => engage'[focus.pane]
      BY <1>2, <1>4, <1>6, <3>1
    <3>3. CASE home[p] = selected
      BY <1>2, <1>3, <1>4, <1>5, <3>2, <3>3 DEF Coming, Awaited
    <3>4. CASE home[p] # selected
      BY <1>1, <1>3, <1>7, <3>2, <3>4 DEF ActivePane, FocusTypeOK
    <3> QED
      BY <3>3, <3>4
  <2>7. Keeps
    BY <1>2, <1>3, <2>3, <2>4, <2>5, <2>6, IdleKeeps
  <2> QED
    BY <2>1, <2>7
<1> QED
  BY <1>7, <1>8, <1>9, <1>10, <1>11, <1>12, <1>13, Arranges

(* The covered shell comes back where the upper one was. *)
LEMMA RestoreParkedKeeps ==
  ASSUME FocusInv, NEW p \in Panes, RestoreParked(p)
  PROVE  FocusInv'
<1> DEFINE s == shell[p]
<1>1. FocusTypeOK /\ home \in [Panes -> Strip \cup {Null}] /\ Trees /\ Loading
      /\ shell \in [Panes -> Panes \cup {Null}]
  BY DEF FocusInv, FocusTypeOK
<1>2. /\ Idle /\ s # Null
      /\ home' = [home EXCEPT ![s] = home[p], ![p] = Null]
      /\ shell' = [shell EXCEPT ![p] = Null]
      /\ zoomed' = [zoomed EXCEPT ![home[p]] = Null]
      /\ loaded' = loaded \ {p} /\ context' = context \ {p} /\ search' = search \ {p}
      /\ engage' = [q \in Panes |-> q \notin {p} /\ engage[q]]
      /\ typed' = IF typed \in {p} THEN Null ELSE typed
      /\ lib' = lib \ {p}
      /\ UNCHANGED <<selected, popup, back, frontVars, told, queued>>
      /\ \/ active[home[p]] = p /\ Chooses(s) /\ TakeFocus(s)
         \/ active[home[p]] # p /\ UNCHANGED <<active, astray>> /\ Rests
  BY DEF RestoreParked, Detached
<1>3. /\ selected' = selected /\ popup' = popup /\ back' = back
      /\ fg' = fg /\ acts' = acts /\ told' = told /\ queued' = queued
  BY <1>2 DEF frontVars
<1>4. /\ s \in Panes /\ home[p] # Null /\ home[s] = Null /\ home[p] \in Strip
      /\ p # s /\ s \notin loaded /\ p # Null
  BY <1>1, <1>2, NullAssumption DEF Loading, Trees
<1>5. PICK r \in Panes : r = s
  BY <1>4
<1> HIDE DEF s
<1>6. /\ home' \in [Panes -> Strip \cup {Null}] /\ home'[r] = home[p] /\ home'[p] = Null
      /\ \A q \in Panes : q \notin {p, r} => home'[q] = home[q]
      /\ shell' \in [Panes -> Panes \cup {Null}] /\ shell'[p] = Null
      /\ \A q \in Panes : q # p => shell'[q] = shell[q]
      /\ r # p /\ r # Null /\ home[r] = Null /\ r \notin loaded
  BY <1>1, <1>2, <1>4, <1>5
<1>7. /\ zoomed' \in [Strip -> Panes \cup {Null}] /\ zoomed'[home[p]] = Null
      /\ \A t \in Strip : t # home[p] => zoomed'[t] = zoomed[t]
      /\ engage' \in [Panes -> BOOLEAN]
      /\ \A q \in Panes : engage'[q] <=> q # p /\ engage[q]
  BY <1>1, <1>2, <1>4 DEF FocusTypeOK
<1>8. /\ active' \in [Strip -> Panes \cup {Null}] /\ astray' \subseteq {"hidden", "skipped"}
      /\ active'[home[p]] = IF active[home[p]] = p THEN r ELSE active[home[p]]
      /\ \A t \in Strip : t # home[p] => active'[t] = active[t]
      /\ astray' = {} => astray = {}
      /\ Placed
  <2>1. CASE active[home[p]] = p /\ Chooses(s) /\ TakeFocus(s)
    <3>1. Placed
      BY <1>1, <1>5, <2>1, TakeFocusPlaces
    <3>2. Chooses(r) /\ home'[r] # Null
      BY <1>4, <1>5, <1>6, <2>1
    <3> QED
      BY <1>1, <1>6, <2>1, <3>1, <3>2, ChoosesIs
  <2>2. CASE active[home[p]] # p /\ UNCHANGED <<active, astray>> /\ Rests
    BY <1>1, <2>2, RestsPlaces DEF FocusTypeOK
  <2> QED
    BY <1>2, <2>1, <2>2
<1>9. RestTyped'
  <2>1. /\ loaded' \subseteq Panes /\ context' \subseteq Panes /\ search' \subseteq Panes
        /\ typed' \in Panes \cup {Null} /\ lib' \subseteq Panes
    BY <1>1, <1>2 DEF FocusTypeOK
  <2> QED
    BY <1>1, <1>3, <1>6, <1>7, <1>8, <2>1 DEF RestTyped, FocusTypeOK
<1>10. Trees'
  <2>1. \A q \in Panes : shell'[q] # Null => home'[q] # Null /\ home'[shell'[q]] = Null
    <3> TAKE q \in Panes
    <3> HAVE shell'[q] # Null
    <3>1. q # p /\ shell'[q] = shell[q]
      BY <1>6
    <3>2. home[q] # Null /\ home[shell[q]] = Null /\ shell[q] \in Panes /\ shell[q] # r
      BY <1>1, <1>2, <1>5, <3>1 DEF Trees, s
    <3> QED
      BY <1>4, <1>6, <3>1, <3>2
  <2>2. \A q \in Panes : home'[q] # Null =>
          active'[home'[q]] \in Panes /\ home'[active'[home'[q]]] = home'[q]
    <3> TAKE q \in Panes
    <3> HAVE home'[q] # Null
    <3>1. CASE home'[q] = home[p]
      <4>1. active[home[p]] \in Panes /\ home[active[home[p]]] = home[p]
        BY <1>1, <1>4 DEF Trees
      <4>2. active[home[p]] # p => home'[active[home[p]]] = home[p]
        BY <1>4, <1>6, <4>1
      <4> QED
        BY <1>6, <1>8, <3>1, <4>1, <4>2
    <3>2. CASE home'[q] # home[p]
      <4>1. home'[q] = home[q] /\ home[q] \in Strip /\ home[q] # Null
        BY <1>1, <1>6, <3>2
      <4>2. active'[home[q]] = active[home[q]]
        BY <1>8, <3>2, <4>1
      <4>3. active[home[q]] \in Panes /\ home[active[home[q]]] = home[q]
        BY <1>1, <4>1 DEF Trees
      <4>4. active[home[q]] \notin {p, r}
        BY <1>6, <3>2, <4>1, <4>3
      <4> QED
        BY <1>6, <4>1, <4>2, <4>3, <4>4
    <3> QED
      BY <3>1, <3>2
  <2>3. active'[selected] \in Panes /\ home'[active'[selected]] = selected
    <3>1. active[selected] \in Panes /\ home[active[selected]] = selected /\ selected \in Strip
      BY <1>1 DEF Trees, ActivePane, FocusTypeOK
    <3>2. selected # Null
      BY <3>1, NullAssumption
    <3>3. active[selected] # r
      BY <1>6, <3>1, <3>2
    <3>4. CASE active[selected] = p
      BY <1>6, <1>8, <3>1, <3>4
    <3>5. CASE active[selected] # p
      <4>1. active'[selected] = active[selected]
        BY <1>8, <3>1, <3>5
      <4> QED
        BY <1>6, <3>1, <3>3, <3>5, <4>1
    <3> QED
      BY <3>4, <3>5
  <2>4. \A q, o \in Panes : shell'[q] = shell'[o] /\ shell'[q] # Null => q = o
    BY <1>1, <1>6 DEF Trees
  <2> QED
    BY <1>3, <2>1, <2>2, <2>3, <2>4 DEF Trees, ActivePane
<1>11. Loading'
  <2>1. \A q \in Panes \ loaded' : home'[q] # Null => q = r
    BY <1>2, <1>6, IdleIs
  <2>2. \A q \in loaded' : home'[q] # Null
    BY <1>1, <1>2, <1>4, <1>6 DEF Loading, FocusTypeOK
  <2> QED
    BY <1>6, <1>7, <2>1, <2>2 DEF Loading
<1>12. InFront'
  BY <1>3 DEF FocusInv, InFront
<1>13. ASSUME Lawful
       PROVE  ZoomedActs' /\ Keeps
  <2>1. ZoomedActs'
    BY <1>7, <1>8, <1>13 DEF Lawful, ZoomedActs
  <2>2. \A q \in Panes : engage[q] => home[q] # Null /\ q # r
    BY <1>6, <1>13 DEF Lawful, Engaged
  <2>3. \A q \in Panes : engage'[q] => engage[q] /\ home'[q] # Null
    BY <1>6, <1>7, <2>2
  <2>4. typed' # Null => engage'[typed'] /\ typed' \in context'
    BY <1>1, <1>2, <1>3, <1>7, <1>13 DEF Lawful, Engaged, FocusTypeOK
  <2>5. \A q \in lib' : q \in lib /\ home'[q] # Null
    BY <1>1, <1>2, <1>6, <1>13 DEF Lawful, Told, FocusTypeOK
  <2>6. focus' = focus /\ focus.pane # Null =>
          /\ ActivePane = focus.pane => Coming' \/ ActivePane' = focus.pane
          /\ engage[focus.pane] => engage'[focus.pane]
    <3> HAVE focus' = focus /\ focus.pane # Null
    <3>1. focus.pane # p /\ focus.pane \in Panes
      BY <1>1, <1>2, <1>8, ElementIs DEF FocusTypeOK, Placed, CanFocus
    <3>2. engage[focus.pane] => engage'[focus.pane]
      BY <1>7, <3>1
    <3>3. selected \in Strip
      BY <1>1 DEF FocusTypeOK
    <3>4. ActivePane = focus.pane => ActivePane' = focus.pane
      BY <1>3, <1>8, <3>1, <3>3 DEF ActivePane
    <3> QED
      BY <3>2, <3>4
  <2>7. Keeps
    BY <1>2, <1>3, <2>3, <2>4, <2>5, <2>6, IdleKeeps
  <2> QED
    BY <2>1, <2>7
<1> QED
  BY <1>8, <1>9, <1>10, <1>11, <1>12, <1>13, Arranges

(* A pane, and the shell parked behind it, goes. *)
LEMMA CloseKeepsFocus ==
  ASSUME FocusInv, NEW p \in Panes, ClosePane(p)
  PROVE  FocusInv'
<1> DEFINE ps == {p, shell[p]} \ {Null}
<1>1. FocusTypeOK /\ home \in [Panes -> Strip \cup {Null}] /\ Trees /\ Loading
      /\ shell \in [Panes -> Panes \cup {Null}]
  BY DEF FocusInv, FocusTypeOK
<1>2. /\ Idle /\ home[p] # Null
      /\ home' = [home EXCEPT ![p] = Null]
      /\ shell' = [shell EXCEPT ![p] = Null]
      /\ zoomed' = [zoomed EXCEPT ![home[p]] = Null]
      /\ loaded' = loaded \ ps /\ context' = context \ ps /\ search' = search \ ps
      /\ engage' = [q \in Panes |-> q \notin ps /\ engage[q]]
      /\ typed' = IF typed \in ps THEN Null ELSE typed
      /\ lib' = lib \ ps
      /\ UNCHANGED <<selected, popup, back, frontVars, told, queued>>
      /\ \/ active[home[p]] # p /\ UNCHANGED <<active, astray>> /\ Rests
         \/ /\ active[home[p]] = p
            /\ \E q \in PanesOf(home[p]) \ {p} : Chooses(q) /\ TakeFocus(q)
  BY DEF ClosePane, Detached
<1>3. /\ selected' = selected /\ popup' = popup /\ back' = back
      /\ fg' = fg /\ acts' = acts /\ told' = told /\ queued' = queued
  BY <1>2 DEF frontVars
<1>4. /\ home[p] \in Strip /\ p # Null /\ p \in ps
      /\ \A q \in ps : q = p \/ home[q] = Null
  BY <1>1, <1>2, NullAssumption DEF Trees
<1> HIDE DEF ps
<1>5. /\ home' \in [Panes -> Strip \cup {Null}] /\ home'[p] = Null
      /\ \A q \in Panes : q # p => home'[q] = home[q]
      /\ shell' \in [Panes -> Panes \cup {Null}] /\ shell'[p] = Null
      /\ \A q \in Panes : q # p => shell'[q] = shell[q]
  BY <1>1, <1>2
<1>6. /\ zoomed' \in [Strip -> Panes \cup {Null}] /\ zoomed'[home[p]] = Null
      /\ \A t \in Strip : t # home[p] => zoomed'[t] = zoomed[t]
      /\ engage' \in [Panes -> BOOLEAN]
      /\ \A q \in Panes : engage'[q] <=> q \notin ps /\ engage[q]
  BY <1>1, <1>2, <1>4 DEF FocusTypeOK
<1>7. /\ active' \in [Strip -> Panes \cup {Null}] /\ astray' \subseteq {"hidden", "skipped"}
      /\ active[home[p]] # p => active'[home[p]] = active[home[p]]
      /\ active[home[p]] = p => /\ active'[home[p]] \in Panes \ {p}
                                /\ home[active'[home[p]]] = home[p]
      /\ \A t \in Strip : t # home[p] => active'[t] = active[t]
      /\ astray' = {} => astray = {}
      /\ Placed
  <2>1. CASE active[home[p]] # p /\ UNCHANGED <<active, astray>> /\ Rests
    BY <1>1, <2>1, RestsPlaces DEF FocusTypeOK
  <2>2. CASE /\ active[home[p]] = p
             /\ \E q \in PanesOf(home[p]) \ {p} : Chooses(q) /\ TakeFocus(q)
    <3>1. PICK q \in Panes : q # p /\ home[q] = home[p] /\ Chooses(q) /\ TakeFocus(q)
      BY <2>2 DEF PanesOf
    <3>2. home'[q] = home[p] /\ home'[q] # Null
      BY <1>2, <1>5, <3>1
    <3>3. Placed
      BY <1>1, <3>1, TakeFocusPlaces
    <3> QED
      BY <1>1, <1>5, <2>2, <3>1, <3>2, <3>3, ChoosesIs
  <2> QED
    BY <1>2, <2>1, <2>2
<1>8. RestTyped'
  BY <1>1, <1>2, <1>3, <1>5, <1>6, <1>7 DEF RestTyped, FocusTypeOK
<1>9. \A t \in Strip : active[t] \in Panes /\ home[active[t]] = t =>
        active'[t] \in Panes /\ active'[t] # p /\ home'[active'[t]] = t
  BY <1>5, <1>7
<1>10. Trees'
  <2>1. \A q \in Panes : shell'[q] # Null => home'[q] # Null /\ home'[shell'[q]] = Null
    <3> TAKE q \in Panes
    <3> HAVE shell'[q] # Null
    <3>1. q # p /\ shell'[q] = shell[q]
      BY <1>5
    <3>2. home[q] # Null /\ home[shell[q]] = Null /\ shell[q] \in Panes
      BY <1>1, <3>1 DEF Trees
    <3> QED
      BY <1>5, <3>1, <3>2
  <2>2. \A q \in Panes : home'[q] # Null =>
          active'[home'[q]] \in Panes /\ home'[active'[home'[q]]] = home'[q]
    <3> TAKE q \in Panes
    <3> HAVE home'[q] # Null
    <3>1. home'[q] = home[q] /\ home[q] \in Strip /\ home[q] # Null
      BY <1>1, <1>5
    <3>2. active[home[q]] \in Panes /\ home[active[home[q]]] = home[q]
      BY <1>1, <3>1 DEF Trees
    <3> QED
      BY <1>9, <3>1, <3>2
  <2>3. active'[selected] \in Panes /\ home'[active'[selected]] = selected
    BY <1>1, <1>9 DEF Trees, ActivePane, FocusTypeOK
  <2>4. \A q, o \in Panes : shell'[q] = shell'[o] /\ shell'[q] # Null => q = o
    BY <1>1, <1>5 DEF Trees
  <2> QED
    BY <1>3, <2>1, <2>2, <2>3, <2>4 DEF Trees, ActivePane
<1>11. Loading'
  <2>1. \A q \in Panes : home'[q] # Null => q \in loaded'
    BY <1>2, <1>4, <1>5, IdleIs
  <2>2. \A q \in loaded' : home'[q] # Null
    BY <1>1, <1>2, <1>4, <1>5 DEF Loading, FocusTypeOK
  <2> QED
    BY <2>1, <2>2 DEF Loading
<1>12. InFront'
  BY <1>3 DEF FocusInv, InFront
<1>13. ASSUME Lawful
       PROVE  ZoomedActs' /\ Keeps
  <2>1. ZoomedActs'
    BY <1>6, <1>7, <1>13 DEF Lawful, ZoomedActs
  <2>2. \A q \in Panes : engage[q] => home[q] # Null
    BY <1>13 DEF Lawful, Engaged
  <2>3. \A q \in Panes : engage'[q] => engage[q] /\ home'[q] # Null
    BY <1>4, <1>5, <1>6, <2>2
  <2>4. typed' # Null => engage'[typed'] /\ typed' \in context'
    BY <1>1, <1>2, <1>3, <1>6, <1>13 DEF Lawful, Engaged, FocusTypeOK
  <2>5. \A q \in lib' : q \in lib /\ home'[q] # Null
    BY <1>1, <1>2, <1>4, <1>5, <1>13 DEF Lawful, Told, FocusTypeOK
  <2>6. focus' = focus /\ focus.pane # Null =>
          /\ ActivePane = focus.pane => Coming' \/ ActivePane' = focus.pane
          /\ engage[focus.pane] => engage'[focus.pane]
    <3> HAVE focus' = focus /\ focus.pane # Null
    <3>1. focus.pane \notin ps /\ focus.pane # p /\ focus.pane \in Panes
      BY <1>1, <1>2, <1>4, <1>7, ElementIs DEF FocusTypeOK, Placed, CanFocus
    <3>2. engage[focus.pane] => engage'[focus.pane]
      BY <1>6, <3>1
    <3>3. selected \in Strip
      BY <1>1 DEF FocusTypeOK
    <3>4. ActivePane = focus.pane => ActivePane' = focus.pane
      BY <1>3, <1>7, <3>1, <3>3 DEF ActivePane
    <3> QED
      BY <3>2, <3>4
  <2>7. Keeps
    BY <1>2, <1>3, <2>3, <2>4, <2>5, <2>6, IdleKeeps
  <2> QED
    BY <2>1, <2>7
<1> QED
  BY <1>7, <1>8, <1>10, <1>11, <1>12, <1>13, Arranges

-----------------------------------------------------------------------------
(* Every step. *)

(* The windows it starts from: one loaded pane in every tab. *)
LEMMA InitFocus == FocusInit => FocusInv
<1> SUFFICES ASSUME FocusInit PROVE FocusInv
  OBVIOUS
<1>1. PICK there \in SUBSET Strip, first \in Strip, f \in [Strip -> Panes] :
        /\ first \in there /\ (\A s, t \in there : f[s] = f[t] => s = t)
        /\ home = [p \in Panes |->
                     IF \E t \in there : f[t] = p THEN CHOOSE t \in there : f[t] = p ELSE Null]
        /\ shell = [p \in Panes |-> Null]
        /\ loaded = {f[t] : t \in there} /\ context = {f[t] : t \in there}
        /\ selected = first
        /\ active = [t \in Strip |-> IF t \in there THEN f[t] ELSE Null]
        /\ zoomed = [t \in Strip |-> Null]
        /\ search = {} /\ popup = FALSE
        /\ focus = Terminal(f[first]) /\ back = Elsewhere
        /\ events = <<>>
        /\ engage = [p \in Panes |-> p = f[first]]
        /\ typed = f[first] /\ lib = {f[first]}
        /\ fg = TRUE /\ acts = <<>> /\ told = TRUE
        /\ queued = {} /\ astray = {}
  BY DEF FocusInit
<1>2. \A t \in there : t \in Strip /\ f[t] \in Panes /\ home[f[t]] = t /\ f[t] \in loaded
  <2> TAKE t \in there
  <2>1. t \in Strip /\ f[t] \in Panes /\ f[t] \in loaded
    BY <1>1
  <2>2. home[f[t]] = CHOOSE s \in there : f[s] = f[t]
    BY <1>1, <2>1
  <2>3. (CHOOSE s \in there : f[s] = f[t]) \in there /\ f[CHOOSE s \in there : f[s] = f[t]] = f[t]
    OBVIOUS
  <2> QED
    BY <1>1, <2>1, <2>2, <2>3
<1>3. \A p \in Panes : p \notin loaded => home[p] = Null
  BY <1>1
<1>4. \A p \in loaded : p \in Panes /\ home[p] \in there /\ f[home[p]] = p
  <2> TAKE p \in loaded
  <2>1. PICK t \in there : f[t] = p
    BY <1>1
  <2> QED
    BY <1>2, <2>1
<1>5. home \in [Panes -> Strip \cup {Null}]
  <2>1. home = [p \in Panes |-> home[p]]
    BY <1>1
  <2>2. \A p \in Panes : home[p] \in Strip \cup {Null}
    BY <1>3, <1>4
  <2> QED
    BY <2>1, <2>2
<1>6. first \in Strip /\ f[first] \in Panes /\ home[f[first]] = first /\ f[first] \in loaded
  BY <1>1, <1>2
<1>7. events \in Seq(Event) /\ acts \in Seq(BOOLEAN) /\ DOMAIN events = {}
  BY <1>1, EmptySeq
<1>8. FocusTypeOK
  <2>1. /\ loaded \subseteq Panes /\ context \subseteq Panes /\ search \subseteq Panes
        /\ focus \in Elements /\ back \in Elements
    BY <1>1, <1>6, ElementsAre
  <2>2. /\ shell \in [Panes -> Panes \cup {Null}] /\ zoomed \in [Strip -> Panes \cup {Null}]
        /\ active \in [Strip -> Panes \cup {Null}] /\ engage \in [Panes -> BOOLEAN]
    BY <1>1
  <2>3. RestTyped
    BY <1>1, <1>5, <1>6, <1>7, <2>1, <2>2 DEF RestTyped
  <2> QED
    BY <1>7, <2>1, <2>3, TypedIs
<1>9. Trees
  <2>1. ActivePane = f[first]
    BY <1>1, <1>6 DEF ActivePane
  <2>2. ASSUME NEW p \in Panes, home[p] # Null
        PROVE  active[home[p]] \in Panes /\ home[active[home[p]]] = home[p]
    <3>1. home[p] \in there /\ f[home[p]] = p /\ home[p] \in Strip
      BY <1>2, <1>3, <1>4, <2>2
    <3>2. active[home[p]] = p
      BY <1>1, <3>1
    <3> QED
      BY <3>2
  <2> QED
    BY <1>1, <1>6, <2>1, <2>2 DEF Trees
<1>10. Loading
  BY <1>3, <1>4, NullAssumption DEF Loading
<1>11. Terminal(f[first]).pane = f[first] /\ f[first] # Null /\ selected = first
       /\ selected # Null /\ zoomed[selected] = Null
  BY <1>1, <1>6, ElementsAre, NullAssumption
<1>12. Late /\ InFront
  BY <1>1, <1>6, <1>7, <1>11 DEF Late, FocusShown, EventsLive, Settles, GotLast, InFront
<1>13. Lawful
  <2>1. ZoomedActs /\ ActivePane = f[first]
    BY <1>1, <1>6 DEF ZoomedActs, ActivePane
  <2>2. Engaged
    BY <1>1, <1>6, <1>11 DEF Engaged
  <2>3. Told
    BY <1>1, <1>6, <1>11 DEF Told
  <2>4. Follows
    BY <1>1, <1>11, <2>1 DEF Follows
  <2> QED
    BY <2>1, <2>2, <2>3, <2>4 DEF Lawful
<1> QED
  BY <1>8, <1>9, <1>10, <1>12, <1>13 DEF FocusInv

LEMMA StepFocus == FocusInv /\ [FocusNext]_focusVars => FocusInv'
<1> SUFFICES ASSUME FocusInv, [FocusNext]_focusVars PROVE FocusInv'
  OBVIOUS
<1>1. ASSUME NEW p \in Panes,
             \/ Click(p) \/ ClickBar(p) \/ Load(p) \/ StartSearch(p) \/ EndSearch(p)
             \/ ClosePane(p) \/ ToggleSplitZoom(p) \/ RestoreParked(p) \/ PresentNotification(p)
      PROVE  FocusInv'
  BY <1>1, ClicksKeep, LoadKeeps, SearchKeeps, CloseKeepsFocus, ZoomKeeps,
     RestoreParkedKeeps, NotificationKeeps
<1>2. ASSUME NEW p \in Panes, NEW q \in Panes, Split(p, q) \/ GotoSplit(p, q) \/ OpenInPlace(p, q)
      PROVE  FocusInv'
  BY <1>2, SplitKeeps, GotoKeeps, OpenInPlaceKeeps
<1>3. ASSUME NEW t \in Strip, SelectTab(t)
      PROVE  FocusInv'
  BY <1>3, SelectKeeps
<1>4. CASE ClickCaption \/ OpenDialog \/ CloseDialog \/ SwitchAway \/ SwitchTo
  BY <1>4, CaptionKeeps, DialogKeeps, SwitchesKeep
<1>5. CASE RaiseFocusEvent \/ Deactivated \/ Activated \/ Restore \/ RunFocus
  BY <1>5, RaiseKeeps, DeactivatedKeeps, ActivatedKeeps, RestoreKeeps, RunFocusKeeps
<1>6. CASE UNCHANGED focusVars
  <2>1. /\ home' = home /\ shell' = shell /\ active' = active /\ zoomed' = zoomed
        /\ selected' = selected /\ loaded' = loaded /\ context' = context
        /\ search' = search /\ popup' = popup /\ back' = back
        /\ focus' = focus /\ events' = events /\ engage' = engage /\ typed' = typed
        /\ lib' = lib /\ fg' = fg /\ acts' = acts /\ told' = told /\ queued' = queued
        /\ astray' = astray
    BY <1>6 DEF focusVars, treeVars, liveVars, overlays, xamlVars, imeVars, frontVars
  <2>2. FocusTypeOK' /\ Trees' /\ Loading' /\ InFront' /\ Late'
    BY <2>1 DEF FocusInv, FocusTypeOK, Trees, Loading, InFront, Late, FocusShown, EventsLive,
                Settles, GotLast, ActivePane
  <2>3. Lawful => Lawful'
    BY <2>1 DEF Lawful, ZoomedActs, Engaged, Told, Follows, Coming, Awaited, Pending, Gained, ActivePane
  <2> QED
    BY <2>1, <2>2, <2>3 DEF FocusInv
<1>7. CASE FocusNext
  BY <1>1, <1>2, <1>3, <1>4, <1>5, <1>7 DEF FocusNext, User, Action, Handler
<1> QED
  BY <1>6, <1>7

(* However late the events of XAML and of activation come, between clicks, *)
(* dialogs, searches, zooms, splits, closes and in-place sessions, for any *)
(* number of panes and tabs: the events owed settle on the element that    *)
(* has the focus, and what is engaged, told to libghostty and active is    *)
(* put right by those still to come.                                       *)
THEOREM FocusInvariance == FocusSpec => []FocusInv
<1>1. QED
  BY InitFocus, StepFocus, PTL DEF FocusSpec

(* In front, what the user types goes to the terminal that has the focus.  *)
THEOREM KeyboardFollows == FocusSpec => []InputFollowsFocus
<1>1. FocusInv => InputFollowsFocus
  <2> SUFFICES ASSUME FocusInv, Quiet, fg PROVE
        (typed # Null => focus = Terminal(typed)) /\ (focus.at = "terminal" => engage[focus.pane])
    BY DEF InputFollowsFocus
  <2>1. /\ events = <<>> /\ acts = <<>> /\ queued = {} /\ astray = {} /\ Lawful
        /\ \A p \in Panes : home[p] # Null => p \in loaded
        /\ selected # Null /\ typed \in Panes \cup {Null}
    BY NullAssumption DEF FocusInv, Quiet, FocusTypeOK
  <2>2. (\A p \in Panes : ~Awaited(p)) /\ ~Coming /\ \A p : ~Pending(p)
    BY <2>1 DEF Coming, Awaited, Pending
  <2> QED
    BY <2>1, <2>2 DEF Lawful, Engaged
<1>2. QED
  BY <1>1, FocusInvariance, PTL

(* The active pane of the tab shown has the focus, and of the panes shown  *)
(* libghostty holds no other for focused.                                  *)
THEOREM FocusIsAgreed == FocusSpec => []FocusAgreed
<1>1. FocusInv => FocusAgreed
  <2> SUFFICES ASSUME FocusInv, Quiet PROVE
        /\ focus.pane # Null => ActivePane = focus.pane
        /\ \A p \in lib : home[p] = selected => p = focus.pane
    BY DEF FocusAgreed
  <2>1. /\ events = <<>> /\ astray = {} /\ Lawful
        /\ \A p \in Panes : home[p] # Null => p \in loaded
        /\ selected # Null /\ lib \subseteq Panes
    BY NullAssumption DEF FocusInv, Quiet, FocusTypeOK
  <2>2. (\A p \in Panes : ~Awaited(p)) /\ ~Coming /\ (\A p : ~Pending(p)) /\ (\A p : ~Gained(p))
    BY <2>1 DEF Coming, Awaited, Pending, Gained
  <2> QED
    BY <2>1, <2>2 DEF Lawful, Told, Follows
<1>2. QED
  BY <1>1, FocusInvariance, PTL

-----------------------------------------------------------------------------
(* The command palette (Palette). *)

(* Every cached row shows the entry of its index, if it has been built.    *)
RowsFit(es, rs) ==
  /\ es \in Seq(Actions) /\ DOMAIN rs = DOMAIN es
  /\ \A i \in DOMAIN es : rs[i] \in {Nothing, es[i]}

PaletteInv == RowsFit(entries, rows) /\ FreshListRuns

LEMMA ConfigIs ==
  ASSUME NEW es \in Configs
  PROVE  es \in Seq(Actions)
<1>1. PICK n \in 0 .. MaxEntries : es \in [1 .. n -> Actions]
  BY DEF Configs
<1>2. n \in Nat
  BY PaletteAssumption
<1> QED
  BY <1>1, <1>2, IsASeq

LEMMA ShorterIs ==
  ASSUME NEW S, NEW s \in Seq(S)
  PROVE  Shorter(s) \in Seq(S)
<1>1. Len(s) \in Nat
  BY LenProperties
<1>2. PICK m : m = IF Len(s) < MaxRows THEN Len(s) ELSE MaxRows
  OBVIOUS
<1>3. m \in Nat /\ m <= Len(s)
  BY <1>1, <1>2, PaletteAssumption
<1>4. SubSeq(s, 1, m) \in Seq(S)
  BY <1>1, <1>3, SubSeqProperties
<1> QED
  BY <1>2, <1>4 DEF Shorter

(* What a query finds are indices of the entries.                          *)
LEMMA FoundIs ==
  ASSUME NEW n \in Nat, NEW q, NEW v \in Found(n, q)
  PROVE  v \in Seq(1 .. n)
<1>1. CASE q = "empty"
  <2>1. InOrder(n) \in Seq(1 .. n)
    BY IsASeq DEF InOrder
  <2> QED
    BY <1>1, <2>1, ShorterIs DEF Found
<1>2. CASE q # "empty"
  <2>1. PICK m \in SUBSET (1 .. n) : \E s \in SetToSeqs(m) : v = Shorter(s)
    BY <1>2 DEF Found
  <2>2. PICK s \in SetToSeqs(m) : v = Shorter(s)
    BY <2>1
  <2>3. s \in [1 .. Cardinality(m) -> m]
    BY <2>2 DEF SetToSeqs
  <2>4. Cardinality(m) \in Nat
    <3>1. 1 \in Int /\ n \in Int
      OBVIOUS
    <3>2. IsFiniteSet(1 .. n)
      BY <3>1, FS_Interval
    <3>3. IsFiniteSet(m)
      BY <3>2, <2>1, FS_Subset
    <3> QED
      BY <3>3, FS_CardinalityType
  <2>5. s \in Seq(1 .. n)
    <3>1. PICK c : c = Cardinality(m)
      OBVIOUS
    <3>2. c \in Nat /\ s \in [1 .. c -> 1 .. n]
      BY <3>1, <2>3, <2>4, <2>1
    <3> QED
      BY <3>2
  <2> QED
    BY <2>2, <2>5, ShorterIs
<1> QED
  BY <1>1, <1>2

(* A rebuilt list shows, in every row, the entry its index names, and the  *)
(* rows built for it leave no row that shows another entry.                *)
LEMMA RefilterShows ==
  ASSUME NEW es, NEW rs, RowsFit(es, rs), RefilterOf(es, rs)
  PROVE  /\ RowsFit(es, rows')
         /\ \A k \in DOMAIN visible' :
              visible'[k] \in DOMAIN es /\ shown'[k] = es[visible'[k]]
<1>1. es \in Seq(Actions) /\ DOMAIN rs = DOMAIN es /\ \A i \in DOMAIN es : rs[i] \in {Nothing, es[i]}
  BY DEF RowsFit
<1>2. Len(es) \in Nat /\ DOMAIN es = 1 .. Len(es)
  BY <1>1, LenProperties
<1>3. PICK v \in Found(Len(es), query') :
        /\ visible' = v
        /\ rows' = [i \in DOMAIN es |-> IF rs[i] = Nothing /\ Contains(v, i) THEN es[i] ELSE rs[i]]
        /\ shown' = [k \in DOMAIN v |-> rows'[v[k]]]
  BY DEF RefilterOf
<1>4. v \in Seq(DOMAIN es)
  BY <1>2, <1>3, FoundIs
<1>5. RowsFit(es, rows')
  <2>1. DOMAIN rows' = DOMAIN es
    BY <1>3
  <2>2. ASSUME NEW i \in DOMAIN es
        PROVE  rows'[i] \in {Nothing, es[i]}
    BY <1>1, <1>3, <2>2
  <2> QED
    BY <1>1, <2>1, <2>2 DEF RowsFit
<1>6. ASSUME NEW k \in DOMAIN visible'
      PROVE  visible'[k] \in DOMAIN es /\ shown'[k] = es[visible'[k]]
  <2>1. k \in 1 .. Len(v) /\ k \in DOMAIN v
    BY <1>3, <1>4, <1>6, LenProperties
  <2>2. v[k] \in DOMAIN es
    BY <1>4, <2>1, ElementOfSeq
  <2>3. Contains(v, v[k])
    BY <2>1 DEF Contains
  <2>4. rows'[v[k]] = es[v[k]]
    <3>1. rows'[v[k]] = IF rs[v[k]] = Nothing /\ Contains(v, v[k]) THEN es[v[k]] ELSE rs[v[k]]
      BY <1>3, <2>2
    <3>2. rs[v[k]] \in {Nothing, es[v[k]]}
      BY <1>1, <2>2
    <3> QED
      BY <2>3, <3>1, <3>2
  <2>5. shown'[k] = rows'[v[k]]
    BY <1>3, <2>1
  <2> QED
    BY <1>3, <2>2, <2>4, <2>5
<1> QED
  BY <1>5, <1>6

(* A refilter makes the list fresh whatever it was. *)
LEMMA RefilterKeeps ==
  ASSUME PaletteInv, entries' = entries, Refilter
  PROVE  PaletteInv'
<1>1. RowsFit(entries, rows) /\ RefilterOf(entries, rows)
  BY DEF PaletteInv, Refilter
<1>2. /\ RowsFit(entries, rows')
      /\ \A k \in DOMAIN visible' :
           visible'[k] \in DOMAIN entries /\ shown'[k] = entries[visible'[k]]
  BY <1>1, RefilterShows
<1>3. RowsFit(entries, rows)'
  BY <1>2 DEF RowsFit
<1>4. FreshListRuns'
  BY <1>2 DEF FreshListRuns
<1> QED
  BY <1>3, <1>4 DEF PaletteInv

(* Opening the list leaves nothing out of date: a list that was marked     *)
(* stale is rebuilt, or a TextChanged that rebuilds it is to come.         *)
LEMMA OpenKeeps ==
  ASSUME NEW es, NEW rs, NEW old \in BOOLEAN, RowsFit(es, rs), entries' = es,
         ~old /\ ~changed => \A k \in DOMAIN visible :
                               visible[k] \in DOMAIN es /\ shown[k] = es[visible[k]],
         Open(es, rs, old)
  PROVE  PaletteInv'
<1>1. CASE old /\ query = "empty"
  <2>1. RefilterOf(es, rs)
    BY <1>1 DEF Open
  <2>2. /\ RowsFit(es, rows')
        /\ \A k \in DOMAIN visible' :
             visible'[k] \in DOMAIN es /\ shown'[k] = es[visible'[k]]
    BY <2>1, RefilterShows
  <2>3. RowsFit(entries, rows)'
    BY <2>2 DEF RowsFit
  <2> QED
    BY <2>2, <2>3 DEF PaletteInv, FreshListRuns
<1>2. CASE ~(old /\ query = "empty")
  <2>1. rows' = rs /\ visible' = visible /\ shown' = shown /\ changed' = (changed \/ query # "empty")
    BY <1>2 DEF Open
  <2>2. RowsFit(entries, rows)'
    BY <2>1 DEF RowsFit
  <2>3. ASSUME ~changed'
        PROVE  ~old /\ ~changed
    BY <1>2, <2>1, <2>3
  <2>4. FreshListRuns'
    BY <2>1, <2>3 DEF FreshListRuns
  <2> QED
    BY <2>2, <2>4 DEF PaletteInv
<1> QED
  BY <1>1, <1>2

LEMMA UnbuiltFits ==
  ASSUME NEW es \in Configs
  PROVE  RowsFit(es, Unbuilt(es))
<1>1. es \in Seq(Actions)
  BY ConfigIs
<1> QED
  BY <1>1 DEF RowsFit, Unbuilt

(* A step that leaves the entries, the list and its marks alone. *)
LEMMA SamePalette ==
  ASSUME PaletteInv, UNCHANGED <<entries, list, stale, changed>>
  PROVE  PaletteInv'
<1>1. /\ entries' = entries /\ rows' = rows /\ visible' = visible /\ shown' = shown
      /\ stale' = stale /\ changed' = changed
  BY DEF list
<1> QED
  BY <1>1 DEF PaletteInv, RowsFit, FreshListRuns

(* A replacement of the entries marks the list, so only rows have to fit.  *)
LEMMA ReplaceKeeps ==
  ASSUME PaletteInv, ReplaceConfig
  PROVE  PaletteInv'
<1>1. PICK es \in Configs : SetEntries(es)
  BY DEF ReplaceConfig
<1>2. entries' = es /\ rows' = Unbuilt(es) /\ stale'
  BY <1>1 DEF SetEntries
<1>3. RowsFit(es, Unbuilt(es))
  BY UnbuiltFits
<1>4. RowsFit(entries, rows)'
  BY <1>2, <1>3 DEF RowsFit
<1> QED
  BY <1>2, <1>4 DEF PaletteInv, FreshListRuns

LEMMA PreWarmKeeps ==
  ASSUME PaletteInv, PreWarm
  PROVE  PaletteInv'
<1>1. CASE ~stale \/ open
  BY <1>1, SamePalette DEF PreWarm
<1>2. CASE ~(~stale \/ open)
  BY <1>2, RefilterKeeps DEF PreWarm
<1> QED
  BY <1>1, <1>2

LEMMA ToggleKeeps ==
  ASSUME PaletteInv, stale \in BOOLEAN, Toggle
  PROVE  PaletteInv'
<1>1. CASE open
  BY <1>1, SamePalette DEF Toggle
<1>2. CASE ~open /\ entries # <<>>
  <2>1. Open(entries, rows, stale) /\ entries' = entries
    BY <1>2 DEF Toggle
  <2>2. RowsFit(entries, rows)
    BY DEF PaletteInv
  <2>3. ~stale /\ ~changed => \A k \in DOMAIN visible :
                                visible[k] \in DOMAIN entries /\ shown[k] = entries[visible[k]]
    BY DEF PaletteInv, FreshListRuns
  <2> QED
    BY <2>1, <2>2, <2>3, OpenKeeps
<1>3. CASE ~open /\ entries = <<>>
  <2>1. PICK es \in Configs : entries' = es /\ Open(es, Unbuilt(es), TRUE)
    BY <1>3 DEF Toggle
  <2>2. RowsFit(es, Unbuilt(es))
    BY UnbuiltFits
  <2> QED
    BY <2>1, <2>2, OpenKeeps
<1> QED
  BY <1>1, <1>2, <1>3

LEMMA InitPalette ==
  ASSUME PaletteInit
  PROVE  PaletteInv /\ stale \in BOOLEAN
<1>1. entries \in Seq(Actions) /\ DOMAIN entries = {} /\ DOMAIN rows = {} /\ DOMAIN visible = {}
  BY DEF PaletteInit
<1> QED
  BY <1>1 DEF PaletteInit, PaletteInv, RowsFit, FreshListRuns

LEMMA StepPalette ==
  ASSUME PaletteInv, stale \in BOOLEAN, [PaletteNext]_paletteVars
  PROVE  PaletteInv' /\ stale' \in BOOLEAN
<1>1. CASE ReplaceConfig
  BY <1>1, ReplaceKeeps DEF ReplaceConfig, SetEntries
<1>2. CASE PreWarm
  BY <1>2, PreWarmKeeps DEF PreWarm
<1>3. CASE Toggle
  BY <1>3, ToggleKeeps DEF Toggle, Open
<1>4. CASE Type
  BY <1>4 DEF Type, list, PaletteInv, RowsFit, FreshListRuns
<1>5. CASE TextChanged
  BY <1>5, RefilterKeeps DEF TextChanged
<1>6. CASE MoveSelection
  BY <1>6 DEF MoveSelection, PaletteInv, RowsFit, FreshListRuns
<1>7. CASE Dismiss
  BY <1>7, SamePalette DEF Dismiss
<1>8. CASE ExecuteSelected
  BY <1>8 DEF ExecuteSelected, PaletteInv, RowsFit, FreshListRuns
<1>9. CASE UNCHANGED paletteVars
  BY <1>9, SamePalette DEF paletteVars
<1> QED
  BY <1>1, <1>2, <1>3, <1>4, <1>5, <1>6, <1>7, <1>8, <1>9 DEF PaletteNext

(* The cache of rows never holds another entry's row, and a list that is   *)
(* up to date shows the entries it runs, whatever the reloads, the queries *)
(* and the closures of SetEntries in between.                              *)
THEOREM PaletteInvariance == PaletteSpec => []PaletteInv
<1>1. PaletteInit => PaletteInv /\ stale \in BOOLEAN
  BY InitPalette
<1>2. (PaletteInv /\ stale \in BOOLEAN) /\ [PaletteNext]_paletteVars => (PaletteInv /\ stale \in BOOLEAN)'
  BY StepPalette
<1> QED
  BY <1>1, <1>2, PTL DEF PaletteSpec

(* A list that is not marked stale, with no TextChanged to come, shows the *)
(* entries it would run (SetEntries, Open, Refilter of                     *)
(* CommandPalette.xaml.cpp).                                               *)
THEOREM FreshListsRun == PaletteSpec => []FreshListRuns
<1>1. PaletteInv => FreshListRuns
  BY DEF PaletteInv
<1> QED
  BY <1>1, PaletteInvariance, PTL
=============================================================================
