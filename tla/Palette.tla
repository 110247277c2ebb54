-------------------------------- MODULE Palette --------------------------------
(***************************************************************************)
(* The command palette of one window: the entries of the configuration,    *)
(* the list built from them, and the keys and clicks that run a row, while *)
(* reloads replace the entries at any time.                                *)
(*                                                                         *)
(* The list names its entries by index and is rebuilt at three places: on  *)
(* TextChanged, in Open, and in an idle closure of SetEntries.  Which rows *)
(* a typed query finds, and their order, is a choice (FuzzyMatch); the     *)
(* empty query finds every entry in the order of the configuration.        *)
(* Assumed of the platform: TextChanged is raised after the call that      *)
(* changes the text, several changes may raise one event.                  *)
(***************************************************************************)
EXTENDS Naturals, SequencesExt

CONSTANTS
  Actions,   \* what an entry does; its title and description go with it
  Nothing,   \* no row, or no action
  MaxRows,   \* kMaxVisibleRows
  MaxEntries, \* bound: entries of one config
  MaxEdits   \* bound: replacements of the entries

ASSUME PaletteAssumption == MaxRows \in Nat /\ MaxEntries \in Nat

VARIABLES
  entries,  \* m_entries: the action of each entry
  rows,     \* m_rows: what the cached row of each entry shows, or Nothing
  visible,  \* m_visible: the entry behind each row of the list
  shown,    \* what each row of the list shows
  picked,   \* Results().SelectedIndex, 0 for none
  query,    \* "empty" or "typed"
  changed,  \* a TextChanged to come
  stale,    \* m_listStale
  open,     \* m_open
  idle,     \* closures of SetEntries in the queue
  edits,    \* bound: replacements so far
  ran       \* history: the row last run, and what was sent to libghostty

list == <<rows, visible, shown, picked>>
paletteVars == <<entries, list, query, changed, stale, open, idle, edits, ran>>

-----------------------------------------------------------------------------
(* One config is a list of entries; two entries may do the same. *)
Configs == UNION {[1 .. n -> Actions] : n \in 0 .. MaxEntries}

Shorter(s) == SubSeq(s, 1, IF Len(s) < MaxRows THEN Len(s) ELSE MaxRows)

InOrder(n) == [i \in 1 .. n |-> i]

(* The indices a query finds, best first; nothing may be found. *)
Found(n, q) ==
  IF q = "empty" THEN {Shorter(InOrder(n))}
  ELSE {Shorter(s) : s \in UNION {SetToSeqs(m) : m \in SUBSET (1 .. n)}}

PaletteInit ==
  /\ entries = <<>> /\ rows = <<>> /\ visible = <<>> /\ shown = <<>>
  /\ picked = 0 /\ query = "empty" /\ changed = FALSE /\ stale = FALSE
  /\ open = FALSE /\ idle = 0 /\ edits = 0
  /\ ran = [row |-> Nothing, did |-> Nothing]

-----------------------------------------------------------------------------
(* A row is built once and kept until the entries are replaced. *)
RefilterOf(es, rs) ==
  \E v \in Found(Len(es), query') :
    /\ visible' = v
    /\ rows' = [i \in DOMAIN es |-> IF rs[i] = Nothing /\ Contains(v, i) THEN es[i] ELSE rs[i]]
    /\ shown' = [k \in DOMAIN v |-> rows'[v[k]]]
    /\ picked' = IF v = <<>> THEN 0 ELSE 1

Refilter == RefilterOf(entries, rows)

Unbuilt(es) == [i \in DOMAIN es |-> Nothing]

(* Fault: the cache is resized and not cleared. *)
SetEntriesKeepsRows(es) ==
  /\ entries' = es
  /\ rows' = [i \in DOMAIN es |-> IF i \in DOMAIN rows THEN rows[i] ELSE Nothing]
  /\ stale' = TRUE /\ idle' = idle + 1

SetEntries(es) ==
  /\ entries' = es /\ rows' = Unbuilt(es)
  /\ stale' = TRUE /\ idle' = idle + 1

(* RefreshPaletteEntries, from ReplaceConfig. *)
ReplaceConfig ==
  /\ edits < MaxEdits /\ edits' = edits + 1
  /\ \E es \in Configs : SetEntries(es)
  /\ UNCHANGED <<visible, shown, picked, query, changed, open, ran>>

(* The idle closure. *)
PreWarm ==
  /\ idle > 0 /\ idle' = idle - 1
  /\ UNCHANGED <<entries, query, changed, open, edits, ran>>
  /\ IF ~stale \/ open THEN UNCHANGED <<list, stale>> ELSE Refilter /\ stale' = FALSE

(* A query left over is cleared, and TextChanged will rebuild the list.    *)
Open(es, rs, old) ==
  /\ query' = "empty" /\ changed' = (changed \/ query # "empty")
  /\ IF old /\ query = "empty" THEN RefilterOf(es, rs)
     ELSE rows' = rs /\ UNCHANGED <<visible, shown, picked>>
  /\ open' = TRUE /\ stale' = FALSE

(* ToggleCommandPaletteForSurface: a window without entries reads them.    *)
Toggle ==
  \/ /\ open /\ open' = FALSE
     /\ UNCHANGED <<entries, list, query, changed, stale, idle, edits, ran>>
  \/ /\ ~open /\ entries # <<>>
     /\ Open(entries, rows, stale)
     /\ UNCHANGED <<entries, idle, edits, ran>>
  \/ /\ ~open /\ entries = <<>> /\ edits < MaxEdits
     /\ edits' = edits + 1 /\ idle' = idle + 1
     /\ \E es \in Configs : entries' = es /\ Open(es, Unbuilt(es), TRUE)
     /\ UNCHANGED ran

-----------------------------------------------------------------------------
(* The user, while the box has the keyboard. *)

Type ==
  /\ open
  /\ query' \in {"empty", "typed"} /\ (query' = "typed" \/ query = "typed")
  /\ changed' = TRUE
  /\ UNCHANGED <<entries, list, stale, open, idle, edits, ran>>

TextChanged ==
  /\ changed /\ changed' = FALSE
  /\ query' = query /\ Refilter
  /\ UNCHANGED <<entries, stale, open, idle, edits, ran>>

MoveSelection ==
  /\ open /\ visible # <<>>
  /\ picked' \in {picked + 1, picked - 1} \cap DOMAIN visible
  /\ UNCHANGED <<entries, rows, visible, shown, query, changed, stale, open, idle, edits, ran>>

(* Esc, the toggle's chord in the box or a click on the scrim. *)
Dismiss ==
  /\ open /\ open' = FALSE
  /\ UNCHANGED <<entries, list, query, changed, stale, idle, edits, ran>>

(* Enter, or a click on a row, which picks it first.  An index past the    *)
(* entries is read all the same.                                           *)
ExecuteSelected ==
  /\ open /\ \E k \in {picked} \cup DOMAIN visible :
       /\ k \in DOMAIN visible
       /\ picked' = k
       /\ ran' = [row |-> shown[k],
                  did |-> IF visible[k] \in DOMAIN entries THEN entries[visible[k]] ELSE Nothing]
  /\ open' = FALSE
  /\ UNCHANGED <<entries, rows, visible, shown, query, changed, stale, idle, edits>>

PaletteNext ==
  \/ ReplaceConfig \/ PreWarm \/ Toggle \/ Type \/ TextChanged
  \/ MoveSelection \/ Dismiss \/ ExecuteSelected

PaletteSpec == PaletteInit /\ [][PaletteNext]_paletteVars

-----------------------------------------------------------------------------
(* A list that is not marked stale, with no TextChanged to come, shows the *)
(* entries it would run: the indices kept across SetEntries, the cache of  *)
(* rows and the three places that rebuild the list (SetEntries, Open,      *)
(* Refilter of CommandPalette.xaml.cpp) agree.                             *)
FreshListRuns ==
  ~stale /\ ~changed =>
    \A k \in DOMAIN visible :
      visible[k] \in DOMAIN entries /\ shown[k] = entries[visible[k]]

(* What runs is what the row says (SetOnExecute, CommandPalette.xaml.h:    *)
(* "The selected entry's action string").                                  *)
RowIsRun == ran.did = ran.row
=============================================================================
