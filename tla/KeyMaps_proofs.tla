--------------------------- MODULE KeyMaps_proofs ---------------------------
(***************************************************************************)
(* Proofs about KeyMaps, for any number of pages, keys, activities and     *)
(* edits: a key has one row in an activity, pages are well formed, the id  *)
(* under which a page lists a key is never the id of another key's row, no *)
(* page keeps a key mapped to a button that was deleted, and the dicts of  *)
(* pages agree with the table.                                             *)
(*                                                                         *)
(* Replies rename every item of a key to the id of whichever row is last.  *)
(* The argument for ids is that id and key go together wherever they are:  *)
(* in the list, in the dict and in frames on their way.  A row's key never *)
(* changes, and no id is given out twice, so the two stay together although*)
(* the row may be deleted before the frame arrives.                        *)
(*                                                                         *)
(* The argument for what keys are mapped to is that a page which differs   *)
(* from the tables has in one of its streams what settles the difference.  *)
(***************************************************************************)
EXTENDS KeyMaps, Hub_proofs, WellFoundedInduction

\* Id i is that of key k's row, or of none any more.
Known(i, k) ==
    /\ i \in 1..key_binds.seq
    /\ i \in DOMAIN key_binds.rows => key_binds.rows[i].key_code = k

NamesKey(id, k) == id[1] = "k" => Known(id[2], k)

-----------------------------------------------------------------------------
(***************************************************************************)
(* What the tables, the pages and the streams hold.                        *)
(***************************************************************************)
MapRow == [activity_id: Activities, key_code: KeyCodes, button_id: Buttons]

OneEach(rows) ==
    \A i, j \in DOMAIN rows :
        rows[i].activity_id = rows[j].activity_id /\ rows[i].key_code = rows[j].key_code
            => i = j

TablesOK ==
    /\ key_binds.seq \in Nat
    /\ DOMAIN key_binds.rows \subseteq 1..key_binds.seq
    /\ \A i \in DOMAIN key_binds.rows : key_binds.rows[i] \in MapRow
    /\ OneEach(key_binds.rows)
    /\ buttons \subseteq Buttons

AnyButton == Buttons \cup {Null}

Entry == [id: Ids, button_id: AnyButton]

Dict == UNION {[keys -> Entry] : keys \in SUBSET KeyCodes}

DictOK(maps) == \A k \in DOMAIN maps : NamesKey(maps[k].id, k)

AnyItem == [id: Ids, key_code: KeyCodes, button_id: AnyButton, hidden: BOOLEAN]

GoodItem == {item \in AnyItem : NamesKey(item.id, item.key_code)}

AnyPage ==
    [activity: Activities \cup {"none"}, key_maps: [Activities -> Dict],
     list: Seq(GoodItem), buttons: SUBSET Buttons, loaded: SUBSET Buttons, temp_id: Nat]

GoodPage == {pg \in AnyPage : \A a \in Activities : DictOK(pg.key_maps[a])}

SavedFrame  == {f \in [type: {"saved"}, id: Nat, key_code: KeyCodes] : Known(f.id, f.key_code)}
GoneFrame   == [type: {"map_gone"}, id: Nat, activity_id: Activities, key_code: KeyCodes]
NoMapFrame  == [type: {"no_map"}, id: Ids]
ButtonFrame == [type: {"button_gone"}, id: Buttons]

Frame == SavedFrame \cup GoneFrame \cup NoMapFrame \cup ButtonFrame

SaveRequest   == [type: {"save_key_map"}, activity_id: Activities, key_code: KeyCodes,
                  button_id: Buttons]
DeleteRequest == [type: {"delete_key_map"}, id: Ids, seen: Activities \X KeyCodes]
DropRequest   == [type: {"delete_remote_button"}, id: Buttons]

Request == SaveRequest \cup DeleteRequest \cup DropRequest

\* A page that is connected shows an activity.
Shows(p) == page[p] # NoPage \/ link[p] # "closed" => page[p].activity \in Activities

PagesOK ==
    /\ page \in [Conns -> GoodPage]
    /\ \A p \in Conns : Shows(p)

StreamsOK ==
    /\ listeners \in Seq(Conns)
    /\ link \in [Conns -> {"closed", "open", "lost"}]
    /\ inbox \in [Conns -> Seq(Frame)]
    /\ outbox \in [Conns -> Seq(Request)]

IInv == TablesOK /\ PagesOK /\ StreamsOK /\ edits \in 0..MaxEdits

-----------------------------------------------------------------------------
(***************************************************************************)
(* What the operators of the library return.                               *)
(***************************************************************************)
\* A list that is changed item by item.
LEMMA ItemByItem ==
    ASSUME NEW S, NEW T, NEW s \in Seq(S), NEW t,
           t = [n \in DOMAIN s |-> t[n]], \A n \in DOMAIN s : t[n] \in T
    PROVE  t \in Seq(T)
<1>1. Len(s) \in Nat /\ DOMAIN s = 1..Len(s)
  BY LenProperties
<1>2. t \in [1..Len(s) -> T]
  BY <1>1
<1> QED
  BY <1>1, <1>2, SeqDef

LEMMA SetAsSeq ==
    ASSUME NEW S, IsFiniteSet(S)
    PROVE  SetToSeq(S) \in Seq(S)
<1>1. Cardinality(S) \in Nat /\ ExistsBijection(1..Cardinality(S), S)
  BY FS_CardinalityType
<1>2. \E f \in [1..Cardinality(S) -> S] : IsInjective(f)
  BY <1>1 DEF ExistsBijection, Bijection, Injection
<1>3. SetToSeq(S) \in [1..Cardinality(S) -> S]
  BY <1>2 DEF SetToSeq
<1> QED
  BY <1>1, <1>3, SeqDef

LEMMA LeastIndex ==
    ASSUME NEW D \in SUBSET Nat, D # {}
    PROVE  Min(D) \in D
<1> DEFINE R == {ss \in Nat \X Nat : ss[1] < ss[2]}
<1>1. IsWellFoundedOn(R, Nat)
  BY NatLessThanWellFounded DEF OpToRel
<1>2. PICK m \in D : \A y \in D : ~ (<<y, m>> \in R)
  <2> HIDE DEF R
  <2> QED
    BY <1>1, WFMin
<1>3. ASSUME NEW y \in D PROVE m <= y
  <2>1. y \in Nat /\ m \in Nat
    OBVIOUS
  <2>2. y < m => <<y, m>> \in R
    BY <2>1
  <2> HIDE DEF R
  <2> QED
    BY <1>2, <2>1, <2>2
<1> QED
  BY <1>3 DEF Min

\* listeners.remove(self)
LEMMA RemovedFirst ==
    ASSUME NEW S, NEW s \in Seq(S), NEW e
    PROVE  RemoveFirst(s, e) \in Seq(S)
<1>1. CASE ~ \E i \in 1..Len(s) : s[i] = e
  BY <1>1 DEF RemoveFirst
<1>2. CASE \E i \in 1..Len(s) : s[i] = e
  <2> DEFINE at == {i \in 1..Len(s) : s[i] = e}
             k == Min(at)
             a == SubSeq(s, 1, k - 1)
             b == SubSeq(s, k + 1, Len(s))
  <2>1. Len(s) \in Nat /\ at \in SUBSET Nat /\ at # {}
    BY <1>2, LenProperties
  <2>2. SelectInSeq(s, LAMBDA v : v = e) = k
    BY <2>1 DEF SelectInSeq
  <2>3. k \in at
    <3> HIDE DEF at
    <3> QED
      BY <2>1, LeastIndex
  <2>4. RemoveFirst(s, e) = a \o b
    BY <1>2, <2>2 DEF RemoveFirst, RemoveAt
  <2>5. k \in 1..Len(s)
    BY <2>3
  <2> HIDE DEF k
  <2>6. a \in Seq(S)
    <3>1. \A i \in 1..(k - 1) : s[i] \in S
      BY <2>1, <2>5, ElementOfSeq
    <3> QED
      BY <2>5, <3>1, SubSeqProperties
  <2>7. b \in Seq(S)
    <3>1. \A i \in (k + 1)..Len(s) : s[i] \in S
      BY <2>1, <2>5, ElementOfSeq
    <3> QED
      BY <2>1, <2>5, <3>1, SubSeqProperties
  <2> HIDE DEF a, b
  <2> QED
    BY <2>4, <2>6, <2>7, ConcatProperties
<1> QED
  BY <1>1, <1>2

LEMMA GreatestId ==
    ASSUME NEW n \in Nat, NEW D \in SUBSET (1..n), D # {}
    PROVE  Max(D) \in D
<1> DEFINE R == {ss \in Nat \X Nat : ss[1] < ss[2]}
           T == {n - x : x \in D}
<1>1. IsWellFoundedOn(R, Nat)
  BY NatLessThanWellFounded DEF OpToRel
<1>2. T \subseteq Nat /\ T # {}
  <2>1. \A x \in D : x \in Nat /\ n - x \in Nat
    OBVIOUS
  <2>2. PICK x \in D : TRUE
    OBVIOUS
  <2> QED
    BY <2>1, <2>2
<1>3. PICK m \in T : \A y \in T : ~ (<<y, m>> \in R)
  <2> HIDE DEF R, T
  <2> QED
    BY <1>1, <1>2, WFMin
<1>4. PICK g \in D : m = n - g
  BY <1>3
<1>5. \A y \in D : g >= y
  <2> SUFFICES ASSUME NEW y \in D, ~ (g >= y) PROVE FALSE
    OBVIOUS
  <2>1. n - y \in T /\ n - y \in Nat /\ m \in Nat /\ n - y < m
    BY <1>4
  <2> QED
    BY <1>3, <2>1
<1> QED
  BY <1>5 DEF Max

-----------------------------------------------------------------------------
(***************************************************************************)
(* Whatever is known of an id stays true when the table changes.           *)
(***************************************************************************)
\* Rows keep their key, and new rows get new ids.
TableStep ==
    /\ key_binds'.seq \in Nat /\ key_binds.seq <= key_binds'.seq
    /\ \A i \in DOMAIN key_binds'.rows :
          \/ i > key_binds.seq
          \/ /\ i \in DOMAIN key_binds.rows
             /\ key_binds'.rows[i].key_code = key_binds.rows[i].key_code

LEMMA KnownStays ==
    ASSUME TablesOK, TableStep
    PROVE  /\ \A i, k : Known(i, k) => Known(i, k)'
           /\ \A id, k : NamesKey(id, k) => NamesKey(id, k)'
           /\ GoodItem \subseteq GoodItem'
           /\ GoodPage \subseteq GoodPage'
           /\ Frame \subseteq Frame'
<1>1. ASSUME NEW i, NEW k, Known(i, k) PROVE Known(i, k)'
  BY <1>1 DEF TablesOK, TableStep, Known
<1>2. ASSUME NEW id, NEW k, NamesKey(id, k) PROVE NamesKey(id, k)'
  BY <1>1, <1>2 DEF NamesKey
<1>3. GoodItem \subseteq GoodItem'
  BY <1>2 DEF GoodItem
<1>4. ASSUME NEW pg \in GoodPage PROVE pg \in GoodPage'
  <2>1. pg \in AnyPage /\ \A a \in Activities : DictOK(pg.key_maps[a])
    BY DEF GoodPage
  <2>2. pg.list \in Seq(GoodItem')
    <3>1. pg.list \in Seq(GoodItem)
      BY <2>1 DEF AnyPage
    <3> QED
      BY <1>3, <3>1, SeqMonotonic
  <2>3. pg \in AnyPage'
    BY <2>1, <2>2 DEF AnyPage
  <2>4. \A a \in Activities : DictOK(pg.key_maps[a])'
    BY <1>2, <2>1 DEF DictOK
  <2> QED
    BY <2>3, <2>4 DEF GoodPage
<1>5. Frame \subseteq Frame'
  BY <1>1 DEF Frame, SavedFrame
<1> QED
  BY <1>1, <1>2, <1>3, <1>4, <1>5

-----------------------------------------------------------------------------
(***************************************************************************)
(* Pages: one lemma for each change.                                       *)
(***************************************************************************)
LEMMA PageParts ==
    ASSUME NEW pg \in GoodPage
    PROVE  /\ pg \in AnyPage
           /\ pg.activity \in Activities \cup {"none"}
           /\ pg.key_maps \in [Activities -> Dict]
           /\ \A a \in Activities : DictOK(pg.key_maps[a])
           /\ pg.list \in Seq(GoodItem)
           /\ \A n \in DOMAIN pg.list : pg.list[n] \in GoodItem
           /\ pg.buttons \subseteq Buttons
           /\ pg.temp_id \in Nat
<1>1. pg \in AnyPage /\ \A a \in Activities : DictOK(pg.key_maps[a])
  BY DEF GoodPage
<1>2. pg.list \in Seq(GoodItem)
  BY <1>1 DEF AnyPage
<1>3. \A n \in DOMAIN pg.list : pg.list[n] \in GoodItem
  BY <1>2, ElementOfSeq, LenProperties
<1> QED
  BY <1>1, <1>2, <1>3 DEF AnyPage

\* The dict of an activity has its entries for keys, with ids of theirs.
LEMMA DictParts ==
    ASSUME NEW pg \in GoodPage, NEW a \in Activities
    PROVE  /\ DOMAIN pg.key_maps[a] \subseteq KeyCodes
           /\ \A k \in DOMAIN pg.key_maps[a] :
                 /\ pg.key_maps[a][k] \in Entry
                 /\ NamesKey(pg.key_maps[a][k].id, k)
           /\ pg.key_maps[a] \in Dict
<1>1. pg.key_maps[a] \in Dict /\ DictOK(pg.key_maps[a])
  BY PageParts
<1> QED
  BY <1>1 DEF Dict, DictOK

LEMMA IntoDict ==
    ASSUME NEW maps, NEW keys \in SUBSET KeyCodes, maps = [k \in keys |-> maps[k]],
           \A k \in keys : maps[k] \in Entry /\ NamesKey(maps[k].id, k)
    PROVE  maps \in Dict /\ DictOK(maps)
<1>1. maps \in [keys -> Entry] /\ DOMAIN maps = keys
  OBVIOUS
<1> QED
  BY <1>1 DEF Dict, DictOK

LEMMA WithList ==
    ASSUME NEW pg \in GoodPage, NEW list \in Seq(GoodItem)
    PROVE  [pg EXCEPT !.list = list] \in GoodPage
BY DEF GoodPage, AnyPage

LEMMA WithDicts ==
    ASSUME NEW pg \in GoodPage, NEW maps \in [Activities -> Dict],
           \A a \in Activities : DictOK(maps[a])
    PROVE  [pg EXCEPT !.key_maps = maps] \in GoodPage
BY DEF GoodPage, AnyPage

LEMMA WithDict ==
    ASSUME NEW pg \in GoodPage, NEW a, NEW maps \in Dict, DictOK(maps)
    PROVE  [pg EXCEPT !.key_maps[a] = maps] \in GoodPage
<1> DEFINE new == [pg.key_maps EXCEPT ![a] = maps]
<1>1. pg.key_maps \in [Activities -> Dict] /\ \A c \in Activities : DictOK(pg.key_maps[c])
  BY PageParts
<1>2. new \in [Activities -> Dict] /\ \A c \in Activities : DictOK(new[c])
  BY <1>1
<1>3. [pg EXCEPT !.key_maps = new] \in GoodPage
  <2> HIDE DEF new
  <2> QED
    BY <1>2, WithDicts
<1> QED
  BY <1>3

\* save_key_map_callback gives the id to the items of its own key.
LEMMA SavedPage ==
    ASSUME NEW pg \in GoodPage, TablesOK, NEW i, NEW k \in KeyCodes, Known(i, k)
    PROVE  /\ save_key_map_callback(pg, i, k) \in GoodPage
           /\ save_key_map_callback(pg, i, k).activity = pg.activity
<1> DEFINE list == [n \in DOMAIN pg.list |->
                       IF pg.list[n].key_code = k THEN [pg.list[n] EXCEPT !.id = Row(i)]
                                                  ELSE pg.list[n]]
<1>1. Row(i) \in Ids /\ NamesKey(Row(i), k)
  BY DEF Row, Ids, NamesKey, Known, TablesOK
<1>2. ASSUME NEW n \in DOMAIN pg.list PROVE list[n] \in GoodItem
  <2>1. pg.list[n] \in GoodItem
    BY PageParts
  <2>2. CASE pg.list[n].key_code = k
    <3>1. [pg.list[n] EXCEPT !.id = Row(i)] \in GoodItem
      BY <1>1, <2>1, <2>2 DEF GoodItem, AnyItem
    <3> QED
      BY <2>2, <3>1
  <2> QED
    BY <2>1, <2>2
<1>3. list \in Seq(GoodItem)
  <2>1. pg.list \in Seq(GoodItem)
    BY PageParts
  <2>2. list = [n \in DOMAIN pg.list |-> list[n]]
    OBVIOUS
  <2> HIDE DEF list
  <2> QED
    BY <1>2, <2>1, <2>2, ItemByItem
<1>4. save_key_map_callback(pg, i, k) = [pg EXCEPT !.list = list]
  BY DEF save_key_map_callback
<1> HIDE DEF list
<1>5. [pg EXCEPT !.list = list].activity = pg.activity
  BY PageParts DEF AnyPage
<1> QED
  BY <1>3, <1>4, <1>5, WithList

\* Hiding items, by their id or by their button.
LEMMA HideItems ==
    ASSUME NEW list \in Seq(GoodItem), NEW new, new = [n \in DOMAIN list |-> new[n]],
           \A n \in DOMAIN list :
               new[n] = list[n] \/ new[n] = [list[n] EXCEPT !.hidden = TRUE]
    PROVE  new \in Seq(GoodItem)
<1>1. ASSUME NEW n \in DOMAIN list PROVE new[n] \in GoodItem
  <2>1. list[n] \in GoodItem
    BY ElementOfSeq, LenProperties
  <2>2. [list[n] EXCEPT !.hidden = TRUE] \in GoodItem
    BY <2>1 DEF GoodItem, AnyItem
  <2> QED
    BY <2>1, <2>2
<1> QED
  BY <1>1, ItemByItem

LEMMA HideOne ==
    ASSUME NEW list \in Seq(GoodItem), NEW id
    PROVE  hide(list, id) \in Seq(GoodItem)
<1> DEFINE new == hide(list, id)
<1>1. new = [n \in DOMAIN list |-> new[n]]
  BY DEF hide
<1>2. \A n \in DOMAIN list :
          new[n] = list[n] \/ new[n] = [list[n] EXCEPT !.hidden = TRUE]
  BY DEF hide
<1> HIDE DEF new
<1>3. new \in Seq(GoodItem)
  BY <1>1, <1>2, HideItems
<1> QED
  BY <1>3 DEF new

LEMMA FewerKeys ==
    ASSUME NEW maps \in Dict, DictOK(maps), NEW keys
    PROVE  Without(maps, keys) \in Dict /\ DictOK(Without(maps, keys))
<1>1. Without(maps, keys) = [k \in DOMAIN maps \ keys |-> maps[k]]
  <2>1. (DOMAIN maps) \cap (DOMAIN maps \ keys) = DOMAIN maps \ keys
    OBVIOUS
  <2> QED
    BY <2>1 DEF Without, Restrict
<1>2. /\ DOMAIN maps \subseteq KeyCodes
      /\ \A k \in DOMAIN maps : maps[k] \in Entry /\ NamesKey(maps[k].id, k)
  BY DEF Dict, DictOK
<1> DEFINE keysLeft == DOMAIN maps \ keys
           new == [k \in keysLeft |-> maps[k]]
<1>3. /\ keysLeft \in SUBSET KeyCodes /\ new = [k \in keysLeft |-> new[k]]
      /\ \A k \in keysLeft : new[k] \in Entry /\ NamesKey(new[k].id, k)
  BY <1>2
<1>4. new \in Dict /\ DictOK(new)
  <2> HIDE DEF keysLeft, new
  <2> QED
    BY <1>3, IntoDict
<1> QED
  BY <1>1, <1>4

LEMMA DeletedPage ==
    ASSUME NEW pg \in GoodPage, NEW frame,
           frame \in NoMapFrame \/ frame \in GoneFrame
    PROVE  /\ delete_key_map_callback(pg, frame) \in GoodPage
           /\ delete_key_map_callback(pg, frame).activity = pg.activity
<1>1. \A id : hide(pg.list, id) \in Seq(GoodItem)
  BY PageParts, HideOne
<1>2. CASE frame.type = "no_map"
  <2> DEFINE list == hide(pg.list, frame.id)
  <2>1. delete_key_map_callback(pg, frame) = [pg EXCEPT !.list = list]
    BY <1>2 DEF delete_key_map_callback
  <2> HIDE DEF list
  <2>2. list \in Seq(GoodItem)
    BY <1>1 DEF list
  <2>3. [pg EXCEPT !.list = list].activity = pg.activity
    BY PageParts DEF AnyPage
  <2> QED
    BY <2>1, <2>2, <2>3, WithList
<1>3. CASE frame.type # "no_map"
  <2>1. frame.activity_id \in Activities
    BY <1>3 DEF NoMapFrame, GoneFrame
  <2> DEFINE a == frame.activity_id
             maps == Without(pg.key_maps[a], {frame.key_code})
             half == [pg EXCEPT !.key_maps[a] = maps]
             list == hide(pg.list, Row(frame.id))
  <2>2. delete_key_map_callback(pg, frame) = [half EXCEPT !.list = list]
    <3>1. pg \in AnyPage
      BY PageParts
    <3> QED
      BY <1>3, <3>1 DEF delete_key_map_callback, AnyPage
  <2>3. maps \in Dict /\ DictOK(maps)
    BY <2>1, PageParts, FewerKeys
  <2>4. list \in Seq(GoodItem)
    BY <1>1
  <2> HIDE DEF maps, list
  <2>5. half \in GoodPage
    BY <2>3, WithDict
  <2>6. half.activity = pg.activity
    BY PageParts DEF AnyPage
  <2> HIDE DEF half
  <2>7. [half EXCEPT !.list = list].activity = half.activity
    BY <2>5, PageParts DEF AnyPage
  <2> QED
    BY <2>2, <2>4, <2>5, <2>6, <2>7, WithList
<1> QED
  BY <1>2, <1>3

LEMMA ButtonGonePage ==
    ASSUME NEW pg \in GoodPage, NEW b
    PROVE  /\ delete_remote_button_callback(pg, b) \in GoodPage
           /\ delete_remote_button_callback(pg, b).activity = pg.activity
<1> DEFINE dicts == [a \in Activities |->
                        Without(pg.key_maps[a],
                                {k \in DOMAIN pg.key_maps[a] : pg.key_maps[a][k].button_id = b})]
           list == [n \in DOMAIN pg.list |->
                       IF pg.list[n].button_id = b THEN [pg.list[n] EXCEPT !.hidden = TRUE]
                                                   ELSE pg.list[n]]
           left == pg.buttons \ {b}
<1>1. dicts \in [Activities -> Dict] /\ \A a \in Activities : DictOK(dicts[a])
  BY PageParts, FewerKeys
<1>2. list \in Seq(GoodItem)
  <2>1. pg.list \in Seq(GoodItem) /\ list = [n \in DOMAIN pg.list |-> list[n]]
    BY PageParts
  <2>2. \A n \in DOMAIN pg.list :
            list[n] = pg.list[n] \/ list[n] = [pg.list[n] EXCEPT !.hidden = TRUE]
    OBVIOUS
  <2> HIDE DEF list
  <2> QED
    BY <2>1, <2>2, HideItems
<1>3. delete_remote_button_callback(pg, b)
        = [pg EXCEPT !.key_maps = dicts, !.list = list, !.buttons = left]
  BY DEF delete_remote_button_callback
<1>4. pg \in AnyPage /\ left \subseteq Buttons
  BY PageParts
<1> HIDE DEF dicts, list, left
<1> QED
  BY <1>1, <1>2, <1>3, <1>4 DEF GoodPage, AnyPage

\* Whatever frame arrives.
LEMMA MessagePage ==
    ASSUME NEW pg \in GoodPage, TablesOK, NEW frame \in Frame
    PROVE  /\ ws_onmessage(pg, frame) \in GoodPage
           /\ ws_onmessage(pg, frame).activity = pg.activity
<1>1. CASE frame \in SavedFrame
  <2>1. frame.type = "saved" /\ frame.key_code \in KeyCodes /\ Known(frame.id, frame.key_code)
    BY <1>1 DEF SavedFrame
  <2>2. ws_onmessage(pg, frame) = save_key_map_callback(pg, frame.id, frame.key_code)
    BY <2>1 DEF ws_onmessage
  <2> QED
    BY <2>1, <2>2, SavedPage
<1>2. CASE frame \in GoneFrame \cup NoMapFrame
  <2>1. frame.type \in {"map_gone", "no_map"}
    BY <1>2 DEF GoneFrame, NoMapFrame
  <2>2. ws_onmessage(pg, frame) = delete_key_map_callback(pg, frame)
    BY <2>1 DEF ws_onmessage
  <2> QED
    BY <1>2, <2>2, DeletedPage
<1>3. CASE frame \in ButtonFrame
  <2>1. frame.type = "button_gone"
    BY <1>3 DEF ButtonFrame
  <2>2. ws_onmessage(pg, frame) = delete_remote_button_callback(pg, frame.id)
    BY <2>1 DEF ws_onmessage
  <2> QED
    BY <2>2, ButtonGonePage
<1> QED
  BY <1>1, <1>2, <1>3 DEF Frame

\* The list of an activity is built from its dict.
LEMMA ListedPage ==
    ASSUME NEW pg \in GoodPage, NEW a \in Activities, NEW shown \in Shown(pg, a)
    PROVE  /\ display_key_maps(pg, a, shown) \in GoodPage
           /\ display_key_maps(pg, a, shown).activity = a
<1> DEFINE maps == pg.key_maps[a]
<1>1. /\ DOMAIN maps \subseteq KeyCodes
      /\ \A k \in DOMAIN maps : maps[k] \in Entry /\ NamesKey(maps[k].id, k)
  BY DictParts
<1>2. PICK keys \in SUBSET Listable(pg, a) : shown = SetToSeq(keys)
  BY DEF Shown
<1>3. shown \in Seq(DOMAIN maps)
  <2>1. keys \subseteq DOMAIN maps
    BY DEF Listable
  <2>2. IsFiniteSet(keys)
    <3>1. keys \in SUBSET KeyCodes
      BY <1>1, <2>1
    <3> QED
      BY <3>1, FS_Subset, KeysAssumption
  <2>3. shown \in Seq(keys)
    BY <1>2, <2>2, SetAsSeq
  <2> QED
    BY <2>1, <2>3, SeqMonotonic
<1> DEFINE list == [n \in DOMAIN shown |->
                       Item(Listed(maps[shown[n]].id), shown[n], maps[shown[n]].button_id)]
<1>4. ASSUME NEW n \in DOMAIN shown PROVE list[n] \in GoodItem
  <2>1. shown[n] \in DOMAIN maps
    BY <1>3, ElementOfSeq, LenProperties
  <2> DEFINE entry == maps[shown[n]]
  <2>2. entry \in Entry /\ NamesKey(entry.id, shown[n]) /\ shown[n] \in KeyCodes
    BY <1>1, <2>1
  <2> HIDE DEF entry, maps
  <2>3. entry.id \in Ids /\ entry.button_id \in AnyButton
    BY <2>2 DEF Entry
  <2>4. Listed(entry.id) \in Ids /\ NamesKey(Listed(entry.id), shown[n])
    BY <2>2, <2>3 DEF Listed, Ids, NamesKey
  <2>5. Item(Listed(entry.id), shown[n], entry.button_id) \in GoodItem
    BY <2>2, <2>3, <2>4 DEF Item, GoodItem, AnyItem
  <2> QED
    BY <2>5 DEF entry
<1>5. list \in Seq(GoodItem)
  <2>1. list = [n \in DOMAIN shown |-> list[n]]
    OBVIOUS
  <2> HIDE DEF list, maps
  <2> QED
    BY <1>3, <1>4, <2>1, ItemByItem
<1>6. display_key_maps(pg, a, shown) = [pg EXCEPT !.activity = a, !.list = list]
  BY DEF display_key_maps
<1>7. pg \in AnyPage /\ \A c \in Activities : DictOK(pg.key_maps[c])
  BY PageParts
<1> HIDE DEF list, maps
<1> QED
  BY <1>5, <1>6, <1>7 DEF GoodPage, AnyPage

LEMMA WithTemp ==
    ASSUME NEW pg \in GoodPage, NEW n \in Nat
    PROVE  [pg EXCEPT !.temp_id = n] \in GoodPage
BY DEF GoodPage, AnyPage

\* add_key_map: an item and an entry under the next temporary name.
Added(pg, k) ==
    [pg EXCEPT !.list = Append(@, Item(Temp(pg.temp_id), k, Null)),
               !.key_maps[pg.activity] =
                   [j \in DOMAIN @ \cup {k} |->
                       IF j = k THEN [id |-> Temp(pg.temp_id), button_id |-> Null] ELSE @[j]],
               !.temp_id = @ + 1]

LEMMA AddedPage ==
    ASSUME NEW pg \in GoodPage, NEW k \in KeyCodes, pg.activity \in Activities
    PROVE  Added(pg, k) \in GoodPage /\ Added(pg, k).activity = pg.activity
<1> DEFINE a == pg.activity
           id == Temp(pg.temp_id)
           item == Item(id, k, Null)
           list == Append(pg.list, item)
           keys == DOMAIN pg.key_maps[a] \cup {k}
           maps == [j \in keys |-> IF j = k THEN [id |-> id, button_id |-> Null]
                                           ELSE pg.key_maps[a][j]]
           dicts == [pg.key_maps EXCEPT ![a] = maps]
<1>1. id \in Ids /\ NamesKey(id, k) /\ Null \in AnyButton
  BY PageParts DEF Temp, Ids, NamesKey, AnyButton
<1>2. list \in Seq(GoodItem)
  <2>1. item \in GoodItem
    BY <1>1 DEF Item, GoodItem, AnyItem
  <2> HIDE DEF item
  <2> QED
    BY <2>1, PageParts, AppendProperties
<1>3. maps \in Dict /\ DictOK(maps)
  <2>1. keys \in SUBSET KeyCodes /\ maps = [j \in keys |-> maps[j]]
    BY DictParts
  <2>2. ASSUME NEW j \in keys PROVE maps[j] \in Entry /\ NamesKey(maps[j].id, j)
    <3>1. CASE j = k
      <4>1. [id |-> id, button_id |-> Null] \in Entry
        BY <1>1 DEF Entry
      <4> QED
        BY <1>1, <3>1, <4>1
    <3>2. CASE j # k
      BY <3>2, DictParts
    <3> QED
      BY <3>1, <3>2
  <2> HIDE DEF keys, maps
  <2> QED
    BY <2>1, <2>2, IntoDict
<1>4. dicts \in [Activities -> Dict] /\ \A c \in Activities : DictOK(dicts[c])
  <2> HIDE DEF maps
  <2> QED
    BY <1>3, PageParts
<1> DEFINE one == [pg EXCEPT !.list = list]
           two == [one EXCEPT !.key_maps = dicts]
<1>5. Added(pg, k) = [two EXCEPT !.temp_id = pg.temp_id + 1]
  <2>1. pg \in AnyPage
    BY PageParts
  <2> QED
    BY <2>1 DEF Added, AnyPage
<1>6. pg.temp_id + 1 \in Nat
  BY PageParts
<1> HIDE DEF list, dicts
<1>7. one \in GoodPage
  BY <1>2, WithList
<1>8. one.activity = pg.activity
  BY PageParts DEF AnyPage
<1> HIDE DEF one
<1>9. two \in GoodPage
  BY <1>4, <1>7, WithDicts
<1>10. two.activity = one.activity
  BY <1>7, PageParts DEF AnyPage
<1> HIDE DEF two
<1>11. [two EXCEPT !.temp_id = pg.temp_id + 1] \in GoodPage
  BY <1>6, <1>9, WithTemp
<1>12. [two EXCEPT !.temp_id = pg.temp_id + 1].activity = two.activity
  BY <1>9, PageParts DEF AnyPage
<1> QED
  BY ONLY <1>5, <1>8, <1>10, <1>11, <1>12

\* map_key: the item shows the button, and the dict has it if it has the key.
LEMMA BoundItem ==
    ASSUME NEW pg \in GoodPage, NEW n \in DOMAIN pg.list, NEW b \in Buttons
    PROVE  /\ [pg EXCEPT !.list[n].button_id = b] \in GoodPage
           /\ [pg EXCEPT !.list[n].button_id = b].activity = pg.activity
<1> DEFINE item == [pg.list[n] EXCEPT !.button_id = b]
           list == [pg.list EXCEPT ![n] = item]
<1>1. item \in GoodItem
  <2>1. pg.list[n] \in GoodItem
    BY PageParts
  <2> QED
    BY <2>1 DEF GoodItem, AnyItem, AnyButton
<1>2. list \in Seq(GoodItem)
  <2>1. pg.list \in Seq(GoodItem)
    BY PageParts
  <2>2. n \in 1..Len(pg.list)
    BY <2>1, LenProperties
  <2> HIDE DEF item
  <2> QED
    BY <1>1, <2>1, <2>2, ExceptSeq
<1>3. [pg EXCEPT !.list[n].button_id = b] = [pg EXCEPT !.list = list]
  OBVIOUS
<1> HIDE DEF list
<1>4. [pg EXCEPT !.list = list].activity = pg.activity
  BY PageParts DEF AnyPage
<1> QED
  BY <1>2, <1>3, <1>4, WithList

LEMMA BoundKey ==
    ASSUME NEW pg \in GoodPage, NEW a \in Activities, NEW k \in DOMAIN pg.key_maps[a],
           NEW b \in Buttons
    PROVE  /\ [pg EXCEPT !.key_maps[a][k].button_id = b] \in GoodPage
           /\ [pg EXCEPT !.key_maps[a][k].button_id = b].activity = pg.activity
<1> DEFINE keys == DOMAIN pg.key_maps[a]
           maps == [pg.key_maps[a] EXCEPT ![k] = [@ EXCEPT !.button_id = b]]
<1>1. maps \in Dict /\ DictOK(maps)
  <2>1. pg.key_maps[a] \in Dict
    BY DictParts
  <2>2. keys \in SUBSET KeyCodes /\ maps = [j \in keys |-> maps[j]]
    BY DictParts, <2>1 DEF Dict
  <2>3. ASSUME NEW j \in keys PROVE maps[j] \in Entry /\ NamesKey(maps[j].id, j)
    <3>1. pg.key_maps[a][j] \in Entry /\ NamesKey(pg.key_maps[a][j].id, j)
      BY DictParts
    <3>2. [pg.key_maps[a][j] EXCEPT !.button_id = b] \in Entry
          /\ [pg.key_maps[a][j] EXCEPT !.button_id = b].id = pg.key_maps[a][j].id
      BY <3>1 DEF Entry, AnyButton
    <3>3. maps[j] = IF j = k THEN [pg.key_maps[a][j] EXCEPT !.button_id = b] ELSE pg.key_maps[a][j]
      OBVIOUS
    <3> HIDE DEF maps
    <3> QED
      BY <3>1, <3>2, <3>3
  <2> HIDE DEF keys, maps
  <2> QED
    BY <2>2, <2>3, IntoDict
<1>2. [pg EXCEPT !.key_maps[a][k].button_id = b] = [pg EXCEPT !.key_maps[a] = maps]
  OBVIOUS
<1> HIDE DEF maps
<1>3. [pg EXCEPT !.key_maps[a] = maps].activity = pg.activity
  BY PageParts DEF AnyPage
<1> QED
  BY <1>1, <1>2, <1>3, WithDict

-----------------------------------------------------------------------------
(***************************************************************************)
(* The table: one lemma for each handler.                                  *)
(***************************************************************************)
LEMMA SavedRow ==
    ASSUME TablesOK, NEW m \in SaveRequest, key_binds' = save_key_map(m), UNCHANGED buttons
    PROVE  TablesOK' /\ TableStep /\ DOMAIN key_binds'.rows # {}
<1> DEFINE found == RowOf(m.activity_id, m.key_code)
           row == RowFor(m)
<1>1. /\ row \in MapRow
      /\ row.activity_id = m.activity_id /\ row.key_code = m.key_code
  BY DEF SaveRequest, RowFor, MapRow
<1>2. /\ found \subseteq DOMAIN key_binds.rows
      /\ \A i \in DOMAIN key_binds.rows :
            i \in found <=> /\ key_binds.rows[i].activity_id = row.activity_id
                           /\ key_binds.rows[i].key_code = row.key_code
  BY <1>1 DEF RowOf, RowsOf
<1> HIDE DEF row
<1>3. CASE found # {}
  <2>1. key_binds' = Assign(key_binds, found, row)
    BY <1>3 DEF save_key_map, row
  <2> HIDE DEF found
  <2>2. /\ key_binds'.seq = key_binds.seq
        /\ DOMAIN key_binds'.rows = DOMAIN key_binds.rows
        /\ \A i \in DOMAIN key_binds.rows :
              key_binds'.rows[i] = IF i \in found THEN row ELSE key_binds.rows[i]
    BY <2>1 DEF Assign
  <2>3. \A i \in DOMAIN key_binds.rows :
            /\ key_binds'.rows[i] \in MapRow
            /\ key_binds'.rows[i].activity_id = key_binds.rows[i].activity_id
            /\ key_binds'.rows[i].key_code = key_binds.rows[i].key_code
    BY <1>1, <1>2, <2>2 DEF TablesOK
  <2>4. TablesOK'
    BY <2>2, <2>3 DEF TablesOK, OneEach
  <2>5. TableStep
    BY <2>2, <2>3 DEF TablesOK, TableStep
  <2> QED
    BY <1>2, <1>3, <2>2, <2>4, <2>5
<1>4. CASE found = {}
  <2> DEFINE new == key_binds.seq + 1
  <2>1. key_binds' = Insert(key_binds, row)
    BY <1>4 DEF save_key_map, row
  <2>2. /\ key_binds'.seq = new /\ new \in Nat /\ new > key_binds.seq
        /\ DOMAIN key_binds'.rows = DOMAIN key_binds.rows \cup {new}
        /\ \A i \in DOMAIN key_binds.rows : key_binds'.rows[i] = key_binds.rows[i]
        /\ key_binds'.rows[new] = row
    <3>1. new \in Nat /\ (key_binds.seq + 1)..(key_binds.seq + Len(<<row>>)) = {new}
      BY DEF TablesOK
    <3>2. new \notin DOMAIN key_binds.rows /\ new - key_binds.seq = 1 /\ <<row>>[1] = row
      BY DEF TablesOK
    <3>3. key_binds.seq + Len(<<row>>) = new
      BY DEF TablesOK
    <3> QED
      BY <2>1, <3>1, <3>2, <3>3 DEF Insert, InsertAll, TablesOK
  <2> HIDE DEF new
  <2>3. TablesOK'
    <3>1. OneEach(key_binds.rows) /\ DOMAIN key_binds.rows \subseteq 1..key_binds.seq
      BY DEF TablesOK
    <3>2. OneEach(key_binds'.rows)
      BY <1>2, <1>4, <2>2, <3>1 DEF OneEach
    <3>3. DOMAIN key_binds'.rows \subseteq 1..key_binds'.seq
      BY <2>2 DEF TablesOK, new
    <3>4. \A i \in DOMAIN key_binds'.rows : key_binds'.rows[i] \in MapRow
      BY <1>1, <2>2 DEF TablesOK
    <3> QED
      BY <2>2, <3>2, <3>3, <3>4 DEF TablesOK
  <2>4. TableStep
    BY <2>2 DEF TablesOK, TableStep
  <2> QED
    BY <2>2, <2>3, <2>4
<1> QED
  BY <1>3, <1>4

LEMMA DeletedRows ==
    ASSUME TablesOK, NEW ids, key_binds' = Delete(key_binds, ids),
           buttons' \subseteq buttons
    PROVE  TablesOK' /\ TableStep
<1>1. /\ key_binds'.seq = key_binds.seq
      /\ key_binds'.rows = Restrict(key_binds.rows, DOMAIN key_binds.rows \ ids)
  BY DEF Delete
<1>2. /\ DOMAIN key_binds'.rows \subseteq DOMAIN key_binds.rows
      /\ \A i \in DOMAIN key_binds'.rows : key_binds'.rows[i] = key_binds.rows[i]
  BY <1>1 DEF Restrict
<1>3. OneEach(key_binds.rows)
  BY DEF TablesOK
<1>4. OneEach(key_binds'.rows)
  BY <1>2, <1>3 DEF OneEach
<1>5. \A i \in DOMAIN key_binds'.rows : key_binds'.rows[i] \in MapRow
  BY <1>2 DEF TablesOK
<1>6. TablesOK'
  BY <1>1, <1>2, <1>4, <1>5 DEF TablesOK
<1>7. TableStep
  BY <1>1, <1>2 DEF TablesOK, TableStep
<1> QED
  BY <1>6, <1>7

LEMMA SameTables ==
    ASSUME TablesOK, UNCHANGED tables
    PROVE  TablesOK' /\ TableStep
BY DEF TablesOK, TableStep, OneEach, tables

-----------------------------------------------------------------------------
(***************************************************************************)
(* The streams: one lemma for each way they change.                        *)
(***************************************************************************)
LEMMA FramesStay ==
    ASSUME StreamsOK, TablesOK, TableStep, NEW c \in Conns
    PROVE  inbox[c] \in Seq(Frame')
<1>1. inbox[c] \in Seq(Frame) /\ Frame \subseteq Frame'
  BY KnownStays DEF StreamsOK
<1> QED
  BY <1>1, SeqMonotonic

LEMMA FirstRequest ==
    ASSUME StreamsOK, NEW c \in Conns, HasMessage(c)
    PROVE  Head(outbox[c]) \in Request /\ Tail(outbox[c]) \in Seq(Request)
BY HeadTailProperties DEF StreamsOK, HasMessage

LEMMA SameStreams ==
    ASSUME StreamsOK, TablesOK, TableStep, UNCHANGED hubVars
    PROVE  StreamsOK'
BY FramesStay DEF StreamsOK, hubVars

LEMMA OpenedStreams ==
    ASSUME StreamsOK, TablesOK, TableStep, NEW c \in Conns, Open(c)
    PROVE  StreamsOK'
<1>1. listeners' \in Seq(Conns)
  BY AppendProperties DEF StreamsOK, Open
<1> QED
  BY <1>1, FramesStay DEF StreamsOK, Open

LEMMA SentStreams ==
    ASSUME StreamsOK, TablesOK, TableStep, NEW c \in Conns,
           NEW messages \in Seq(Request), Send(c, messages)
    PROVE  StreamsOK'
<1>1. outbox[c] \o messages \in Seq(Request)
  BY ConcatProperties DEF StreamsOK
<1> QED
  BY <1>1, FramesStay DEF StreamsOK, Send

LEMMA AnsweredStreams ==
    ASSUME StreamsOK, TablesOK, TableStep, NEW c \in Conns, NEW reply \in Frame',
           OnMessage(c, reply)
    PROVE  StreamsOK'
<1>1. HasMessage(c) /\ outbox' = [outbox EXCEPT ![c] = Tail(@)]
      /\ UNCHANGED link /\ UNCHANGED listeners
  BY DEF OnMessage
<1>2. ASSUME NEW d \in Conns PROVE inbox'[d] \in Seq(Frame')
  <2> DEFINE copies == [n \in 1..Turns(d) |-> reply]
  <2>1. inbox'[d] = IF link[d] = "open" THEN inbox[d] \o copies ELSE inbox[d]
    BY DEF OnMessage, Broadcast
  <2>2. Turns(d) \in Nat
    <3> DEFINE at == {n \in DOMAIN listeners : listeners[n] = d}
    <3>1. DOMAIN listeners = 1..Len(listeners) /\ Len(listeners) \in Nat
      BY LenProperties DEF StreamsOK
    <3>2. IsFiniteSet(1..Len(listeners))
      BY <3>1, FS_Interval
    <3>3. at \in SUBSET (1..Len(listeners))
      BY <3>1
    <3>4. IsFiniteSet(at)
      BY <3>2, <3>3, FS_Subset
    <3> QED
      BY <3>4, FS_CardinalityType DEF Turns
  <2>3. copies \in Seq(Frame')
    <3>1. copies \in [1..Turns(d) -> Frame']
      OBVIOUS
    <3> HIDE DEF copies
    <3> QED
      BY <2>2, <3>1, SeqDef
  <2>4. inbox[d] \in Seq(Frame')
    BY FramesStay
  <2> HIDE DEF copies
  <2> QED
    BY <2>1, <2>3, <2>4, ConcatProperties
<1>3. inbox' \in [Conns -> Seq(Frame')]
  <2>1. inbox' = [d \in Conns |-> inbox'[d]]
    BY DEF OnMessage, Broadcast
  <2> QED
    BY <1>2, <2>1
<1>4. outbox' \in [Conns -> Seq(Request)]
  BY <1>1, FirstRequest DEF StreamsOK
<1> QED
  BY <1>1, <1>3, <1>4 DEF StreamsOK

LEMMA DroppedStreams ==
    ASSUME StreamsOK, TablesOK, TableStep, NEW c \in Conns, OnMessageDropped(c)
    PROVE  StreamsOK'
<1>1. Tail(outbox[c]) \in Seq(Request)
  BY FirstRequest DEF OnMessageDropped
<1> QED
  BY <1>1, FramesStay DEF StreamsOK, OnMessageDropped

LEMMA DeliveredStreams ==
    ASSUME StreamsOK, TablesOK, TableStep, NEW c \in Conns, Deliver(c)
    PROVE  StreamsOK'
<1>1. inbox[c] \in Seq(Frame') /\ inbox[c] # <<>>
  BY FramesStay DEF Deliver
<1>2. Tail(inbox[c]) \in Seq(Frame')
  BY <1>1, HeadTailProperties
<1> QED
  BY <1>2, FramesStay DEF StreamsOK, Deliver

LEMMA LostStreams ==
    ASSUME StreamsOK, TablesOK, TableStep, NEW c \in Conns, Lose(c)
    PROVE  StreamsOK'
<1>1. PICK n \in 0..Len(outbox[c]) : outbox' = [outbox EXCEPT ![c] = SubSeq(@, 1, n)]
  BY DEF Lose
<1>2. SubSeq(outbox[c], 1, n) \in Seq(Request)
  <2>1. outbox[c] \in Seq(Request) /\ Len(outbox[c]) \in Nat
    BY LenProperties DEF StreamsOK
  <2>2. \A i \in 1..n : outbox[c][i] \in Request
    BY <2>1, ElementOfSeq
  <2> QED
    BY <2>1, <2>2, SubSeqProperties
<1>3. <<>> \in Seq(Frame')
  BY EmptySeq
<1> QED
  BY <1>1, <1>2, <1>3, FramesStay DEF StreamsOK, Lose

LEMMA ClosedStreams ==
    ASSUME StreamsOK, TablesOK, TableStep, NEW c \in Conns, OnClose(c)
    PROVE  StreamsOK'
<1>1. listeners' \in Seq(Conns)
  BY RemovedFirst DEF StreamsOK, OnClose
<1> QED
  BY <1>1, FramesStay DEF StreamsOK, OnClose

-----------------------------------------------------------------------------
(***************************************************************************)
(* Pages in a step.                                                        *)
(***************************************************************************)
LEMMA SamePages ==
    ASSUME PagesOK, TablesOK, TableStep, UNCHANGED page, UNCHANGED link
    PROVE  PagesOK'
<1>1. page' \in [Conns -> GoodPage']
  BY KnownStays DEF PagesOK
<1> QED
  BY <1>1 DEF PagesOK, Shows

LEMMA OnePage ==
    ASSUME PagesOK, TablesOK, TableStep, NEW p \in Conns, NEW new \in GoodPage,
           page' = [page EXCEPT ![p] = new], new.activity \in Activities, UNCHANGED link
    PROVE  PagesOK'
<1>1. page' \in [Conns -> GoodPage']
  BY KnownStays DEF PagesOK
<1>2. \A q \in Conns : Shows(q)'
  BY DEF PagesOK, Shows
<1> QED
  BY <1>1, <1>2 DEF PagesOK

\* A connection that opens has a page, and one that goes leaves its page as it is.
LEMMA OtherLink ==
    ASSUME PagesOK, TablesOK, TableStep, UNCHANGED page, NEW p \in Conns,
           page[p] # NoPage \/ link[p] # "closed",
           NEW state, link' = [link EXCEPT ![p] = state]
    PROVE  PagesOK'
<1>1. page' \in [Conns -> GoodPage']
  BY KnownStays DEF PagesOK
<1>2. ASSUME NEW q \in Conns PROVE Shows(q)'
  <2>1. q # p => link'[q] = link[q]
    OBVIOUS
  <2>2. page[p].activity \in Activities
    BY DEF PagesOK, Shows
  <2> QED
    BY <2>1, <2>2 DEF PagesOK, Shows
<1> QED
  BY <1>1, <1>2 DEF PagesOK

LEMMA OpenPage ==
    ASSUME PagesOK, NEW p \in Conns, link[p] # "closed"
    PROVE  page[p] \in GoodPage /\ page[p].activity \in Activities
BY DEF PagesOK, Shows

-----------------------------------------------------------------------------
(***************************************************************************)
(* Every step keeps the invariant.                                         *)
(***************************************************************************)
LEMMA InitIInv == Init => IInv
<1> SUFFICES ASSUME Init PROVE IInv
  OBVIOUS
<1>1. TablesOK
  <2>1. /\ key_binds.seq = Len(InstalledMaps) /\ key_binds.rows = InstalledMaps
        /\ buttons = Buttons
    BY DEF Init
  <2>2. /\ Len(InstalledMaps) \in Nat /\ DOMAIN InstalledMaps = 1..Len(InstalledMaps)
        /\ \A i \in DOMAIN InstalledMaps : InstalledMaps[i] \in MapRow
    <3>1. InstalledMaps \in Seq(MapRow)
      BY InstalledAssumption DEF MapRow
    <3>2. Len(InstalledMaps) \in Nat /\ DOMAIN InstalledMaps = 1..Len(InstalledMaps)
      BY <3>1, LenProperties
    <3> QED
      BY <3>1, <3>2, ElementOfSeq
  <2> QED
    BY <2>1, <2>2, InstalledAssumption DEF TablesOK, OneEach
<1>2. NoPage \in GoodPage
  <2>1. <<>> \in Seq(GoodItem)
    BY EmptySeq
  <2>2. <<>> \in Dict /\ DictOK(<<>>)
    BY DEF Dict, DictOK
  <2> QED
    BY <2>1, <2>2 DEF NoPage, GoodPage, AnyPage
<1>3. PagesOK
  BY <1>2 DEF Init, HubInit, PagesOK, Shows
<1>4. StreamsOK
  BY EmptySeq DEF Init, HubInit, StreamsOK
<1>5. edits \in 0..MaxEdits
  BY InstalledAssumption DEF Init
<1> QED
  BY <1>1, <1>3, <1>4, <1>5 DEF IInv

\* The page that a view makes of the tables.
FreshEntry(c, k) ==
    LET i == CHOOSE i \in RowOf(c, k) : TRUE
    IN  [id |-> Row(i), button_id |-> key_binds.rows[i].button_id]

FreshKeys(c) == {key_binds.rows[i].key_code : i \in RowsOf(c)}

FreshDict(c) == [k \in FreshKeys(c) |-> FreshEntry(c, k)]

Fresh ==
    [NoPage EXCEPT !.key_maps = [c \in Activities |-> FreshDict(c)],
                   !.buttons = buttons, !.loaded = buttons]

LEMMA FreshPage ==
    ASSUME IInv
    PROVE  /\ Fresh \in GoodPage
           /\ Fresh.loaded = buttons
           /\ \A c \in Activities : \A k \in DOMAIN Fresh.key_maps[c] :
                 \E i \in RowOf(c, k) :
                     Fresh.key_maps[c][k].button_id = key_binds.rows[i].button_id
<1>1. ASSUME NEW c \in Activities, NEW k \in FreshKeys(c)
      PROVE  /\ k \in KeyCodes /\ FreshEntry(c, k) \in Entry /\ NamesKey(FreshEntry(c, k).id, k)
             /\ \E i \in RowOf(c, k) :
                    FreshEntry(c, k).button_id = key_binds.rows[i].button_id
  <2>1. PICK j \in RowsOf(c) : key_binds.rows[j].key_code = k
    BY DEF FreshKeys
  <2>2. j \in RowOf(c, k)
    BY <2>1 DEF RowOf
  <2> DEFINE i == CHOOSE i \in RowOf(c, k) : TRUE
  <2>3. i \in RowOf(c, k)
    BY <2>2
  <2>4. i \in DOMAIN key_binds.rows /\ key_binds.rows[i].key_code = k
    BY <2>3 DEF RowOf, RowsOf
  <2>5. FreshEntry(c, k) = [id |-> Row(i), button_id |-> key_binds.rows[i].button_id]
    BY DEF FreshEntry
  <2> HIDE DEF i
  <2>6. key_binds.rows[i] \in MapRow /\ i \in 1..key_binds.seq /\ key_binds.seq \in Nat
    BY <2>4 DEF IInv, TablesOK
  <2>7. Row(i) \in Ids /\ NamesKey(Row(i), k)
    BY <2>4, <2>6 DEF Row, Ids, NamesKey, Known
  <2>8. key_binds.rows[i].button_id \in AnyButton /\ k \in KeyCodes
    BY <2>4, <2>6 DEF MapRow, AnyButton
  <2> QED
    BY <2>3, <2>5, <2>7, <2>8 DEF Entry
<1>2. ASSUME NEW c \in Activities PROVE FreshDict(c) \in Dict /\ DictOK(FreshDict(c))
  <2> DEFINE K == FreshKeys(c)
             m == FreshDict(c)
  <2>1. K \in SUBSET KeyCodes /\ m = [k \in K |-> m[k]]
    BY <1>1 DEF FreshDict
  <2>2. \A k \in K : m[k] \in Entry /\ NamesKey(m[k].id, k)
    BY <1>1 DEF FreshDict
  <2>3. m \in Dict /\ DictOK(m)
    <3> HIDE DEF K, m
    <3> QED
      BY <2>1, <2>2, IntoDict
  <2> QED
    BY <2>3
<1> DEFINE dicts == [c \in Activities |-> FreshDict(c)]
<1>3. dicts \in [Activities -> Dict] /\ \A c \in Activities : DictOK(dicts[c])
  BY <1>2
<1>4. <<>> \in Seq(GoodItem) /\ buttons \subseteq Buttons
  BY EmptySeq DEF IInv, TablesOK
<1>5. Fresh \in GoodPage
  <2> HIDE DEF dicts
  <2>1. Fresh = [NoPage EXCEPT !.key_maps = dicts, !.buttons = buttons, !.loaded = buttons]
    BY DEF Fresh, dicts
  <2> QED
    BY <1>3, <1>4, <2>1 DEF NoPage, GoodPage, AnyPage
<1>6. Fresh.loaded = buttons /\ Fresh.key_maps = dicts
  BY DEF Fresh, NoPage
<1> QED
  BY <1>1, <1>5, <1>6 DEF FreshDict

LEMMA LoadPageStep ==
    ASSUME IInv, NEW p \in Conns, LoadPage(p)
    PROVE  IInv'
<1>1. PICK a \in Activities :
          \E shown \in Shown(Fresh, a) :
              page' = [page EXCEPT ![p] = display_key_maps(Fresh, a, shown)]
  BY DEF LoadPage, Fresh, FreshDict, FreshKeys, FreshEntry
<1>2. TablesOK' /\ TableStep
  BY SameTables DEF LoadPage, IInv
<1>3. PICK shown \in Shown(Fresh, a) :
          page' = [page EXCEPT ![p] = display_key_maps(Fresh, a, shown)]
  BY <1>1
<1> DEFINE new == display_key_maps(Fresh, a, shown)
<1>4. new \in GoodPage /\ new.activity \in Activities
  BY FreshPage, ListedPage
<1>5. UNCHANGED hubVars /\ UNCHANGED link /\ UNCHANGED edits
  BY DEF LoadPage, hubVars
<1>6. PagesOK'
  <2>1. page' = [page EXCEPT ![p] = new]
    BY <1>3
  <2> HIDE DEF new
  <2> QED
    BY <1>2, <1>4, <1>5, <2>1, OnePage DEF IInv
<1>7. StreamsOK'
  BY <1>2, <1>5, SameStreams DEF IInv
<1> QED
  BY <1>2, <1>5, <1>6, <1>7 DEF IInv

LEMMA ConnectStep ==
    ASSUME IInv, NEW p \in Conns, Connect(p)
    PROVE  IInv'
<1>1. /\ page[p] # NoPage /\ Open(p) /\ link' = [link EXCEPT ![p] = "open"]
      /\ UNCHANGED tables /\ UNCHANGED page /\ UNCHANGED edits
  BY DEF Connect, Open
<1>2. TablesOK' /\ TableStep
  BY <1>1, SameTables DEF IInv
<1> QED
  BY <1>1, <1>2, OtherLink, OpenedStreams DEF IInv

LEMMA DisconnectStep ==
    ASSUME IInv, NEW p \in Conns, Disconnect(p)
    PROVE  IInv'
<1>1. /\ link[p] # "closed" /\ Lose(p) /\ link' = [link EXCEPT ![p] = "lost"]
      /\ UNCHANGED tables /\ UNCHANGED page /\ UNCHANGED edits
  BY DEF Disconnect, Lose
<1>2. TablesOK' /\ TableStep
  BY <1>1, SameTables DEF IInv
<1> QED
  BY <1>1, <1>2, OtherLink, LostStreams DEF IInv

LEMMA NoticeCloseStep ==
    ASSUME IInv, NEW p \in Conns, NoticeClose(p)
    PROVE  IInv'
<1>1. /\ link[p] # "closed" /\ OnClose(p) /\ link' = [link EXCEPT ![p] = "closed"]
      /\ UNCHANGED tables /\ UNCHANGED page /\ UNCHANGED edits
  BY DEF NoticeClose, OnClose
<1>2. TablesOK' /\ TableStep
  BY <1>1, SameTables DEF IInv
<1> QED
  BY <1>1, <1>2, OtherLink, ClosedStreams DEF IInv

LEMMA ReceiveStep ==
    ASSUME IInv, NEW p \in Conns, Receive(p)
    PROVE  IInv'
<1> DEFINE new == ws_onmessage(page[p], Head(inbox[p]))
<1>1. /\ link[p] # "closed" /\ inbox[p] # <<>> /\ Deliver(p)
      /\ page' = [page EXCEPT ![p] = new]
      /\ UNCHANGED tables /\ UNCHANGED link /\ UNCHANGED edits
  BY DEF Receive, Deliver
<1>2. TablesOK' /\ TableStep
  BY <1>1, SameTables DEF IInv
<1>3. Head(inbox[p]) \in Frame
  BY <1>1, HeadTailProperties DEF IInv, StreamsOK
<1>4. new \in GoodPage /\ new.activity \in Activities
  <2>1. page[p] \in GoodPage /\ page[p].activity \in Activities
    BY <1>1, OpenPage DEF IInv
  <2> QED
    BY <1>3, <2>1, MessagePage DEF IInv
<1>5. PagesOK'
  <2> HIDE DEF new
  <2> QED
    BY <1>1, <1>2, <1>4, OnePage DEF IInv
<1>6. StreamsOK'
  BY <1>1, <1>2, DeliveredStreams DEF IInv
<1> QED
  BY <1>1, <1>2, <1>5, <1>6 DEF IInv

LEMMA SwitchActivityStep ==
    ASSUME IInv, NEW p \in Conns, NEW a \in Activities, SwitchActivity(p, a)
    PROVE  IInv'
<1>1. PICK shown \in Shown(page[p], a) :
          page' = [page EXCEPT ![p] = display_key_maps(page[p], a, shown)]
  BY DEF SwitchActivity
<1> DEFINE new == display_key_maps(page[p], a, shown)
<1>2. /\ link[p] # "closed" /\ UNCHANGED hubVars /\ UNCHANGED link
      /\ UNCHANGED tables /\ UNCHANGED edits
  BY DEF SwitchActivity, hubVars
<1>3. TablesOK' /\ TableStep
  BY <1>2, SameTables DEF IInv
<1>4. new \in GoodPage /\ new.activity \in Activities
  <2>1. page[p] \in GoodPage
    BY <1>2, OpenPage DEF IInv
  <2> QED
    BY <2>1, ListedPage
<1>5. PagesOK'
  <2>1. page' = [page EXCEPT ![p] = new]
    BY <1>1
  <2> HIDE DEF new
  <2> QED
    BY <1>2, <1>3, <1>4, <2>1, OnePage DEF IInv
<1>6. StreamsOK'
  BY <1>2, <1>3, SameStreams DEF IInv
<1> QED
  BY <1>2, <1>3, <1>5, <1>6 DEF IInv

\* What every edit does.
LEMMA EditStep ==
    ASSUME IInv, NEW p \in Conns, NEW messages \in Seq(Request), NEW new \in GoodPage,
           new.activity \in Activities, Edit(p, messages, new)
    PROVE  IInv'
<1>1. /\ Send(p, messages) /\ page' = [page EXCEPT ![p] = new]
      /\ UNCHANGED tables /\ UNCHANGED link
  BY DEF Edit, Send
<1>2. edits' \in 0..MaxEdits
  BY InstalledAssumption DEF Edit, IInv
<1>3. TablesOK' /\ TableStep
  BY <1>1, SameTables DEF IInv
<1>4. PagesOK'
  BY <1>1, <1>3, OnePage DEF IInv
<1>5. StreamsOK'
  BY <1>1, <1>3, SentStreams DEF IInv
<1> QED
  BY <1>2, <1>3, <1>4, <1>5 DEF IInv

LEMMA EditorPage ==
    ASSUME IInv, NEW p \in Conns, NEW messages, NEW new, Edit(p, messages, new)
    PROVE  page[p] \in GoodPage /\ page[p].activity \in Activities
<1>1. link[p] # "closed"
  BY DEF Edit, Send
<1> QED
  BY <1>1, OpenPage DEF IInv

LEMMA AddStep ==
    ASSUME IInv, NEW p \in Conns, NEW k \in KeyCodes, add_key_map(p, k)
    PROVE  IInv'
<1>1. Edit(p, <<>>, Added(page[p], k))
  BY DEF add_key_map, Added
<1>2. page[p] \in GoodPage /\ page[p].activity \in Activities
  BY <1>1, EditorPage
<1>3. Added(page[p], k) \in GoodPage /\ Added(page[p], k).activity \in Activities
  BY <1>2, AddedPage
<1>4. <<>> \in Seq(Request)
  BY EmptySeq
<1> QED
  BY <1>1, <1>3, <1>4, EditStep

LEMMA BindStep ==
    ASSUME IInv, NEW p \in Conns, NEW n \in Visible(page[p]), NEW b \in page[p].buttons,
           map_key(p, n, b)
    PROVE  IInv'
<1> DEFINE pg == page[p]
           a  == pg.activity
           k  == pg.list[n].key_code
           half == [pg EXCEPT !.list[n].button_id = b]
           full == [pg EXCEPT !.list[n].button_id = b, !.key_maps[a][k].button_id = b]
<1>1. \/ k \in DOMAIN pg.key_maps[a] /\ Edit(p, <<SaveMap(a, k, b)>>, full)
      \/ Edit(p, <<>>, half)
  BY DEF map_key
<1>2. pg \in GoodPage /\ a \in Activities
  <2> HIDE DEF half, full
  <2> QED
    BY <1>1, EditorPage
<1>3. n \in DOMAIN pg.list /\ b \in Buttons
  BY <1>2, PageParts DEF Visible
<1>4. half \in GoodPage /\ half.activity = a
  BY <1>2, <1>3, BoundItem
<1>5. CASE Edit(p, <<>>, half)
  <2>1. <<>> \in Seq(Request)
    BY EmptySeq
  <2> HIDE DEF half
  <2> QED
    BY <1>2, <1>4, <1>5, <2>1, EditStep
<1>6. CASE k \in DOMAIN pg.key_maps[a] /\ Edit(p, <<SaveMap(a, k, b)>>, full)
  <2>1. k \in KeyCodes
    BY <1>2, <1>6, DictParts
  <2>2. <<SaveMap(a, k, b)>> \in Seq(Request)
    <3>1. SaveMap(a, k, b) \in Request
      BY <1>2, <1>3, <2>1 DEF SaveMap, Request, SaveRequest
    <3> HIDE DEF a, k
    <3> QED
      BY <3>1
  <2>3. full = [half EXCEPT !.key_maps[a][k].button_id = b]
    <3>1. pg \in AnyPage
      BY <1>2, PageParts
    <3> QED
      BY <3>1 DEF AnyPage
  <2>4. half.key_maps = pg.key_maps
    <3>1. pg \in AnyPage
      BY <1>2, PageParts
    <3> QED
      BY <3>1 DEF AnyPage
  <2> HIDE DEF half, full
  <2>5. full \in GoodPage /\ full.activity = half.activity
    <3>1. k \in DOMAIN half.key_maps[a]
      BY <1>6, <2>4
    <3> HIDE DEF a, k
    <3>2. /\ [half EXCEPT !.key_maps[a][k].button_id = b] \in GoodPage
          /\ [half EXCEPT !.key_maps[a][k].button_id = b].activity = half.activity
      BY <1>2, <1>3, <1>4, <3>1, BoundKey
    <3> QED
      BY <2>3, <3>2
  <2> QED
    BY <1>2, <1>4, <1>6, <2>2, <2>5, EditStep
<1> QED
  BY <1>1, <1>5, <1>6

LEMMA TrashMapStep ==
    ASSUME IInv, NEW p \in Conns, NEW n \in Visible(page[p]), TrashMap(p, n)
    PROVE  IInv'
<1> DEFINE item == page[p].list[n]
           request == DeleteMap(item.id, page[p].activity, item.key_code)
<1>1. Edit(p, <<request>>, page[p])
  BY DEF TrashMap
<1>2. page[p] \in GoodPage /\ page[p].activity \in Activities
  <2> HIDE DEF request
  <2> QED
    BY <1>1, EditorPage
<1>3. item \in AnyItem
  BY <1>2, PageParts DEF Visible, GoodItem
<1>4. request \in Request
  BY <1>2, <1>3 DEF DeleteMap, Request, DeleteRequest, AnyItem
<1> HIDE DEF request
<1>5. <<request>> \in Seq(Request)
  BY <1>4
<1> QED
  BY <1>1, <1>2, <1>5, EditStep

LEMMA TrashButtonStep ==
    ASSUME IInv, NEW p \in Conns, NEW b \in page[p].buttons, TrashButton(p, b)
    PROVE  IInv'
<1>1. Edit(p, <<DropButton(b)>>, page[p])
  BY DEF TrashButton
<1>2. page[p] \in GoodPage /\ page[p].activity \in Activities
  BY <1>1, EditorPage
<1>3. DropButton(b) \in Request
  BY <1>2, PageParts DEF DropButton, Request, DropRequest
<1>4. <<DropButton(b)>> \in Seq(Request)
  BY <1>3
<1> QED
  BY <1>1, <1>2, <1>4, EditStep

\* A handler that replies: what it does to the tables is good, and the frame too.
LEMMA ReplyStep ==
    ASSUME IInv, NEW p \in Conns, TablesOK', TableStep, NEW frame \in Frame',
           Reply(p, frame)
    PROVE  IInv'
<1>1. /\ OnMessage(p, frame) /\ UNCHANGED page /\ UNCHANGED edits /\ UNCHANGED link
  BY DEF Reply, OnMessage
<1>2. PagesOK'
  BY <1>1, SamePages DEF IInv
<1>3. StreamsOK'
  BY <1>1, AnsweredStreams DEF IInv
<1> QED
  BY <1>1, <1>2, <1>3 DEF IInv

LEMMA HandleSaveStep ==
    ASSUME IInv, NEW p \in Conns, HandleSave(p)
    PROVE  IInv'
<1> DEFINE m == Head(outbox[p])
           last == Max(DOMAIN key_binds'.rows)
           frame == Saved(last, key_binds'.rows[last].key_code)
<1>1. /\ HasMessage(p) /\ m.type = "save_key_map"
      /\ key_binds' = save_key_map(m) /\ Reply(p, frame) /\ UNCHANGED buttons
  BY DEF HandleSave, Message
<1>2. m \in SaveRequest
  <2>1. m \in Request
    BY <1>1, FirstRequest DEF IInv
  <2> HIDE DEF m
  <2> QED
    BY <1>1, <2>1 DEF Request, SaveRequest, DeleteRequest, DropRequest
<1>3. TablesOK' /\ TableStep /\ DOMAIN key_binds'.rows # {}
  <2> HIDE DEF m
  <2> QED
    BY <1>1, <1>2, SavedRow DEF IInv
<1>4. last \in DOMAIN key_binds'.rows
  <2> DEFINE D == DOMAIN key_binds'.rows
             n == key_binds'.seq
  <2>1. n \in Nat /\ D \in SUBSET (1..n) /\ D # {}
    BY <1>3 DEF TablesOK
  <2> HIDE DEF D, n
  <2>2. Max(D) \in D
    BY <2>1, GreatestId
  <2> QED
    BY <2>2 DEF D
<1>5. frame \in Frame'
  <2> HIDE DEF last
  <2>1. /\ last \in 1..key_binds'.seq /\ last \in Nat
        /\ key_binds'.rows[last].key_code \in KeyCodes
    BY <1>3, <1>4 DEF TablesOK, MapRow
  <2> QED
    BY <2>1 DEF Saved, Frame, SavedFrame, Known
<1> HIDE DEF frame
<1> QED
  BY <1>1, <1>3, <1>5, ReplyStep

LEMMA HandleDeleteStep ==
    ASSUME IInv, NEW p \in Conns, HandleDelete(p)
    PROVE  IInv'
<1> DEFINE m == Head(outbox[p])
           id == m.id
           row == key_binds.rows[id[2]]
           frame == MapGone(id[2], row.activity_id, row.key_code)
<1>1. /\ HasMessage(p) /\ m.type = "delete_key_map" /\ UNCHANGED buttons
      /\ \/ /\ id[2] \in DOMAIN key_binds.rows
            /\ key_binds' = Delete(key_binds, {id[2]})
            /\ Reply(p, frame)
         \/ Reply(p, NoMap(id)) /\ UNCHANGED key_binds
  BY DEF HandleDelete, Message
<1>2. id \in Ids
  <2>1. m \in Request
    BY <1>1, FirstRequest DEF IInv
  <2> HIDE DEF m
  <2>2. m \in DeleteRequest
    BY <1>1, <2>1 DEF Request, SaveRequest, DeleteRequest, DropRequest
  <2> QED
    BY <2>2 DEF DeleteRequest
<1> HIDE DEF m, id
<1>3. CASE /\ id[2] \in DOMAIN key_binds.rows
           /\ key_binds' = Delete(key_binds, {id[2]})
           /\ Reply(p, frame)
  <2>1. TablesOK' /\ TableStep
    BY <1>1, <1>3, DeletedRows DEF IInv
  <2>2. row \in MapRow /\ id[2] \in Nat
    BY <1>3 DEF IInv, TablesOK
  <2>3. frame \in Frame'
    BY <2>2 DEF MapGone, Frame, GoneFrame, MapRow
  <2> HIDE DEF frame
  <2> QED
    BY <1>3, <2>1, <2>3, ReplyStep
<1>4. CASE Reply(p, NoMap(id)) /\ UNCHANGED key_binds
  <2>1. TablesOK' /\ TableStep
    BY <1>1, <1>4, SameTables DEF IInv, tables
  <2>2. NoMap(id) \in Frame'
    BY <1>2 DEF NoMap, Frame, NoMapFrame
  <2> QED
    BY <1>4, <2>1, <2>2, ReplyStep
<1> QED
  BY <1>1, <1>3, <1>4

LEMMA HandleDeleteButtonStep ==
    ASSUME IInv, NEW p \in Conns, HandleDeleteButton(p)
    PROVE  IInv'
<1> DEFINE b == Head(outbox[p]).id
<1>1. CASE b \in buttons
  <2>1. /\ buttons' = buttons \ {b}
        /\ key_binds' = Delete(key_binds, Having(key_binds, "button_id", b))
        /\ Reply(p, ButtonGone(b))
    BY <1>1 DEF HandleDeleteButton
  <2> HIDE DEF b
  <2>2. TablesOK' /\ TableStep
    BY <2>1, DeletedRows DEF IInv
  <2>3. ButtonGone(b) \in Frame'
    BY <1>1 DEF ButtonGone, Frame, ButtonFrame, IInv, TablesOK
  <2> QED
    BY <2>1, <2>2, <2>3, ReplyStep
<1>2. CASE b \notin buttons
  <2>1. /\ OnMessageDropped(p) /\ UNCHANGED tables /\ UNCHANGED page /\ UNCHANGED edits
        /\ UNCHANGED link
    BY <1>2 DEF HandleDeleteButton, OnMessageDropped
  <2>2. TablesOK' /\ TableStep
    BY <2>1, SameTables DEF IInv
  <2> QED
    BY <2>1, <2>2, SamePages, DroppedStreams DEF IInv
<1> QED
  BY <1>1, <1>2

\* The invariant is inductive.
LEMMA Inductive == Spec => []IInv
<1>1. ASSUME IInv, [Next]_vars PROVE IInv'
  <2>1. CASE UNCHANGED vars
    <3>1. /\ UNCHANGED tables /\ UNCHANGED page /\ UNCHANGED edits /\ UNCHANGED hubVars
          /\ UNCHANGED link
      BY <2>1 DEF vars, hubVars
    <3>2. TablesOK' /\ TableStep
      BY <1>1, <3>1, SameTables DEF IInv
    <3> QED
      BY <1>1, <3>1, <3>2, SamePages, SameStreams DEF IInv
  <2>2. CASE Next
    <3>1. PICK p \in Conns :
            \/ LoadPage(p)
            \/ Connect(p)
            \/ Disconnect(p)
            \/ NoticeClose(p)
            \/ Receive(p)
            \/ \E a \in Activities : SwitchActivity(p, a)
            \/ \E k \in KeyCodes : page[p] # NoPage /\ add_key_map(p, k)
            \/ \E n \in Visible(page[p]), b \in page[p].buttons : map_key(p, n, b)
            \/ \E n \in Visible(page[p]) : TrashMap(p, n)
            \/ \E b \in page[p].buttons : TrashButton(p, b)
            \/ Handle(p)
      BY <2>2 DEF Next
    <3> QED
      BY <1>1, <3>1, LoadPageStep, ConnectStep, DisconnectStep, NoticeCloseStep, ReceiveStep,
         SwitchActivityStep, AddStep, BindStep, TrashMapStep, TrashButtonStep, HandleSaveStep,
         HandleDeleteStep, HandleDeleteButtonStep DEF Handle
  <2> QED
    BY <1>1, <2>1, <2>2
<1> QED
  BY InitIInv, <1>1, PTL DEF Spec

-----------------------------------------------------------------------------
(***************************************************************************)
(* The theorems.                                                           *)
(***************************************************************************)

\* Whatever save_key_map is sent by however many pages, and whichever replies and
\* deletions cross, a key has one row in an activity, and pages are well formed.
THEOREM KeysHaveOneMap == Spec => []TypeOK
<1>1. IInv => TypeOK
  <2> SUFFICES ASSUME IInv PROVE TypeOK
    OBVIOUS
  <2>1. ASSUME NEW a \in Activities, NEW k \in KeyCodes PROVE Cardinality(RowOf(a, k)) <= 1
    <3>1. CASE RowOf(a, k) = {}
      BY <3>1, FS_EmptySet
    <3>2. CASE RowOf(a, k) # {}
      <4>1. PICK i \in RowOf(a, k) : TRUE
        BY <3>2
      <4>2. RowOf(a, k) = {i}
        BY <4>1 DEF IInv, TablesOK, OneEach, RowOf, RowsOf
      <4> QED
        BY <4>2, FS_Singleton
    <3> QED
      BY <3>1, <3>2
  <2>2. ASSUME NEW p \in Conns PROVE PageOK(page[p])
    <3>1. page[p] \in GoodPage
      BY DEF IInv, PagesOK
    <3>2. \A n \in DOMAIN page[p].list :
              page[p].list[n].id \in Ids /\ page[p].list[n].key_code \in KeyCodes
      BY <3>1, PageParts DEF GoodItem, AnyItem
    <3> QED
      BY <3>1, <3>2, PageParts, DictParts DEF PageOK
  <2> QED
    BY <2>1, <2>2 DEF IInv, TablesOK, TypeOK
<1> QED
  BY <1>1, Inductive, PTL

\* save_key_map replies with the last row of the table and pages rename items by key;
\* still no page ever lists a key under the id of another key's row.
THEOREM IdsStayWithTheirKey == Spec => []IdsNameTheirKey
<1>1. IInv => IdsNameTheirKey
  <2> SUFFICES ASSUME IInv, NEW p \in Conns, NEW n \in DOMAIN page[p].list,
                      NEW i \in DOMAIN key_binds.rows, page[p].list[n].id = Row(i)
               PROVE  key_binds.rows[page[p].list[n].id[2]].key_code = page[p].list[n].key_code
    BY DEF IdsNameTheirKey
  <2>1. page[p].list[n] \in GoodItem
    BY PageParts DEF IInv, PagesOK
  <2>2. NamesKey(Row(i), page[p].list[n].key_code)
    BY <2>1 DEF GoodItem
  <2> QED
    BY <2>2 DEF NamesKey, Row, Known
<1> QED
  BY <1>1, Inductive, PTL

-----------------------------------------------------------------------------
(***************************************************************************)
(* Deletions and the dicts of pages: what a page maps to a button that is  *)
(* gone, or otherwise than the table, is about to be put right by a frame  *)
(* or by a save that is still on its way.                                  *)
(***************************************************************************)
\* All buttons that a page knows or shows.
Mapped(pg) ==
    pg.buttons \cup {pg.list[n].button_id : n \in Visible(pg)} \cup
    UNION {{pg.key_maps[a][k].button_id : k \in DOMAIN pg.key_maps[a]} : a \in Activities}

GoneTold(p) ==
    \A b \in page[p].loaded \ buttons :
        IsIn(ButtonGone(b), inbox[p]) \/ b \notin Mapped(page[p])

Saves(m, a, k) == m.type = "save_key_map" /\ m.activity_id = a /\ m.key_code = k

Pending(out, a, k) == \E n \in 1..Len(out) : Saves(out[n], a, k)

\* The last save that is on its way for a key has this button.
LastSave(out, a, k, b) ==
    \A n \in 1..Len(out) :
        /\ Saves(out[n], a, k)
        /\ \A m \in (n + 1)..Len(out) : ~ Saves(out[m], a, k)
        => out[n].button_id = b

HasRow(a, k, b) == \E i \in RowOf(a, k) : key_binds.rows[i].button_id = b

\* An entry that is not in the table will be, or a frame is about to take it away.
Backed(p, a, k, b) ==
    \/ <<p, a, k>> \in overruled
    \/ Pending(outbox[p], a, k)
    \/ HasRow(a, k, b)
    \/ \E i : IsIn(MapGone(i, a, k), inbox[p])
    \/ IsIn(ButtonGone(b), inbox[p])

EntryOK(p, a, k, b) == LastSave(outbox[p], a, k, b) /\ Backed(p, a, k, b)

DictsOK(p) ==
    \A a \in Activities : \A k \in DOMAIN page[p].key_maps[a] : \A b :
        b = page[p].key_maps[a][k].button_id /\ b # Null => EntryOK(p, a, k, b)

Told == \A p \in Conns \ missed : GoneTold(p) /\ DictsOK(p)

KInv == IInv /\ HubOK /\ Told

(***************************************************************************)
(* Saves in the outbox.                                                    *)
(***************************************************************************)
LEMMA HandledSave ==
    ASSUME NEW s, IsSeq(s), s # <<>>, NEW a, NEW k, NEW b
    PROVE  /\ Pending(s, a, k) <=> Saves(Head(s), a, k) \/ Pending(Tail(s), a, k)
           /\ LastSave(s, a, k, b) => LastSave(Tail(s), a, k, b)
           /\ LastSave(s, a, k, b) /\ Saves(Head(s), a, k) /\ ~ Pending(Tail(s), a, k)
                => Head(s).button_id = b
<1>1. Len(s) \in Nat /\ Len(s) > 0
  BY SeqFacts
<1>2. /\ Len(Tail(s)) = Len(s) - 1 /\ Head(s) = s[1]
      /\ \A n \in 1..(Len(s) - 1) : Tail(s)[n] = s[n + 1]
  BY TailStream
<1>3. ASSUME NEW n \in 2..Len(s) PROVE n - 1 \in 1..Len(Tail(s)) /\ s[n] = Tail(s)[n - 1]
  <2>1. n - 1 \in 1..(Len(s) - 1) /\ (n - 1) + 1 = n
    BY <1>1
  <2> QED
    BY <1>2, <2>1
<1>4. ASSUME NEW n \in 1..Len(Tail(s)) PROVE n + 1 \in 2..Len(s) /\ s[n + 1] = Tail(s)[n]
  BY <1>1, <1>2
<1>5. ASSUME NEW n \in 1..Len(s) PROVE n = 1 \/ n \in 2..Len(s)
  BY <1>1
<1>6. Pending(s, a, k) <=> Saves(Head(s), a, k) \/ Pending(Tail(s), a, k)
  <2>1. ASSUME Pending(s, a, k) PROVE Saves(Head(s), a, k) \/ Pending(Tail(s), a, k)
    BY <1>2, <1>3, <1>5, <2>1 DEF Pending
  <2>2. ASSUME Saves(Head(s), a, k) PROVE Pending(s, a, k)
    BY <1>1, <1>2, <2>2 DEF Pending
  <2>3. ASSUME Pending(Tail(s), a, k) PROVE Pending(s, a, k)
    BY <1>1, <1>4, <2>3 DEF Pending
  <2> QED
    BY <2>1, <2>2, <2>3
<1>7. ASSUME LastSave(s, a, k, b) PROVE LastSave(Tail(s), a, k, b)
  <2>1. ASSUME NEW n \in 1..Len(Tail(s)), Saves(Tail(s)[n], a, k),
               \A m \in (n + 1)..Len(Tail(s)) : ~ Saves(Tail(s)[m], a, k)
        PROVE  Tail(s)[n].button_id = b
    <3>1. n + 1 \in 1..Len(s) /\ s[n + 1] = Tail(s)[n]
      BY <1>1, <1>4
    <3>2. ASSUME NEW m \in (n + 1 + 1)..Len(s) PROVE ~ Saves(s[m], a, k)
      <4>1. m \in 2..Len(s) /\ m - 1 \in (n + 1)..Len(Tail(s))
        BY <1>1, <1>2
      <4> QED
        BY <1>3, <2>1, <4>1
    <3> QED
      BY <1>7, <2>1, <3>1, <3>2 DEF LastSave
  <2> QED
    BY <2>1 DEF LastSave
<1>8. ASSUME LastSave(s, a, k, b), Saves(Head(s), a, k), ~ Pending(Tail(s), a, k)
      PROVE  Head(s).button_id = b
  <2>1. 1 \in 1..Len(s) /\ Saves(s[1], a, k)
    BY <1>1, <1>2, <1>8
  <2>2. ASSUME NEW m \in (1 + 1)..Len(s) PROVE ~ Saves(s[m], a, k)
    BY <1>3, <1>8 DEF Pending
  <2> QED
    BY <1>2, <1>8, <2>1, <2>2 DEF LastSave
<1> QED
  BY <1>6, <1>7, <1>8

LEMMA SentSave ==
    ASSUME NEW s, IsSeq(s), NEW x, NEW a, NEW k
    PROVE  /\ Pending(s, a, k) \/ Saves(x, a, k) <=> Pending(s \o <<x>>, a, k)
           /\ \A b : IF Saves(x, a, k) THEN x.button_id = b => LastSave(s \o <<x>>, a, k, b)
                    ELSE LastSave(s, a, k, b) => LastSave(s \o <<x>>, a, k, b)
<1> DEFINE r == s \o <<x>>
<1>1. /\ Len(s) \in Nat /\ Len(r) = Len(s) + 1
      /\ \A n \in 1..Len(s) : r[n] = s[n]
      /\ r[Len(s) + 1] = x
  <2>1. /\ IsSeq(<<x>>) /\ Len(<<x>>) = 1 /\ <<x>>[1] = x /\ Len(s) \in Nat
    BY OneStream, SeqFacts
  <2> QED
    BY <2>1, ConcatStream
<1> HIDE DEF r
<1>2. 1..Len(s) \subseteq 1..Len(r) /\ Len(s) + 1 \in 1..Len(r)
  BY <1>1
<1>3. \A n \in 1..Len(r) : n \in 1..Len(s) \/ n = Len(s) + 1
  BY <1>1
<1>4. Pending(s, a, k) \/ Saves(x, a, k) <=> Pending(r, a, k)
  BY <1>1, <1>2, <1>3 DEF Pending
<1>5. ASSUME NEW b, Saves(x, a, k), x.button_id = b PROVE LastSave(r, a, k, b)
  <2>1. ASSUME NEW n \in 1..Len(r), \A m \in (n + 1)..Len(r) : ~ Saves(r[m], a, k)
        PROVE  n = Len(s) + 1
    <3>1. CASE n \in 1..Len(s)
      <4>1. Len(s) + 1 \in (n + 1)..Len(r)
        BY <1>1, <3>1
      <4> QED
        BY <1>1, <1>5, <2>1, <4>1
    <3> QED
      BY <1>3, <3>1
  <2> QED
    BY <1>1, <1>5, <2>1 DEF LastSave
<1>6. ASSUME NEW b, ~ Saves(x, a, k), LastSave(s, a, k, b) PROVE LastSave(r, a, k, b)
  <2>1. ASSUME NEW n \in 1..Len(r), Saves(r[n], a, k),
               \A m \in (n + 1)..Len(r) : ~ Saves(r[m], a, k)
        PROVE  r[n].button_id = b
    <3>1. n \in 1..Len(s) /\ r[n] = s[n]
      BY <1>1, <1>3, <1>6, <2>1
    <3>2. ASSUME NEW m \in (n + 1)..Len(s) PROVE ~ Saves(s[m], a, k)
      <4>1. m \in (n + 1)..Len(r) /\ m \in 1..Len(s)
        BY <1>1, <3>1
      <4> QED
        BY <1>1, <2>1, <4>1
    <3> QED
      BY <1>6, <2>1, <3>1, <3>2 DEF LastSave
  <2> QED
    BY <2>1 DEF LastSave
<1> QED
  BY <1>4, <1>5, <1>6 DEF r

LEMMA SentNothing == ASSUME NEW s, IsSeq(s) PROVE s \o <<>> = s
<1>1. PICK S : s \in Seq(S)
  BY DEF IsSeq
<1> QED
  BY <1>1, ConcatEmptySeq

(***************************************************************************)
(* What the page does to its buttons and entries.                          *)
(***************************************************************************)
\* Nothing new is mapped, but for Null.
Keeps(pg, new) ==
    new.loaded = pg.loaded /\ Mapped(new) \subseteq Mapped(pg) \cup {Null}

\* Entries with a button have been there with that button.
SameEntries(pg, new) ==
    \A a \in Activities : \A k \in DOMAIN new.key_maps[a] :
        new.key_maps[a][k].button_id # Null =>
            /\ k \in DOMAIN pg.key_maps[a]
            /\ new.key_maps[a][k].button_id = pg.key_maps[a][k].button_id

LEMMA KeptIf ==
    ASSUME NEW pg, NEW new, new.loaded = pg.loaded,
           new.buttons \subseteq pg.buttons,
           \A n \in Visible(new) : new.list[n].button_id \in Mapped(pg) \cup {Null},
           SameEntries(pg, new)
    PROVE  Keeps(pg, new)
<1>1. ASSUME NEW b \in Mapped(new) PROVE b \in Mapped(pg) \cup {Null}
  <2>1. CASE b \in new.buttons
    BY <2>1 DEF Mapped
  <2>2. CASE b \in {new.list[n].button_id : n \in Visible(new)}
    BY <2>2
  <2>3. CASE \E a \in Activities : \E k \in DOMAIN new.key_maps[a] :
                b = new.key_maps[a][k].button_id
    BY <2>3 DEF SameEntries, Mapped
  <2> QED
    BY <2>1, <2>2, <2>3 DEF Mapped
<1> QED
  BY <1>1 DEF Keeps

LEMMA SavedKeeps ==
    ASSUME NEW pg \in GoodPage, NEW i, NEW k
    PROVE  LET new == save_key_map_callback(pg, i, k)
           IN  Keeps(pg, new) /\ SameEntries(pg, new)
<1> DEFINE list == [n \in DOMAIN pg.list |->
                       IF pg.list[n].key_code = k THEN [pg.list[n] EXCEPT !.id = Row(i)]
                                                  ELSE pg.list[n]]
           new == [pg EXCEPT !.list = list]
<1>1. \A n \in DOMAIN list : list[n].button_id = pg.list[n].button_id
                               /\ list[n].hidden = pg.list[n].hidden
  BY PageParts DEF GoodItem, AnyItem
<1>2. DOMAIN list = DOMAIN pg.list
  OBVIOUS
<1> HIDE DEF list
<1>3. /\ new.loaded = pg.loaded /\ new.buttons = pg.buttons
      /\ new.list = list /\ new.key_maps = pg.key_maps
  BY PageParts DEF AnyPage
<1> HIDE DEF new
<1>4. SameEntries(pg, new)
  BY <1>3 DEF SameEntries
<1>5. \A n \in Visible(new) : new.list[n].button_id \in Mapped(pg)
  BY <1>1, <1>2, <1>3 DEF Visible, Mapped
<1>6. Keeps(pg, new)
  BY <1>3, <1>4, <1>5, KeptIf
<1> QED
  BY <1>4, <1>6 DEF new, list, save_key_map_callback

LEMMA HiddenItems ==
    ASSUME NEW pg \in GoodPage, NEW id
    PROVE  \A n \in DOMAIN hide(pg.list, id) :
               /\ n \in DOMAIN pg.list
               /\ hide(pg.list, id)[n].button_id = pg.list[n].button_id
               /\ ~ hide(pg.list, id)[n].hidden => ~ pg.list[n].hidden
BY PageParts DEF hide, GoodItem, AnyItem

LEMMA DeletedKeeps ==
    ASSUME NEW pg \in GoodPage, NEW frame,
           frame \in NoMapFrame \/ frame \in GoneFrame
    PROVE  LET new == delete_key_map_callback(pg, frame)
           IN  /\ Keeps(pg, new) /\ SameEntries(pg, new)
               /\ \A i, a, k : frame = MapGone(i, a, k) /\ a \in Activities =>
                      k \notin DOMAIN new.key_maps[a]
<1> DEFINE new == delete_key_map_callback(pg, frame)
<1>1. CASE frame.type = "no_map"
  <2> DEFINE list == hide(pg.list, frame.id)
  <2>1. new = [pg EXCEPT !.list = list]
    BY <1>1 DEF delete_key_map_callback
  <2>2. \A n \in DOMAIN list : /\ n \in DOMAIN pg.list
                               /\ list[n].button_id = pg.list[n].button_id
                               /\ ~ list[n].hidden => ~ pg.list[n].hidden
    BY HiddenItems
  <2> HIDE DEF list, new
  <2>3. /\ new.loaded = pg.loaded /\ new.buttons = pg.buttons
        /\ new.list = list /\ new.key_maps = pg.key_maps
    BY <2>1, PageParts DEF AnyPage
  <2>4. SameEntries(pg, new)
    BY <2>3 DEF SameEntries
  <2>5. \A n \in Visible(new) : new.list[n].button_id \in Mapped(pg)
    BY <2>2, <2>3 DEF Visible, Mapped
  <2>6. Keeps(pg, new)
    BY <2>3, <2>4, <2>5, KeptIf
  <2>7. \A i, a, k : frame # MapGone(i, a, k)
    BY <1>1 DEF MapGone
  <2> QED
    BY <2>4, <2>6, <2>7 DEF new
<1>2. CASE frame.type # "no_map"
  <2> DEFINE c == frame.activity_id
             maps == Without(pg.key_maps[c], {frame.key_code})
             list == hide(pg.list, Row(frame.id))
  <2>1. new = [pg EXCEPT !.key_maps[c] = Without(@, {frame.key_code}), !.list = list]
    BY <1>2 DEF delete_key_map_callback
  <2>2. \A n \in DOMAIN list : /\ n \in DOMAIN pg.list
                               /\ list[n].button_id = pg.list[n].button_id
                               /\ ~ list[n].hidden => ~ pg.list[n].hidden
    BY HiddenItems
  <2>3. /\ DOMAIN maps = DOMAIN pg.key_maps[c] \ {frame.key_code}
        /\ \A k \in DOMAIN maps : maps[k] = pg.key_maps[c][k]
    BY DEF Without, Restrict
  <2>4. c \in Activities
    BY <1>2 DEF NoMapFrame, GoneFrame
  <2> HIDE DEF list, new, maps
  <2>5. /\ new.loaded = pg.loaded /\ new.buttons = pg.buttons
        /\ new.list = list /\ new.key_maps = [pg.key_maps EXCEPT ![c] = maps]
    BY <2>1, PageParts DEF AnyPage, maps
  <2>6. /\ new.key_maps[c] = maps
        /\ \A a \in Activities \ {c} : new.key_maps[a] = pg.key_maps[a]
    BY <2>4, <2>5, PageParts
  <2>7. SameEntries(pg, new)
    BY <2>3, <2>6 DEF SameEntries
  <2>8. \A n \in Visible(new) : new.list[n].button_id \in Mapped(pg)
    BY <2>2, <2>5 DEF Visible, Mapped
  <2>9. Keeps(pg, new)
    BY <2>5, <2>7, <2>8, KeptIf
  <2>10. \A i, a, k : frame = MapGone(i, a, k) => a = c /\ k = frame.key_code
    BY DEF MapGone
  <2> QED
    BY <2>3, <2>6, <2>7, <2>9, <2>10 DEF new
<1> QED
  BY <1>1, <1>2

LEMMA ButtonGoneKeeps ==
    ASSUME NEW pg \in GoodPage, NEW b
    PROVE  LET new == delete_remote_button_callback(pg, b)
           IN  /\ Keeps(pg, new) /\ SameEntries(pg, new)
               /\ b \notin Mapped(new)
<1> DEFINE dicts == [a \in Activities |->
                        Without(pg.key_maps[a],
                                {k \in DOMAIN pg.key_maps[a] : pg.key_maps[a][k].button_id = b})]
           list == [n \in DOMAIN pg.list |->
                       IF pg.list[n].button_id = b THEN [pg.list[n] EXCEPT !.hidden = TRUE]
                                                   ELSE pg.list[n]]
           left == pg.buttons \ {b}
           new == delete_remote_button_callback(pg, b)
<1>1. \A a \in Activities :
          /\ DOMAIN dicts[a] \subseteq DOMAIN pg.key_maps[a]
          /\ \A k \in DOMAIN dicts[a] :
                dicts[a][k] = pg.key_maps[a][k] /\ pg.key_maps[a][k].button_id # b
  BY DEF Without, Restrict
<1>2. \A n \in DOMAIN list :
          /\ n \in DOMAIN pg.list
          /\ list[n].button_id = pg.list[n].button_id
          /\ ~ list[n].hidden => ~ pg.list[n].hidden /\ pg.list[n].button_id # b
  BY PageParts DEF GoodItem, AnyItem
<1>3. new = [pg EXCEPT !.key_maps = dicts, !.list = list, !.buttons = left]
  BY DEF delete_remote_button_callback
<1> HIDE DEF dicts, list, new
<1>4. /\ new.loaded = pg.loaded /\ new.buttons = left
      /\ new.list = list /\ new.key_maps = dicts
  BY <1>3, PageParts DEF AnyPage
<1>5. SameEntries(pg, new)
  BY <1>1, <1>4 DEF SameEntries
<1>6. \A n \in Visible(new) : new.list[n].button_id \in Mapped(pg)
  BY <1>2, <1>4 DEF Visible, Mapped
<1>7. Keeps(pg, new)
  BY <1>4, <1>5, <1>6, KeptIf
<1>8. b \notin Mapped(new)
  BY <1>1, <1>2, <1>4 DEF Mapped, Visible
<1> QED
  BY <1>5, <1>7, <1>8 DEF new

\* Whatever frame arrives; what it says is gone is gone from the page.
LEMMA MessageKeeps ==
    ASSUME NEW pg \in GoodPage, NEW frame \in Frame
    PROVE  LET new == ws_onmessage(pg, frame)
           IN  /\ Keeps(pg, new) /\ SameEntries(pg, new)
               /\ \A i, a, k : frame = MapGone(i, a, k) /\ a \in Activities =>
                      k \notin DOMAIN new.key_maps[a]
               /\ \A b : frame = ButtonGone(b) => b \notin Mapped(new)
<1>1. CASE frame \in SavedFrame
  <2>1. frame.type = "saved"
    BY <1>1 DEF SavedFrame
  <2>2. ws_onmessage(pg, frame) = save_key_map_callback(pg, frame.id, frame.key_code)
    BY <2>1 DEF ws_onmessage
  <2>3. \A i, a, k : frame # MapGone(i, a, k) /\ frame # ButtonGone(i)
    BY <2>1 DEF MapGone, ButtonGone
  <2> QED
    BY <2>2, <2>3, SavedKeeps
<1>2. CASE frame \in GoneFrame \cup NoMapFrame
  <2>1. frame.type \in {"map_gone", "no_map"}
    BY <1>2 DEF GoneFrame, NoMapFrame
  <2>2. ws_onmessage(pg, frame) = delete_key_map_callback(pg, frame)
    BY <2>1 DEF ws_onmessage
  <2>3. \A b : frame # ButtonGone(b)
    BY <2>1 DEF ButtonGone
  <2> QED
    BY <1>2, <2>2, <2>3, DeletedKeeps
<1>3. CASE frame \in ButtonFrame
  <2>1. frame.type = "button_gone"
    BY <1>3 DEF ButtonFrame
  <2>2. ws_onmessage(pg, frame) = delete_remote_button_callback(pg, frame.id)
    BY <2>1 DEF ws_onmessage
  <2>3. \A i, a, k : frame # MapGone(i, a, k)
    BY <2>1 DEF MapGone
  <2>4. \A b : frame = ButtonGone(b) => b = frame.id
    BY DEF ButtonGone
  <2> QED
    BY <2>2, <2>3, <2>4, ButtonGoneKeeps
<1> QED
  BY <1>1, <1>2, <1>3 DEF Frame

LEMMA ListedKeeps ==
    ASSUME NEW pg \in GoodPage, NEW a \in Activities, NEW shown \in Shown(pg, a)
    PROVE  LET new == display_key_maps(pg, a, shown)
           IN  Keeps(pg, new) /\ SameEntries(pg, new)
<1> DEFINE maps == pg.key_maps[a]
           list == [n \in DOMAIN shown |->
                       Item(Listed(maps[shown[n]].id), shown[n], maps[shown[n]].button_id)]
           new == display_key_maps(pg, a, shown)
<1>1. PICK keys \in SUBSET Listable(pg, a) : shown = SetToSeq(keys)
  BY DEF Shown
<1>2. keys \subseteq DOMAIN maps /\ IsFiniteSet(keys)
  <2>1. keys \subseteq DOMAIN maps
    BY DEF Listable
  <2>2. keys \in SUBSET KeyCodes
    BY <2>1, DictParts
  <2> QED
    BY <2>1, <2>2, FS_Subset, KeysAssumption
<1>3. \A n \in DOMAIN shown : shown[n] \in DOMAIN maps
  <2>1. shown \in Seq(keys)
    BY <1>1, <1>2, SetAsSeq
  <2> QED
    BY <1>2, <2>1, ElementOfSeq, LenProperties
<1>4. \A n \in DOMAIN list : \E k \in DOMAIN maps : list[n].button_id = maps[k].button_id
  BY <1>3 DEF Item
<1>5. new = [pg EXCEPT !.activity = a, !.list = list]
  BY DEF display_key_maps
<1> HIDE DEF list, new
<1>6. /\ new.loaded = pg.loaded /\ new.buttons = pg.buttons
      /\ new.list = list /\ new.key_maps = pg.key_maps
  BY <1>5, PageParts DEF AnyPage
<1>7. SameEntries(pg, new)
  BY <1>6 DEF SameEntries
<1>8. \A n \in Visible(new) : new.list[n].button_id \in Mapped(pg)
  BY <1>4, <1>6 DEF Visible, Mapped
<1>9. Keeps(pg, new)
  BY <1>6, <1>7, <1>8, KeptIf
<1> QED
  BY <1>7, <1>9 DEF new

LEMMA AddedKeeps ==
    ASSUME NEW pg \in GoodPage, NEW k, pg.activity \in Activities
    PROVE  Keeps(pg, Added(pg, k)) /\ SameEntries(pg, Added(pg, k))
<1> DEFINE a == pg.activity
           id == Temp(pg.temp_id)
           item == Item(id, k, Null)
           list == Append(pg.list, item)
           maps == [j \in DOMAIN pg.key_maps[a] \cup {k} |->
                       IF j = k THEN [id |-> id, button_id |-> Null] ELSE pg.key_maps[a][j]]
           dicts == [pg.key_maps EXCEPT ![a] = maps]
           new == Added(pg, k)
<1>1. \A j \in DOMAIN maps : maps[j].button_id # Null =>
          j \in DOMAIN pg.key_maps[a] /\ maps[j] = pg.key_maps[a][j]
  OBVIOUS
<1>2. \A n \in DOMAIN list :
          \/ n \in DOMAIN pg.list /\ list[n] = pg.list[n]
          \/ list[n].button_id = Null
  <2>1. /\ pg.list \in Seq(GoodItem \cup {item}) /\ item \in GoodItem \cup {item}
    <3> HIDE DEF item
    <3> QED
      BY PageParts, SeqMonotonic
  <2>2. item.button_id = Null
    BY DEF Item
  <2> HIDE DEF item
  <2>3. /\ DOMAIN list = 1..Len(pg.list) + 1 /\ DOMAIN pg.list = 1..Len(pg.list)
        /\ \A n \in 1..Len(pg.list) : list[n] = pg.list[n]
        /\ list[Len(pg.list) + 1] = item /\ Len(pg.list) \in Nat
    BY <2>1, AppendProperties, LenProperties
  <2>4. \A n \in 1..Len(pg.list) + 1 : n \in 1..Len(pg.list) \/ n = Len(pg.list) + 1
    BY <2>3
  <2> HIDE DEF list
  <2> QED
    BY <2>2, <2>3, <2>4
<1>3. new = [pg EXCEPT !.list = list, !.key_maps[a] = maps, !.temp_id = pg.temp_id + 1]
  BY PageParts DEF Added, AnyPage
<1>4. /\ dicts[a] = maps
      /\ \A c \in Activities \ {a} : dicts[c] = pg.key_maps[c]
  BY PageParts
<1> HIDE DEF list, maps, new
<1>5. /\ new.loaded = pg.loaded /\ new.buttons = pg.buttons
      /\ new.list = list /\ new.key_maps = dicts
  BY <1>3, PageParts DEF AnyPage
<1> HIDE DEF dicts
<1>6. SameEntries(pg, new)
  BY <1>1, <1>4, <1>5 DEF SameEntries
<1>7. \A n \in Visible(new) : new.list[n].button_id \in Mapped(pg) \cup {Null}
  BY <1>2, <1>5 DEF Visible, Mapped
<1>8. Keeps(pg, new)
  BY <1>5, <1>6, <1>7, KeptIf
<1> QED
  BY <1>6, <1>8 DEF new

\* map_key takes a button that the page knows.
LEMMA BoundItemKeeps ==
    ASSUME NEW pg \in GoodPage, NEW n \in Visible(pg), NEW b \in pg.buttons
    PROVE  LET new == [pg EXCEPT !.list[n].button_id = b]
           IN  Keeps(pg, new) /\ SameEntries(pg, new)
<1> DEFINE item == [pg.list[n] EXCEPT !.button_id = b]
           list == [pg.list EXCEPT ![n] = item]
           new == [pg EXCEPT !.list[n].button_id = b]
<1>1. item.button_id = b /\ item.hidden = pg.list[n].hidden
  BY PageParts DEF Visible, GoodItem, AnyItem
<1>2. DOMAIN list = DOMAIN pg.list
      /\ \A m \in DOMAIN list : list[m] = IF m = n THEN item ELSE pg.list[m]
  BY DEF Visible
<1>3. new = [pg EXCEPT !.list = list]
  OBVIOUS
<1> HIDE DEF item, list, new
<1>4. /\ new.loaded = pg.loaded /\ new.buttons = pg.buttons
      /\ new.list = list /\ new.key_maps = pg.key_maps
  BY <1>3, PageParts DEF AnyPage
<1>5. SameEntries(pg, new)
  BY <1>4 DEF SameEntries
<1>6. \A m \in Visible(new) : new.list[m].button_id \in Mapped(pg)
  BY <1>1, <1>2, <1>4 DEF Visible, Mapped
<1>7. Keeps(pg, new)
  BY <1>4, <1>5, <1>6, KeptIf
<1> QED
  BY <1>5, <1>7 DEF new

LEMMA BoundKeyKeeps ==
    ASSUME NEW pg \in GoodPage, NEW a \in Activities, NEW k \in DOMAIN pg.key_maps[a],
           NEW b \in pg.buttons
    PROVE  LET new == [pg EXCEPT !.key_maps[a][k].button_id = b]
           IN  /\ Keeps(pg, new)
               /\ \A c \in Activities :
                     /\ DOMAIN new.key_maps[c] = DOMAIN pg.key_maps[c]
                     /\ \A j \in DOMAIN pg.key_maps[c] :
                           new.key_maps[c][j].button_id =
                               IF c = a /\ j = k THEN b ELSE pg.key_maps[c][j].button_id
<1> DEFINE entry == [pg.key_maps[a][k] EXCEPT !.button_id = b]
           maps == [pg.key_maps[a] EXCEPT ![k] = entry]
           dicts == [pg.key_maps EXCEPT ![a] = maps]
           new == [pg EXCEPT !.key_maps[a][k].button_id = b]
<1>1. entry.button_id = b
  BY DictParts DEF Entry
<1>2. DOMAIN maps = DOMAIN pg.key_maps[a]
      /\ \A j \in DOMAIN pg.key_maps[a] : maps[j] = IF j = k THEN entry ELSE pg.key_maps[a][j]
  OBVIOUS
<1>3. new = [pg EXCEPT !.key_maps = dicts]
  OBVIOUS
<1>4. /\ dicts[a] = maps
      /\ \A c \in Activities \ {a} : dicts[c] = pg.key_maps[c]
  BY PageParts
<1> HIDE DEF entry, maps, dicts, new
<1>5. /\ new.loaded = pg.loaded /\ new.buttons = pg.buttons
      /\ new.list = pg.list /\ new.key_maps = dicts
  BY <1>3, PageParts DEF AnyPage
<1>6. \A c \in Activities :
          /\ DOMAIN new.key_maps[c] = DOMAIN pg.key_maps[c]
          /\ \A j \in DOMAIN pg.key_maps[c] :
                new.key_maps[c][j].button_id =
                    IF c = a /\ j = k THEN b ELSE pg.key_maps[c][j].button_id
  BY <1>1, <1>2, <1>4, <1>5
<1>7. Keeps(pg, new)
  <2>1. \A n \in Visible(new) : n \in Visible(pg) /\ new.list[n] = pg.list[n]
    BY <1>5 DEF Visible
  <2>2. ASSUME NEW c \in Mapped(new) PROVE c \in Mapped(pg)
    BY <1>5, <1>6, <2>1 DEF Mapped
  <2> QED
    BY <1>5, <2>2 DEF Keeps
<1> QED
  BY <1>6, <1>7 DEF new

(***************************************************************************)
(* Every step keeps pages told.                                            *)
(***************************************************************************)
ToldOf(p) == GoneTold(p) /\ DictsOK(p)

\* A page that has no part in a step.
LEMMA OthersTold ==
    ASSUME Told, NEW p \in Conns, OthersSame(p), UNCHANGED tables,
           \A q \in Conns \ {p} :
               /\ page'[q] = page[q]
               /\ q \notin missed' => q \notin missed
               /\ \A a, k : <<q, a, k>> \in overruled => <<q, a, k>> \in overruled',
           p \notin missed' => ToldOf(p)'
    PROVE  Told'
<1>1. ASSUME NEW q \in Conns \ {p}, q \notin missed' PROVE ToldOf(q)'
  <2>1. /\ GoneTold(q) /\ DictsOK(q)
        /\ page'[q] = page[q] /\ inbox'[q] = inbox[q] /\ outbox'[q] = outbox[q]
        /\ \A a, k : <<q, a, k>> \in overruled => <<q, a, k>> \in overruled'
        /\ buttons' = buttons /\ key_binds' = key_binds
    BY <1>1 DEF Told, OthersSame, tables
  <2>2. GoneTold(q)'
    BY <2>1 DEF GoneTold
  <2>3. \A a, k, b : EntryOK(q, a, k, b) => EntryOK(q, a, k, b)'
    <3>1. \A a, k, b : HasRow(a, k, b) => HasRow(a, k, b)'
      BY <2>1 DEF HasRow, RowOf, RowsOf
    <3> QED
      BY <2>1, <3>1 DEF EntryOK, Backed
  <2>4. DictsOK(q)'
    BY <2>1, <2>3 DEF DictsOK
  <2> QED
    BY <2>2, <2>4 DEF ToldOf
<1> QED
  BY <1>1 DEF Told, ToldOf

\* A page that maps nothing new, with as many frames and saves on their way.
LEMMA KeptTold ==
    ASSUME IInv, NEW p \in Conns, ToldOf(p), UNCHANGED tables,
           Keeps(page[p], page'[p]),
           \A a \in Activities : \A k \in DOMAIN page'[p].key_maps[a] : \A b :
               b = page'[p].key_maps[a][k].button_id /\ b # Null =>
                   \/ EntryOK(p, a, k, b)'
                   \/ /\ k \in DOMAIN page[p].key_maps[a]
                      /\ b = page[p].key_maps[a][k].button_id
                      /\ LastSave(outbox[p], a, k, b) => LastSave(outbox'[p], a, k, b)
                      /\ Pending(outbox[p], a, k) => Pending(outbox'[p], a, k),
           \A x : IsIn(x, inbox[p]) => IsIn(x, inbox'[p]),
           \A a, k : <<p, a, k>> \in overruled => <<p, a, k>> \in overruled'
    PROVE  ToldOf(p)'
<1>1. buttons' = buttons /\ key_binds' = key_binds
  BY DEF tables
<1>2. GoneTold(p)'
  <2>1. ASSUME NEW b \in page'[p].loaded \ buttons'
        PROVE  IsIn(ButtonGone(b), inbox'[p]) \/ b \notin Mapped(page'[p])
    <3>1. b \in page[p].loaded \ buttons
      BY <1>1, <2>1 DEF Keeps
    <3>2. IsIn(ButtonGone(b), inbox[p]) \/ b \notin Mapped(page[p])
      BY <3>1 DEF ToldOf, GoneTold
    <3>3. b # Null
      <4>1. page[p] \in AnyPage
        BY PageParts DEF IInv, PagesOK
      <4> QED
        BY <3>1, <4>1, InstalledAssumption DEF AnyPage
    <3> QED
      BY <3>2, <3>3 DEF Keeps
  <2> QED
    BY <2>1 DEF GoneTold
<1>3. \A a, k, b : HasRow(a, k, b) => HasRow(a, k, b)'
  BY <1>1 DEF HasRow, RowOf, RowsOf
<1>4. ASSUME NEW a \in Activities, NEW k \in DOMAIN page'[p].key_maps[a], NEW b,
             b = page'[p].key_maps[a][k].button_id, b # Null
      PROVE  EntryOK(p, a, k, b)'
  <2>1. CASE /\ k \in DOMAIN page[p].key_maps[a]
             /\ b = page[p].key_maps[a][k].button_id
             /\ LastSave(outbox[p], a, k, b) => LastSave(outbox'[p], a, k, b)
             /\ Pending(outbox[p], a, k) => Pending(outbox'[p], a, k)
    <3>1. EntryOK(p, a, k, b)
      BY <1>4, <2>1 DEF ToldOf, DictsOK
    <3>2. Backed(p, a, k, b)'
      BY <1>3, <2>1, <3>1 DEF EntryOK, Backed
    <3> QED
      BY <2>1, <3>1, <3>2 DEF EntryOK
  <2> QED
    BY <1>4, <2>1
<1>5. DictsOK(p)'
  BY <1>4 DEF DictsOK
<1> QED
  BY <1>2, <1>5 DEF ToldOf

LEMMA SamePage ==
    ASSUME NEW pg
    PROVE  Keeps(pg, pg) /\ SameEntries(pg, pg)
BY DEF Keeps, SameEntries

LEMMA InitTold == Init => HubOK /\ Told
BY InitHub DEF Init, Told

LEMMA LoadPageTold ==
    ASSUME KInv, NEW p \in Conns, LoadPage(p)
    PROVE  HubOK' /\ Told'
<1>1. /\ link[p] = "closed" /\ UNCHANGED hubVars /\ UNCHANGED tables
      /\ missed' = missed \ {p} /\ overruled' = {o \in overruled : o[1] # p}
      /\ UNCHANGED link /\ UNCHANGED inbox /\ UNCHANGED outbox
  BY DEF LoadPage, hubVars
<1>11. PICK a \in Activities :
           \E shown \in Shown(Fresh, a) :
               page' = [page EXCEPT ![p] = display_key_maps(Fresh, a, shown)]
  BY DEF LoadPage, Fresh, FreshDict, FreshKeys, FreshEntry
<1>2. PICK shown \in Shown(Fresh, a) :
          page' = [page EXCEPT ![p] = display_key_maps(Fresh, a, shown)]
  BY <1>11
<1> DEFINE new == display_key_maps(Fresh, a, shown)
<1>3. Keeps(Fresh, new) /\ SameEntries(Fresh, new)
  BY FreshPage, ListedKeeps DEF KInv
<1>4. /\ page'[p] = new
      /\ \A q \in Conns \ {p} : page'[q] = page[q]
  BY <1>2 DEF KInv, IInv, PagesOK
<1> HIDE DEF new
<1>5. HubOK' /\ OthersSame(p)
  BY <1>1, SameHub DEF KInv, OthersSame
<1>6. outbox[p] = <<>> /\ Len(<<>>) = 0
  BY <1>1, EmptyStream DEF KInv, HubOK, StreamsIn
<1>7. GoneTold(p)'
  <2>1. page'[p].loaded = buttons'
    BY <1>1, <1>3, <1>4, FreshPage DEF KInv, Keeps, tables
  <2> QED
    BY <2>1 DEF GoneTold
<1>8. DictsOK(p)'
  <2>1. ASSUME NEW c \in Activities, NEW k \in DOMAIN page'[p].key_maps[c], NEW b,
               b = page'[p].key_maps[c][k].button_id, b # Null
        PROVE  EntryOK(p, c, k, b)'
    <3>1. k \in DOMAIN Fresh.key_maps[c] /\ b = Fresh.key_maps[c][k].button_id
      BY <1>3, <1>4, <2>1 DEF SameEntries
    <3>2. HasRow(c, k, b)
      BY <3>1, FreshPage DEF KInv, HasRow
    <3>3. HasRow(c, k, b)'
      BY <1>1, <3>2 DEF HasRow, RowOf, RowsOf, tables
    <3>4. LastSave(outbox'[p], c, k, b)
      BY <1>1, <1>6 DEF LastSave
    <3> QED
      BY <3>3, <3>4 DEF EntryOK, Backed
  <2> QED
    BY <2>1 DEF DictsOK
<1>9. \A q \in Conns \ {p} :
          /\ q \notin missed' => q \notin missed
          /\ \A c, k : <<q, c, k>> \in overruled => <<q, c, k>> \in overruled'
  BY <1>1
<1> QED
  BY <1>1, <1>4, <1>5, <1>7, <1>8, <1>9, OthersTold DEF KInv, ToldOf

LEMMA ConnectionTold ==
    ASSUME KInv, NEW p \in Conns, Connect(p) \/ NoticeClose(p)
    PROVE  HubOK' /\ Told'
<1>1. /\ Open(p) \/ OnClose(p)
      /\ UNCHANGED tables /\ UNCHANGED page /\ UNCHANGED missed /\ UNCHANGED overruled
  BY DEF Connect, NoticeClose
<1>2. HubOK' /\ OthersSame(p) /\ UNCHANGED inbox /\ UNCHANGED outbox
  BY <1>1, OpenHub, OnCloseHub DEF KInv
<1>3. ASSUME p \notin missed PROVE ToldOf(p)'
  <2>1. ToldOf(p)
    BY <1>3 DEF KInv, Told, ToldOf
  <2>2. Keeps(page[p], page'[p])
    BY <1>1, SamePage
  <2> QED
    BY <1>1, <1>2, <2>1, <2>2, KeptTold DEF KInv
<1> QED
  BY <1>1, <1>2, <1>3, OthersTold DEF KInv

\* A page that loses frames or saves has missed something.
LEMMA DisconnectTold ==
    ASSUME KInv, NEW p \in Conns, Disconnect(p)
    PROVE  HubOK' /\ Told'
<1>1. /\ Lose(p)
      /\ missed' = IF inbox[p] = <<>> /\ outbox[p] = <<>> THEN missed ELSE missed \cup {p}
      /\ UNCHANGED tables /\ UNCHANGED page /\ UNCHANGED overruled
  BY DEF Disconnect
<1>2. /\ HubOK' /\ OthersSame(p) /\ inbox'[p] = <<>>
      /\ \E n \in 0..Len(outbox[p]) : outbox'[p] = SubSeq(outbox[p], 1, n)
  BY <1>1, LoseHub DEF KInv
<1>3. ASSUME p \notin missed' PROVE ToldOf(p)'
  <2>1. p \notin missed /\ inbox[p] = <<>> /\ outbox[p] = <<>>
    BY <1>1, <1>3
  <2>2. outbox'[p] = <<>>
    <3>1. PICK n \in 0..Len(outbox[p]) : outbox'[p] = SubSeq(outbox[p], 1, n)
      BY <1>2
    <3>2. n = 0 /\ IsSeq(<<>>) /\ Len(<<>>) = 0
      BY <2>1, <3>1, EmptyStream
    <3>3. IsSeq(outbox'[p]) /\ Len(outbox'[p]) = 0
      BY <2>1, <3>1, <3>2, PrefixStream
    <3> QED
      BY <3>3, SeqFacts
  <2>3. ToldOf(p)
    BY <2>1 DEF KInv, Told, ToldOf
  <2>4. Keeps(page[p], page'[p])
    BY <1>1, SamePage
  <2> QED
    BY <1>1, <1>2, <2>1, <2>2, <2>3, <2>4, KeptTold DEF KInv
<1> QED
  BY <1>1, <1>2, <1>3, OthersTold DEF KInv

LEMMA ReceiveTold ==
    ASSUME KInv, NEW p \in Conns, Receive(p)
    PROVE  HubOK' /\ Told'
<1> DEFINE frame == Head(inbox[p])
           new == ws_onmessage(page[p], frame)
<1>1. /\ Deliver(p) /\ page' = [page EXCEPT ![p] = new]
      /\ UNCHANGED tables /\ UNCHANGED missed /\ UNCHANGED overruled
  BY DEF Receive
<1>2. /\ HubOK' /\ OthersSame(p) /\ UNCHANGED outbox
      /\ inbox[p] # <<>> /\ inbox'[p] = Tail(inbox[p]) /\ IsSeq(inbox[p])
  BY <1>1, DeliverHub DEF KInv, HubOK, StreamsIn
<1>3. frame \in Frame
  BY <1>2, HeadTailProperties DEF KInv, IInv, StreamsOK
<1>4. page[p] \in GoodPage
  BY DEF KInv, IInv, PagesOK
<1>5. /\ Keeps(page[p], new) /\ SameEntries(page[p], new)
      /\ \A i, a, k : frame = MapGone(i, a, k) /\ a \in Activities =>
             k \notin DOMAIN new.key_maps[a]
      /\ \A b : frame = ButtonGone(b) => b \notin Mapped(new)
  BY <1>3, <1>4, MessageKeeps
<1>6. /\ page'[p] = new
      /\ \A q \in Conns \ {p} : page'[q] = page[q]
  BY <1>1 DEF KInv, IInv, PagesOK
<1>7. \A x : IsIn(x, inbox[p]) => x = frame \/ IsIn(x, inbox'[p])
  BY <1>2, TailHolds
<1> HIDE DEF new, frame
<1>8. ASSUME p \notin missed PROVE ToldOf(p)'
  <2>1. GoneTold(p) /\ DictsOK(p)
    BY <1>8 DEF KInv, Told
  <2>2. GoneTold(p)'
    <3>1. ASSUME NEW b \in page'[p].loaded \ buttons'
          PROVE  IsIn(ButtonGone(b), inbox'[p]) \/ b \notin Mapped(page'[p])
      <4>1. b \in page[p].loaded \ buttons
        BY <1>1, <1>5, <1>6, <3>1 DEF Keeps, tables
      <4>2. IsIn(ButtonGone(b), inbox[p]) \/ b \notin Mapped(page[p])
        BY <2>1, <4>1 DEF GoneTold
      <4>3. b # Null
        <5>1. page[p] \in AnyPage
          BY <1>4, PageParts
        <5> QED
          BY <4>1, <5>1, InstalledAssumption DEF AnyPage
      <4> QED
        BY <1>5, <1>6, <1>7, <4>2, <4>3 DEF Keeps
    <3> QED
      BY <3>1 DEF GoneTold
  <2>3. ASSUME NEW a \in Activities, NEW k \in DOMAIN page'[p].key_maps[a], NEW b,
               b = page'[p].key_maps[a][k].button_id, b # Null
        PROVE  EntryOK(p, a, k, b)'
    <3>1. k \in DOMAIN page[p].key_maps[a] /\ b = page[p].key_maps[a][k].button_id
      BY <1>5, <1>6, <2>3 DEF SameEntries
    <3>2. EntryOK(p, a, k, b)
      BY <2>1, <2>3, <3>1 DEF DictsOK
    <3>3. frame # ButtonGone(b) /\ \A i : frame # MapGone(i, a, k)
      <4>1. b \in Mapped(page'[p])
        BY <2>3 DEF Mapped
      <4> QED
        BY <1>5, <1>6, <2>3, <4>1
    <3>4. HasRow(a, k, b) => HasRow(a, k, b)'
      BY <1>1 DEF HasRow, RowOf, RowsOf, tables
    <3>5. Backed(p, a, k, b)'
      BY <1>1, <1>2, <1>7, <3>2, <3>3, <3>4 DEF EntryOK, Backed
    <3> QED
      BY <1>2, <3>2, <3>5 DEF EntryOK
  <2>4. DictsOK(p)'
    BY <2>3 DEF DictsOK
  <2> QED
    BY <2>2, <2>4 DEF ToldOf
<1> QED
  BY <1>1, <1>2, <1>6, <1>8, OthersTold DEF KInv

LEMMA SwitchActivityTold ==
    ASSUME KInv, NEW p \in Conns, NEW a \in Activities, SwitchActivity(p, a)
    PROVE  HubOK' /\ Told'
<1>1. /\ UNCHANGED hubVars /\ UNCHANGED tables /\ UNCHANGED missed /\ UNCHANGED overruled
      /\ UNCHANGED inbox /\ UNCHANGED outbox
      /\ \E shown \in Shown(page[p], a) :
             page' = [page EXCEPT ![p] = display_key_maps(page[p], a, shown)]
  BY DEF SwitchActivity, hubVars
<1>2. PICK shown \in Shown(page[p], a) :
          page' = [page EXCEPT ![p] = display_key_maps(page[p], a, shown)]
  BY <1>1
<1> DEFINE new == display_key_maps(page[p], a, shown)
<1>3. Keeps(page[p], new) /\ SameEntries(page[p], new)
  BY ListedKeeps DEF KInv, IInv, PagesOK
<1>4. /\ page'[p] = new
      /\ \A q \in Conns \ {p} : page'[q] = page[q]
  BY <1>2 DEF KInv, IInv, PagesOK
<1> HIDE DEF new
<1>5. HubOK' /\ OthersSame(p)
  BY <1>1, SameHub DEF KInv, OthersSame, hubVars
<1>6. ASSUME p \notin missed PROVE ToldOf(p)'
  <2>1. ToldOf(p)
    BY <1>6 DEF KInv, Told, ToldOf
  <2> QED
    BY <1>1, <1>3, <1>4, <2>1, KeptTold DEF KInv, SameEntries
<1> QED
  BY <1>1, <1>4, <1>5, <1>6, OthersTold DEF KInv

\* An edit that sends nothing, or a message which saves no entry of another button.
LEMMA EditTold ==
    ASSUME KInv, NEW p \in Conns, NEW messages, NEW new,
           Edit(p, messages, new), Keeps(page[p], new),
           messages = <<>> \/ \E x : messages = <<x>>,
           \A a \in Activities : \A k \in DOMAIN new.key_maps[a] : \A b :
               b = new.key_maps[a][k].button_id /\ b # Null =>
                   \/ \E x : messages = <<x>> /\ Saves(x, a, k) /\ x.button_id = b
                   \/ /\ k \in DOMAIN page[p].key_maps[a]
                      /\ b = page[p].key_maps[a][k].button_id
                      /\ \A x : messages = <<x>> => ~ Saves(x, a, k)
    PROVE  HubOK' /\ Told'
<1>1. /\ Send(p, messages) /\ page' = [page EXCEPT ![p] = new]
      /\ UNCHANGED tables /\ UNCHANGED missed /\ UNCHANGED overruled
  BY DEF Edit
<1>2. IsSeq(messages)
  BY EmptyStream, OneStream
<1>3. HubOK' /\ OthersSame(p) /\ UNCHANGED inbox /\ outbox'[p] = outbox[p] \o messages
  BY <1>1, <1>2, SendHub DEF KInv
<1>4. /\ page'[p] = new
      /\ \A q \in Conns \ {p} : page'[q] = page[q]
  BY <1>1 DEF KInv, IInv, PagesOK
<1>5. IsSeq(outbox[p])
  BY DEF KInv, HubOK, StreamsIn
<1>6. ASSUME NEW a, NEW k PROVE Pending(outbox[p], a, k) => Pending(outbox'[p], a, k)
  <2>1. CASE messages = <<>>
    BY <1>3, <1>5, <2>1, SentNothing
  <2>2. CASE \E x : messages = <<x>>
    <3>1. PICK x : messages = <<x>>
      BY <2>2
    <3> QED
      BY <1>3, <1>5, <3>1, SentSave
  <2> QED
    BY <2>1, <2>2
<1>7. ASSUME NEW a, NEW k, NEW b, \A x : messages = <<x>> => ~ Saves(x, a, k),
             LastSave(outbox[p], a, k, b)
      PROVE  LastSave(outbox'[p], a, k, b)
  <2>1. CASE messages = <<>>
    BY <1>3, <1>5, <1>7, <2>1, SentNothing
  <2>2. CASE \E x : messages = <<x>>
    <3>1. PICK x : messages = <<x>>
      BY <2>2
    <3>2. ~ Saves(x, a, k)
      BY <1>7, <3>1
    <3> QED
      BY <1>3, <1>5, <1>7, <3>1, <3>2, SentSave
  <2> QED
    BY <2>1, <2>2
<1>8. ASSUME NEW a, NEW k, NEW b, NEW x, messages = <<x>>, Saves(x, a, k), x.button_id = b
      PROVE  EntryOK(p, a, k, b)'
  <2>1. Pending(outbox'[p], a, k) /\ LastSave(outbox'[p], a, k, b)
    BY <1>3, <1>5, <1>8, SentSave
  <2> QED
    BY <2>1 DEF EntryOK, Backed
<1>9. ASSUME p \notin missed PROVE ToldOf(p)'
  <2>1. ToldOf(p)
    BY <1>9 DEF KInv, Told, ToldOf
  <2>2. \A a \in Activities : \A k \in DOMAIN page'[p].key_maps[a] : \A b :
               b = page'[p].key_maps[a][k].button_id /\ b # Null =>
                   \/ EntryOK(p, a, k, b)'
                   \/ /\ k \in DOMAIN page[p].key_maps[a]
                      /\ b = page[p].key_maps[a][k].button_id
                      /\ LastSave(outbox[p], a, k, b) => LastSave(outbox'[p], a, k, b)
                      /\ Pending(outbox[p], a, k) => Pending(outbox'[p], a, k)
    BY <1>4, <1>6, <1>7, <1>8
  <2> QED
    BY <1>1, <1>3, <1>4, <2>1, <2>2, KeptTold DEF KInv
<1> QED
  BY <1>1, <1>3, <1>4, <1>9, OthersTold DEF KInv

LEMMA AddTold ==
    ASSUME KInv, NEW p \in Conns, NEW k \in KeyCodes, add_key_map(p, k)
    PROVE  HubOK' /\ Told'
<1> DEFINE new == Added(page[p], k)
<1>1. Edit(p, <<>>, new)
  BY DEF add_key_map, Added
<1>2. page[p] \in GoodPage /\ page[p].activity \in Activities
  <2> HIDE DEF new
  <2> QED
    BY <1>1, EditorPage DEF KInv
<1>3. Keeps(page[p], new) /\ SameEntries(page[p], new)
  BY <1>2, AddedKeeps
<1> HIDE DEF new
<1>4. \A a \in Activities : \A j \in DOMAIN new.key_maps[a] : \A b :
          b = new.key_maps[a][j].button_id /\ b # Null =>
              /\ j \in DOMAIN page[p].key_maps[a]
              /\ b = page[p].key_maps[a][j].button_id
              /\ \A x : <<>> = <<x>> => ~ Saves(x, a, j)
  BY <1>3 DEF SameEntries
<1> QED
  BY <1>1, <1>3, <1>4, EditTold

LEMMA BindTold ==
    ASSUME KInv, NEW p \in Conns, NEW n \in Visible(page[p]), NEW b \in page[p].buttons,
           map_key(p, n, b)
    PROVE  HubOK' /\ Told'
<1> DEFINE pg == page[p]
           a  == pg.activity
           k  == pg.list[n].key_code
           half == [pg EXCEPT !.list[n].button_id = b]
           full == [pg EXCEPT !.list[n].button_id = b, !.key_maps[a][k].button_id = b]
<1>1. \/ k \in DOMAIN pg.key_maps[a] /\ Edit(p, <<SaveMap(a, k, b)>>, full)
      \/ Edit(p, <<>>, half)
  BY DEF map_key
<1>2. pg \in GoodPage /\ a \in Activities
  <2> HIDE DEF half, full
  <2> QED
    BY <1>1, EditorPage DEF KInv
<1>3. n \in DOMAIN pg.list /\ b \in Buttons
  BY <1>2, PageParts DEF Visible
<1>4. half \in GoodPage /\ Keeps(pg, half) /\ SameEntries(pg, half)
  BY <1>2, <1>3, BoundItem, BoundItemKeeps
<1>5. CASE Edit(p, <<>>, half)
  <2> HIDE DEF half
  <2>1. \A c \in Activities : \A j \in DOMAIN half.key_maps[c] : \A d :
            d = half.key_maps[c][j].button_id /\ d # Null =>
                /\ j \in DOMAIN page[p].key_maps[c]
                /\ d = page[p].key_maps[c][j].button_id
                /\ \A x : <<>> = <<x>> => ~ Saves(x, c, j)
    BY <1>4 DEF SameEntries
  <2> QED
    BY <1>4, <1>5, <2>1, EditTold
<1>6. CASE k \in DOMAIN pg.key_maps[a] /\ Edit(p, <<SaveMap(a, k, b)>>, full)
  <2> DEFINE save == SaveMap(a, k, b)
  <2>1. pg \in AnyPage
    BY <1>2, PageParts
  <2>2. /\ full = [half EXCEPT !.key_maps[a][k].button_id = b]
        /\ half.key_maps = pg.key_maps /\ half.buttons = pg.buttons
    BY <2>1 DEF AnyPage
  <2> HIDE DEF half, full
  <2>3. k \in DOMAIN half.key_maps[a] /\ b \in half.buttons
    BY <1>6, <2>2
  <2>4. /\ Keeps(half, full)
        /\ \A c \in Activities :
              /\ DOMAIN full.key_maps[c] = DOMAIN half.key_maps[c]
              /\ \A j \in DOMAIN half.key_maps[c] :
                    full.key_maps[c][j].button_id =
                        IF c = a /\ j = k THEN b ELSE half.key_maps[c][j].button_id
    <3> HIDE DEF a, k
    <3> QED
      BY <1>2, <1>4, <2>2, <2>3, BoundKeyKeeps
  <2>5. Keeps(pg, full)
    BY <1>4, <2>4 DEF Keeps
  <2>6. /\ \A c, j : Saves(save, c, j) <=> c = a /\ j = k
        /\ save.button_id = b
    BY DEF Saves, SaveMap
  <2> HIDE DEF save
  <2>7. ASSUME NEW c \in Activities, NEW j \in DOMAIN full.key_maps[c], NEW d,
               d = full.key_maps[c][j].button_id, d # Null
        PROVE  \/ \E x : <<save>> = <<x>> /\ Saves(x, c, j) /\ x.button_id = d
               \/ /\ j \in DOMAIN page[p].key_maps[c]
                  /\ d = page[p].key_maps[c][j].button_id
                  /\ \A x : <<save>> = <<x>> => ~ Saves(x, c, j)
    <3>1. CASE c = a /\ j = k
      BY <2>4, <2>6, <2>7, <3>1
    <3>2. CASE ~ (c = a /\ j = k)
      <4>1. \A x : <<save>> = <<x>> => x = save
        OBVIOUS
      <4> QED
        BY <2>2, <2>4, <2>6, <2>7, <3>2, <4>1
    <3> QED
      BY <3>1, <3>2
  <2>8. Edit(p, <<save>>, full)
    BY <1>6 DEF save
  <2> HIDE DEF pg, a, k
  <2>9. Keeps(page[p], full)
    BY <2>5 DEF pg
  <2> QED
    BY <2>7, <2>8, <2>9, EditTold
<1> QED
  BY <1>1, <1>5, <1>6

\* Asking for a deletion changes nothing on the page.
LEMMA TrashTold ==
    ASSUME KInv, NEW p \in Conns, NEW request, Edit(p, <<request>>, page[p]),
           request.type # "save_key_map"
    PROVE  HubOK' /\ Told'
<1>1. Keeps(page[p], page[p]) /\ SameEntries(page[p], page[p])
  BY SamePage
<1>2. \A x : <<request>> = <<x>> => \A a, k : ~ Saves(x, a, k)
  BY DEF Saves
<1> QED
  BY <1>1, <1>2, EditTold DEF SameEntries

\* A reply goes to every page that has missed nothing.
LEMMA ReplyTold ==
    ASSUME KInv, NEW p \in Conns, NEW frame, Reply(p, frame),
           buttons' \subseteq buttons,
           \A b \in buttons \ buttons' : frame = ButtonGone(b),
           \A a, k : Saves(Head(outbox[p]), a, k) =>
               /\ \A b : b = Head(outbox[p]).button_id => HasRow(a, k, b)'
               /\ \A q \in Conns \ {p} : <<q, a, k>> \in overruled',
           \A a, k, b : HasRow(a, k, b) =>
               \/ HasRow(a, k, b)' \/ Saves(Head(outbox[p]), a, k)
               \/ \E i : frame = MapGone(i, a, k)
               \/ frame = ButtonGone(b),
           \A q \in Conns : \A a, k : <<q, a, k>> \in overruled =>
               <<q, a, k>> \in overruled' \/ Saves(Head(outbox[p]), a, k)
    PROVE  HubOK' /\ Told'
<1> DEFINE m == Head(outbox[p])
<1>1. /\ OnMessage(p, frame) /\ UNCHANGED page
      /\ missed' = missed \cup {q \in Conns : link[q] # "open"}
  BY DEF Reply
<1>2. /\ HubOK' /\ outbox[p] # <<>> /\ outbox'[p] = Tail(outbox[p])
      /\ \A q \in Conns \ {p} : outbox'[q] = outbox[q]
      /\ \A q \in Conns :
            inbox'[q] = IF link[q] = "open" THEN Append(inbox[q], frame) ELSE inbox[q]
  BY <1>1, OnMessageHub DEF KInv
<1>3. IsSeq(outbox[p]) /\ \A q \in Conns : IsSeq(inbox[q])
  BY DEF KInv, HubOK, StreamsIn
<1>4. ASSUME NEW q \in Conns, q \notin missed' PROVE ToldOf(q)'
  <2>1. q \notin missed /\ link[q] = "open"
    BY <1>1, <1>4
  <2>2. \A x : IsIn(x, inbox'[q]) <=> IsIn(x, inbox[q]) \/ x = frame
    <3>1. inbox'[q] = Append(inbox[q], frame)
      BY <1>2, <2>1
    <3> QED
      BY <1>3, <3>1, AppendStream
  <2>3. GoneTold(q) /\ DictsOK(q) /\ page'[q] = page[q]
    BY <1>1, <2>1 DEF KInv, Told
  <2>4. GoneTold(q)'
    BY <2>2, <2>3 DEF GoneTold
  <2> HIDE DEF m
  <2>5. ASSUME NEW a \in Activities, NEW k, NEW b, EntryOK(q, a, k, b)
        PROVE  EntryOK(q, a, k, b)'
    <3>1. CASE Saves(m, a, k) /\ q # p
      <4>1. <<q, a, k>> \in overruled' /\ outbox'[q] = outbox[q]
        BY <1>2, <3>1 DEF m
      <4> QED
        BY <2>5, <4>1 DEF EntryOK, Backed
    <3>2. CASE Saves(m, a, k) /\ q = p
      <4>1. LastSave(outbox'[p], a, k, b)
        BY <1>2, <1>3, <2>5, <3>2, HandledSave DEF EntryOK
      <4>2. Pending(outbox'[p], a, k) \/ m.button_id = b
        BY <1>2, <1>3, <2>5, <3>2, HandledSave DEF EntryOK, m
      <4>3. m.button_id = b => HasRow(a, k, b)'
        BY <3>2 DEF m
      <4>4. CASE Pending(outbox'[p], a, k)
        BY <3>2, <4>1, <4>4 DEF EntryOK, Backed
      <4>5. CASE m.button_id = b
        BY <3>2, <4>1, <4>3, <4>5 DEF EntryOK, Backed
      <4> QED
        BY <4>2, <4>4, <4>5
    <3>3. CASE ~ Saves(m, a, k)
      <4>1. LastSave(outbox'[q], a, k, b)
        BY <1>2, <1>3, <2>5, HandledSave DEF EntryOK
      <4>2. Pending(outbox[q], a, k) => Pending(outbox'[q], a, k)
        BY <1>2, <1>3, <3>3, HandledSave DEF m
      <4>3. <<q, a, k>> \in overruled => <<q, a, k>> \in overruled'
        BY <3>3 DEF m
      <4>4. HasRow(a, k, b) => Backed(q, a, k, b)'
        BY <2>2, <3>3 DEF Backed, m
      <4> QED
        BY <2>2, <2>5, <4>1, <4>2, <4>3, <4>4 DEF EntryOK, Backed
    <3> QED
      BY <3>1, <3>2, <3>3
  <2>6. DictsOK(q)'
    BY <2>3, <2>5 DEF DictsOK
  <2> QED
    BY <2>4, <2>6 DEF ToldOf
<1> QED
  BY <1>2, <1>4 DEF Told, ToldOf

LEMMA SavedHas ==
    ASSUME TablesOK, NEW m \in SaveRequest, key_binds' = save_key_map(m)
    PROVE  \A a, k :
               /\ Saves(m, a, k) => \A b : b = m.button_id => HasRow(a, k, b)'
               /\ \A b : HasRow(a, k, b) /\ ~ Saves(m, a, k) => HasRow(a, k, b)'
<1> DEFINE found == RowOf(m.activity_id, m.key_code)
           row == RowFor(m)
<1>1. /\ row.activity_id = m.activity_id /\ row.key_code = m.key_code
      /\ row.button_id = m.button_id
      /\ \A a, k : Saves(m, a, k) <=> a = m.activity_id /\ k = m.key_code
  BY DEF RowFor, SaveRequest, Saves
<1>2. \A i : i \in found <=> /\ i \in DOMAIN key_binds.rows
                             /\ key_binds.rows[i].activity_id = m.activity_id
                             /\ key_binds.rows[i].key_code = m.key_code
  BY DEF RowOf, RowsOf
<1>3. /\ \A i \in DOMAIN key_binds.rows \ found :
            i \in DOMAIN key_binds'.rows /\ key_binds'.rows[i] = key_binds.rows[i]
      /\ \E i \in DOMAIN key_binds'.rows : key_binds'.rows[i] = row
  <2>1. CASE found # {}
    <3>1. key_binds' = Assign(key_binds, found, row)
      BY <2>1 DEF save_key_map
    <3> HIDE DEF found, row
    <3>2. /\ DOMAIN key_binds'.rows = DOMAIN key_binds.rows
          /\ \A i \in DOMAIN key_binds.rows :
                key_binds'.rows[i] = IF i \in found THEN row ELSE key_binds.rows[i]
      BY <3>1 DEF Assign
    <3> QED
      BY <1>2, <2>1, <3>2
  <2>2. CASE found = {}
    <3> DEFINE new == key_binds.seq + 1
    <3>1. key_binds' = Insert(key_binds, row)
      BY <2>2 DEF save_key_map
    <3> HIDE DEF found, row
    <3>2. new \in Nat /\ (key_binds.seq + 1)..(key_binds.seq + Len(<<row>>)) = {new}
      BY DEF TablesOK
    <3>3. new \notin DOMAIN key_binds.rows /\ new - key_binds.seq = 1 /\ <<row>>[1] = row
      BY DEF TablesOK
    <3>4. /\ DOMAIN key_binds'.rows = DOMAIN key_binds.rows \cup {new}
          /\ \A i \in DOMAIN key_binds.rows : key_binds'.rows[i] = key_binds.rows[i]
          /\ key_binds'.rows[new] = row
      BY <3>1, <3>2, <3>3 DEF Insert, InsertAll, TablesOK
    <3> QED
      BY <3>4
  <2> QED
    BY <2>1, <2>2
<1>4. ASSUME NEW a, NEW k, Saves(m, a, k), NEW b, b = m.button_id PROVE HasRow(a, k, b)'
  BY <1>1, <1>3, <1>4 DEF HasRow, RowOf, RowsOf
<1>5. ASSUME NEW a, NEW k, NEW b, HasRow(a, k, b), ~ Saves(m, a, k) PROVE HasRow(a, k, b)'
  BY <1>1, <1>2, <1>3, <1>5 DEF HasRow, RowOf, RowsOf
<1> QED
  BY <1>4, <1>5

LEMMA HandleSaveTold ==
    ASSUME KInv, NEW p \in Conns, HandleSave(p)
    PROVE  HubOK' /\ Told'
<1> DEFINE m == Head(outbox[p])
<1>1. /\ HasMessage(p) /\ m.type = "save_key_map"
      /\ key_binds' = save_key_map(m) /\ UNCHANGED buttons
      /\ \E frame : Reply(p, frame)
      /\ overruled' = (overruled \ {<<p, m.activity_id, m.key_code>>}) \cup
             {<<q, m.activity_id, m.key_code>> : q \in Conns \ {p}}
  BY DEF HandleSave, Message
<1>2. m \in SaveRequest
  <2>1. m \in Request
    BY <1>1, FirstRequest DEF KInv, IInv
  <2> HIDE DEF m
  <2> QED
    BY <1>1, <2>1 DEF Request, SaveRequest, DeleteRequest, DropRequest
<1>3. PICK frame : Reply(p, frame)
  BY <1>1
<1> HIDE DEF m
<1>4. \A a, k : Saves(m, a, k) <=> a = m.activity_id /\ k = m.key_code
  BY <1>1 DEF Saves
<1>5. /\ \A a, k, b : Saves(m, a, k) /\ b = m.button_id => HasRow(a, k, b)'
      /\ \A a, k, b : HasRow(a, k, b) => HasRow(a, k, b)' \/ Saves(m, a, k)
  BY <1>1, <1>2, SavedHas DEF KInv, IInv
<1>6. /\ \A a, k : Saves(m, a, k) => \A q \in Conns \ {p} : <<q, a, k>> \in overruled'
      /\ \A q \in Conns : \A a, k : <<q, a, k>> \in overruled =>
             <<q, a, k>> \in overruled' \/ Saves(m, a, k)
  BY <1>1, <1>4
<1> QED
  BY <1>1, <1>3, <1>5, <1>6, ReplyTold DEF m

LEMMA HandleDeleteTold ==
    ASSUME KInv, NEW p \in Conns, HandleDelete(p)
    PROVE  HubOK' /\ Told'
<1> DEFINE m == Head(outbox[p])
           i == m.id[2]
           row == key_binds.rows[i]
<1>1. /\ m.type = "delete_key_map" /\ UNCHANGED buttons /\ UNCHANGED overruled
      /\ \/ /\ i \in DOMAIN key_binds.rows
            /\ key_binds' = Delete(key_binds, {i})
            /\ Reply(p, MapGone(i, row.activity_id, row.key_code))
         \/ Reply(p, NoMap(m.id)) /\ UNCHANGED key_binds
  BY DEF HandleDelete, Message
<1>2. \A a, k : ~ Saves(m, a, k)
  BY <1>1 DEF Saves
<1> HIDE DEF m, i
<1>3. CASE /\ i \in DOMAIN key_binds.rows
           /\ key_binds' = Delete(key_binds, {i})
           /\ Reply(p, MapGone(i, row.activity_id, row.key_code))
  <2>1. \A j \in DOMAIN key_binds.rows \ {i} :
            j \in DOMAIN key_binds'.rows /\ key_binds'.rows[j] = key_binds.rows[j]
    BY <1>3 DEF Delete, Restrict
  <2>2. ASSUME NEW a, NEW k, NEW b, HasRow(a, k, b)
        PROVE  HasRow(a, k, b)' \/ MapGone(i, row.activity_id, row.key_code) = MapGone(i, a, k)
    BY <2>1, <2>2 DEF HasRow, RowOf, RowsOf
  <2> HIDE DEF row
  <2> QED
    BY <1>1, <1>2, <1>3, <2>2, ReplyTold DEF m
<1>4. CASE Reply(p, NoMap(m.id)) /\ UNCHANGED key_binds
  <2>1. \A a, k, b : HasRow(a, k, b) => HasRow(a, k, b)'
    BY <1>4 DEF HasRow, RowOf, RowsOf
  <2> QED
    BY <1>1, <1>2, <1>4, <2>1, ReplyTold DEF m
<1> QED
  BY <1>1, <1>3, <1>4

LEMMA HandleDeleteButtonTold ==
    ASSUME KInv, NEW p \in Conns, HandleDeleteButton(p)
    PROVE  HubOK' /\ Told'
<1> DEFINE m == Head(outbox[p])
           b == m.id
<1>1. HasMessage(p) /\ m.type = "delete_remote_button" /\ \A a, k : ~ Saves(m, a, k)
  BY DEF HandleDeleteButton, Message, Saves
<1>2. CASE b \in buttons
  <2>1. /\ buttons' = buttons \ {b} /\ UNCHANGED overruled
        /\ key_binds' = Delete(key_binds, Having(key_binds, "button_id", b))
        /\ Reply(p, ButtonGone(b))
    BY <1>2 DEF HandleDeleteButton
  <2> HIDE DEF m, b
  <2>2. \A j \in DOMAIN key_binds.rows : key_binds.rows[j].button_id # b =>
            j \in DOMAIN key_binds'.rows /\ key_binds'.rows[j] = key_binds.rows[j]
    BY <2>1 DEF Delete, Having, Restrict
  <2>3. ASSUME NEW a, NEW k, NEW c, HasRow(a, k, c)
        PROVE  HasRow(a, k, c)' \/ ButtonGone(b) = ButtonGone(c)
    BY <2>2, <2>3 DEF HasRow, RowOf, RowsOf
  <2>4. \A c \in buttons \ buttons' : ButtonGone(b) = ButtonGone(c)
    BY <2>1
  <2> QED
    BY <1>1, <2>1, <2>3, <2>4, ReplyTold DEF m
<1>3. CASE b \notin buttons
  <2>1. /\ OnMessageDropped(p) /\ UNCHANGED tables /\ UNCHANGED page
        /\ UNCHANGED missed /\ UNCHANGED overruled
    BY <1>3 DEF HandleDeleteButton
  <2>2. /\ HubOK' /\ OthersSame(p) /\ UNCHANGED inbox
        /\ outbox[p] # <<>> /\ outbox'[p] = Tail(outbox[p]) /\ IsSeq(outbox[p])
    BY <2>1, DroppedHub DEF KInv, HubOK, StreamsIn
  <2>3. ASSUME p \notin missed PROVE ToldOf(p)'
    <3>1. ToldOf(p) /\ Keeps(page[p], page'[p])
      BY <2>1, <2>3, SamePage DEF KInv, Told, ToldOf
    <3>2. \A a, k, c : /\ LastSave(outbox[p], a, k, c) => LastSave(outbox'[p], a, k, c)
                       /\ Pending(outbox[p], a, k) => Pending(outbox'[p], a, k)
      BY <1>1, <2>2, HandledSave
    <3> QED
      BY <2>1, <2>2, <3>1, <3>2, KeptTold DEF KInv
  <2> QED
    BY <2>1, <2>2, <2>3, OthersTold DEF KInv
<1> QED
  BY <1>2, <1>3

LEMMA ToldInductive == Spec => [](IInv /\ Told)
<1>1. ASSUME KInv, [Next]_vars PROVE HubOK' /\ Told'
  <2>1. CASE UNCHANGED vars
    <3>1. /\ UNCHANGED hubVars /\ UNCHANGED inbox /\ UNCHANGED outbox
          /\ UNCHANGED buttons /\ UNCHANGED key_binds
          /\ UNCHANGED page /\ UNCHANGED missed /\ UNCHANGED overruled
      BY <2>1 DEF vars, hubVars, tables
    <3>2. HubOK'
      BY <1>1, <3>1, SameHub DEF KInv
    <3>3. Told'
      BY <1>1, <3>1 DEF KInv, Told, GoneTold, DictsOK, EntryOK, Backed, HasRow, RowOf, RowsOf
    <3> QED
      BY <3>2, <3>3
  <2>2. ASSUME NEW p \in Conns,
               \/ LoadPage(p) \/ Connect(p) \/ Disconnect(p) \/ NoticeClose(p)
               \/ Receive(p)
               \/ \E a \in Activities : SwitchActivity(p, a)
        PROVE  HubOK' /\ Told'
    BY <1>1, <2>2, LoadPageTold, ConnectionTold, DisconnectTold, ReceiveTold,
       SwitchActivityTold
  <2>3. ASSUME NEW p \in Conns, NEW k \in KeyCodes, add_key_map(p, k)
        PROVE  HubOK' /\ Told'
    BY <1>1, <2>3, AddTold
  <2>4. ASSUME NEW p \in Conns, NEW n \in Visible(page[p]), NEW b \in page[p].buttons,
               map_key(p, n, b)
        PROVE  HubOK' /\ Told'
    BY <1>1, <2>4, BindTold
  <2>5. ASSUME NEW p \in Conns, NEW n \in Visible(page[p]), TrashMap(p, n)
        PROVE  HubOK' /\ Told'
    <3> DEFINE request == DeleteMap(page[p].list[n].id, page[p].activity,
                                    page[p].list[n].key_code)
    <3>1. Edit(p, <<request>>, page[p]) /\ request.type # "save_key_map"
      BY <2>5 DEF TrashMap, DeleteMap
    <3> HIDE DEF request
    <3> QED
      BY <1>1, <3>1, TrashTold
  <2>6. ASSUME NEW p \in Conns, NEW b \in page[p].buttons, TrashButton(p, b)
        PROVE  HubOK' /\ Told'
    <3> DEFINE request == DropButton(b)
    <3>1. Edit(p, <<request>>, page[p]) /\ request.type # "save_key_map"
      BY <2>6 DEF TrashButton, DropButton
    <3> HIDE DEF request
    <3> QED
      BY <1>1, <3>1, TrashTold
  <2>7. ASSUME NEW p \in Conns, Handle(p)
        PROVE  HubOK' /\ Told'
    BY <1>1, <2>7, HandleSaveTold, HandleDeleteTold, HandleDeleteButtonTold DEF Handle
  <2> QED
    BY <1>1, <2>1, <2>2, <2>3, <2>4, <2>5, <2>6, <2>7 DEF Next
<1>2. Init => HubOK /\ Told
  BY InitTold
<1>3. Spec => []IInv
  BY Inductive
<1>4. IInv /\ HubOK /\ Told /\ [Next]_vars => (HubOK /\ Told)'
  BY <1>1 DEF KInv
<1> QED
  BY <1>2, <1>3, <1>4, PTL DEF Spec

\* No page keeps a key mapped to a button that was deleted while the page was open,
\* whichever maps of it were on their way from other pages when it was deleted.
THEOREM GoneButtonsStayUnmapped == Spec => []GoneButtonsUnmapped
<1>1. IInv /\ Told => GoneButtonsUnmapped
  <2> SUFFICES ASSUME IInv, Told, NEW p \in Conns, InSync(p), NEW b \in Mapped(page[p]),
                      b \in page[p].loaded
               PROVE  b \in buttons
    BY DEF GoneButtonsUnmapped, Mapped
  <2>1. GoneTold(p) /\ inbox[p] = <<>>
    BY DEF InSync, Told
  <2>2. ~ IsIn(ButtonGone(b), inbox[p])
    BY <2>1 DEF IsIn
  <2> QED
    BY <2>1, <2>2 DEF GoneTold
<1> QED
  BY <1>1, ToldInductive, PTL

\* What pages do for a key is what the table says, although a page learns only the
\* id and the key of what others save: unless another page has mapped the key since.
THEOREM DictsAgreeWithTables == Spec => []KeysAgree
<1>1. IInv /\ Told => KeysAgree
  <2> SUFFICES ASSUME IInv, Told, NEW p \in Conns, InSync(p), NEW a \in Activities,
                      NEW k \in DOMAIN page[p].key_maps[a], NEW b,
                      b = page[p].key_maps[a][k].button_id, b # Null,
                      <<p, a, k>> \notin overruled
               PROVE  HasRow(a, k, b)
    BY DEF KeysAgree, HasRow
  <2>1. EntryOK(p, a, k, b)
    BY DEF InSync, Told, DictsOK
  <2>2. inbox[p] = <<>> /\ outbox[p] = <<>> /\ Len(<<>>) = 0
    BY EmptyStream DEF InSync
  <2>3. ~ Pending(outbox[p], a, k) /\ \A x : ~ IsIn(x, inbox[p])
    BY <2>2 DEF Pending, IsIn
  <2> QED
    BY <2>1, <2>3 DEF EntryOK, Backed
<1> QED
  BY <1>1, ToldInductive, PTL

=============================================================================
